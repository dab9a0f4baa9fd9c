-------------------------- MODULE OrderSync_proofs --------------------------
(* Proofs about OrderSync: what update_order_status computes for a list of *)
(* any length, and that one task of iPlan and any number of tasks of SAP   *)
(* keep the status of the order what the statuses of its items say.        *)
EXTENDS OrderSync, FiniteSetTheorems, WellFoundedInduction, TLAPS

----------------------------------------------------------------------------
(* The counters of update_order_status.                                    *)
LEMMA CountBounds ==
    ASSUME NEW s \in Seq(ItemStatus), NEW S, NEW k \in 0..Len(s)
    PROVE  /\ Count(s, k, S) \in 0..k
           /\ Count(s, k, S) >= 1 <=> \E i \in 1..k : s[i] \in S
           /\ Count(s, k, S) = k => \A i \in 1..k : s[i] \in S
           /\ (\A i \in 1..k : s[i] \in S) => Count(s, k, S) = k
<1> DEFINE T == {i \in 1..k : s[i] \in S}
<1>1. k \in Nat /\ k \in Int
  OBVIOUS
<1>2. IsFiniteSet(1..k) /\ Cardinality(1..k) = k
  BY <1>1, FS_Interval
<1>3. T \in SUBSET (1..k)
  OBVIOUS
<1>4. /\ IsFiniteSet(T)
      /\ Cardinality(T) <= k
      /\ k = Cardinality(T) => 1..k = T
  <2> HIDE DEF T
  <2> QED BY <1>2, <1>3, FS_Subset
<1>5. Cardinality(T) \in Nat
  <2> HIDE DEF T
  <2> QED BY <1>4, FS_CardinalityType
<1>6. Cardinality(T) = 0 <=> T = {}
  <2> HIDE DEF T
  <2> QED BY <1>4, FS_EmptySet
<1>7. Count(s, k, S) = Cardinality(T)
  BY DEF Count
<1>8. (\A i \in 1..k : s[i] \in S) => T = 1..k
  OBVIOUS
<1>9. 1..k = T => \A i \in 1..k : s[i] \in S
  OBVIOUS
<1>10. T # {} <=> \E i \in 1..k : s[i] \in S
  OBVIOUS
<1> HIDE DEF T
<1> QED BY <1>1, <1>2, <1>4, <1>5, <1>6, <1>7, <1>8, <1>9, <1>10

LEMMA EverywhereMeans ==
    ASSUME NEW s \in Seq(ItemStatus), NEW S, NEW k \in 0..Len(s)
    PROVE  Everywhere(s, k, S) <=> k = Len(s) /\ \A i \in 1..Len(s) : s[i] \in S
<1>1. Len(s) \in Nat /\ k \in Nat /\ k <= Len(s)
  OBVIOUS
<1>2. Count(s, k, S) \in 0..k
  BY CountBounds
<1>3. Count(s, k, S) = k => \A i \in 1..k : s[i] \in S
  BY CountBounds
<1>4. (\A i \in 1..k : s[i] \in S) => Count(s, k, S) = k
  BY CountBounds
<1> QED BY <1>1, <1>2, <1>3, <1>4 DEF Everywhere

(* A set of positions has a first one.                                     *)
LEMMA FirstExists ==
    ASSUME NEW E, E \subseteq Nat, E # {}
    PROVE  \E k \in E : \A j \in E : k <= j
<1>1. IsWellFoundedOn(OpToRel(<, Nat), Nat)
  BY NatLessThanWellFounded
<1>2. PICK k \in E : \A j \in E : <<j, k>> \notin OpToRel(<, Nat)
  <2> DEFINE R == OpToRel(<, Nat)
  <2>1. IsWellFoundedOn(R, Nat)
    BY <1>1
  <2> HIDE DEF R
  <2>2. \E k \in E : \A j \in E : ~(<<j, k>> \in R)
    BY <2>1, WFMin
  <2> QED BY <2>2 DEF R
<1>3. \A j \in E : ~(j < k)
  BY <1>2 DEF OpToRel
<1> QED BY <1>3

(* What the loop returns: before the last item, nothing but a partial      *)
(* delivery decides.                                                       *)
LEMMA ReturnedMeans ==
    ASSUME NEW s \in Seq(ItemStatus), NEW k \in 1..Len(s)
    PROVE  LET n == Len(s)
               All(S) == \A i \in 1..n : s[i] \in S
           IN  /\ s[k] = "partial" => Returned(s, k) = "partial"
               /\ s[k] = "cancelled" /\ k = n /\ All({"cancelled"})
                     => Returned(s, k) = "cancelled"
               /\ s[k] = "delivered" /\ k = n /\ All({"delivered", "cancelled"})
                     => Returned(s, k) = "delivered"
               /\ s[k] = "full" /\ k = n /\ All({"full", "cancelled"})
                     => Returned(s, k) = "full"
               /\ \/ s[k] = "partial"
                  \/ s[k] = "cancelled" /\ k = n /\ All({"cancelled"})
                  \/ s[k] = "delivered" /\ k = n /\ All({"delivered", "cancelled"})
                  \/ s[k] = "full" /\ k = n /\ All({"full", "cancelled"})
                  \/ Returned(s, k) = "none"
<1>0. k \in 0..Len(s)
  OBVIOUS
<1>1. Everywhere(s, k, {"cancelled"})
        <=> k = Len(s) /\ \A i \in 1..Len(s) : s[i] \in {"cancelled"}
  BY <1>0, EverywhereMeans
<1>2. Everywhere(s, k, {"delivered", "cancelled"})
        <=> k = Len(s) /\ \A i \in 1..Len(s) : s[i] \in {"delivered", "cancelled"}
  BY <1>0, EverywhereMeans
<1>3. Everywhere(s, k, {"full", "cancelled"})
        <=> k = Len(s) /\ \A i \in 1..Len(s) : s[i] \in {"full", "cancelled"}
  BY <1>0, EverywhereMeans
<1> QED BY <1>1, <1>2, <1>3, Zenon DEF Returned

(* update_order_status computes the rule, for a list of any length and in  *)
(* any order: the statuses that occur decide, not how the items are listed.*)
THEOREM StatusIsRule ==
    ASSUME NEW s \in Seq(ItemStatus)
    PROVE  update_order_status(s) = Rule(Range(s))
<1> DEFINE n == Len(s)
           Has(x) == \E k \in 1..n : s[k] = x
           Only(S) == \A k \in 1..n : s[k] \in S
           early == {k \in 1..n : Returned(s, k) # "none"}
           first == CHOOSE k \in early : \A j \in early : k <= j
           committed == Count(s, n, {"full", "cancelled"})
<1>1. n \in Nat /\ n \in 0..n /\ \A k \in 1..n : s[k] \in ItemStatus
  OBVIOUS
<1>2. \A x : x \in Range(s) <=> Has(x)
  BY DEF Range
<1>3. \A S : Range(s) \subseteq S <=> Only(S)
  BY <1>2
<1>4. n # 0 => Has(s[n])
  BY <1>1
<1>5. /\ committed \in Int
      /\ 1 <= committed <=> Has("full") \/ Has("cancelled")
      /\ committed < n <=> ~Only({"full", "cancelled"})
  <2>1. /\ committed \in 0..n
        /\ committed >= 1 <=> \E i \in 1..n : s[i] \in {"full", "cancelled"}
        /\ committed = n => Only({"full", "cancelled"})
        /\ Only({"full", "cancelled"}) => committed = n
    BY <1>1, CountBounds
  <2> HIDE DEF committed
  <2> QED BY <1>1, <2>1
<1>6. Everywhere(s, n, {"delivered", "cancelled"}) <=> Only({"delivered", "cancelled"})
  BY <1>1, EverywhereMeans
<1>7. ASSUME NEW k \in 1..n
      PROVE  /\ s[k] = "partial" => Returned(s, k) = "partial"
             /\ s[k] = "cancelled" /\ k = n /\ Only({"cancelled"})
                   => Returned(s, k) = "cancelled"
             /\ s[k] = "delivered" /\ k = n /\ Only({"delivered", "cancelled"})
                   => Returned(s, k) = "delivered"
             /\ s[k] = "full" /\ k = n /\ Only({"full", "cancelled"})
                   => Returned(s, k) = "full"
             /\ \/ s[k] = "partial"
                \/ s[k] = "cancelled" /\ k = n /\ Only({"cancelled"})
                \/ s[k] = "delivered" /\ k = n /\ Only({"delivered", "cancelled"})
                \/ s[k] = "full" /\ k = n /\ Only({"full", "cancelled"})
                \/ Returned(s, k) = "none"
  BY ReturnedMeans
<1>8. update_order_status(s) =
        IF n = 0 \/ Has("none") THEN "received"
        ELSE IF early # {} THEN Returned(s, first)
        ELSE IF 1 <= committed /\ committed < n /\ Has("full") THEN "partial committed"
        ELSE IF Only({"full", "cancelled"}) THEN "full"
        ELSE IF Everywhere(s, n, {"delivered", "cancelled"}) /\ Has("delivered")
             THEN "delivered"
        ELSE "received"
  BY Zenon DEF update_order_status
<1>9. ASSUME early # {} PROVE first \in early
  <2>1. early \subseteq Nat
    OBVIOUS
  <2>2. \E k \in early : \A j \in early : k <= j
    <3> HIDE DEF early
    <3> QED BY <1>9, <2>1, FirstExists
  <2> HIDE DEF early
  <2> QED BY <2>2
<1>10. CASE n = 0 \/ Has("none")
  <2>1. Range(s) = {} \/ "none" \in Range(s)
    BY <1>2, <1>10
  <2> QED BY <1>8, <1>10, <2>1 DEF Rule
<1>11. CASE ~(n = 0 \/ Has("none")) /\ early # {}
  <2> DEFINE v == Returned(s, first)
  <2>1. first \in 1..n /\ v # "none"
    BY <1>9, <1>11
  <2>2. update_order_status(s) = v
    BY <1>8, <1>11
  <2>3. Has(s[first]) /\ Range(s) # {} /\ "none" \notin Range(s)
    BY <1>2, <1>11, <2>1
  <2> HIDE DEF first, early
  <2>4. CASE s[first] = "partial"
    <3>1. v = "partial"
      BY <1>7, <2>1, <2>4
    <3>2. "partial" \in Range(s)
      BY <1>2, <2>3, <2>4
    <3> QED BY <2>2, <2>3, <3>1, <3>2 DEF Rule
  <2>5. CASE s[first] = "cancelled" /\ first = n /\ Only({"cancelled"})
    <3>1. v = "cancelled"
      BY <1>7, <2>1, <2>5
    <3>2. Range(s) = {"cancelled"}
      BY <1>2, <1>3, <2>3, <2>5
    <3> QED BY <2>2, <3>1, <3>2 DEF Rule
  <2>6. CASE s[first] = "delivered" /\ first = n /\ Only({"delivered", "cancelled"})
    <3>1. v = "delivered"
      BY <1>7, <2>1, <2>6
    <3>2. "delivered" \in Range(s) /\ Range(s) \subseteq {"delivered", "cancelled"}
      BY <1>2, <1>3, <2>3, <2>6
    <3> QED BY <2>2, <3>1, <3>2 DEF Rule
  <2>7. CASE s[first] = "full" /\ first = n /\ Only({"full", "cancelled"})
    <3>1. v = "full"
      BY <1>7, <2>1, <2>7
    <3>2. "full" \in Range(s) /\ Range(s) \subseteq {"full", "cancelled"}
      BY <1>2, <1>3, <2>3, <2>7
    <3> QED BY <2>2, <3>1, <3>2 DEF Rule
  <2> QED BY <1>7, <2>1, <2>4, <2>5, <2>6, <2>7
<1>12. CASE ~(n = 0 \/ Has("none")) /\ early = {}
  <2>1. \A k \in 1..n : Returned(s, k) = "none"
    BY <1>12
  <2>2. n \in 1..n
    BY <1>1, <1>12
  <2>3. ~Has("partial")
    BY <1>7, <2>1
  <2>4. ~Only({"cancelled"})
    BY <1>7, <2>1, <2>2
  <2>5. Range(s) # {} /\ "none" \notin Range(s) /\ "partial" \notin Range(s)
        /\ Range(s) # {"cancelled"}
    BY <1>2, <1>3, <1>12, <2>2, <2>3, <2>4
  <2>6. update_order_status(s) =
          IF (Has("full") \/ Has("cancelled")) /\ ~Only({"full", "cancelled"}) /\ Has("full")
          THEN "partial committed"
          ELSE IF Only({"full", "cancelled"}) THEN "full"
          ELSE IF Only({"delivered", "cancelled"}) /\ Has("delivered") THEN "delivered"
          ELSE "received"
    <3> HIDE DEF early, first, committed
    <3> QED BY <1>5, <1>6, <1>8, <1>12
  <2>7. update_order_status(s) =
          IF Range(s) \subseteq {"full", "cancelled"} THEN "full"
          ELSE IF "full" \in Range(s) THEN "partial committed"
          ELSE IF Range(s) \subseteq {"delivered", "cancelled"} /\ "delivered" \in Range(s)
               THEN "delivered"
          ELSE "received"
    <3> HIDE DEF Has, Only
    <3> QED BY <1>2, <1>3, <2>6
  <2>8. Range(s) \subseteq {"delivered", "cancelled"} => "delivered" \in Range(s)
    BY <2>5
  <2>9. Range(s) \subseteq {"full", "cancelled"} => "full" \in Range(s)
    BY <2>5
  <2> QED BY <2>5, <2>7, <2>8, <2>9 DEF Rule
<1> QED BY <1>10, <1>11, <1>12

----------------------------------------------------------------------------
(* The helpers of the actions.                                             *)
LEMMA RuleType == \A S : Rule(S) \in OrderStatus
  BY DEF Rule, OrderStatus

LEMMA NewRowType ==
    ASSUME NEW row \in Row, NEW ans
    PROVE  get_line_status_from_es26(row, ans) \in Row
  BY DEF get_line_status_from_es26, Current, Row, ItemStatus, Delivery, Production

LEMMA ViewType == ASSUME TypeOK, NEW a \in Actor PROVE View(a) \in [Line -> Row]
<1>1. ASSUME NEW l \in Line PROVE Written(a, l) \in Row
  <2>1. line[l] \in Row /\ rows[a][l] \in Row
    BY DEF TypeOK
  <2> QED BY <2>1 DEF Written, Row
<1> QED BY <1>1 DEF View, TypeOK

(* Whatever order the query lists the items in, the task decides by the    *)
(* statuses its own transaction sees.                                      *)
LEMMA DecideMeans ==
    ASSUME TypeOK, NEW a \in Actor, Decide(a)
    PROVE  status' = [status EXCEPT ![a] = Rule(Statuses(View(a)))]
<1>1. PICK s \in Listings :
        status' = [status EXCEPT ![a] =
            update_order_status([k \in 1..Len(s) |-> View(a)[s[k]].status])]
  BY DEF Decide
<1> DEFINE v == View(a)
           t == [k \in 1..Len(s) |-> v[s[k]].status]
<1>2. Cardinality(Line) \in Nat
  BY LineAssumption, FS_CardinalityType
<1>3. s \in [1..Cardinality(Line) -> Line] /\ Range(s) = Line
  BY DEF Listings
<1>4. Len(s) = Cardinality(Line) /\ Len(s) \in Nat
  BY <1>2, <1>3
<1>5. v \in [Line -> Row]
  BY ViewType
<1> HIDE DEF v
<1>6. \A k \in 1..Len(s) : v[s[k]].status \in ItemStatus
  BY <1>3, <1>4, <1>5 DEF Row
<1>7. t \in Seq(ItemStatus)
  BY <1>4, <1>6
<1>8. Range(t) = Statuses(v)
  <2>1. Range(t) = {v[s[k]].status : k \in 1..Len(s)}
    BY <1>4 DEF Range
  <2>2. Line = {s[k] : k \in 1..Len(s)}
    BY <1>3, <1>4 DEF Range
  <2> HIDE DEF t
  <2> QED BY <2>1, <2>2 DEF Statuses
<1>9. update_order_status(t) = Rule(Statuses(v))
  <2> HIDE DEF t
  <2> QED BY <1>7, <1>8, StatusIsRule
<1> QED BY <1>1, <1>9 DEF v

LEMMA ReleaseType == ASSUME TypeOK, NEW a \in Actor, Release(a)
                     PROVE  lock' \in [Line -> Actor \cup {None}]
  BY DEF Release, TypeOK

LEMMA ForgetType == ASSUME TypeOK, NEW a \in Actor, Forget(a)
                    PROVE  rows' \in [Actor -> [Line -> Row]] /\ status' \in [Actor -> OrderStatus]
<1>1. NoRows \in [Line -> Row]
  BY DEF NoRows, Row, ItemStatus
<1> QED BY <1>1 DEF Forget, TypeOK, OrderStatus

LEMMA RaiseType == ASSUME TypeOK, NEW a \in Actor, Raise(a), faults' \in 0..MaxFault
                   PROVE  TypeOK'
<1>1. NoAnswer \in [Line -> SapLine]
  BY DEF NoAnswer, SapLine
<1>2. missed' \in BOOLEAN
  BY DEF Raise, TypeOK
<1> QED BY <1>1, <1>2, ReleaseType, ForgetType DEF Raise, Goto, TypeOK, Queues

(* Every variable keeps its type, for any tasks, lines and bounds.         *)
LEMMA TypeStep == TypeOK /\ [Next]_vars => TypeOK'
<1> SUFFICES ASSUME TypeOK, [Next]_vars PROVE TypeOK'
  OBVIOUS
<1> USE BoundAssumption, StatusAssumption
<1>1. ASSUME NEW l \in Line, SapDelivers(l) PROVE TypeOK'
  BY <1>1 DEF SapDelivers, TypeOK, Database, Memory, Faults, News, SapLine
<1>2. ASSUME NEW l \in Line, SapRejects(l) PROVE TypeOK'
  BY <1>2 DEF SapRejects, TypeOK, Database, Memory, Faults, SapLine
<1>3. ASSUME IPlanProduces PROVE TypeOK'
  BY <1>3 DEF IPlanProduces, TypeOK, Database, Memory, Faults, Plan
<1>4. ASSUME NEW a \in Actor, ReceivePlan(a) PROVE TypeOK'
  <2>1. PICK m \in plan :
          /\ msg' = [msg EXCEPT ![a] = m]
          /\ rows' = [rows EXCEPT ![a] = [l \in Line |->
                         IF l \in m.lines /\ m.status # "none"
                         THEN [line[l] EXCEPT !.status = m.status] ELSE line[l]]]
    BY <1>4 DEF ReceivePlan
  <2>2. m \in Plan /\ line \in [Line -> Row]
    BY DEF TypeOK
  <2>3. m.status # "none" => m.status \in ItemStatus
    BY <2>2 DEF Plan, ItemStatus, Production, Delivery
  <2>4. \A l \in Line : (IF l \in m.lines /\ m.status # "none"
                         THEN [line[l] EXCEPT !.status = m.status] ELSE line[l]) \in Row
    BY <2>2, <2>3 DEF Row
  <2>5. rows' \in [Actor -> [Line -> Row]]
    BY <2>1, <2>4 DEF TypeOK
  <2>6. msg' \in [Actor -> News \cup Plan \cup {None}]
    BY <2>1, <2>2 DEF TypeOK
  <2> QED BY <1>4, <2>5, <2>6 DEF ReceivePlan, TypeOK, Database, Queues, Faults, Goto
<1>5. ASSUME NEW a \in Actor, ReceiveNews(a) PROVE TypeOK'
  BY <1>5 DEF ReceiveNews, TypeOK, Database, Queues, Faults, Goto
<1>6. ASSUME NEW a \in Actor, OpenPage(a) PROVE TypeOK'
  BY <1>6 DEF OpenPage, TypeOK, Database, Queues, Memory, Faults, Goto
<1>7. ASSUME NEW a \in Actor, Ask(a) PROVE TypeOK'
  BY <1>7 DEF Ask, TypeOK, Database, Queues, Faults, Goto
<1>8. ASSUME NEW a \in Actor, Header(a) PROVE TypeOK'
  BY <1>8 DEF Header, TypeOK, Queues, Memory, Faults, Goto, OrderStatus
<1>9. ASSUME NEW a \in Actor, ReadRows(a) PROVE TypeOK'
  <2>1. \A l \in Line : get_line_status_from_es26(line[l], answer[a][l]) \in Row
    BY NewRowType DEF TypeOK
  <2>2. rows' \in [Actor -> [Line -> Row]]
    BY <1>9, <2>1 DEF ReadRows, TypeOK
  <2>3. NoAnswer \in [Line -> SapLine]
    BY DEF NoAnswer, SapLine
  <2>4. answer' \in [Reader -> [Line -> SapLine]]
    BY <1>9, <2>3 DEF ReadRows, TypeOK
  <2> QED BY <1>9, <2>2, <2>4 DEF ReadRows, TypeOK, Database, Queues, Faults, Goto
<1>10. ASSUME NEW a \in Actor, NEW l \in Line, TakeRow(a, l) PROVE TypeOK'
  <2>1. lock' \in [Line -> Actor \cup {None}]
    <3>1. CASE lock' = [lock EXCEPT ![l] = a]
      BY <3>1 DEF TypeOK
    <3>2. CASE Release(a)
      BY <3>2, ReleaseType
    <3> QED BY <1>10, <3>1, <3>2 DEF TakeRow
  <2>2. line' \in [Line -> Row]
    BY <1>10 DEF TakeRow, TypeOK
  <2>3. pc' \in [Actor -> {"idle", "ask", "header", "read", "update", "decide",
                          "save", "delete", "done"}]
    BY <1>10 DEF TakeRow, TypeOK, Goto
  <2> QED BY <1>10, <2>1, <2>2, <2>3 DEF TakeRow, TypeOK, Queues, Memory, Faults
<1>11. ASSUME NEW a \in Actor, Decide(a) PROVE TypeOK'
  <2>1. status' \in [Actor -> OrderStatus]
    BY <1>11, DecideMeans, RuleType DEF TypeOK
  <2> QED BY <1>11, <2>1 DEF Decide, TypeOK, Database, Queues, Faults, Goto
<1>12. ASSUME NEW a \in Actor, Save(a) PROVE TypeOK'
  <2>1. line' \in [Line -> Row]
    BY <1>12, ViewType DEF Save
  <2>2. order' \in OrderStatus
    BY <1>12 DEF Save, TypeOK
  <2>3. lock' \in [Line -> Actor \cup {None}]
    BY <1>12, ReleaseType DEF Save
  <2>4. rows' \in [Actor -> [Line -> Row]] /\ status' \in [Actor -> OrderStatus]
    BY <1>12, ForgetType DEF Save
  <2>5. pc' \in [Actor -> {"idle", "ask", "header", "read", "update", "decide",
                          "save", "delete", "done"}]
    BY <1>12 DEF Save, TypeOK, Goto
  <2> QED BY <1>12, <2>1, <2>2, <2>3, <2>4, <2>5 DEF Save, TypeOK, Queues, Faults
<1>13. ASSUME NEW a \in Actor, Delete(a) PROVE TypeOK'
  BY <1>13 DEF Delete, TypeOK, Database, Faults, Goto
<1>14. ASSUME NEW a \in Actor, Fail(a) PROVE TypeOK'
  <2>1. faults' \in 0..MaxFault
    BY <1>14 DEF Fail, TypeOK
  <2> QED BY <1>14, <2>1, RaiseType DEF Fail
<1>15. ASSUME NEW a \in Actor, Victim(a) PROVE TypeOK'
  <2>1. faults' \in 0..MaxFault
    BY <1>15 DEF Victim, TypeOK
  <2> QED BY <1>15, <2>1, RaiseType DEF Victim
<1>16. ASSUME NEW a \in Actor, Kill(a) PROVE TypeOK'
  <2>1. NoAnswer \in [Line -> SapLine]
    BY DEF NoAnswer, SapLine
  <2>2. faults' \in 0..MaxFault
    BY <1>16 DEF Kill, TypeOK
  <2>3. lock' \in [Line -> Actor \cup {None}]
    BY <1>16, ReleaseType DEF Kill
  <2>4. rows' \in [Actor -> [Line -> Row]] /\ status' \in [Actor -> OrderStatus]
    BY <1>16, ForgetType DEF Kill
  <2> QED BY <1>16, <2>1, <2>2, <2>3, <2>4 DEF Kill, TypeOK, Queues, Goto
<1>17. CASE UNCHANGED vars
  BY <1>17 DEF vars, TypeOK
<1> QED BY <1>1, <1>2, <1>3, <1>4, <1>5, <1>6, <1>7, <1>8, <1>9, <1>10, <1>11, <1>12,
           <1>13, <1>14, <1>15, <1>16, <1>17 DEF Next, Work, Receive

LEMMA InitType == Init => TypeOK
<1> SUFFICES ASSUME Init PROVE TypeOK
  OBVIOUS
<1>1. NoRows \in [Line -> Row] /\ NoAnswer \in [Line -> SapLine]
  BY DEF NoRows, NoAnswer, Row, ItemStatus, SapLine
<1>2. PICK s \in Start : /\ line = [l \in Line |-> [status |-> s[1], rollback |-> s[2]]]
                        /\ order = Rule(Statuses(line))
                        /\ sap = [l \in Line |-> s[3]]
  BY DEF Init
<1>3. s[1] \in ItemStatus /\ s[2] \in ItemStatus /\ s[3] \in SapLine
  BY DEF Start, ItemStatus, Production, Delivery, SapLine
<1>4. line \in [Line -> Row] /\ sap \in [Line -> SapLine]
  BY <1>2, <1>3 DEF Row
<1>5. order \in OrderStatus
  BY <1>2, RuleType
<1>6. rows = [a \in Actor |-> NoRows] /\ answer = [a \in Reader |-> NoAnswer]
  BY DEF Init
<1>7. rows \in [Actor -> [Line -> Row]] /\ answer \in [Reader -> [Line -> SapLine]]
  BY <1>1, <1>6
<1>8. /\ lock = [l \in Line |-> None] /\ news = {} /\ plan = {}
      /\ sent = [news |-> 0, plan |-> 0]
      /\ pc = [a \in Actor |-> "idle"] /\ msg = [a \in Actor |-> None]
      /\ status = [a \in Actor |-> "received"]
      /\ faults = 0 /\ missed = FALSE
  BY DEF Init
<1>9. status \in [Actor -> OrderStatus]
  BY <1>8 DEF OrderStatus
<1>10. sent \in [news : 0..MaxNews, plan : 0..MaxPlan] /\ faults \in 0..MaxFault
  BY <1>8, BoundAssumption
<1>11. lock \in [Line -> Actor \cup {None}] /\ msg \in [Actor -> News \cup Plan \cup {None}]
  BY <1>8
<1>12. pc \in [Actor -> {"idle", "ask", "header", "read", "update", "decide",
                        "save", "delete", "done"}]
  BY <1>8
<1> QED BY <1>4, <1>5, <1>7, <1>8, <1>9, <1>10, <1>11, <1>12 DEF TypeOK

THEOREM TypeCorrect == Spec => []TypeOK
  BY InitType, TypeStep, PTL DEF Spec

----------------------------------------------------------------------------
(* Why the status of the order follows: who decides holds the rows it has  *)
(* written until it commits, a task of SAP those of the whole order, so no *)
(* two tasks decide at the same time, and what a task sees when it decides *)
(* is what is committed when it is done.                                   *)
Quiet    == \A a \in Page : pc[a] = "idle"
Single   == \A a, b \in IPlanTask : a = b
Deciding(a) == pc[a] \in {"decide", "save"}

PagesEnd == /\ \A a \in Page : pc[a] # "delete"
            /\ \A a \in Actor \ Page : pc[a] # "header"
Held(a)   == /\ \E l \in Line : lock[l] = a
             /\ a \in SapTask => \A l \in Line : lock[l] = a
HoldsRows == \A a \in IPlanTask \cup SapTask : Deciding(a) => Held(a)
Decided  == \A a \in IPlanTask \cup SapTask :
                pc[a] = "save" => status[a] = Rule(Statuses(View(a)))
Follows  == /\ TypeOK
            /\ PagesEnd
            /\ Quiet => StatusOfItems /\ HoldsRows /\ Decided

LEMMA OneDecides ==
    ASSUME Single, HoldsRows, NEW a \in IPlanTask \cup SapTask, NEW b \in IPlanTask \cup SapTask,
           Deciding(a), Deciding(b)
    PROVE  a = b
<1>1. CASE a \in SapTask
  BY <1>1 DEF HoldsRows, Held
<1>2. CASE b \in SapTask
  BY <1>2 DEF HoldsRows, Held
<1>3. CASE a \in IPlanTask /\ b \in IPlanTask
  BY <1>3 DEF Single
<1> QED BY <1>1, <1>2, <1>3

(* A step of one actor leaves alone what another one is deciding, as long  *)
(* as it neither commits nor touches the other's locks.                    *)
LEMMA KeepDecided ==
    ASSUME TypeOK, HoldsRows, Decided, UNCHANGED line, NEW a \in Actor,
           \A b \in Actor \ {a} : pc'[b] = pc[b] /\ rows'[b] = rows[b] /\ status'[b] = status[b],
           \A l \in Line, b \in Actor \ {a} : lock[l] = b <=> lock'[l] = b,
           NEW b \in IPlanTask \cup SapTask, b # a
    PROVE  /\ Deciding(b)' => Held(b)'
           /\ pc'[b] = "save" => status'[b] = Rule(Statuses(View(b)))'
<1>1. b \in Actor \ {a}
  BY DEF Actor, Reader
<1>2. \A l \in Line : Written(b, l)' = Written(b, l)
  BY <1>1 DEF Written
<1>3. View(b)' = View(b)
  BY <1>1, <1>2 DEF View
<1>4. Statuses(View(b))' = Statuses(View(b))
  BY <1>3 DEF Statuses
<1>5. Rule(Statuses(View(b)))' = Rule(Statuses(View(b)))
  BY <1>4 DEF Rule
<1> QED BY <1>1, <1>5 DEF HoldsRows, Decided, Deciding, Held

LEMMA FollowsInit == Init => Follows
<1> SUFFICES ASSUME Init PROVE Follows
  OBVIOUS
<1>1. TypeOK
  BY InitType
<1>2. StatusOfItems
  BY DEF Init, StatusOfItems
<1>3. \A a \in Actor : pc[a] = "idle"
  BY DEF Init
<1> QED BY <1>1, <1>2, <1>3 DEF Follows, PagesEnd, HoldsRows, Decided, Deciding, Actor, Reader

(* A step moves one actor at most, and a page never back to its start.     *)
Moves(a, p) == /\ pc' = [pc EXCEPT ![a] = p]
               /\ a \in Page => p \notin {"idle", "delete"}
               /\ a \notin Page => p # "header"

LEMMA StepMoves ==
    ASSUME TypeOK, PagesEnd, [Next]_vars
    PROVE  UNCHANGED pc \/ \E a \in Actor : \E p : Moves(a, p)
<1> USE DEF Goto
<1> DEFINE M(a) == \E p : Moves(a, p)
<1>0. \A a \in Actor : a \in Page => a \notin IPlanTask /\ a \notin SapTask
  BY ActorAssumption DEF Actor, Reader
<1>1. ASSUME NEW l \in Line, SapDelivers(l) \/ SapRejects(l) PROVE UNCHANGED pc
  BY <1>1 DEF SapDelivers, SapRejects
<1>2. ASSUME IPlanProduces PROVE UNCHANGED pc
  BY <1>2 DEF IPlanProduces
<1>3. ASSUME NEW a \in Actor, ReceivePlan(a) PROVE Moves(a, "update")
  BY <1>3 DEF ReceivePlan, Moves
<1>4. ASSUME NEW a \in Actor, ReceiveNews(a) PROVE Moves(a, "ask")
  BY <1>4 DEF ReceiveNews, Moves
<1>5. ASSUME NEW a \in Actor, OpenPage(a) PROVE Moves(a, "ask")
  BY <1>5 DEF OpenPage, Moves
<1>6. ASSUME NEW a \in Actor, Ask(a) PROVE Moves(a, IF a \in Page THEN "header" ELSE "read")
  BY <1>6 DEF Ask, Moves
<1>7. ASSUME NEW a \in Actor, Header(a) PROVE Moves(a, "read")
  BY <1>7 DEF Header, Moves
<1>8. ASSUME NEW a \in Actor, ReadRows(a) PROVE Moves(a, "update")
  BY <1>8 DEF ReadRows, Moves
<1>9. ASSUME NEW a \in Actor, NEW l \in Line, TakeRow(a, l)
      PROVE  UNCHANGED pc \/ Moves(a, "decide")
  BY <1>9 DEF TakeRow, Moves
<1>10. ASSUME NEW a \in Actor, Decide(a) PROVE Moves(a, "save")
  BY <1>10 DEF Decide, Moves
<1>11. ASSUME NEW a \in Actor, Save(a)
       PROVE  Moves(a, IF a \in Page THEN "done" ELSE "delete")
  BY <1>11 DEF Save, Moves
<1>12. ASSUME NEW a \in Actor, Delete(a) PROVE Moves(a, "idle")
  BY <1>12 DEF Delete, Moves, PagesEnd
<1>13. ASSUME NEW a \in Actor, Raise(a)
       PROVE  Moves(a, IF a \in Page THEN "done" ELSE "delete")
  BY <1>13 DEF Raise, Moves
<1>14. ASSUME NEW a \in Actor, Kill(a)
       PROVE  Moves(a, IF a \in Page THEN "done" ELSE "idle")
  BY <1>14 DEF Kill, Moves
<1>15. CASE UNCHANGED vars
  BY <1>15 DEF vars
<1> QED BY <1>1, <1>2, <1>3, <1>4, <1>5, <1>6, <1>7, <1>8, <1>9, <1>10, <1>11, <1>12,
           <1>13, <1>14, <1>15, Zenon DEF Next, Work, Receive, Fail, Victim

(* If no page has been opened after a step, none had been before, and it   *)
(* was not a step of a page.                                               *)
LEMMA QuietStep ==
    ASSUME TypeOK, PagesEnd, [Next]_vars
    PROVE  PagesEnd' /\ (Quiet' => Quiet)
<1>1. CASE UNCHANGED pc
  BY <1>1 DEF PagesEnd, Quiet
<1>2. ASSUME NEW a \in Actor, NEW p, Moves(a, p) PROVE PagesEnd' /\ (Quiet' => Quiet)
  <2>1. Page \subseteq Actor
    BY DEF Actor, Reader
  <2>2. \A b \in Actor : pc'[b] = IF b = a THEN p ELSE pc[b]
    BY <1>2 DEF Moves, TypeOK
  <2> QED BY <1>2, <2>1, <2>2 DEF Moves, PagesEnd, Quiet
<1> QED BY <1>1, <1>2, StepMoves

(* An actor goes where it does not decide, and leaves the others alone.    *)
Leaves(a) == /\ \A b \in Actor \ {a} : pc'[b] = pc[b]
             /\ pc'[a] \notin {"decide", "save"}
Others(a) == /\ \A b \in Actor \ {a} : rows'[b] = rows[b] /\ status'[b] = status[b]
             /\ \A l \in Line, b \in Actor \ {a} : lock[l] = b <=> lock'[l] = b

LEMMA GoesOn ==
    ASSUME TypeOK, StatusOfItems, HoldsRows, Decided, UNCHANGED <<line, order>>,
           NEW a \in Actor, Leaves(a), Others(a)
    PROVE  StatusOfItems' /\ HoldsRows' /\ Decided'
<1>0. /\ \A b \in Actor \ {a} : rows'[b] = rows[b] /\ status'[b] = status[b]
      /\ \A l \in Line, b \in Actor \ {a} : lock[l] = b <=> lock'[l] = b
  BY DEF Others
<1>1. (\A b \in Actor \ {a} : pc'[b] = pc[b]) /\ pc'[a] \notin {"decide", "save"}
  BY DEF Leaves
<1>2. ASSUME NEW b \in IPlanTask \cup SapTask
      PROVE  /\ Deciding(b)' => Held(b)'
             /\ pc'[b] = "save" => status'[b] = Rule(Statuses(View(b)))'
  <2>1. CASE b = a
    BY <1>1, <2>1 DEF Deciding
  <2>2. CASE b # a
    BY <1>0, <1>1, <2>2, KeepDecided
  <2> QED BY <2>1, <2>2
<1>3. StatusOfItems'
  <2>1. Statuses(line)' = Statuses(line)
    BY DEF Statuses
  <2>2. Rule(Statuses(line))' = Rule(Statuses(line))
    BY <2>1 DEF Rule
  <2> QED BY <2>2 DEF StatusOfItems
<1>4. HoldsRows'
  BY <1>2 DEF HoldsRows
<1>5. Decided'
  BY <1>2 DEF Decided
<1> QED BY <1>3, <1>4, <1>5

LEMMA FollowsStep == Single /\ Follows /\ [Next]_vars => Follows'
<1> SUFFICES ASSUME Single, Follows, [Next]_vars PROVE Follows'
  OBVIOUS
<1>1. TypeOK' /\ PagesEnd' /\ (Quiet' => Quiet)
  BY TypeStep, QuietStep DEF Follows
<1> SUFFICES ASSUME Quiet' PROVE StatusOfItems' /\ HoldsRows' /\ Decided'
  BY <1>1 DEF Follows
<1>2. TypeOK /\ PagesEnd /\ Quiet /\ StatusOfItems /\ HoldsRows /\ Decided
  BY <1>1 DEF Follows
<1> DEFINE Goal == StatusOfItems' /\ HoldsRows' /\ Decided'
<1>3. ASSUME UNCHANGED <<line, order, lock, pc, rows, status>> PROVE Goal
  <2>1. Statuses(line)' = Statuses(line)
    BY <1>3 DEF Statuses
  <2>2. Rule(Statuses(line))' = Rule(Statuses(line))
    BY <2>1 DEF Rule
  <2>3. \A a \in Actor : View(a)' = View(a)
    BY <1>3 DEF View, Written
  <2>4. \A a \in Actor : Statuses(View(a))' = Statuses(View(a))
    BY <2>3 DEF Statuses
  <2>5. \A a \in Actor : Rule(Statuses(View(a)))' = Rule(Statuses(View(a)))
    BY <2>4 DEF Rule
  <2>6. StatusOfItems'
    BY <1>2, <1>3, <2>2 DEF StatusOfItems
  <2>7. HoldsRows'
    BY <1>2, <1>3 DEF HoldsRows, Deciding, Held
  <2>8. Decided'
    BY <1>2, <1>3, <2>5 DEF Decided, Actor, Reader
  <2> QED BY <2>6, <2>7, <2>8
<1>4. ASSUME NEW a \in Actor, Release(a)
      PROVE  \A l \in Line, b \in Actor \ {a} : lock[l] = b <=> lock'[l] = b
  BY <1>2, <1>4, ActorAssumption DEF Release, TypeOK
<1>5. ASSUME NEW a \in Actor, Forget(a)
      PROVE  \A b \in Actor \ {a} : rows'[b] = rows[b] /\ status'[b] = status[b]
  BY <1>2, <1>5 DEF Forget, TypeOK
<1>6. \A a \in Page : pc[a] = "idle"
  BY <1>2 DEF Quiet
<1>7. ASSUME NEW a \in Actor, ReceivePlan(a) PROVE Goal
  <2>1. UNCHANGED <<line, order>> /\ Leaves(a)
    BY <1>2, <1>7 DEF ReceivePlan, Database, Goto, Leaves, TypeOK
  <2>2. Others(a)
    BY <1>2, <1>7 DEF ReceivePlan, Database, TypeOK, Others
  <2> QED BY <1>2, <2>1, <2>2, GoesOn
<1>8. ASSUME NEW a \in Actor, ReceiveNews(a) \/ OpenPage(a) PROVE Goal
  <2>1. UNCHANGED <<line, order>> /\ Leaves(a)
    BY <1>2, <1>8 DEF ReceiveNews, OpenPage, Database, Goto, Leaves, TypeOK
  <2>2. Others(a)
    BY <1>2, <1>8 DEF ReceiveNews, OpenPage, Database, Memory, Others
  <2> QED BY <1>2, <2>1, <2>2, GoesOn
<1>9. ASSUME NEW a \in Actor, Ask(a) PROVE Goal
  <2>1. UNCHANGED <<line, order>> /\ Leaves(a)
    BY <1>2, <1>9 DEF Ask, Database, Goto, Leaves, TypeOK
  <2>2. Others(a)
    BY <1>2, <1>9 DEF Ask, Database, Others
  <2> QED BY <1>2, <2>1, <2>2, GoesOn
<1>10. ASSUME NEW a \in Actor, Header(a) PROVE Goal
  BY <1>2, <1>6, <1>10 DEF Header, PagesEnd
<1>11. ASSUME NEW a \in Actor, ReadRows(a) PROVE Goal
  <2>1. UNCHANGED <<line, order>> /\ Leaves(a)
    BY <1>2, <1>11 DEF ReadRows, Database, Goto, Leaves, TypeOK
  <2>2. Others(a)
    BY <1>2, <1>11 DEF ReadRows, Database, TypeOK, Others
  <2> QED BY <1>2, <2>1, <2>2, GoesOn
<1>12. ASSUME NEW a \in Actor, NEW l \in Line, TakeRow(a, l) PROVE Goal
  <2>1. a \notin Page
    BY <1>6, <1>12 DEF TakeRow
  <2>2. UNCHANGED <<line, order, rows, status>> /\ lock' = [lock EXCEPT ![l] = a] /\ lock[l] = None
    BY <1>12, <2>1 DEF TakeRow, Memory
  <2>3. Others(a)
    BY <1>2, <2>2, ActorAssumption DEF TypeOK, Others
  <2>4. StatusOfItems'
    <3>1. Statuses(line)' = Statuses(line)
      BY <2>2 DEF Statuses
    <3>2. Rule(Statuses(line))' = Rule(Statuses(line))
      BY <3>1 DEF Rule
    <3> QED BY <1>2, <2>2, <3>2 DEF StatusOfItems
  <2>5. ASSUME NEW b \in IPlanTask \cup SapTask, b # a
        PROVE  /\ Deciding(b)' => Held(b)'
               /\ pc'[b] = "save" => status'[b] = Rule(Statuses(View(b)))'
    <3>1. \A c \in Actor \ {a} : pc'[c] = pc[c]
      BY <1>2, <1>12 DEF TakeRow, Goto, TypeOK
    <3> QED BY <1>2, <2>2, <2>3, <2>5, <3>1, KeepDecided DEF Others
  <2>6. pc[a] = "update" /\ pc'[a] \in {"update", "decide"}
    BY <1>2, <1>12 DEF TakeRow, Goto, TypeOK
  <2>7. ASSUME pc'[a] = "decide" PROVE /\ lock'[l] = a
                                       /\ a \in SapTask => \A k \in Line : lock'[k] = a
    <3>1. \A k \in Targets(a) \ {l} : lock[k] = a
      BY <1>12, <2>6, <2>7 DEF TakeRow
    <3>2. a \in SapTask => Targets(a) = Line
      BY ActorAssumption DEF Targets, Reader
    <3> QED BY <1>2, <2>2, <3>1, <3>2 DEF TypeOK
  <2>8. HoldsRows'
    <3>1. ASSUME NEW b \in IPlanTask \cup SapTask, Deciding(b)'
          PROVE  Held(b)'
      <4>1. CASE b = a
        BY <2>6, <2>7, <3>1, <4>1 DEF Deciding, Held
      <4>2. CASE b # a
        BY <2>5, <3>1, <4>2
      <4> QED BY <4>1, <4>2
    <3> QED BY <3>1 DEF HoldsRows
  <2>9. Decided'
    BY <2>5, <2>6 DEF Decided
  <2> QED BY <2>4, <2>8, <2>9
<1>13. ASSUME NEW a \in Actor, Decide(a) PROVE Goal
  <2>1. /\ UNCHANGED <<line, order, lock, rows>> /\ pc[a] = "decide"
        /\ pc' = [pc EXCEPT ![a] = "save"]
    BY <1>13 DEF Decide, Database, Goto
  <2>2. status' = [status EXCEPT ![a] = Rule(Statuses(View(a)))]
    BY <1>2, <1>13, DecideMeans
  <2>3. Others(a)
    BY <1>2, <2>1, <2>2 DEF TypeOK, Others
  <2>4. StatusOfItems'
    <3>1. Statuses(line)' = Statuses(line)
      BY <2>1 DEF Statuses
    <3>2. Rule(Statuses(line))' = Rule(Statuses(line))
      BY <3>1 DEF Rule
    <3> QED BY <1>2, <2>1, <3>2 DEF StatusOfItems
  <2>5. ASSUME NEW b \in IPlanTask \cup SapTask, b # a
        PROVE  /\ Deciding(b)' => Held(b)'
               /\ pc'[b] = "save" => status'[b] = Rule(Statuses(View(b)))'
    <3>1. \A c \in Actor \ {a} : pc'[c] = pc[c]
      BY <1>2, <2>1 DEF TypeOK
    <3> QED BY <1>2, <2>1, <2>3, <2>5, <3>1, KeepDecided DEF Others
  <2>6. status'[a] = Rule(Statuses(View(a)))'
    <3>1. View(a)' = View(a)
      BY <2>1 DEF View, Written
    <3>2. Statuses(View(a))' = Statuses(View(a))
      BY <3>1 DEF Statuses
    <3>3. Rule(Statuses(View(a)))' = Rule(Statuses(View(a)))
      BY <3>2 DEF Rule
    <3> QED BY <1>2, <2>2, <3>3 DEF TypeOK
  <2>7. HoldsRows'
    BY <1>2, <2>1, <2>5 DEF HoldsRows, Deciding, Held
  <2>8. Decided'
    BY <2>5, <2>6 DEF Decided
  <2> QED BY <2>4, <2>7, <2>8
<1>14. ASSUME NEW a \in Actor, Save(a) PROVE Goal
  <2>1. a \in IPlanTask \cup SapTask /\ pc[a] = "save" /\ Deciding(a)
    BY <1>6, <1>14 DEF Save, Deciding, Actor, Reader
  <2>2. \A b \in Actor : pc'[b] = IF b = a THEN "delete" ELSE pc[b]
    BY <1>2, <1>6, <1>14, <2>1 DEF Save, Goto, TypeOK
  <2>3. StatusOfItems'
    <3>1. order' = Rule(Statuses(View(a))) /\ line' = View(a)
      BY <1>2, <1>14, <2>1 DEF Save, Decided
    <3>2. Statuses(line)' = Statuses(View(a))
      BY <3>1 DEF Statuses
    <3>3. Rule(Statuses(line))' = Rule(Statuses(View(a)))
      BY <3>2 DEF Rule
    <3> QED BY <3>1, <3>3 DEF StatusOfItems
  <2>4. ASSUME NEW b \in IPlanTask \cup SapTask PROVE ~Deciding(b)'
    <3>1. CASE b = a
      BY <2>1, <2>2, <3>1 DEF Deciding, Actor, Reader
    <3>2. CASE b # a
      <4>1. ~Deciding(b)
        BY <1>2, <2>1, <3>2, OneDecides
      <4> QED BY <2>2, <3>2, <4>1 DEF Deciding, Actor, Reader
    <3> QED BY <3>1, <3>2
  <2>5. HoldsRows'
    BY <2>4 DEF HoldsRows
  <2>6. Decided'
    BY <2>4 DEF Decided, Deciding
  <2> QED BY <2>3, <2>5, <2>6
<1>15. ASSUME NEW a \in Actor, Delete(a) PROVE Goal
  <2>1. UNCHANGED <<line, order>> /\ Leaves(a)
    BY <1>2, <1>15 DEF Delete, Database, Goto, Leaves, TypeOK
  <2>2. Others(a)
    BY <1>2, <1>15 DEF Delete, Database, Others
  <2> QED BY <1>2, <2>1, <2>2, GoesOn
<1>16. ASSUME NEW a \in Actor, Raise(a) PROVE Goal
  <2>1. UNCHANGED <<line, order>> /\ Leaves(a)
    BY <1>2, <1>16 DEF Raise, Goto, Leaves, TypeOK
  <2>2. Others(a)
    BY <1>4, <1>5, <1>16 DEF Raise, Others
  <2> QED BY <1>2, <2>1, <2>2, GoesOn
<1>17. ASSUME NEW a \in Actor, Kill(a) PROVE Goal
  <2>1. UNCHANGED <<line, order>> /\ Leaves(a)
    BY <1>2, <1>17 DEF Kill, Goto, Leaves, TypeOK
  <2>2. Others(a)
    BY <1>4, <1>5, <1>17 DEF Kill, Others
  <2> QED BY <1>2, <2>1, <2>2, GoesOn
<1>18. ASSUME NEW l \in Line, SapDelivers(l) \/ SapRejects(l) PROVE Goal
  BY <1>3, <1>18 DEF SapDelivers, SapRejects, Database, Memory
<1>19. ASSUME IPlanProduces PROVE Goal
  BY <1>3, <1>19 DEF IPlanProduces, Database, Memory
<1>20. ASSUME UNCHANGED vars PROVE Goal
  BY <1>3, <1>20 DEF vars
<1> HIDE DEF Goal
<1>21. ASSUME NEW a \in Actor, Receive(a) \/ OpenPage(a) \/ Work(a) \/ Fail(a) \/ Kill(a)
       PROVE  Goal
  <2>1. CASE Receive(a) \/ OpenPage(a)
    BY <1>7, <1>8, <2>1 DEF Receive
  <2>2. CASE Work(a)
    BY <1>9, <1>10, <1>11, <1>12, <1>13, <1>14, <1>15, <1>16, <2>2 DEF Work, Victim
  <2>3. CASE Fail(a) \/ Kill(a)
    BY <1>16, <1>17, <2>3 DEF Fail
  <2> QED BY <1>21, <2>1, <2>2, <2>3
<1>22. Goal
  BY <1>18, <1>19, <1>20, <1>21 DEF Next
<1> QED BY <1>22 DEF Goal

(* With one task of iPlan and any number of tasks of SAP, the status of    *)
(* the order always follows the statuses of its items (until somebody      *)
(* opens the page of the order).                                           *)
THEOREM OrderFollowsItems == Single => (Spec => []StatusFollowsItems)
<1> SUFFICES ASSUME Single PROVE Spec => []StatusFollowsItems
  OBVIOUS
<1>1. Follows => StatusFollowsItems
  BY DEF Follows, StatusFollowsItems, Quiet
<1>2. Follows /\ [Next]_vars => Follows'
  BY FollowsStep
<1> QED BY <1>1, <1>2, FollowsInit, PTL DEF Spec
=============================================================================
