------------------------- MODULE OrderCreate_proofs -------------------------
(***************************************************************************)
(* Theorems of OrderCreate, for any number of requests and lines.          *)
(*   - for every kind of caller: the types, and what e-ordering and iPlan  *)
(*     say of an order agrees with the sales orders there are in SAP;      *)
(*   - for contract_order_update: one sales order per order, an order that *)
(*     was received stays as it is, and the steps implement Submission.    *)
(***************************************************************************)
EXTENDS OrderCreate, TLAPS

USE FlowAssumption, NoneAssumption DEF Status, Row, Outcome, Place, LineState

(* The helpers of the actions keep the types of what they write.           *)
LEMMA GotoTypes ==
    ASSUME TypeOK, NEW r \in Request, NEW p \in Place, Goto(r, p)
    PROVE  pc' \in [Request -> Place] /\ result' \in [Request -> Outcome]
  BY DEF TypeOK, Goto

LEMMA LeaveTypes ==
    ASSUME TypeOK, NEW r \in Request, NEW res \in Outcome, Leave(r, res)
    PROVE  pc' \in [Request -> Place] /\ result' \in [Request -> Outcome]
  BY DEF TypeOK, Leave

LEMMA MoveTypes ==
    ASSUME TypeOK, NEW r \in Request, NEW lines, NEW s \in LineState, Move(r, lines, s)
    PROVE  iplan' \in [Request -> [Line -> LineState]]
  BY DEF TypeOK, Move

LEMMA SeenType ==
    ASSUME TypeOK, NEW r \in Request
    PROVE  Seen(r) \in Row
  BY DEF TypeOK, Seen

LEMMA WriteTypes ==
    ASSUME TypeOK, NEW r \in Request, NEW row \in Row, Write(r, row)
    PROVE  view' \in [Request -> Row]
  BY DEF TypeOK, Write

(* Every action keeps the types.                                           *)
LEMMA TypeStep == TypeOK /\ [Next]_vars => TypeOK'
<1> SUFFICES ASSUME TypeOK, [Next]_vars PROVE TypeOK'
  OBVIOUS
<1>1. CASE UNCHANGED vars
  BY <1>1 DEF vars, TypeOK
<1>2. ASSUME NEW r \in Request, Load(r) PROVE TypeOK'
  <2>1. pc' \in [Request -> Place] /\ result' \in [Request -> Outcome]
    <3>1. CASE Goto(r, "save") \/ Goto(r, "guard")
      BY <3>1, GotoTypes
    <3>2. CASE pc' = [pc EXCEPT ![r] = "done"] /\ result' = [result EXCEPT ![r] = "failure"]
      BY <3>2 DEF TypeOK
    <3> QED BY <1>2, <3>1, <3>2 DEF Load
  <2> QED BY <1>2, <2>1 DEF Load, TypeOK, Remote
<1>3. ASSUME NEW r \in Request, Save(r) PROVE TypeOK'
  <2>1. pc' \in [Request -> Place] /\ result' \in [Request -> Outcome]
    BY <1>3, GotoTypes, LeaveTypes DEF Save
  <2> QED BY <1>3, <2>1 DEF Save, TypeOK, Remote, Write, Lock
<1>4. ASSUME NEW r \in Request, Guard(r) PROVE TypeOK'
  <2>1. pc' \in [Request -> Place] /\ result' \in [Request -> Outcome]
    BY <1>4, GotoTypes, LeaveTypes DEF Guard
  <2> QED BY <1>4, <2>1 DEF Guard, TypeOK, Remote, Local
<1>5. ASSUME NEW r \in Request, PlanAnswers(r) PROVE TypeOK'
  <2>1. pc' \in [Request -> Place] /\ result' \in [Request -> Outcome]
    BY <1>5, GotoTypes DEF PlanAnswers
  <2>2. iplan' \in [Request -> [Line -> LineState]]
    BY <1>5, MoveTypes DEF PlanAnswers
  <2> QED BY <1>5, <2>1, <2>2 DEF PlanAnswers, TypeOK, Local
<1>6. ASSUME NEW r \in Request, PlanRaises(r) PROVE TypeOK'
  <2>1. pc' \in [Request -> Place] /\ result' \in [Request -> Outcome]
    BY <1>6, LeaveTypes DEF PlanRaises
  <2>2. iplan' \in [Request -> [Line -> LineState]]
    BY <1>6, MoveTypes DEF PlanRaises
  <2> QED BY <1>6, <2>1, <2>2 DEF PlanRaises, TypeOK, Local
<1>7. ASSUME NEW r \in Request, WriteLines(r) PROVE TypeOK'
  <2>1. pc' \in [Request -> Place] /\ result' \in [Request -> Outcome]
    BY <1>7, GotoTypes, LeaveTypes DEF WriteLines
  <2>2. view' \in [Request -> Row]
    BY <1>7, SeenType, WriteTypes DEF WriteLines
  <2>3. owner' \in Request \cup {None}
    BY <1>7 DEF WriteLines, Lock, TypeOK
  <2> QED BY <1>7, <2>1, <2>2, <2>3 DEF WriteLines, TypeOK, Remote
<1>8. ASSUME NEW r \in Request, SapAnswers(r) PROVE TypeOK'
  <2>1. pc' \in [Request -> Place] /\ result' \in [Request -> Outcome]
    BY <1>8, GotoTypes, LeaveTypes DEF SapAnswers
  <2> QED BY <1>8, <2>1 DEF SapAnswers, TypeOK, Local
<1>9. ASSUME NEW r \in Request, SapRaises(r) PROVE TypeOK'
  <2>1. pc' \in [Request -> Place] /\ result' \in [Request -> Outcome]
    BY <1>9 DEF SapRaises, TypeOK
  <2> QED BY <1>9, <2>1 DEF SapRaises, TypeOK, Local
<1>10. ASSUME NEW r \in Request, CommitAnswers(r) PROVE TypeOK'
  <2>1. pc' \in [Request -> Place] /\ result' \in [Request -> Outcome]
    BY <1>10, GotoTypes DEF CommitAnswers
  <2>2. iplan' \in [Request -> [Line -> LineState]]
    BY <1>10, MoveTypes DEF CommitAnswers
  <2>3. view' \in [Request -> Row]
    <3>1. PICK b \in BOOLEAN : Write(r, [view[r] EXCEPT !.r5 = @ \/ b])
      BY <1>10 DEF CommitAnswers
    <3>2. view[r] \in Row
      BY DEF TypeOK
    <3>3. [view[r] EXCEPT !.r5 = @ \/ b] \in Row
      BY <3>2
    <3> QED BY <3>1, <3>3, WriteTypes
  <2> QED BY <1>10, <2>1, <2>2, <2>3 DEF CommitAnswers, TypeOK
<1>11. ASSUME NEW r \in Request, CommitRaises(r) PROVE TypeOK'
  <2>1. pc' \in [Request -> Place] /\ result' \in [Request -> Outcome]
    BY <1>11, LeaveTypes DEF CommitRaises
  <2>2. iplan' \in [Request -> [Line -> LineState]]
    BY <1>11, MoveTypes DEF CommitRaises
  <2>3. view' \in [Request -> Row]
    BY <1>11 DEF CommitRaises, Write, TypeOK
  <2> QED BY <1>11, <2>1, <2>2, <2>3 DEF CommitRaises, TypeOK
<1>12. ASSUME NEW r \in Request, RollbackAnswers(r) PROVE TypeOK'
  <2>1. result[r] \in Outcome
    BY DEF TypeOK
  <2>2. pc' \in [Request -> Place] /\ result' \in [Request -> Outcome]
    BY <1>12, <2>1, LeaveTypes DEF RollbackAnswers
  <2>3. iplan' \in [Request -> [Line -> LineState]]
    BY <1>12, MoveTypes DEF RollbackAnswers
  <2> QED BY <1>12, <2>2, <2>3 DEF RollbackAnswers, TypeOK, Local
<1>13. ASSUME NEW r \in Request, RollbackRaises(r) PROVE TypeOK'
  <2>1. pc' \in [Request -> Place] /\ result' \in [Request -> Outcome]
    BY <1>13, LeaveTypes DEF RollbackRaises
  <2>2. iplan' \in [Request -> [Line -> LineState]]
    BY <1>13, MoveTypes DEF RollbackRaises
  <2> QED BY <1>13, <2>1, <2>2 DEF RollbackRaises, TypeOK, Local
<1>14. ASSUME NEW r \in Request, Finish(r) PROVE TypeOK'
  <2>1. pc' \in [Request -> Place] /\ result' \in [Request -> Outcome]
    BY <1>14, LeaveTypes DEF Finish
  <2>2. view' \in [Request -> Row]
    BY <1>14, SeenType DEF Finish, Write, TypeOK
  <2> QED BY <1>14, <2>1, <2>2 DEF Finish, TypeOK, Lock, Remote
<1>15. ASSUME NEW r \in Request, Close(r) PROVE TypeOK'
  <2>1. pc' \in [Request -> Place] /\ result' \in [Request -> Outcome]
    BY <1>15, GotoTypes DEF Close
  <2>2. order' \in Row
    <3>1. order \in Row /\ Seen(r) \in Row
      BY SeenType DEF TypeOK
    <3>2. [order EXCEPT !.status = "draft"] \in Row
      BY <3>1
    <3> QED BY <1>15, <3>1, <3>2 DEF Close
  <2> QED BY <1>15, <2>1, <2>2 DEF Close, TypeOK, Remote
<1>16. ASSUME NEW r \in Request, Kill(r) PROVE TypeOK'
  <2>1. pc' \in [Request -> Place] /\ result' \in [Request -> Outcome]
    BY <1>16 DEF Kill, TypeOK
  <2> QED BY <1>16, <2>1 DEF Kill, TypeOK, Remote
<1> QED
  BY <1>1, <1>2, <1>3, <1>4, <1>5, <1>6, <1>7, <1>8, <1>9, <1>10, <1>11,
     <1>12, <1>13, <1>14, <1>15, <1>16 DEF Next, Step

(* The rows, their copies in transactions and in memory, and the states of *)
(* the remote systems keep their types.                                    *)
THEOREM TypeCorrect == Spec => []TypeOK
<1>1. Init => TypeOK
  BY DEF Init, TypeOK, NewRow
<1> QED BY <1>1, TypeStep, PTL DEF Spec
----------------------------------------------------------------------------
(* What e-ordering and iPlan say of the order, and what there is in SAP.   *)
(* A request is past ES17 only when SAP has its order; a row that says     *)
(* "received", committed, in a transaction or in memory, carries a number  *)
(* of SAP; what is committed in iPlan is in SAP.                           *)
InSap(row) == row.status = "received" => row.so \in sapOrders

Agreement == /\ TypeOK
             /\ \A r \in Request : pc[r] \in {"confirm", "finish"} => r \in sapOrders
             /\ InSap(order)
             /\ \A r \in Request : InSap(view[r]) /\ InSap(loaded[r])
             /\ CommittedIsInSap

(* Sales orders stay in SAP, and the copies of the row agree with it.      *)
LEMMA AgreementStep == Agreement /\ [Next]_vars => Agreement'
<1> SUFFICES ASSUME Agreement, [Next]_vars PROVE Agreement'
  OBVIOUS
<1>0. TypeOK /\ TypeOK'
  BY TypeStep DEF Agreement
<1> USE DEF Agreement, InSap, CommittedIsInSap
<1>1. CASE UNCHANGED vars
  BY <1>0, <1>1 DEF vars
<1>2. ASSUME NEW r \in Request, Load(r) PROVE Agreement'
  BY <1>0, <1>2 DEF Load, Goto, Remote, TypeOK
<1>3. ASSUME NEW r \in Request, Save(r) PROVE Agreement'
  BY <1>0, <1>3 DEF Save, Goto, Leave, Write, Remote, TypeOK
<1>4. ASSUME NEW r \in Request, Guard(r) PROVE Agreement'
  BY <1>0, <1>4 DEF Guard, Goto, Leave, Local, Remote, TypeOK
<1>5. ASSUME NEW r \in Request, PlanAnswers(r) PROVE Agreement'
  BY <1>0, <1>5 DEF PlanAnswers, Goto, Move, Local, TypeOK
<1>6. ASSUME NEW r \in Request, PlanRaises(r) PROVE Agreement'
  BY <1>0, <1>6 DEF PlanRaises, Leave, Move, Local, TypeOK
<1>7. ASSUME NEW r \in Request, WriteLines(r) PROVE Agreement'
  BY <1>0, <1>7 DEF WriteLines, Goto, Leave, Write, Seen, Remote, TypeOK
<1>8. ASSUME NEW r \in Request, SapAnswers(r) PROVE Agreement'
  BY <1>0, <1>8 DEF SapAnswers, Goto, Leave, Local, TypeOK
<1>9. ASSUME NEW r \in Request, SapRaises(r) PROVE Agreement'
  BY <1>0, <1>9 DEF SapRaises, Local, TypeOK
<1>10. ASSUME NEW r \in Request, CommitAnswers(r) PROVE Agreement'
  BY <1>0, <1>10 DEF CommitAnswers, Goto, Move, Write, TypeOK
<1>11. ASSUME NEW r \in Request, CommitRaises(r) PROVE Agreement'
  BY <1>0, <1>11 DEF CommitRaises, Leave, Move, Write, TypeOK
<1>12. ASSUME NEW r \in Request, RollbackAnswers(r) PROVE Agreement'
  BY <1>0, <1>12 DEF RollbackAnswers, Leave, Move, Reserved, Local, TypeOK
<1>13. ASSUME NEW r \in Request, RollbackRaises(r) PROVE Agreement'
  BY <1>0, <1>13 DEF RollbackRaises, Leave, Move, Reserved, Local, TypeOK
<1>14. ASSUME NEW r \in Request, Finish(r) PROVE Agreement'
  BY <1>0, <1>14 DEF Finish, Leave, Write, Remote, TypeOK
<1>15. ASSUME NEW r \in Request, Close(r) PROVE Agreement'
  BY <1>0, <1>15 DEF Close, Goto, Seen, Remote, TypeOK
<1>16. ASSUME NEW r \in Request, Kill(r) PROVE Agreement'
  BY <1>0, <1>16 DEF Kill, Remote, TypeOK
<1> QED
  BY <1>1, <1>2, <1>3, <1>4, <1>5, <1>6, <1>7, <1>8, <1>9, <1>10, <1>11,
     <1>12, <1>13, <1>14, <1>15, <1>16 DEF Next, Step

LEMMA AgreementInit == Init => Agreement
  BY DEF Init, Agreement, TypeOK, InSap, CommittedIsInSap, NewRow

(* An order that e-ordering shows as Received Order has a sales order in   *)
(* SAP under its number, whatever the caller, the failures and the kills.  *)
THEOREM ReceivedHasSalesOrder == Spec => []ReceivedIsInSap
<1>1. Agreement => ReceivedIsInSap
  BY DEF Agreement, InSap, ReceivedIsInSap
<1> QED BY <1>1, AgreementInit, AgreementStep, PTL DEF Spec

(* iPlan never commits stock to a submission that SAP has not accepted.    *)
THEOREM CommittedHasSalesOrder == Spec => []CommittedIsInSap
<1>1. Agreement => CommittedIsInSap
  BY DEF Agreement
<1> QED BY <1>1, AgreementInit, AgreementStep, PTL DEF Spec
----------------------------------------------------------------------------
(* The flag R5, for every kind of caller.  A copy of the row that says     *)
(* "received" is flagged, or iPlan has committed all lines of its sales    *)
(* order; before SAP has answered there is nothing committed; who is about *)
(* to write a received row holds it (but eo_upload, whose rows are new);   *)
(* and a flag that a request has read, or that is in the row it holds,     *)
(* stays.                                                                  *)
AllCommitted(r) == \A l \in Line : iplan[r][l] = "committed"

Kept(row) == row.status = "received" /\ kind.iplan => row.r5 \/ AllCommitted(row.so)

Early == {"new", "save", "guard", "plan", "accepted", "rejected", "short", "sap"}
Unasked == \A r \in Request : pc[r] \in Early => r \notin sapOrders

Held == \A r \in Request :
    kind.iplan /\ kind.flow # "eo_upload" /\ pc[r] \in {"sap", "confirm", "finish"} => owner = r

Ready == \A r \in Request : kind.iplan /\ pc[r] = "finish" => view[r].r5 \/ AllCommitted(r)

Lasting == kind.flow # "eo_upload" => \A r \in Request :
              /\ loaded[r].r5 => order.r5
              /\ owner = r /\ order.r5 => view[r].r5

Flagging == /\ Agreement /\ Unasked /\ Held /\ Ready /\ Lasting
            /\ Kept(order)
            /\ \A r \in Request : Kept(view[r]) /\ Kept(loaded[r])

LEMMA FlaggingTypes ==
    ASSUME Flagging, [Next]_vars
    PROVE  TypeOK /\ TypeOK' /\ Agreement' /\ kind' = kind
<1>1. kind' = kind
  BY DEF Next, Step, Load, Save, Guard, PlanAnswers, PlanRaises, WriteLines, SapAnswers,
     SapRaises, CommitAnswers, CommitRaises, RollbackAnswers, RollbackRaises, Finish, Close,
     Kill, Local, Remote, vars
<1> QED BY <1>1, TypeStep, AgreementStep DEF Flagging, Agreement

(* What iPlan has committed stays committed.                               *)
LEMMA CommittedStays ==
    ASSUME Flagging, [Next]_vars, NEW q \in Request, AllCommitted(q)
    PROVE  AllCommitted(q)'
<1>0. TypeOK
  BY DEF Flagging, Agreement
<1>1. ASSUME NEW r \in Request, PlanAnswers(r) \/ PlanRaises(r) PROVE AllCommitted(q)'
  <2>1. \A l \in Line : iplan[r][l] # "committed"
    BY <1>1 DEF PlanAnswers, PlanRaises, Flagging, Agreement, CommittedIsInSap, Unasked, Early
  <2>2. q = r => Line = {}
    BY <2>1 DEF AllCommitted
  <2>3. q # r => iplan'[q] = iplan[q]
    BY <1>0, <1>1 DEF PlanAnswers, PlanRaises, Move, TypeOK
  <2> QED BY <2>2, <2>3 DEF AllCommitted
<1>2. ASSUME NEW r \in Request, CommitAnswers(r) \/ CommitRaises(r) PROVE AllCommitted(q)'
  <2>1. \E ok \in SUBSET Line : Move(r, ok, "committed")
    BY <1>2 DEF CommitAnswers, CommitRaises
  <2>2. PICK ok \in SUBSET Line : Move(r, ok, "committed")
    BY <2>1
  <2>3. \A l \in Line : iplan'[q][l] \in {iplan[q][l], "committed"}
    BY <1>0, <2>2 DEF Move, TypeOK
  <2> QED BY <2>3 DEF AllCommitted
<1>3. ASSUME NEW r \in Request, RollbackAnswers(r) \/ RollbackRaises(r) PROVE AllCommitted(q)'
  BY <1>0, <1>3 DEF RollbackAnswers, RollbackRaises, Move, Reserved, TypeOK, AllCommitted
<1>4. CASE UNCHANGED iplan
  BY <1>4 DEF AllCommitted
<1> QED
  BY <1>1, <1>2, <1>3, <1>4 DEF Next, Step, Load, Save, Guard, WriteLines, SapAnswers, SapRaises,
     Finish, Close, Kill, Local, Remote, vars

LEMMA FlaggingStep == Flagging /\ [Next]_vars => Flagging'
<1> SUFFICES ASSUME Flagging, [Next]_vars PROVE Flagging'
  OBVIOUS
<1>0. TypeOK /\ TypeOK' /\ Agreement' /\ kind' = kind
  BY FlaggingTypes
<1>a. \A q \in Request : AllCommitted(q) => AllCommitted(q)'
  BY CommittedStays
<1>b. \A q \in Request :
         /\ order.status = "received" /\ kind.iplan /\ order.so = q => order.r5 \/ AllCommitted(q)'
         /\ \A r \in Request :
               /\ view[r].status = "received" /\ kind.iplan /\ view[r].so = q
                     => view[r].r5 \/ AllCommitted(q)'
               /\ loaded[r].status = "received" /\ kind.iplan /\ loaded[r].so = q
                     => loaded[r].r5 \/ AllCommitted(q)'
  BY <1>a DEF Flagging, Kept
<1>i. /\ order'.status = "received" => order'.so \in Request
      /\ \A r \in Request : /\ view'[r].status = "received" => view'[r].so \in Request
                            /\ loaded'[r].status = "received" => loaded'[r].so \in Request
  BY <1>0 DEF Agreement, InSap, TypeOK
<1>c. /\ order' = order => Kept(order)'
      /\ \A r \in Request : /\ view'[r] = view[r] \/ view'[r] = order => Kept(view[r])'
                            /\ loaded'[r] = loaded[r] \/ loaded'[r] = order => Kept(loaded[r])'
  BY <1>0, <1>b, <1>i DEF Kept
<1>d. ASSUME NEW r \in Request, view'[r] = view[r], pc[r] = "finish", pc'[r] = "finish", kind.iplan
      PROVE  view'[r].r5 \/ AllCommitted(r)'
  BY <1>a, <1>d DEF Flagging, Ready
<1> USE DEF Flagging
<1>1. CASE UNCHANGED vars
  BY <1>0, <1>1, <1>c, <1>d DEF vars, Unasked, Held, Ready, Lasting
<1>2. ASSUME NEW r \in Request, Load(r) PROVE Flagging'
  BY <1>0, <1>c, <1>d, <1>2 DEF Load, Goto, Remote, TypeOK, Unasked, Early, Held, Ready, Lasting
<1>3. ASSUME NEW r \in Request, Save(r) PROVE Flagging'
  <2>0. pc[r] = "save" /\ owner' = r /\ owner \in {None, r} /\ UNCHANGED <<order, loaded, sapOrders>>
    BY <1>3 DEF Save, Lock, Remote
  <2>1. /\ \A q \in Request \ {r} : view'[q] = view[q] /\ pc'[q] = pc[q]
        /\ pc'[r] \in {"guard", "close"}
    BY <1>0, <1>3 DEF Save, Write, Goto, Leave, TypeOK
  <2>2. view'[r] = order \/ (/\ kind.flow = "export" /\ view'[r].r5 = order.r5
                             /\ view'[r].status = loaded[r].status /\ view'[r].so = loaded[r].so)
    BY <1>0, <1>3 DEF Save, Write, TypeOK
  <2>3. view'[r].r5 = order.r5
    BY <2>2
  <2>4. Kept(view[r])'
    <3>1. ASSUME view'[r] # order PROVE Kept(view[r])'
      <4>1. loaded[r].r5 => view'[r].r5
        BY <2>2, <3>1 DEF Lasting
      <4> QED BY <1>0, <1>b, <1>i, <2>2, <3>1, <4>1 DEF Kept
    <3> QED BY <1>c, <3>1
  <2>5. Lasting'
    BY <1>0, <2>0, <2>1, <2>3 DEF Lasting
  <2>6. Unasked' /\ Held' /\ Ready'
    BY <1>0, <1>d, <2>0, <2>1 DEF Unasked, Early, Held, Ready
  <2> QED BY <1>0, <1>c, <2>0, <2>1, <2>4, <2>5, <2>6
<1>4. ASSUME NEW r \in Request, Guard(r) PROVE Flagging'
  BY <1>0, <1>c, <1>d, <1>4 DEF Guard, Goto, Leave, Local, Remote, TypeOK, Unasked, Early, Held, Ready, Lasting
<1>5. ASSUME NEW r \in Request, PlanAnswers(r) PROVE Flagging'
  BY <1>0, <1>c, <1>d, <1>5 DEF PlanAnswers, Goto, Local, TypeOK, Unasked, Early, Held, Ready, Lasting
<1>6. ASSUME NEW r \in Request, PlanRaises(r) PROVE Flagging'
  <2>1. /\ pc[r] = "plan" /\ pc' = [pc EXCEPT ![r] = "close"]
        /\ UNCHANGED <<order, owner, view, loaded, sapOrders>>
    BY <1>6 DEF PlanRaises, Leave, Local
  <2> QED BY <1>0, <1>c, <1>d, <2>1 DEF TypeOK, Unasked, Early, Held, Ready, Lasting
<1>7. ASSUME NEW r \in Request, WriteLines(r) PROVE Flagging'
  BY <1>0, <1>c, <1>d, <1>7 DEF WriteLines, Lock, Goto, Leave, Write, Seen, Remote, TypeOK, Unasked, Early, Held, Ready, Lasting
<1>8. ASSUME NEW r \in Request, SapAnswers(r) PROVE Flagging'
  <2>1. /\ pc[r] = "sap" /\ UNCHANGED <<kind, order, owner, view, loaded, iplan>>
        /\ sapOrders' \in {sapOrders, sapOrders \cup {r}}
        /\ \E p \in {"confirm", "finish", "undo", "close"} :
              pc' = [pc EXCEPT ![r] = p] /\ (kind.iplan => p # "finish")
    BY <1>8 DEF SapAnswers, Goto, Leave, Local
  <2>2. Unasked'
    BY <1>0, <2>1 DEF Unasked, Early, TypeOK
  <2>3. Held' /\ Ready' /\ Lasting'
    BY <1>0, <1>d, <2>1 DEF Held, Ready, Lasting, TypeOK
  <2> QED BY <1>0, <1>c, <2>1, <2>2, <2>3
<1>9. ASSUME NEW r \in Request, SapRaises(r) PROVE Flagging'
  BY <1>0, <1>c, <1>d, <1>9 DEF SapRaises, Local, TypeOK, Unasked, Early, Held, Ready, Lasting
<1>10. ASSUME NEW r \in Request, CommitAnswers(r) PROVE Flagging'
  <2>0. /\ pc[r] = "confirm" /\ UNCHANGED <<order, owner, loaded, sapOrders>>
        /\ pc' = [pc EXCEPT ![r] = "finish"]
    BY <1>10 DEF CommitAnswers, Goto
  <2>1. PICK bad \in SUBSET Line : /\ Move(r, Line \ bad, "committed")
                                   /\ Write(r, [view[r] EXCEPT !.r5 = @ \/ bad # {}])
    BY <1>10 DEF CommitAnswers
  <2>2. /\ \A q \in Request \ {r} : view'[q] = view[q]
        /\ view'[r] = [view[r] EXCEPT !.r5 = @ \/ bad # {}]
    BY <1>0, <2>1 DEF Write, TypeOK
  <2>3. /\ view'[r].status = view[r].status /\ view'[r].so = view[r].so
        /\ view[r].r5 => view'[r].r5
        /\ bad # {} => view'[r].r5
    <3>1. \A x \in Row, b \in BOOLEAN : LET y == [x EXCEPT !.r5 = b]
                                        IN  y.status = x.status /\ y.so = x.so /\ y.r5 = b
      OBVIOUS
    <3> DEFINE b == view[r].r5 \/ bad # {}
    <3>2. view[r] \in Row /\ b \in BOOLEAN
      BY <1>0 DEF TypeOK
    <3>3. view'[r] = [view[r] EXCEPT !.r5 = b]
      BY <2>2
    <3>4. view'[r].status = view[r].status /\ view'[r].so = view[r].so /\ view'[r].r5 = b
      BY <3>1, <3>2, <3>3
    <3> QED BY <3>4
  <2>4. bad = {} => AllCommitted(r)'
    BY <1>0, <2>1 DEF Move, TypeOK, AllCommitted
  <2>5. Kept(view[r])'
    BY <1>0, <1>b, <1>i, <2>3 DEF Kept
  <2>6. Lasting'
    BY <1>0, <2>0, <2>2, <2>3 DEF Lasting
  <2>7. Unasked' /\ Held'
    BY <1>0, <2>0 DEF Unasked, Early, Held, TypeOK
  <2>8. Ready'
    BY <1>0, <1>d, <2>0, <2>2, <2>3, <2>4 DEF Ready, TypeOK
  <2> QED BY <1>0, <1>c, <2>0, <2>2, <2>5, <2>6, <2>7, <2>8
<1>11. ASSUME NEW r \in Request, CommitRaises(r) PROVE Flagging'
  <2>0. /\ pc[r] = "confirm" /\ UNCHANGED <<order, owner, loaded, sapOrders>>
        /\ pc' = [pc EXCEPT ![r] = "close"]
    BY <1>11 DEF CommitRaises, Leave
  <2>1. /\ \A q \in Request \ {r} : view'[q] = view[q]
        /\ view'[r].r5
    BY <1>0, <1>11 DEF CommitRaises, Write, TypeOK
  <2>2. Kept(view[r])'
    BY <2>1 DEF Kept
  <2>3. Unasked' /\ Held'
    BY <1>0, <2>0 DEF Unasked, Early, Held, TypeOK
  <2>4. Lasting'
    BY <1>0, <2>0, <2>1 DEF Lasting
  <2>5. Ready'
    <3>1. pc'[r] = "close" /\ \A q \in Request \ {r} : pc'[q] = pc[q]
      BY <2>0 DEF Flagging, Agreement, TypeOK
    <3> QED BY <1>0, <1>d, <2>1, <3>1 DEF Ready
  <2> QED BY <1>0, <1>c, <2>0, <2>1, <2>2, <2>3, <2>4, <2>5
<1>12. ASSUME NEW r \in Request, RollbackAnswers(r) PROVE Flagging'
  BY <1>0, <1>c, <1>d, <1>12 DEF RollbackAnswers, Leave, Local, TypeOK, Unasked, Early, Held, Ready, Lasting
<1>13. ASSUME NEW r \in Request, RollbackRaises(r) PROVE Flagging'
  BY <1>0, <1>c, <1>d, <1>13 DEF RollbackRaises, Leave, Local, TypeOK, Unasked, Early, Held, Ready, Lasting
<1>14. ASSUME NEW r \in Request, Finish(r) PROVE Flagging'
  <2>0. /\ pc[r] = "finish" /\ owner \in {None, r} /\ owner' = r
        /\ UNCHANGED <<order, loaded, iplan, sapOrders>>
        /\ pc' = [pc EXCEPT ![r] = "close"]
    BY <1>14 DEF Finish, Lock, Leave, Remote
  <2>1. /\ \A q \in Request \ {r} : view'[q] = view[q]
        /\ view'[r].so = r /\ view'[r].r5 = Seen(r).r5
    BY <1>0, <1>14 DEF Finish, Write, TypeOK
  <2>2. kind.iplan => Seen(r) = view[r]
    BY <2>0 DEF Held, Seen
  <2>3. Kept(view[r])'
    BY <1>0, <1>a, <2>0, <2>1, <2>2 DEF Kept, Ready
  <2>4. kind.flow # "eo_upload" /\ order.r5 => view'[r].r5
    BY <2>0, <2>1 DEF Lasting, Seen
  <2>5. Unasked' /\ Held' /\ Ready'
    BY <1>0, <1>d, <2>0, <2>1 DEF Unasked, Early, Held, Ready, TypeOK
  <2>6. Lasting'
    BY <1>0, <2>0, <2>1, <2>4, NoneAssumption DEF Lasting
  <2> QED BY <1>0, <1>c, <2>0, <2>1, <2>3, <2>5, <2>6
<1>15. ASSUME NEW r \in Request, Close(r) PROVE Flagging'
  <2>0. /\ pc[r] = "close" /\ UNCHANGED <<view, loaded, iplan, sapOrders>>
        /\ pc' = [pc EXCEPT ![r] = "done"] /\ owner' = IF owner = r THEN None ELSE owner
    BY <1>15 DEF Close, Goto, Remote
  <2>1. order' = order \/ order' = view[r] \/ order'.status = "draft"
    BY <1>0, <1>15 DEF Close, Seen, TypeOK
  <2>2. kind.flow # "eo_upload" => order' = order \/ (owner = r /\ order' = view[r])
    BY <1>15 DEF Close, Seen
  <2>3. Kept(order)'
    BY <1>0, <1>b, <1>c, <1>i, <2>1 DEF Kept
  <2>4. kind.flow # "eo_upload" /\ order.r5 => order'.r5
    BY <2>2 DEF Lasting
  <2>5. Lasting'
    BY <1>0, <2>0, <2>2, <2>4, NoneAssumption DEF Lasting
  <2>6. Unasked' /\ Held' /\ Ready'
    BY <1>0, <1>d, <2>0 DEF Unasked, Early, Held, Ready, TypeOK
  <2> QED BY <1>0, <1>c, <2>0, <2>3, <2>5, <2>6
<1>16. ASSUME NEW r \in Request, Kill(r) PROVE Flagging'
  BY <1>0, <1>c, <1>d, <1>16 DEF Kill, Remote, TypeOK, Unasked, Early, Held, Ready, Lasting
<1> QED
  BY <1>1, <1>2, <1>3, <1>4, <1>5, <1>6, <1>7, <1>8,
     <1>9, <1>10, <1>11, <1>12, <1>13, <1>14, <1>15, <1>16 DEF Next, Step

(* A line of a received order that iPlan has not committed is under R5,    *)
(* whatever the caller and however many of them there are (confirm_i_plan, *)
(* update_attention_type_r5).                                              *)
THEOREM UncommittedHasFlag == Spec => []UncommittedIsFlagged
<1>1. Init => Flagging
  BY AgreementInit DEF Init, NewRow, Flagging, Unasked, Held, Ready, Lasting, Kept
<1>2. Flagging => UncommittedIsFlagged
  BY DEF Flagging, Kept, AllCommitted, UncommittedIsFlagged
<1> QED BY <1>1, <1>2, FlaggingStep, PTL DEF Spec
----------------------------------------------------------------------------
(* The submission of domestic orders.  A request that is past its first    *)
(* write and not yet at the end of its transaction holds the row; if it    *)
(* holds a received row, it has not changed it and goes no further than    *)
(* the guard; a sales order that is in SAP and not lost has made the       *)
(* committed row a received one.                                           *)
Busy(r) == pc[r] \notin {"new", "save", "done"}

Holds == \A r \in Request : Busy(r) => owner = r

Untouched == \A r \in Request :
    Busy(r) /\ order.status = "received" => pc[r] \in {"guard", "close"} /\ view[r] = order

Created == \A r \in sapOrders :
    /\ pc[r] \in {"confirm", "finish", "close", "done"}
    /\ pc[r] = "close" => Lost(r) \/ (result[r] = "success" /\ view[r].status = "received")
    /\ pc[r] = "done" => Lost(r) \/ order.status = "received"

Serial == /\ TypeOK
          /\ kind.flow = "domestic"
          /\ Holds
          /\ Untouched
          /\ Created
          /\ NoDuplicateOrder

(* A submission that holds the row is the only one under way: all others   *)
(* have not begun to write or are done.                                    *)
LEMMA Alone ==
    ASSUME Serial, NEW r \in Request, Busy(r)
    PROVE  /\ owner = r
           /\ \A q \in Request \ {r} : ~Busy(q)
           /\ \A q \in sapOrders \ {r} : /\ pc[q] = "done"
                                         /\ Lost(q) \/ order.status = "received"
<1>1. owner = r /\ \A q \in Request \ {r} : ~Busy(q)
  BY DEF Serial, Holds
<1>2. ASSUME NEW q \in sapOrders \ {r} PROVE pc[q] = "done" /\ (Lost(q) \/ order.status = "received")
  <2>1. q \in Request /\ ~Busy(q)
    BY <1>1 DEF Serial, TypeOK
  <2> QED BY <2>1 DEF Serial, Created, Busy
<1> QED BY <1>1, <1>2

(* A step of r between its first write and the end of its transaction.     *)
Inside(r) ==
    /\ Busy(r) /\ Busy(r)'
    /\ UNCHANGED <<kind, order, owner>>
    /\ \A q \in Request \ {r} : pc'[q] = pc[q] /\ result'[q] = result[q] /\ view'[q] = view[q]
    /\ order.status = "received" => pc'[r] = "close" /\ view'[r] = order
    /\ sapOrders \subseteq sapOrders' /\ sapOrders' \subseteq sapOrders \cup {r}
    /\ r \in sapOrders' =>
          /\ order.status = "draft"
          /\ \/ pc'[r] \in {"confirm", "finish"}
             \/ /\ pc'[r] = "close"
                /\ Lost(r)' \/ (result'[r] = "success" /\ view'[r].status = "received")

LEMMA InsideStep ==
    ASSUME Serial, TypeOK', NEW r \in Request, Inside(r)
    PROVE  Serial'
<1> USE DEF Inside
<1>1. /\ owner = r
      /\ \A q \in Request \ {r} : ~Busy(q)
      /\ \A q \in sapOrders \ {r} : pc[q] = "done" /\ (Lost(q) \/ order.status = "received")
  BY Alone
<1>2. \A q \in Request \ {r} : (Busy(q)' <=> Busy(q)) /\ (Lost(q)' <=> Lost(q))
  BY DEF Busy, Lost
<1>3. kind'.flow = "domestic" /\ Holds'
  BY <1>1, <1>2 DEF Serial, Holds
<1>4. Untouched'
  BY <1>1, <1>2 DEF Untouched
<1>5. ASSUME NEW q \in sapOrders' \ {r}
      PROVE  q \in Request \ {r} /\ pc'[q] = "done" /\ (Lost(q)' \/ order.status = "received")
  BY <1>1, <1>2 DEF Serial, TypeOK
<1>6. Created'
  BY <1>5 DEF Created
<1>7. NoDuplicateOrder'
  <2> SUFFICES ASSUME NEW q \in sapOrders', NEW v \in sapOrders', q # v
               PROVE  Lost(q)' \/ Lost(v)'
    BY DEF NoDuplicateOrder
  <2>1. CASE r \in {q, v}
    BY <1>5, <2>1
  <2>2. CASE r \notin {q, v}
    BY <1>2, <1>5, <2>2 DEF Serial, NoDuplicateOrder
  <2> QED BY <2>1, <2>2
<1> QED BY <1>3, <1>4, <1>6, <1>7 DEF Serial

(* The row lock taken by the first write makes the guard see the outcome   *)
(* of every earlier submission.                                            *)
LEMMA SerialStep == Serial /\ [Next]_vars => Serial'
<1> SUFFICES ASSUME Serial, [Next]_vars PROVE Serial'
  OBVIOUS
<1>0. TypeOK /\ TypeOK'
  BY TypeStep DEF Serial
<1>1. CASE UNCHANGED vars
  BY <1>0, <1>1 DEF vars, Serial, Holds, Busy, Untouched, Created, NoDuplicateOrder, Lost
<1>2. ASSUME NEW r \in Request, Load(r) PROVE Serial'
  <2>1. /\ pc[r] = "new" /\ pc' = [pc EXCEPT ![r] = "save"]
        /\ UNCHANGED <<kind, order, owner, view, result, sapOrders>>
    BY <1>2 DEF Load, Goto, Remote, Serial
  <2> QED BY <1>0, <2>1 DEF TypeOK, Serial, Holds, Busy, Untouched, Created, NoDuplicateOrder, Lost
<1>3. ASSUME NEW r \in Request, Save(r) PROVE Serial'
  <2>1. \A q \in Request : ~Busy(q)
    BY <1>3 DEF Save, Lock, Serial, Holds, Busy
  <2>2. /\ owner' = r /\ UNCHANGED <<kind, order, sapOrders>>
        /\ pc'[r] \in {"guard", "close"} /\ view'[r] = order /\ r \notin sapOrders
    BY <1>0, <1>3 DEF Save, Lock, Goto, Leave, Write, Remote, TypeOK, Serial, Created
  <2>3. \A q \in Request \ {r} : pc'[q] = pc[q] /\ result'[q] = result[q]
    BY <1>0, <1>3 DEF Save, Goto, Leave, TypeOK
  <2>4. \A q \in sapOrders : q \in Request \ {r} /\ (Lost(q)' <=> Lost(q)) /\ pc'[q] = pc[q]
    BY <1>0, <2>2, <2>3 DEF Lost, TypeOK
  <2>5. NoDuplicateOrder'
    BY <2>2, <2>4 DEF Serial, NoDuplicateOrder
  <2>6. Created'
    <3> SUFFICES ASSUME NEW q \in sapOrders
                 PROVE  pc[q] = "done" /\ (Lost(q) \/ order.status = "received")
      BY <2>2, <2>4 DEF Created
    <3> QED BY <2>1, <2>4 DEF Serial, Created, Busy
  <2>7. Holds' /\ Untouched'
    BY <1>0, <2>1, <2>2, <2>3 DEF Holds, Busy, Untouched, TypeOK
  <2> QED BY <1>0, <2>2, <2>5, <2>6, <2>7 DEF Serial
<1>4. ASSUME NEW r \in Request, Guard(r) PROVE Serial'
  <2>1. Inside(r)
    BY <1>0, <1>4 DEF Guard, Goto, Leave, Seen, Local, Remote, TypeOK, Row, Serial, Holds, Busy, Untouched,
       Created, Lost, Inside
  <2> QED BY <1>0, <2>1, InsideStep
<1>5. ASSUME NEW r \in Request, PlanAnswers(r) PROVE Serial'
  <2>1. Inside(r)
    <3>1. pc[r] = "plan" /\ order.status # "received" /\ r \notin sapOrders
      BY <1>5 DEF PlanAnswers, Serial, Untouched, Created, Busy
    <3>2. /\ UNCHANGED <<kind, order, owner, view, result, sapOrders>>
          /\ \E p \in {"accepted", "rejected", "short"} : pc' = [pc EXCEPT ![r] = p]
      BY <1>5 DEF PlanAnswers, Goto, Local
    <3> QED BY <1>0, <3>1, <3>2 DEF TypeOK, Busy, Inside
  <2> QED BY <1>0, <2>1, InsideStep
<1>6. ASSUME NEW r \in Request, PlanRaises(r) PROVE Serial'
  <2>0. PICK e \in {"invalid", "error"} : Leave(r, e)
    BY <1>6 DEF PlanRaises
  <2>1. Inside(r)
    <3>1. pc[r] = "plan" /\ order.status # "received" /\ r \notin sapOrders
      BY <1>6 DEF PlanRaises, Serial, Untouched, Created, Busy
    <3> QED BY <1>0, <1>6, <2>0, <3>1 DEF PlanRaises, Leave, Local, TypeOK, Busy, Inside
  <2> QED BY <1>0, <2>1, InsideStep
<1>7. ASSUME NEW r \in Request, WriteLines(r) PROVE Serial'
  <2>1. Inside(r)
    BY <1>0, <1>7 DEF WriteLines, Lock, Goto, Leave, Write, Seen, Remote, TypeOK, Row, Serial, Holds, Busy, Untouched,
       Created, Lost, Inside
  <2> QED BY <1>0, <2>1, InsideStep
<1>8. ASSUME NEW r \in Request, SapAnswers(r) PROVE Serial'
  <2>1. Inside(r)
    <3>1. pc[r] = "sap" /\ order.status = "draft" /\ r \notin sapOrders
      BY <1>0, <1>8 DEF SapAnswers, Serial, Untouched, Created, Busy, TypeOK, Row
    <3>2. /\ UNCHANGED <<kind, order, owner, view>>
          /\ \/ /\ sapOrders' = sapOrders \cup {r} /\ UNCHANGED result
                /\ \E p \in {"confirm", "finish"} : pc' = [pc EXCEPT ![r] = p]
             \/ /\ sapOrders' = sapOrders
                /\ \E p \in {"undo", "close"} : pc' = [pc EXCEPT ![r] = p]
                /\ \E res \in Outcome : result' = [result EXCEPT ![r] = res]
      <4>1. \E res \in Outcome : result = [result EXCEPT ![r] = res]
        BY <1>0 DEF TypeOK
      <4>2. "failure" \in Outcome
        BY DEF Outcome
      <4> QED BY <1>8, <4>1, <4>2 DEF SapAnswers, Goto, Leave, Local
    <3> QED BY <1>0, <3>1, <3>2 DEF TypeOK, Busy, Inside
  <2> QED BY <1>0, <2>1, InsideStep
<1>9. ASSUME NEW r \in Request, SapRaises(r) PROVE Serial'
  <2>1. Inside(r)
    <3>1. pc[r] = "sap" /\ order.status = "draft" /\ r \notin sapOrders
      BY <1>0, <1>9 DEF SapRaises, Serial, Untouched, Created, Busy, TypeOK, Row
    <3>2. PICK e \in {"invalid", "error"} :
              /\ UNCHANGED <<kind, order, owner, view>>
              /\ pc' = [pc EXCEPT ![r] = "close"] /\ result' = [result EXCEPT ![r] = e]
              /\ sapOrders' \in {sapOrders, sapOrders \cup {r}}
      BY <1>9 DEF SapRaises, Local, Serial
    <3> QED BY <1>0, <3>1, <3>2 DEF TypeOK, Busy, Lost, Inside
  <2> QED BY <1>0, <2>1, InsideStep
<1>10. ASSUME NEW r \in Request, CommitAnswers(r) PROVE Serial'
  <2>1. Inside(r)
    <3>1. pc[r] = "confirm" /\ order.status = "draft"
      BY <1>0, <1>10 DEF CommitAnswers, Serial, Untouched, Busy, TypeOK, Row
    <3>2. PICK row : Write(r, row)
      BY <1>10 DEF CommitAnswers
    <3> QED BY <1>0, <1>10, <3>1, <3>2 DEF CommitAnswers, Goto, Write, TypeOK, Busy, Lost, Inside
  <2> QED BY <1>0, <2>1, InsideStep
<1>11. ASSUME NEW r \in Request, CommitRaises(r) PROVE Serial'
  <2>1. Inside(r)
    <3>1. pc[r] = "confirm" /\ order.status = "draft"
      BY <1>0, <1>11 DEF CommitRaises, Serial, Untouched, Busy, TypeOK, Row
    <3>2. PICK row : Write(r, row)
      BY <1>11 DEF CommitRaises
    <3>3. PICK e \in {"invalid", "error"} : Leave(r, e)
      BY <1>11 DEF CommitRaises
    <3> QED BY <1>0, <1>11, <3>1, <3>2, <3>3 DEF CommitRaises, Leave, Write, TypeOK, Busy, Lost, Inside
  <2> QED BY <1>0, <2>1, InsideStep
<1>12. ASSUME NEW r \in Request, RollbackAnswers(r) PROVE Serial'
  <2>1. Inside(r)
    BY <1>0, <1>12 DEF RollbackAnswers, Leave, Local, TypeOK, Row, Serial, Holds, Busy, Untouched,
       Created, Lost, Inside
  <2> QED BY <1>0, <2>1, InsideStep
<1>13. ASSUME NEW r \in Request, RollbackRaises(r) PROVE Serial'
  <2>1. Inside(r)
    BY <1>0, <1>13 DEF RollbackRaises, Leave, Local, TypeOK, Row, Serial, Holds, Busy, Untouched,
       Created, Lost, Inside
  <2> QED BY <1>0, <2>1, InsideStep
<1>14. ASSUME NEW r \in Request, Finish(r) PROVE Serial'
  <2>1. Inside(r)
    <3>1. pc[r] = "finish" /\ owner = r /\ order.status = "draft"
      BY <1>0, <1>14 DEF Finish, Serial, Holds, Untouched, Busy, TypeOK, Row
    <3>2. PICK row : Write(r, row) /\ row.status = "received"
      BY <1>14 DEF Finish
    <3>3. Leave(r, "success") /\ UNCHANGED <<kind, order, owner, sapOrders>>
      BY <1>14, <3>1 DEF Finish, Lock, Remote
    <3> QED BY <1>0, <3>1, <3>2, <3>3 DEF Leave, Write, TypeOK, Busy, Inside
  <2> QED BY <1>0, <2>1, InsideStep
<1>15. ASSUME NEW r \in Request, Close(r) PROVE Serial'
  <2>1. Busy(r) /\ owner = r /\ \A q \in Request \ {r} : ~Busy(q)
    BY <1>15, Alone DEF Close, Busy
  <2>2. order.status = "received" => order' = order
    BY <1>15, <2>1 DEF Close, Seen, Serial, Untouched
  <2>3. r \in sapOrders => Lost(r) \/ order'.status = "received"
    BY <1>15, <2>1 DEF Close, Commits, Seen, Serial, Created
  <2> QED BY <1>0, <1>15, <2>1, <2>2, <2>3 DEF Close, Goto, Remote, TypeOK, Serial, Holds, Busy,
       Untouched, Created, NoDuplicateOrder, Lost
<1>16. ASSUME NEW r \in Request, Kill(r) PROVE Serial'
  BY <1>0, <1>16 DEF Kill, Remote, TypeOK, Serial, Holds, Busy, Untouched, Created,
     NoDuplicateOrder, Lost
<1> QED
  BY <1>1, <1>2, <1>3, <1>4, <1>5, <1>6, <1>7, <1>8,
     <1>9, <1>10, <1>11, <1>12, <1>13, <1>14, <1>15, <1>16 DEF Next, Step

(* Whatever number of submissions of a domestic order overlap, SAP gets a  *)
(* second sales order only after a lost outcome.                           *)
THEOREM OneSalesOrder == ASSUME Flows = {"domestic"} PROVE Spec => []NoDuplicateOrder
<1>1. Init => Serial
  BY DEF Init, NewRow, Serial, TypeOK, Holds, Busy, Untouched, Created, NoDuplicateOrder
<1>2. Serial => NoDuplicateOrder
  BY DEF Serial
<1> QED BY <1>1, <1>2, SerialStep, PTL DEF Spec

(* A domestic order that was received stays as it is.                      *)
THEOREM ReceivedForGood == ASSUME Flows = {"domestic"} PROVE Spec => NeverReopened
<1>1. Init => Serial
  BY DEF Init, NewRow, Serial, TypeOK, Holds, Busy, Untouched, Created, NoDuplicateOrder
<1>2. Serial /\ [Next]_vars => [order.status = "received" => order' = order]_vars
  <2> SUFFICES ASSUME Serial, Next, order.status = "received" PROVE order' = order
    BY DEF vars
  <2>1. ASSUME NEW r \in Request, Close(r) PROVE order' = order
    BY <2>1 DEF Close, Seen, Serial, Holds, Untouched, Busy
  <2> QED BY <2>1 DEF Next, Step, Load, Save, Guard, PlanAnswers, PlanRaises, WriteLines,
       SapAnswers, SapRaises, CommitAnswers, CommitRaises, RollbackAnswers, RollbackRaises,
       Finish, Kill, Local
<1> QED BY <1>1, <1>2, SerialStep, PTL DEF Spec, NeverReopened

----------------------------------------------------------------------------
(* contract_order_update implements Submission: with Agreement and Serial  *)
(* and what iPlan has reserved at each place (Staged), every step is a     *)
(* step of Submission or changes none of received, stock and sales.        *)
Nothing    == [l \in Line |-> "none"]
Everything == [l \in Line |-> "reserved"]

(* Nothing is reserved before iPlan is asked, and SAP is called with every *)
(* line reserved, or with none when the product group needs no iPlan.      *)
StagedAt(r) ==
    /\ pc[r] \in {"new", "save", "guard", "plan"} => iplan[r] = Nothing
    /\ pc[r] \in {"plan", "accepted"} => kind.iplan
    /\ pc[r] \in {"accepted", "confirm"} => iplan[r] = Everything
    /\ pc[r] = "sap" => iplan[r] = IF kind.iplan THEN Everything ELSE Nothing

Staged == \A r \in Request : StagedAt(r)

LEMMA MovesItself ==
    ASSUME TypeOK, NEW r \in Request, Load(r) \/ Step(r) \/ Kill(r),
           NEW q \in Request, q # r
    PROVE  pc'[q] = pc[q] /\ iplan'[q] = iplan[q]
<1> USE DEF TypeOK, Goto, Leave, Move, Local, Remote
<1>1. CASE Load(r) \/ Save(r) \/ Guard(r)
  BY <1>1 DEF Load, Save, Guard
<1>2. CASE PlanAnswers(r) \/ PlanRaises(r) \/ WriteLines(r)
  BY <1>2 DEF PlanAnswers, PlanRaises, WriteLines
<1>3. CASE SapAnswers(r) \/ SapRaises(r)
  BY <1>3 DEF SapAnswers, SapRaises
<1>4. CASE CommitAnswers(r)
  BY <1>4 DEF CommitAnswers
<1>5. CASE CommitRaises(r)
  BY <1>5 DEF CommitRaises
<1>6. CASE RollbackAnswers(r) \/ RollbackRaises(r)
  BY <1>6 DEF RollbackAnswers, RollbackRaises
<1>7. CASE Finish(r) \/ Close(r) \/ Kill(r)
  BY <1>7 DEF Finish, Close, Kill
<1> QED BY <1>1, <1>2, <1>3, <1>4, <1>5, <1>6, <1>7 DEF Step

LEMMA KindFixed == [Next]_vars => kind' = kind
  BY DEF Next, Step, Load, Save, Guard, PlanAnswers, PlanRaises, WriteLines, SapAnswers,
         SapRaises, CommitAnswers, CommitRaises, RollbackAnswers, RollbackRaises, Finish,
         Close, Kill, Local, vars

(* A plan that was accepted has reserved every line.                       *)
LEMMA AcceptedPlan ==
    ASSUME TypeOK, NEW r \in Request, PlanAnswers(r), iplan[r] = Nothing
    PROVE  \/ pc'[r] = "accepted" /\ iplan'[r] = Everything
           \/ pc'[r] \in {"rejected", "short"}
<1>1. PICK ok \in SUBSET Line :
        /\ Move(r, ok, "reserved")
        /\ \/ ok = Line /\ Goto(r, "accepted")
           \/ ok # Line /\ Goto(r, "rejected")
           \/ ok # Line /\ Goto(r, "short")
  BY DEF PlanAnswers
<1>2. CASE ok = Line
  <2>1. iplan'[r] = [l \in Line |-> IF l \in Line THEN "reserved" ELSE iplan[r][l]]
    BY <1>1, <1>2 DEF Move, TypeOK
  <2>2. iplan'[r] = Everything
    BY <2>1 DEF Everything
  <2> QED BY <1>1, <1>2, <2>2 DEF Goto, TypeOK
<1>3. CASE ok # Line
  BY <1>1, <1>3 DEF Goto, TypeOK
<1> QED BY <1>2, <1>3

LEMMA StagedStep == TypeOK /\ Staged /\ [Next]_vars => Staged'
<1> SUFFICES ASSUME TypeOK, Staged, [Next]_vars PROVE Staged'
  OBVIOUS
<1>0. kind' = kind
  BY KindFixed
<1>1. CASE UNCHANGED vars
  BY <1>1 DEF vars, Staged, StagedAt, Nothing, Everything
<1>2. ASSUME NEW r \in Request, Load(r) \/ Step(r) \/ Kill(r), NEW q \in Request, q # r
      PROVE  StagedAt(q)'
  BY <1>0, <1>2, MovesItself DEF Staged, StagedAt, Nothing, Everything
<1>3. ASSUME NEW r \in Request, Load(r) \/ Step(r) \/ Kill(r) PROVE StagedAt(r)'
  <2>0. StagedAt(r) /\ pc \in [Request -> Place]
    BY DEF Staged, TypeOK
  <2> USE <1>0, <2>0 DEF StagedAt, Nothing, Everything, Goto, Leave, Local, Remote
  <2>1. CASE Load(r) \/ Save(r)
    BY <2>1 DEF Load, Save
  <2>2. CASE Guard(r)
    BY <2>2 DEF Guard
  <2>3. CASE PlanAnswers(r)
    <3>1. pc[r] = "plan" /\ iplan[r] = Nothing
      BY <2>3 DEF PlanAnswers
    <3> QED BY <2>3, <3>1, AcceptedPlan
  <2>4. CASE WriteLines(r)
    BY <2>4 DEF WriteLines
  <2>5. CASE SapAnswers(r)
    BY <2>5 DEF SapAnswers
  <2>6. CASE PlanRaises(r) \/ SapRaises(r)
    BY <2>6 DEF PlanRaises, SapRaises
  <2>7. CASE CommitAnswers(r) \/ CommitRaises(r)
    BY <2>7 DEF CommitAnswers, CommitRaises
  <2>8. CASE RollbackAnswers(r) \/ RollbackRaises(r)
    BY <2>8 DEF RollbackAnswers, RollbackRaises
  <2>9. CASE Finish(r) \/ Close(r) \/ Kill(r)
    BY <2>9 DEF Finish, Close, Kill
  <2> QED BY <1>3, <2>1, <2>2, <2>3, <2>4, <2>5, <2>6, <2>7, <2>8, <2>9 DEF Step
<1> QED BY <1>1, <1>2, <1>3 DEF Next, Staged

----------------------------------------------------------------------------
Inv == Agreement /\ Serial /\ Staged

(* The moves iPlan makes are those of Submission.                          *)
LEMMA MoveSettles ==
    ASSUME TypeOK, NEW r \in Request, NEW s, NEW lines \in SUBSET Reserved(r), Move(r, lines, s)
    PROVE  \E some \in SUBSET {l \in Line : iplan[r][l] = "reserved"} :
              iplan' = [iplan EXCEPT ![r] = [l \in Line |-> IF l \in some THEN s ELSE @[l]]]
<1>1. lines \in SUBSET {l \in Line : iplan[r][l] = "reserved"}
  BY DEF Reserved
<1>2. iplan' = [iplan EXCEPT ![r] = [l \in Line |-> IF l \in lines THEN s ELSE @[l]]]
  BY DEF Move
<1>3. WITNESS lines \in SUBSET {l \in Line : iplan[r][l] = "reserved"}
<1> QED BY <1>2

(* A request that may reserve or create works on an order that has not     *)
(* been received.                                                          *)
LEMMA StillDraft ==
    ASSUME Inv, NEW r \in Request, pc[r] \in {"plan", "sap", "undo", "undoRaise"}
    PROVE  order.status # "received" /\ r \notin sapOrders
  BY DEF Inv, Serial, Untouched, Created, Busy

(* Every step of OrderCreate is a step of Submission or a stutter.         *)
Received == IF order.status = "received" THEN order.so ELSE None

LEMMA StepSimulation == Inv /\ [Next]_vars => [Abstract!Next]_<<Received, iplan, sapOrders>>
<1> SUFFICES ASSUME Inv, Next
             PROVE  Abstract!Next \/ UNCHANGED <<Received, iplan, sapOrders>>
  BY DEF vars, Received
<1> USE DEF Received
<1>0. TypeOK
  BY DEF Inv, Serial
<1>1. ASSUME NEW r \in Request, PlanAnswers(r) \/ PlanRaises(r) PROVE Abstract!Next
  <2>1. pc[r] = "plan" /\ UNCHANGED <<order, sapOrders>>
    BY <1>1 DEF PlanAnswers, PlanRaises, Local
  <2>2. order.status # "received" /\ r \notin sapOrders /\ iplan[r] = Nothing
    BY <2>1, StillDraft DEF Inv, Staged, StagedAt
  <2>3. PICK ok \in SUBSET Line : Move(r, ok, "reserved")
    BY <1>1 DEF PlanAnswers, PlanRaises
  <2>4. iplan' = [iplan EXCEPT ![r] = [l \in Line |-> IF l \in ok THEN "reserved" ELSE "none"]]
    <3>1. \A l \in Line : iplan[r][l] = "none"
      BY <2>2 DEF Nothing
    <3>2. [l \in Line |-> IF l \in ok THEN "reserved" ELSE iplan[r][l]]
            = [l \in Line |-> IF l \in ok THEN "reserved" ELSE "none"]
      BY <3>1
    <3> QED BY <2>3, <3>2 DEF Move
  <2>5. Abstract!Reserve(r)
    BY <2>1, <2>2, <2>4 DEF Abstract!Reserve, Abstract!Nothing, Nothing
  <2> QED BY <2>5 DEF Abstract!Next
<1>2. ASSUME NEW r \in Request, SapAnswers(r) \/ SapRaises(r)
      PROVE  Abstract!Next \/ UNCHANGED <<Received, iplan, sapOrders>>
  <2>1. pc[r] = "sap" /\ UNCHANGED <<order, iplan>> /\ sapOrders' \in {sapOrders, sapOrders \cup {r}}
    BY <1>2 DEF SapAnswers, SapRaises, Local
  <2>2. order.status # "received" /\ r \notin sapOrders /\ iplan[r] \in {Nothing, Everything}
    BY <2>1, StillDraft DEF Inv, Staged, StagedAt
  <2>3. CASE sapOrders' = sapOrders \cup {r}
    <3>1. Abstract!Accept(r)
      BY <2>1, <2>2, <2>3 DEF Abstract!Accept, Abstract!Nothing, Abstract!Everything,
         Nothing, Everything
    <3> QED BY <3>1 DEF Abstract!Next
  <2> QED BY <2>1, <2>3
<1>3. ASSUME NEW r \in Request, CommitAnswers(r) \/ CommitRaises(r) PROVE Abstract!Next
  <2>1. pc[r] = "confirm" /\ UNCHANGED <<order, sapOrders>>
    BY <1>3 DEF CommitAnswers, CommitRaises
  <2>2. r \in sapOrders /\ iplan[r] = Everything
    BY <2>1 DEF Inv, Agreement, Staged, StagedAt
  <2>3. PICK ok \in SUBSET Line : Move(r, ok, "committed")
    BY <1>3 DEF CommitAnswers, CommitRaises
  <2>4. ok \in SUBSET Reserved(r)
    BY <2>2, <2>3 DEF Reserved, Everything
  <2>5. Abstract!Commit(r)
    BY <1>0, <2>1, <2>2, <2>3, <2>4, MoveSettles DEF Abstract!Commit, Abstract!Settle
  <2> QED BY <2>5 DEF Abstract!Next
<1>4. ASSUME NEW r \in Request, RollbackAnswers(r) \/ RollbackRaises(r) PROVE Abstract!Next
  <2>1. pc[r] \in {"undo", "undoRaise"} /\ UNCHANGED <<order, sapOrders>>
    BY <1>4 DEF RollbackAnswers, RollbackRaises, Local
  <2>2. r \notin sapOrders
    BY <2>1, StillDraft
  <2>3. PICK ok \in SUBSET Reserved(r) : Move(r, ok, "released")
    BY <1>4 DEF RollbackAnswers, RollbackRaises
  <2>4. Abstract!Release(r)
    BY <1>0, <2>1, <2>2, <2>3, MoveSettles DEF Abstract!Release, Abstract!Settle
  <2> QED BY <2>4 DEF Abstract!Next
<1>5. ASSUME NEW r \in Request, Close(r)
      PROVE  Abstract!Next \/ UNCHANGED <<Received, iplan, sapOrders>>
  <2>1. UNCHANGED <<iplan, sapOrders>>
    BY <1>5 DEF Close, Remote
  <2>2. CASE order.status = "received"
    <3>1. order' = order
      BY <1>5, <2>2 DEF Close, Seen, Inv, Serial, Holds, Untouched, Busy
    <3> QED BY <2>1, <3>1
  <2>3. CASE order.status # "received" /\ order'.status = "received"
    <3>1. order' = view[r]
      BY <1>5, <2>3 DEF Close, Seen, Inv, Serial
    <3>2. order'.so \in sapOrders
      BY <2>3, <3>1 DEF Inv, Agreement, InSap
    <3>3. order'.so \in Request
      BY <1>0, <3>2 DEF TypeOK
    <3>4. Abstract!Receive(order'.so)
      BY <2>1, <2>3, <3>2 DEF Abstract!Receive
    <3> QED BY <3>3, <3>4 DEF Abstract!Next
  <2> QED BY <2>1, <2>2, <2>3
<1>6. ASSUME NEW r \in Request,
             Load(r) \/ Save(r) \/ Guard(r) \/ WriteLines(r) \/ Finish(r) \/ Kill(r)
      PROVE  UNCHANGED <<Received, iplan, sapOrders>>
  BY <1>6 DEF Load, Save, Guard, WriteLines, Finish, Kill, Local, Remote
<1> QED BY <1>1, <1>2, <1>3, <1>4, <1>5, <1>6 DEF Next, Step

(* contract_order_update keeps the promises of Submission: stock, sales    *)
(* order and the state of the order move together, whatever number of      *)
(* requests overlap, whatever is refused, raised or killed.                *)
THEOREM DomesticImplementsSubmission ==
    ASSUME Flows = {"domestic"} PROVE Spec => ImplementsSubmission
<1>1. Init => Inv
  <2>1. Init => Serial
    BY FlowAssumption, NoneAssumption DEF Init, NewRow, Serial, TypeOK, Holds, Busy,
       Untouched, Created, NoDuplicateOrder, Status, Row, Outcome, Place, LineState
  <2>2. Init => Staged
    BY DEF Init, Staged, StagedAt, Nothing
  <2> QED BY <2>1, <2>2, AgreementInit DEF Inv
<1>2. Inv /\ [Next]_vars => Inv'
  BY AgreementStep, SerialStep, StagedStep DEF Inv, Serial
<1>3. Init => Abstract!Init
  BY DEF Init, NewRow, Abstract!Init, Abstract!Nothing
<1> QED BY <1>1, <1>2, <1>3, StepSimulation, PTL DEF Spec, ImplementsSubmission, Abstract!Spec,
      Received
============================================================================
