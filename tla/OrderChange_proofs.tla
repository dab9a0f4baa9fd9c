------------------------- MODULE OrderChange_proofs -------------------------
(***************************************************************************)
(* Theorems of OrderChange, for any number of requests and lines:          *)
(*   - the types;                                                          *)
(*   - iPlan commits only what SAP has carried out, and a change that was  *)
(*     refused keeps nothing reserved (Reservations, Commitments);         *)
(*   - changes that share a line do not deadlock: from before ES21 until   *)
(*     its end a request holds the rows of all its lines (Locking);        *)
(*   - after such changes the lines in the database are those of SAP,      *)
(*     unless an outcome was lost (InStep);                                *)
(*   - when changes come one after the other, iPlan has what SAP has, or a *)
(*     flag says that it has not (Serial).                                 *)
(***************************************************************************)
EXTENDS OrderChange, TLAPS

USE KindAssumption, NoneAssumption DEF Version, Row, Place, Outcome

(* The helpers of the actions keep the types of what they write.           *)
LEMMA GotoTypes ==
    ASSUME TypeOK, NEW r \in Request, NEW p \in Place, Goto(r, p)
    PROVE  pc' \in [Request -> Place] /\ result' \in [Request -> Outcome]
  BY DEF TypeOK, Goto

LEMMA FinishTypes ==
    ASSUME TypeOK, NEW r \in Request, NEW res \in Outcome, Finish(r, res)
    PROVE  pc' \in [Request -> Place] /\ result' \in [Request -> Outcome]
  BY DEF TypeOK, Finish

LEMMA UndoTypes ==
    ASSUME TypeOK, NEW r \in Request, NEW res \in Outcome, Undo(r, res)
    PROVE  pc' \in [Request -> Place] /\ result' \in [Request -> Outcome]
  BY DEF TypeOK, Undo

LEMMA SetType ==
    ASSUME NEW f \in [Line -> Version], NEW lines, NEW v \in Version
    PROVE  Set(f, lines, v) \in [Line -> Version]
  BY DEF Set

LEMMA LockTypes ==
    ASSUME TypeOK, NEW r \in Request, NEW lines, Lock(r, lines)
    PROVE  owner' \in [Line -> Version]
  BY SetType DEF TypeOK, Lock

LEMMA FlaggedType ==
    ASSUME TypeOK, NEW lines
    PROVE  Flagged(lines) \in [Line -> Row]
  <1>1. ASSUME NEW l \in Line PROVE work[l] \in Row
    BY DEF TypeOK
  <1>2. ASSUME NEW l \in Line PROVE [work[l] EXCEPT !.r5 = TRUE] \in Row
    BY <1>1
  <1> QED BY <1>1, <1>2 DEF Flagged

LEMMA AcceptTypes ==
    ASSUME TypeOK, NEW r \in Request, Accept(r)
    PROVE  accepted' \subseteq Request /\ sap' \in [Line -> Version]
  BY SetType DEF TypeOK, Accept

LEMMA ReserveType == ASSUME NEW r \in Request PROVE Reserve(r) \subseteq Line
  BY DEF Reserve, Of

(* Every action keeps the types.                                           *)
LEMMA TypeStep == TypeOK /\ [Next]_vars => TypeOK'
<1> SUFFICES ASSUME TypeOK, [Next]_vars PROVE TypeOK'
  OBVIOUS
<1> USE DEF Remote, Local, Fixed, Locks
<1>1. CASE UNCHANGED vars
  BY <1>1 DEF vars, TypeOK
<1>2. ASSUME NEW r \in Request, Load(r) PROVE TypeOK'
  <2>1. pc' \in [Request -> Place] /\ result' \in [Request -> Outcome]
    BY <1>2, GotoTypes DEF Load
  <2>2. overlapped' \subseteq Request
    BY <1>2 DEF Load, TypeOK
  <2> QED BY <1>2, <2>1, <2>2 DEF Load, TypeOK
<1>3. ASSUME NEW r \in Request, Inquiry(r) PROVE TypeOK'
  <2>1. pc' \in [Request -> Place] /\ result' \in [Request -> Outcome]
    BY <1>3, GotoTypes, FinishTypes DEF Inquiry, AfterUpdate
  <2>2. owner' \in [Line -> Version]
    BY <1>3, LockTypes DEF Inquiry
  <2> QED BY <1>3, <2>1, <2>2 DEF Inquiry, TypeOK
<1>4. ASSUME NEW r \in Request, CallUpdate(r) PROVE TypeOK'
  <2>1. pc' \in [Request -> Place] /\ result' \in [Request -> Outcome]
    BY <1>4, GotoTypes, FinishTypes DEF CallUpdate, AfterUpdate
  <2>2. iplan' \in [Line -> Version]
    <3>1. PICK ok : iplan' = Set(iplan, ok, r)
      BY <1>4 DEF CallUpdate
    <3>2. iplan \in [Line -> Version] /\ r \in Version
      BY DEF TypeOK
    <3> QED BY <3>1, <3>2, SetType
  <2> QED BY <1>4, <2>1, <2>2 DEF CallUpdate, TypeOK
<1>5. ASSUME NEW r \in Request, CallReserve(r) PROVE TypeOK'
  <2>1. pc' \in [Request -> Place] /\ result' \in [Request -> Outcome]
    BY <1>5, GotoTypes, FinishTypes, UndoTypes DEF CallReserve
  <2>2. reserved' \in [Request -> SUBSET Line]
    BY <1>5, ReserveType DEF CallReserve, TypeOK
  <2> QED BY <1>5, <2>1, <2>2 DEF CallReserve, TypeOK
<1>6. ASSUME NEW r \in Request, Save(r) PROVE TypeOK'
  <2>1. pc' \in [Request -> Place] /\ result' \in [Request -> Outcome]
    BY <1>6, GotoTypes DEF Save
  <2>2. owner' \in [Line -> Version]
    BY <1>6, LockTypes DEF Save
  <2>3. work' \in [Line -> Row]
    BY <1>6 DEF Save, TypeOK
  <2> QED BY <1>6, <2>1, <2>2, <2>3 DEF Save, TypeOK
<1>7. ASSUME NEW r \in Request, CallEs21(r) PROVE TypeOK'
  <2>1. pc' \in [Request -> Place] /\ result' \in [Request -> Outcome]
    BY <1>7, GotoTypes, FinishTypes, UndoTypes DEF CallEs21
  <2>2. accepted' \subseteq Request /\ sap' \in [Line -> Version]
    <3>1. CASE Accept(r)
      BY <3>1, AcceptTypes
    <3>2. CASE UNCHANGED <<accepted, sap>>
      BY <3>2 DEF TypeOK
    <3> QED BY <1>7, <3>1, <3>2 DEF CallEs21
  <2>3. work' \in [Line -> Row] /\ marked' \subseteq Request
    <3>1. CASE UNCHANGED <<work, marked>>
      BY <3>1 DEF TypeOK
    <3>2. CASE work' = Flagged(Update(r)) /\ marked' = marked \cup {r}
      BY <3>2, FlaggedType DEF TypeOK
    <3> QED BY <1>7, <3>1, <3>2 DEF CallEs21
  <2> QED BY <1>7, <2>1, <2>2, <2>3 DEF CallEs21, TypeOK
<1>8. ASSUME NEW r \in Request, Es21Raises(r) PROVE TypeOK'
  <2>1. pc' \in [Request -> Place] /\ result' \in [Request -> Outcome]
    BY <1>8, FinishTypes, UndoTypes DEF Es21Raises
  <2>2. accepted' \subseteq Request /\ sap' \in [Line -> Version]
    <3>1. CASE Accept(r)
      BY <3>1, AcceptTypes
    <3>2. CASE UNCHANGED <<accepted, sap>>
      BY <3>2 DEF TypeOK
    <3> QED BY <1>8, <3>1, <3>2 DEF Es21Raises
  <2> QED BY <1>8, <2>1, <2>2 DEF Es21Raises, TypeOK
<1>9. ASSUME NEW r \in Request, Rollback(r) PROVE TypeOK'
  <2>1. pc' \in [Request -> Place] /\ result' \in [Request -> Outcome]
    BY <1>9, GotoTypes, FinishTypes DEF Rollback
  <2>2. reserved' \in [Request -> SUBSET Line]
    <3>1. \E left : reserved' = [reserved EXCEPT ![r] = left] /\ left \in SUBSET Line
      <4>1. reserved[r] \subseteq Line
        BY DEF TypeOK
      <4> QED BY <4>1, <1>9 DEF Rollback
    <3> QED BY <3>1 DEF TypeOK
  <2> QED BY <1>9, <2>1, <2>2 DEF Rollback, TypeOK
<1>10. ASSUME NEW r \in Request, Confirm(r) PROVE TypeOK'
  <2>1. pc' \in [Request -> Place] /\ result' \in [Request -> Outcome]
    BY <1>10, GotoTypes, FinishTypes DEF Confirm
  <2>2. iplan' \in [Line -> Version] /\ reserved' \in [Request -> SUBSET Line]
    <3>1. PICK bad \in SUBSET Reserve(r) :
            /\ iplan' = Set(iplan, Reserve(r) \ bad, r)
            /\ reserved' = [reserved EXCEPT ![r] = bad]
      BY <1>10 DEF Confirm
    <3>2. iplan' \in [Line -> Version]
      BY <3>1, SetType DEF TypeOK
    <3>3. reserved' \in [Request -> SUBSET Line]
      BY <3>1, ReserveType DEF TypeOK
    <3> QED BY <3>2, <3>3
  <2>3. work' \in [Line -> Row] /\ marked' \subseteq Request
    BY <1>10, FlaggedType DEF Confirm, TypeOK
  <2> QED BY <1>10, <2>1, <2>2, <2>3 DEF Confirm, TypeOK
<1>11. ASSUME NEW r \in Request, CallEs26(r) PROVE TypeOK'
  <2>1. pc' \in [Request -> Place] /\ result' \in [Request -> Outcome]
    BY <1>11, GotoTypes, FinishTypes DEF CallEs26
  <2>2. es26' \in [Request -> [Line -> Version]]
    <3>1. es26' = es26 \/ es26' = [es26 EXCEPT ![r] = sap]
      BY <1>11 DEF CallEs26
    <3>2. es26 \in [Request -> [Line -> Version]] /\ sap \in [Line -> Version]
      BY DEF TypeOK
    <3> QED BY <3>1, <3>2
  <2> QED BY <1>11, <2>1, <2>2 DEF CallEs26, TypeOK
<1>12. ASSUME NEW r \in Request, SyncOrder(r) PROVE TypeOK'
  <2>1. pc' \in [Request -> Place] /\ result' \in [Request -> Outcome]
    BY <1>12, GotoTypes DEF SyncOrder
  <2> QED BY <1>12, <2>1 DEF SyncOrder, TypeOK
<1>13. ASSUME NEW r \in Request, SyncLines(r) PROVE TypeOK'
  <2>1. pc' \in [Request -> Place] /\ result' \in [Request -> Outcome]
    BY <1>13, FinishTypes DEF SyncLines
  <2>2. owner' \in [Line -> Version]
    BY <1>13, LockTypes DEF SyncLines
  <2>3. ASSUME NEW l \in Line PROVE [work[l] EXCEPT !.ver = es26[r][l]] \in Row
    <3>1. work[l] \in Row /\ es26[r][l] \in Version
      BY DEF TypeOK
    <3> QED BY <3>1
  <2>4. work' \in [Line -> Row]
    BY <1>13, <2>3 DEF SyncLines
  <2> QED BY <1>13, <2>1, <2>2, <2>4 DEF SyncLines, TypeOK
<1>14. ASSUME NEW r \in Request, SyncRaises(r) \/ Victim(r) PROVE TypeOK'
  <2>1. pc' \in [Request -> Place] /\ result' \in [Request -> Outcome]
    BY <1>14, FinishTypes DEF SyncRaises, Victim
  <2> QED BY <1>14, <2>1 DEF SyncRaises, Victim, TypeOK
<1>15. ASSUME NEW r \in Request, Close(r) PROVE TypeOK'
  <2>1. pc' \in [Request -> Place] /\ result' \in [Request -> Outcome]
    BY <1>15, GotoTypes DEF Close
  <2>2. rows' \in [Line -> Row] /\ work' \in [Line -> Row]
    BY <1>15 DEF Close, EndTransaction, TypeOK
  <2>3. owner' \in [Line -> Version] /\ orderOwner' \in Version
    BY <1>15, SetType DEF Close, EndTransaction, TypeOK
  <2> QED BY <1>15, <2>1, <2>2, <2>3 DEF Close, TypeOK
<1>16. ASSUME NEW r \in Request, Kill(r) PROVE TypeOK'
  <2>1. pc' \in [Request -> Place] /\ result' \in [Request -> Outcome]
    BY <1>16, FinishTypes DEF Kill
  <2> QED BY <1>16, <2>1 DEF Kill, TypeOK
<1> QED
  BY <1>1, <1>2, <1>3, <1>4, <1>5, <1>6, <1>7, <1>8, <1>9, <1>10, <1>11, <1>12,
     <1>13, <1>14, <1>15, <1>16 DEF Next, Step

(* The type invariant of OrderChange: rows, copies of rows and the states  *)
(* of iPlan and SAP keep their types.                                      *)
THEOREM TypeCorrect == Spec => []TypeOK
<1>1. Init => TypeOK
  BY DEF Init, TypeOK, NewRows, NoVersion
<1> QED BY <1>1, TypeStep, PTL DEF Spec

----------------------------------------------------------------------------
(* A request moves only itself, and what it does with lines is settled     *)
(* from the start.                                                         *)
LEMMA KindFixed == [Next]_vars => kind' = kind
  BY DEF Next, Step, Load, Inquiry, CallUpdate, CallReserve, Save, CallEs21, Es21Raises,
         Rollback, Confirm, CallEs26, SyncOrder, SyncLines, SyncRaises, Victim, Close, Kill,
         Local, Fixed, vars

LEMMA MovesItself ==
    ASSUME TypeOK, NEW r \in Request, Load(r) \/ Step(r) \/ Kill(r),
           NEW q \in Request, q # r
    PROVE  pc'[q] = pc[q] /\ result'[q] = result[q] /\ reserved'[q] = reserved[q]
<1> USE DEF TypeOK, Goto, Finish, Undo, Local, Fixed, Remote
<1>1. CASE Load(r)
  BY <1>1 DEF Load
<1>2. CASE Inquiry(r) \/ CallUpdate(r) \/ CallReserve(r) \/ Save(r)
  BY <1>2 DEF Inquiry, CallUpdate, CallReserve, Save
<1>3. CASE CallEs21(r) \/ Es21Raises(r)
  BY <1>3 DEF CallEs21, Es21Raises
<1>4. CASE Rollback(r) \/ Confirm(r) \/ CallEs26(r)
  BY <1>4 DEF Rollback, Confirm, CallEs26
<1>5. CASE SyncOrder(r) \/ SyncLines(r) \/ SyncRaises(r) \/ Victim(r) \/ Close(r) \/ Kill(r)
  BY <1>5 DEF SyncOrder, SyncLines, SyncRaises, Victim, Close, Kill
<1> QED BY <1>1, <1>2, <1>3, <1>4, <1>5 DEF Step

(* The part of the invariant about reservations: only lines sent with      *)
(* YT-65156 are reserved, nothing is before the call, and nothing is after *)
(* a failure was reported.                                                 *)
Unreserved == {"new", "inquiry", "update", "reserve"}

ReservedBy(r) ==
    /\ reserved[r] \subseteq Reserve(r)
    /\ pc[r] \in Unreserved => reserved[r] = {}
    /\ pc[r] \in {"close", "done"} /\ result[r] = "failure" => reserved[r] = {}

Reservations == \A r \in Request : ReservedBy(r)

LEMMA ReservationsStep == TypeOK /\ Reservations /\ [Next]_vars => Reservations'
<1> SUFFICES ASSUME TypeOK, Reservations, [Next]_vars PROVE Reservations'
  OBVIOUS
<1>1. \A q \in Request : Reserve(q)' = Reserve(q)
  BY KindFixed DEF Reserve, Of
<1>2. CASE UNCHANGED vars
  BY <1>1, <1>2 DEF vars, Reservations, ReservedBy
<1>3. ASSUME NEW r \in Request, Load(r) \/ Step(r) \/ Kill(r), NEW q \in Request, q # r
      PROVE  ReservedBy(q)'
  BY <1>1, <1>3, MovesItself DEF Reservations, ReservedBy
<1>4. ASSUME NEW r \in Request, Load(r) \/ Step(r) \/ Kill(r) PROVE ReservedBy(r)'
  <2>0. /\ ReservedBy(r)
        /\ pc \in [Request -> Place] /\ result \in [Request -> Outcome]
        /\ reserved \in [Request -> SUBSET Line]
    BY DEF Reservations, TypeOK
  <2> USE <1>1, <2>0 DEF ReservedBy, Unreserved, Goto, Finish, Undo, Local, Fixed, Remote
  <2>1. CASE Load(r)
    BY <2>1 DEF Load
  <2>2. CASE Inquiry(r)
    BY <2>2 DEF Inquiry, AfterUpdate
  <2>3. CASE CallUpdate(r)
    BY <2>3 DEF CallUpdate, AfterUpdate
  <2>4. CASE CallReserve(r)
    BY <2>4 DEF CallReserve
  <2>5. CASE Save(r)
    BY <2>5 DEF Save
  <2>6. CASE CallEs21(r)
    BY <2>6 DEF CallEs21
  <2>7. CASE Es21Raises(r)
    BY <2>7 DEF Es21Raises
  <2>8. CASE Rollback(r)
    BY <2>8 DEF Rollback
  <2>9. CASE Confirm(r)
    BY <2>9 DEF Confirm
  <2>10. CASE CallEs26(r) \/ SyncOrder(r) \/ SyncLines(r)
    BY <2>10 DEF CallEs26, SyncOrder, SyncLines
  <2>11. CASE SyncRaises(r) \/ Victim(r) \/ Close(r) \/ Kill(r)
    BY <2>11 DEF SyncRaises, Victim, Close, Kill
  <2> QED BY <1>4, <2>1, <2>2, <2>3, <2>4, <2>5, <2>6, <2>7, <2>8, <2>9, <2>10, <2>11
          DEF Step
<1> QED BY <1>2, <1>3, <1>4 DEF Next, Reservations

(* A change that failed without an exception keeps nothing reserved in     *)
(* iPlan, for any number of changes of any lines.                          *)
THEOREM RefusedKeepsNothing == Spec => []FailureReleases
<1>1. Init => Reservations
  BY DEF Init, Reservations, ReservedBy
<1>2. Reservations => FailureReleases
  BY DEF Reservations, ReservedBy, FailureReleases
<1> QED BY <1>1, <1>2, TypeCorrect, ReservationsStep, PTL DEF Spec

----------------------------------------------------------------------------
(* The part of the invariant about commitments: a request asks iPlan to    *)
(* commit only after SAP carried it out.  A line is either updated         *)
(* (YT-65217) or reserved (YT-65156) by a request, so that the former,     *)
(* which comes before SAP, does not count.                                 *)
Commitments ==
    /\ \A r \in Request : pc[r] = "confirm" => r \in accepted
    /\ CommittedIsInSap

LEMMA SetValue ==
    ASSUME NEW f, NEW lines, NEW v, NEW l \in Line
    PROVE  Set(f, lines, v)[l] = (IF l \in lines THEN v ELSE f[l])
  BY DEF Set

(* A request comes to the commit only from ES21, which SAP then accepted.  *)
LEMMA ConfirmAfterAccept ==
    ASSUME TypeOK, Commitments, NEW r \in Request, Load(r) \/ Step(r) \/ Kill(r)
    PROVE  /\ accepted \subseteq accepted'
           /\ pc'[r] = "confirm" => r \in accepted'
<1>0. pc \in [Request -> Place] /\ result \in [Request -> Outcome]
  BY DEF TypeOK
<1> USE <1>0 DEF Goto, Finish, Undo, Local, Remote, Accept
<1>1. CASE Load(r) \/ Inquiry(r)
  BY <1>1 DEF Load, Inquiry, AfterUpdate
<1>2. CASE CallUpdate(r)
  BY <1>2 DEF CallUpdate, AfterUpdate
<1>3. CASE CallReserve(r) \/ Save(r)
  BY <1>3 DEF CallReserve, Save
<1>4. CASE CallEs21(r)
  BY <1>4 DEF CallEs21
<1>5. CASE Es21Raises(r)
  BY <1>5 DEF Es21Raises
<1>6. CASE Rollback(r) \/ Confirm(r) \/ CallEs26(r)
  BY <1>6 DEF Rollback, Confirm, CallEs26
<1>7. CASE SyncOrder(r) \/ SyncLines(r)
  BY <1>7 DEF SyncOrder, SyncLines
<1>8. CASE SyncRaises(r) \/ Victim(r) \/ Close(r) \/ Kill(r)
  BY <1>8 DEF SyncRaises, Victim, Close, Kill
<1> QED BY <1>1, <1>2, <1>3, <1>4, <1>5, <1>6, <1>7, <1>8 DEF Step

(* What a step writes in iPlan is an update or a commit of its own lines.  *)
LEMMA IPlanWritten ==
    ASSUME NEW r \in Request, Load(r) \/ Step(r) \/ Kill(r)
    PROVE  \/ iplan' = iplan
           \/ pc[r] = "update" /\ \E lines \in SUBSET Update(r) : iplan' = Set(iplan, lines, r)
           \/ pc[r] = "confirm" /\ \E lines \in SUBSET Reserve(r) : iplan' = Set(iplan, lines, r)
<1>1. CASE CallUpdate(r)
  BY <1>1 DEF CallUpdate
<1>2. CASE Confirm(r)
  BY <1>2 DEF Confirm
<1>3. CASE ~CallUpdate(r) /\ ~Confirm(r)
  BY <1>3 DEF Step, Load, Inquiry, CallReserve, Save, CallEs21, Es21Raises, Rollback,
              CallEs26, SyncOrder, SyncLines, SyncRaises, Victim, Close, Kill, Remote
<1> QED BY <1>1, <1>2, <1>3

LEMMA CommitmentsStep == TypeOK /\ Commitments /\ [Next]_vars => Commitments'
<1> SUFFICES ASSUME TypeOK, Commitments, [Next]_vars PROVE Commitments'
  OBVIOUS
<1>1. \A q \in Request : Reserve(q)' = Reserve(q)
  BY KindFixed DEF Reserve, Of
<1>2. CASE UNCHANGED vars
  BY <1>1, <1>2 DEF vars, Commitments, CommittedIsInSap
<1>3. ASSUME NEW r \in Request, Load(r) \/ Step(r) \/ Kill(r) PROVE Commitments'
  <2>1. accepted \subseteq accepted' /\ (pc'[r] = "confirm" => r \in accepted')
    BY <1>3, ConfirmAfterAccept
  <2>2. ASSUME NEW q \in Request, pc'[q] = "confirm" PROVE q \in accepted'
    BY <1>3, <2>1, <2>2, MovesItself DEF Commitments
  <2>3. ASSUME NEW l \in Line, NEW q \in Request, iplan'[l] = q, l \in Reserve(q)
        PROVE  q \in accepted'
    <3>1. CASE iplan[l] = q
      BY <2>1, <2>3, <3>1 DEF Commitments, CommittedIsInSap
    <3>2. CASE iplan[l] # q
      <4>1. PICK lines : /\ iplan' = Set(iplan, lines, r)
                         /\ lines \in SUBSET Update(r) \/ pc[r] = "confirm"
        BY <1>3, <2>3, <3>2, IPlanWritten
      <4>2. q = r /\ l \in lines
        BY <4>1, <2>3, <3>2, SetValue
      <4>3. l \notin Update(q)
        BY <2>3 DEF Update, Reserve, Of
      <4> QED BY <4>1, <4>2, <4>3, <2>1 DEF Commitments
    <3> QED BY <3>1, <3>2
  <2> QED BY <1>1, <2>2, <2>3 DEF Commitments, CommittedIsInSap
<1> QED BY <1>2, <1>3 DEF Next

(* Stock is committed in iPlan only for a change SAP has carried out.      *)
THEOREM CommittedOnlyIfAccepted == Spec => []CommittedIsInSap
<1>1. Init => Commitments
  BY DEF Init, Commitments, CommittedIsInSap, NoVersion
<1>2. Commitments => CommittedIsInSap
  BY DEF Commitments
<1> QED BY <1>1, <1>2, TypeCorrect, CommitmentsStep, PTL DEF Spec

----------------------------------------------------------------------------
(* The part of the invariant about locks: from the save before ES21 until  *)
(* it ends, a request that goes on to the order read from SAP holds the    *)
(* rows of all its lines.                                                  *)
Holding == {"es21", "confirm", "sync", "order", "write"}

HoldsInput(r) == pc[r] \in Holding => \A l \in Input(r) : owner[l] = r

Locking == \A r \in Request : HoldsInput(r)

(* A step takes only free rows, and gives back only its own.               *)
LEMMA KeepsOthersRows ==
    ASSUME TypeOK, NEW r \in Request, Load(r) \/ Step(r) \/ Kill(r),
           NEW q \in Request, q # r, NEW l \in Line, owner[l] = q
    PROVE  owner'[l] = q
<1>1. owner \in [Line -> Version]
  BY DEF TypeOK
<1>2. ASSUME NEW lines, Lock(r, lines) PROVE owner'[l] = q
  BY <1>2, SetValue DEF Lock
<1>3. CASE Inquiry(r) \/ Save(r) \/ SyncLines(r)
  BY <1>2, <1>3 DEF Inquiry, Save, SyncLines
<1>4. CASE Close(r)
  BY <1>4, SetValue DEF Close, EndTransaction, Held
<1>5. CASE ~(Inquiry(r) \/ Save(r) \/ SyncLines(r) \/ Close(r))
  BY <1>5 DEF Step, Load, CallUpdate, CallReserve, CallEs21, Es21Raises, Rollback, Confirm,
              CallEs26, SyncOrder, SyncRaises, Victim, Kill, Local, Locks
<1> QED BY <1>3, <1>4, <1>5

LEMMA LockingStep == TypeOK /\ Locking /\ [Next]_vars => Locking'
<1> SUFFICES ASSUME TypeOK, Locking, [Next]_vars PROVE Locking'
  OBVIOUS
<1>1. \A q \in Request : Input(q)' = Input(q) /\ Input(q) \subseteq Line
  BY KindFixed DEF Input, Of
<1>2. CASE UNCHANGED vars
  BY <1>1, <1>2 DEF vars, Locking, HoldsInput
<1>3. ASSUME NEW r \in Request, Load(r) \/ Step(r) \/ Kill(r), NEW q \in Request, q # r
      PROVE  HoldsInput(q)'
  BY <1>1, <1>3, MovesItself, KeepsOthersRows DEF Locking, HoldsInput
<1>4. ASSUME NEW r \in Request, Load(r) \/ Step(r) \/ Kill(r) PROVE HoldsInput(r)'
  <2>0. /\ HoldsInput(r)
        /\ pc \in [Request -> Place] /\ result \in [Request -> Outcome]
    BY DEF Locking, TypeOK
  <2> USE <1>1, <2>0 DEF HoldsInput, Holding, Goto, Finish, Undo, Local, Locks
  <2>1. CASE Load(r) \/ Inquiry(r)
    BY <2>1 DEF Load, Inquiry, AfterUpdate
  <2>2. CASE CallUpdate(r)
    BY <2>2 DEF CallUpdate, AfterUpdate
  <2>3. CASE CallReserve(r)
    BY <2>3 DEF CallReserve
  <2>4. CASE Save(r)
    BY <2>4, SetValue DEF Save, Lock
  <2>5. CASE CallEs21(r)
    BY <2>5 DEF CallEs21
  <2>6. CASE Es21Raises(r)
    BY <2>6 DEF Es21Raises
  <2>7. CASE Rollback(r)
    BY <2>7 DEF Rollback
  <2>8. CASE Confirm(r)
    BY <2>8 DEF Confirm
  <2>9. CASE CallEs26(r) \/ SyncOrder(r) \/ SyncLines(r)
    BY <2>9 DEF CallEs26, SyncOrder, SyncLines
  <2>10. CASE SyncRaises(r) \/ Victim(r) \/ Close(r) \/ Kill(r)
    BY <2>10 DEF SyncRaises, Victim, Close, Kill
  <2> QED BY <1>4, <2>1, <2>2, <2>3, <2>4, <2>5, <2>6, <2>7, <2>8, <2>9, <2>10 DEF Step
<1> QED BY <1>2, <1>3, <1>4 DEF Next, Locking

(* Changes that share a line never wait for each other's rows.             *)
THEOREM SharingNeverDeadlocks == Spec => []NoDeadlock
<1>1. Init => Locking
  BY DEF Init, Locking, HoldsInput, Holding
<1>2. Locking => NoDeadlock
  BY DEF Locking, HoldsInput, Holding, NoDeadlock, Deadlocked
<1> QED BY <1>1, <1>2, TypeCorrect, LockingStep, PTL DEF Spec
----------------------------------------------------------------------------
(* The lines in the database, for changes that all share a line.  Who is   *)
(* past ES21 holds the lines of its input, so no other request is there    *)
(* and what it reads with ES26 is what SAP still has when it stores it.    *)
Pending == \A r \in Request : /\ pc[r] \notin {"undo", "close", "done"} => result[r] = "pending"
                              /\ pc[r] = "undo" => result[r] \in {"failure", "error"}

(* A free row has been written by nobody, and a request changes the        *)
(* content of no row before it saves its input.                            *)
Copies    == \A l \in Line : owner[l] = None => work[l] = rows[l]
Unsaved   == {"new", "inquiry", "update", "reserve", "save"}
Unwritten == \A r \in Request : pc[r] \in Unsaved =>
                \A l \in Line : owner[l] = r => work[l].ver = rows[l].ver

Sharing   == \A q, r \in Request : Input(q) \cap Input(r) # {}
Fetched   == \A r \in Request : pc[r] \in {"order", "write"} => es26[r] = sap

(* At the end a successful request has either stored SAP's order or not    *)
(* changed any content.                                                    *)
Succeeds(r) == pc[r] = "close" /\ result[r] = "success"
Stored(r)   == Succeeds(r) /\ \A l \in Line : owner[l] = r /\ work[l].ver = sap[l]
Kept(r)     == \A l \in Line : owner[l] = r => work[l].ver = rows[l].ver
Closing     == \A r \in Request : Succeeds(r) => Stored(r) \/ Kept(r)

(* While nothing went wrong, the lines are those of SAP, or one request is *)
(* going to store them.                                                    *)
Trouble(r)  == result[r] \in {"unsynced", "unknown", "error", "killed"}
Late(r)     == pc[r] \in {"confirm", "sync", "order", "write"}
Following   == \/ \E r \in Request : Trouble(r) \/ Late(r) \/ Stored(r)
               \/ \A l \in Line : rows[l].ver = sap[l]

InStep == /\ TypeOK /\ Locking
          /\ Pending /\ Copies /\ Unwritten
          /\ Sharing => Fetched /\ Closing /\ Following

(* A step of r leaves alone the rows others hold, what they read from SAP, *)
(* and the copies of rows nobody takes.                                    *)
LEMMA WritesOwnRows ==
    ASSUME TypeOK, Locking, NEW r \in Request, Load(r) \/ Step(r) \/ Kill(r)
    PROVE  /\ \A l \in Line : owner[l] # r /\ owner'[l] # r => work'[l] = work[l] /\ rows'[l] = rows[l]
           /\ \A l \in Line : owner'[l] \in {owner[l], r, None}
           /\ \A l \in Line : owner'[l] # owner[l] => owner[l] \in {None, r}
           /\ \A q \in Request : q # r => es26'[q] = es26[q]
<1> USE DEF Local, Fixed, Locks, Remote
<1>1. CASE Load(r) \/ CallUpdate(r) \/ CallReserve(r) \/ Es21Raises(r) \/ Rollback(r)
           \/ SyncOrder(r) \/ SyncRaises(r) \/ Victim(r) \/ Kill(r)
  BY <1>1 DEF Load, CallUpdate, CallReserve, Es21Raises, Rollback, SyncOrder, SyncRaises, Victim, Kill
<1>2. CASE Inquiry(r)
  BY <1>2, SetValue DEF Inquiry, Lock
<1>3. CASE Save(r)
  BY <1>3, SetValue DEF Save, Lock
<1>4. CASE CallEs21(r) \/ Confirm(r)
  <2>1. \A l \in Input(r) : owner[l] = r
    BY <1>4 DEF Locking, HoldsInput, Holding, CallEs21, Confirm
  <2>2. ASSUME NEW lines, lines \subseteq Input(r), work' = Flagged(lines), NEW l \in Line, owner[l] # r
        PROVE  work'[l] = work[l]
    BY <2>1, <2>2 DEF Flagged
  <2>3. /\ Update(r) \subseteq Input(r) /\ Reserve(r) \subseteq Input(r) /\ Changed(r) \subseteq Input(r)
    BY DEF Update, Reserve, Changed, Input, Of
  <2>4. /\ UNCHANGED <<rows, owner, es26>>
        /\ work' = work \/ \E lines \in SUBSET Input(r) : work' = Flagged(lines)
    BY <1>4, <2>3 DEF CallEs21, Confirm
  <2> QED BY <2>2, <2>4
<1>5. CASE CallEs26(r)
  BY <1>5 DEF CallEs26, TypeOK
<1>6. CASE SyncLines(r)
  BY <1>6, SetValue DEF SyncLines, Lock
<1>7. CASE Close(r)
  BY <1>7, SetValue DEF Close, EndTransaction, Held
<1> QED BY <1>1, <1>2, <1>3, <1>4, <1>5, <1>6, <1>7 DEF Step

(* A request that ends badly keeps its outcome, and none is known before   *)
(* its end.                                                                *)
LEMMA OutcomeStays ==
    ASSUME TypeOK, Pending, NEW r \in Request, Load(r) \/ Step(r) \/ Kill(r)
    PROVE  Pending' /\ (Trouble(r) => Trouble(r)')
<1>0. pc \in [Request -> Place] /\ result \in [Request -> Outcome]
  BY DEF TypeOK
<1>1. \A q \in Request : q # r => pc'[q] = pc[q] /\ result'[q] = result[q]
  BY MovesItself
<1>2. SUFFICES /\ pc'[r] \notin {"undo", "close", "done"} => result'[r] = "pending"
               /\ pc'[r] = "undo" => result'[r] \in {"failure", "error"}
               /\ Trouble(r) => Trouble(r)'
  BY <1>1 DEF Pending
<1>3. /\ pc[r] \notin {"undo", "close", "done"} => result[r] = "pending"
      /\ pc[r] = "undo" => result[r] \in {"failure", "error"}
  BY DEF Pending
<1> USE <1>0, <1>3 DEF Trouble, Goto, Finish, Undo
<1>4. CASE Load(r) \/ Inquiry(r) \/ Save(r)
  BY <1>4 DEF Load, Inquiry, Save, AfterUpdate
<1>5. CASE CallUpdate(r) \/ CallReserve(r)
  BY <1>5 DEF CallUpdate, CallReserve, AfterUpdate
<1>6. CASE CallEs21(r)
  BY <1>6 DEF CallEs21
<1>7. CASE Es21Raises(r)
  BY <1>7 DEF Es21Raises
<1>8. CASE Rollback(r) \/ Confirm(r) \/ CallEs26(r)
  BY <1>8 DEF Rollback, Confirm, CallEs26
<1>9. CASE SyncOrder(r) \/ SyncLines(r) \/ SyncRaises(r)
  BY <1>9 DEF SyncOrder, SyncLines, SyncRaises
<1>10. CASE Victim(r)
  BY <1>10 DEF Victim, Deadlocked
<1>11. CASE Close(r) \/ Kill(r)
  BY <1>11 DEF Close, Kill
<1> QED BY <1>4, <1>5, <1>6, <1>7, <1>8, <1>9, <1>10, <1>11 DEF Step

(* The content of rows, for each request on its own.                       *)
LEMMA RowsStep ==
    ASSUME TypeOK, Locking, Copies, Unwritten, NEW r \in Request, Load(r) \/ Step(r) \/ Kill(r)
    PROVE  Copies' /\ Unwritten'
<1>0. /\ pc \in [Request -> Place] /\ owner \in [Line -> Version] /\ None \notin Request
      /\ \A q \in Request : q # r => pc'[q] = pc[q]
  BY MovesItself DEF TypeOK
<1>1. \A l \in Line : owner'[l] = None => work'[l] = rows'[l]
  <2>1. CASE Close(r)
    BY <1>0, <2>1, SetValue DEF Close, EndTransaction, Held, Copies
  <2>2. CASE ~Close(r)
    <3>1. \A l \in Line : owner[l] = r => owner'[l] = r
      BY <1>0, <2>2, SetValue DEF Step, Load, Inquiry, CallUpdate, CallReserve, Save, CallEs21,
         Es21Raises, Rollback, Confirm, CallEs26, SyncOrder, SyncLines, SyncRaises, Victim, Kill,
         Lock, Local, Locks
    <3> QED BY <1>0, <3>1, WritesOwnRows DEF Copies
  <2> QED BY <2>1, <2>2
<1>2. ASSUME NEW q \in Request, q # r, pc'[q] \in Unsaved, NEW l \in Line, owner'[l] = q
      PROVE  work'[l].ver = rows'[l].ver
  BY <1>0, <1>2, WritesOwnRows DEF Unwritten
<1>3. ASSUME pc'[r] \in Unsaved, NEW l \in Line, owner'[l] = r
      PROVE  work'[l].ver = rows'[l].ver
  <2>1. pc[r] \in Unsaved /\ UNCHANGED <<work, rows>>
    <3> USE <1>0, <1>3 DEF Unsaved, Goto, Finish, Undo, Local, Fixed
    <3>1. CASE Load(r) \/ Inquiry(r) \/ CallUpdate(r) \/ CallReserve(r)
      BY <3>1 DEF Load, Inquiry, CallUpdate, CallReserve
    <3>2. CASE Save(r) \/ CallEs21(r) \/ Es21Raises(r) \/ Rollback(r)
      BY <3>2 DEF Save, CallEs21, Es21Raises, Rollback
    <3>3. CASE Confirm(r) \/ CallEs26(r) \/ SyncOrder(r) \/ SyncLines(r) \/ SyncRaises(r)
      BY <3>3 DEF Confirm, CallEs26, SyncOrder, SyncLines, SyncRaises
    <3>4. CASE Victim(r) \/ Close(r) \/ Kill(r)
      BY <3>4 DEF Victim, Close, Kill
    <3> QED BY <3>1, <3>2, <3>3, <3>4 DEF Step
  <2>2. owner[l] \in {None, r}
    BY <1>3, WritesOwnRows
  <2> QED BY <2>1, <2>2 DEF Copies, Unwritten
<1> QED BY <1>1, <1>2, <1>3 DEF Copies, Unwritten

(* SAP changes only in ES21, whose caller holds the lines of its input.    *)
LEMMA OnlyEs21Changes ==
    ASSUME NEW r \in Request, Load(r) \/ Step(r) \/ Kill(r), sap' # sap
    PROVE  CallEs21(r) \/ Es21Raises(r)
  BY DEF Step, Load, Inquiry, CallUpdate, CallReserve, Save, Rollback, Confirm, CallEs26,
     SyncOrder, SyncLines, SyncRaises, Victim, Close, Kill, Local, Remote

(* A request that holds the lines of its input excludes the others, and a  *)
(* request that has stored SAP's order excludes it.                        *)
LEMMA NobodyElse ==
    ASSUME Locking, Sharing, NEW q \in Request, NEW r \in Request, pc[q] \in Holding,
           pc[r] \in Holding \/ Stored(r)
    PROVE  q = r
<1>1. PICK l \in Line : l \in Input(q) /\ l \in Input(r)
  BY DEF Sharing, Input
<1> QED BY <1>1 DEF Locking, HoldsInput, Stored

(* While all changes share a line, each step keeps the database in step    *)
(* with SAP.                                                               *)
LEMMA FollowingStep ==
    ASSUME TypeOK, Locking, Pending, Copies, Unwritten, Sharing, Fetched, Closing, Following,
           NEW r \in Request, Load(r) \/ Step(r) \/ Kill(r)
    PROVE  Fetched' /\ Closing' /\ Following'
<1>0. /\ pc \in [Request -> Place] /\ result \in [Request -> Outcome]
      /\ owner \in [Line -> Version] /\ es26 \in [Request -> [Line -> Version]]
      /\ work \in [Line -> Row] /\ rows \in [Line -> Row] /\ None \notin Request
  BY DEF TypeOK
<1>1. \A q \in Request : q # r => pc'[q] = pc[q] /\ result'[q] = result[q] /\ es26'[q] = es26[q]
  BY MovesItself, WritesOwnRows
(* What others are about to store stays right.                             *)
<1>2. ASSUME NEW q \in Request, q # r PROVE Fetched => (pc'[q] \in {"order", "write"} => es26'[q] = sap')
  <2>1. CASE sap' = sap
    BY <1>1, <1>2, <2>1 DEF Fetched
  <2>2. CASE sap' # sap
    BY <1>1, <1>2, <2>2, OnlyEs21Changes, NobodyElse DEF CallEs21, Es21Raises, Holding
  <2> QED BY <2>1, <2>2
<1>3. ASSUME NEW q \in Request, q # r PROVE Stored(q) => Stored(q)'
  <2>1. Stored(q) => sap' = sap
    BY <1>3, OnlyEs21Changes, NobodyElse DEF CallEs21, Es21Raises, Holding
  <2> QED BY <1>0, <1>1, <1>3, <2>1, WritesOwnRows DEF Stored, Succeeds
<1>4. ASSUME NEW q \in Request, q # r PROVE Kept(q) => Kept(q)'
  BY <1>0, <1>3, <1>4, WritesOwnRows DEF Kept
<1>5. ASSUME NEW q \in Request, q # r PROVE Succeeds(q)' => Stored(q)' \/ Kept(q)'
  BY <1>1, <1>3, <1>4, <1>5 DEF Closing, Succeeds
<1>6. ASSUME NEW q \in Request, q # r, Trouble(q) \/ Late(q) \/ Stored(q) PROVE Following'
  BY <1>1, <1>3, <1>6 DEF Following, Trouble, Late
<1>7. Trouble(r)' => Following'
  BY DEF Following
<1>8. Trouble(r) => Trouble(r)'
  BY OutcomeStays
<1>9. (\A l \in Line : rows[l].ver = sap[l]) /\ UNCHANGED <<rows, sap>> => Following'
  BY DEF Following
(* A step of r to a place that is not late, without a change in SAP or of  *)
(* the committed rows.                                                     *)
<1>10. ASSUME ~Late(r), ~Stored(r), UNCHANGED <<rows, sap>> PROVE Following'
  BY <1>6, <1>7, <1>8, <1>9, <1>10 DEF Following
<1>11. Late(r)' => Following'
  BY DEF Following
<1>g. ASSUME pc'[r] \in {"order", "write"} => es26'[r] = sap',
             Succeeds(r)' => Stored(r)' \/ Kept(r)',
             Following'
      PROVE  Fetched' /\ Closing' /\ Following'
  BY <1>2, <1>5, <1>g DEF Fetched, Closing
<1> USE <1>0 DEF Goto, Finish, Undo
<1>12. CASE Load(r)
  <2>1. pc[r] = "new" /\ pc'[r] = "inquiry" /\ UNCHANGED <<rows, sap>>
    BY <1>12 DEF Load, Remote
  <2> QED BY <1>10, <1>g, <2>1 DEF Late, Stored, Succeeds
<1>13. CASE Inquiry(r)
  <2>1. /\ pc[r] = "inquiry" /\ pc'[r] \in {"update", "reserve", "save", "close"}
        /\ UNCHANGED <<rows, sap, work>>
    BY <1>13 DEF Inquiry, AfterUpdate, Fixed, Remote
  <2>2. Kept(r)'
    <3>1. ASSUME NEW l \in Line, owner'[l] = r PROVE work'[l].ver = rows'[l].ver
      BY <2>1, <3>1, WritesOwnRows DEF Copies, Unwritten, Unsaved
    <3> QED BY <3>1 DEF Kept
  <2> QED BY <1>10, <1>g, <2>1, <2>2 DEF Late, Stored, Succeeds
<1>14. CASE CallUpdate(r) \/ CallReserve(r) \/ Save(r)
  <2>1. /\ pc[r] \in {"update", "reserve", "save"}
        /\ pc'[r] \notin {"order", "write"}
        /\ ~Succeeds(r)'
        /\ UNCHANGED <<rows, sap>>
    BY <1>14 DEF CallUpdate, CallReserve, Save, AfterUpdate, Local, Fixed, Remote, Succeeds
  <2> QED BY <1>10, <1>g, <2>1 DEF Late, Stored, Succeeds
<1>15. CASE CallEs21(r)
  <2>1. /\ pc[r] = "es21" /\ pc'[r] \in {"confirm", "sync", "undo", "close"} /\ ~Succeeds(r)'
        /\ pc'[r] \in {"confirm", "sync"} \/ sap' = sap
        /\ rows' = rows
    BY <1>15 DEF CallEs21, Fixed, Succeeds
  <2>2. Following'
    BY <1>10, <1>11, <2>1 DEF Late, Stored, Succeeds
  <2> QED BY <1>g, <2>1, <2>2
<1>16. CASE Es21Raises(r)
  <2>1. /\ pc'[r] \in {"undo", "close"} /\ Trouble(r)'
    BY <1>16 DEF Es21Raises, Trouble
  <2> QED BY <1>7, <1>g, <2>1 DEF Trouble, Succeeds
<1>17. CASE Rollback(r)
  <2>1. pc[r] = "undo" /\ pc'[r] = "close" /\ result'[r] \in {result[r], "error"} /\ UNCHANGED <<rows, sap>>
    BY <1>17 DEF Rollback, Local, Fixed
  <2>2. ~Succeeds(r)'
    BY <2>1 DEF Succeeds, Pending
  <2> QED BY <1>10, <1>g, <2>1, <2>2 DEF Late, Stored, Succeeds
<1>18. CASE Confirm(r)
  <2>1. pc'[r] = "sync" \/ (pc'[r] = "close" /\ result'[r] = "error")
    BY <1>18 DEF Confirm
  <2> QED BY <1>7, <1>11, <1>g, <2>1 DEF Trouble, Late, Succeeds
<1>19. CASE CallEs26(r)
  <2>1. \/ pc'[r] = "order" /\ es26'[r] = sap'
        \/ pc'[r] = "close" /\ result'[r] = "error"
    BY <1>19 DEF CallEs26, Remote
  <2> QED BY <1>7, <1>11, <1>g, <2>1 DEF Trouble, Late, Succeeds
<1>20. CASE SyncOrder(r)
  <2>1. pc[r] = "order" /\ pc'[r] = "write" /\ UNCHANGED <<es26, sap>>
    BY <1>20 DEF SyncOrder, Remote
  <2> QED BY <1>11, <1>g, <2>1 DEF Fetched, Late, Succeeds
<1>21. CASE SyncLines(r)
  <2>1. /\ pc[r] = "write" /\ pc'[r] = "close" /\ result'[r] = "success" /\ UNCHANGED <<es26, sap>>
        /\ work' = [l \in Line |-> [work[l] EXCEPT !.ver = es26[r][l]]]
        /\ \A l \in Line : owner'[l] = r
    BY <1>21, SetValue DEF SyncLines, Lock, Remote
  <2>2. \A l \in Line : work'[l].ver = sap[l]
    BY <2>1 DEF Fetched
  <2>3. Stored(r)'
    BY <2>1, <2>2 DEF Stored, Succeeds
  <2> QED BY <1>g, <2>1, <2>3 DEF Following
<1>22. CASE SyncRaises(r) \/ Victim(r) \/ Kill(r)
  <2>1. pc'[r] = "close" /\ result'[r] \in {"unsynced", "error", "killed"}
    BY <1>22 DEF SyncRaises, Victim, Kill
  <2> QED BY <1>7, <1>g, <2>1 DEF Trouble, Succeeds
<1>23. CASE Close(r)
  <2>1. pc[r] = "close" /\ pc'[r] = "done" /\ result'[r] = result[r] /\ sap' = sap
    BY <1>23 DEF Close, Remote
  <2>2. rows' = [l \in Line |-> IF owner[l] = r /\ Commits(r) THEN work[l] ELSE rows[l]]
    BY <1>23 DEF Close, EndTransaction, Held
  <2>3. ASSUME Stored(r) PROVE Following'
    BY <2>1, <2>2, <2>3 DEF Stored, Succeeds, Commits, Following
  <2>4. ASSUME ~Stored(r) PROVE Following'
    <3>1. ASSUME Trouble(r) PROVE Following'
      BY <1>7, <1>8, <3>1
    <3>2. ASSUME ~Trouble(r) PROVE Following'
      <4>1. Commits(r) => Kept(r)
        BY <2>1, <2>4, <3>2 DEF Commits, Trouble, Closing, Succeeds
      <4>2. \A l \in Line : rows'[l].ver = rows[l].ver
        BY <2>2, <4>1 DEF Kept
      <4> QED BY <1>6, <2>1, <2>4, <3>2, <4>2 DEF Following, Late
    <3> QED BY <3>1, <3>2
  <2> QED BY <1>g, <2>1, <2>3, <2>4 DEF Succeeds
<1> QED BY <1>12, <1>13, <1>14, <1>15, <1>16, <1>17, <1>18, <1>19, <1>20, <1>21, <1>22, <1>23 DEF Step

(* The invariant is inductive.                                             *)
LEMMA InStepStep == InStep /\ [Next]_vars => InStep'
<1> SUFFICES ASSUME InStep, [Next]_vars PROVE InStep'
  OBVIOUS
<1>1. TypeOK' /\ Locking'
  BY TypeStep, LockingStep DEF InStep
<1>2. Sharing' <=> Sharing
  BY KindFixed DEF Sharing, Input, Of
<1>3. CASE UNCHANGED vars
  BY <1>1, <1>2, <1>3 DEF vars, InStep, Pending, Copies, Unwritten, Fetched, Closing, Following,
     Stored, Kept, Succeeds, Trouble, Late
<1>4. ASSUME NEW r \in Request, Load(r) \/ Step(r) \/ Kill(r) PROVE InStep'
  BY <1>1, <1>2, <1>4, OutcomeStays, RowsStep, FollowingStep DEF InStep
<1> QED BY <1>3, <1>4 DEF Next

(* When changes that share a line are over, and e-ordering knows what      *)
(* became of them, the order lines in the database are those of SAP        *)
(* (handle_order_lines_from_es26 at the end of ChangeOrderUpdate).         *)
THEOREM DatabaseFollowsSap == Spec => []DbFollowsSap
<1>0. Init => TypeOK
  BY DEF Init, TypeOK, NewRows, NoVersion
<1>1. Init => InStep
  BY <1>0 DEF Init, NewRows, NoVersion, InStep, Locking, HoldsInput, Holding, Pending, Copies, Unwritten,
     Fetched, Closing, Following, Succeeds
<1>2. InStep => DbFollowsSap
  <2> SUFFICES ASSUME InStep, Settled, Sharing PROVE \A l \in Line : rows[l].ver = sap[l]
    BY DEF DbFollowsSap, Sharing
  <2>1. \A r \in Request : ~Trouble(r) /\ ~Late(r) /\ ~Stored(r)
    <3> SUFFICES ASSUME NEW r \in Request PROVE ~Trouble(r) /\ ~Late(r) /\ ~Stored(r)
      OBVIOUS
    <3>1. pc[r] = "new" => result[r] = "pending"
      BY DEF InStep, Pending
    <3> QED BY <3>1 DEF Settled, Trouble, Late, Stored, Succeeds
  <2> QED BY <2>1 DEF InStep, Following
<1> QED BY <1>1, <1>2, InStepStep, PTL DEF Spec

----------------------------------------------------------------------------
(* iPlan follows SAP.  As long as changes come one after the other and     *)
(* none ends in trouble, one request at a time is between its start and    *)
(* its end, and what it has done so far follows from where it is.          *)
Calm      == overlapped = {} /\ \A q \in Request : ~Trouble(q)
Alone     == \A q, r \in Request : Started(q) /\ Started(r) => q = r

(* The lines it saves are those of the database, and so are their flags.   *)
Reread    == \A r \in Request : Started(r) => loaded[r] = rows
KeptFlags == \A l \in Line : rows[l].r5 => work[l].r5

Early     == {"new", "inquiry", "update", "reserve", "save", "es21"}
Course(r) ==
    /\ pc[r] \in Early => r \notin accepted
    /\ Late(r) => r \in accepted
    /\ pc[r] \in {"close", "done"} => result[r] # "pending"
    /\ result[r] = "failure" => r \notin accepted
    /\ result[r] = "success" => r \in accepted \/ Changed(r) = {}
    /\ pc[r] \in {"reserve", "save", "es21"} => \A l \in Update(r) : iplan[l] = r
    /\ Started(r) /\ r \in accepted => \A l \in Changed(r) : sap[l] = r

Written(l) == \A r \in Request :
    /\ iplan[l] = r => l \in Changed(r) /\ pc[r] # "new"
    /\ sap[l] = r => r \in accepted

(* A line SAP has changed is the same in iPlan or flagged; or the running  *)
(* request will commit it or has flagged it; or a request SAP has not      *)
(* carried out has changed it in iPlan.                                    *)
Underway(l, r) == /\ Started(r)
                  /\ \/ pc[r] = "confirm" /\ l \in Reserve(r)
                     \/ owner[l] = r /\ work[l].r5
Matched(l) == \A r \in Request :
    (sap[l] = r /\ l \in Update(r) \cup Reserve(r)) =>
        \/ iplan[l] = r
        \/ rows[l].r5
        \/ Underway(l, r)
        \/ iplan[l] # None /\ iplan[l] \notin accepted

OneByOne == /\ Alone /\ Reread /\ KeptFlags
            /\ \A r \in Request : Course(r)
            /\ \A l \in Line : Written(l) /\ Matched(l)

Serial == /\ TypeOK /\ Locking /\ Pending
          /\ Calm => OneByOne

LEMMA ChangedLines ==
    ASSUME NEW r \in Request
    PROVE  Update(r) \cup Reserve(r) \subseteq Changed(r) /\ Changed(r) \subseteq Input(r) /\ Input(r) \subseteq Line
  BY DEF Update, Reserve, Changed, Input, Of

LEMMA LinesFixed ==
    ASSUME [Next]_vars, NEW r \in Request
    PROVE  Update(r)' = Update(r) /\ Reserve(r)' = Reserve(r) /\ Changed(r)' = Changed(r)
  BY KindFixed DEF Update, Reserve, Changed, Of

(* SAP carries out only what a request asks it in ES21.                    *)
LEMMA SapWritten ==
    ASSUME NEW r \in Request, Load(r) \/ Step(r) \/ Kill(r)
    PROVE  \/ UNCHANGED <<sap, accepted>>
           \/ pc[r] = "es21" /\ Accept(r)
<1>1. CASE CallEs21(r) \/ Es21Raises(r)
  BY <1>1 DEF CallEs21, Es21Raises
<1>2. CASE ~CallEs21(r) /\ ~Es21Raises(r)
  BY <1>2 DEF Step, Load, Inquiry, CallUpdate, CallReserve, Save, Rollback, Confirm,
              CallEs26, SyncOrder, SyncLines, SyncRaises, Victim, Close, Kill, Remote, Local
<1> QED BY <1>1, <1>2

(* Only a start makes requests overlap, and trouble is never over.         *)
LEMMA CalmBefore ==
    ASSUME TypeOK, Pending, NEW r \in Request, Load(r) \/ Step(r) \/ Kill(r), Calm'
    PROVE  Calm
<1>1. overlapped \subseteq overlapped'
  BY DEF Step, Load, Inquiry, CallUpdate, CallReserve, Save, CallEs21, Es21Raises, Rollback, Confirm,
         CallEs26, SyncOrder, SyncLines, SyncRaises, Victim, Close, Kill, Fixed, Local
<1>2. ASSUME NEW q \in Request PROVE Trouble(q) => Trouble(q)'
  <2>1. CASE q = r
    BY <2>1, OutcomeStays
  <2>2. CASE q # r
    BY <2>2, MovesItself DEF Trouble
  <2> QED BY <2>1, <2>2
<1> QED BY <1>1, <1>2 DEF Calm

(* While it is calm, all others have not begun or are over.                *)
LEMMA OnlyOne ==
    ASSUME TypeOK, Alone, NEW r \in Request, Load(r) \/ Step(r) \/ Kill(r), Calm'
    PROVE  /\ \A q \in Request : q # r => ~Started(q) /\ ~Started(q)'
           /\ Alone'
<1>1. CASE Load(r)
  <2>1. \A q \in Request : q # r => ~Started(q)
    BY <1>1 DEF Load, Calm
  <2>2. \A q \in Request : q # r => ~Started(q)'
    BY <2>1, MovesItself DEF Started
  <2> QED BY <2>1, <2>2 DEF Alone
<1>2. CASE ~Load(r)
  <2>1. Started(r)
    BY <1>2 DEF Started, Step, Inquiry, CallUpdate, CallReserve, Save, CallEs21, Es21Raises, Rollback,
       Confirm, CallEs26, SyncOrder, SyncLines, SyncRaises, Victim, Deadlocked, Close, Kill
  <2> QED BY <2>1, MovesItself DEF Alone, Started
<1> QED BY <1>1, <1>2 DEF Alone

(* The course of the running request.                                      *)
LEMMA CourseStep ==
    ASSUME TypeOK, Pending, Calm, Calm', NEW r \in Request, Course(r),
           \A l \in Line : Written(l), Load(r) \/ Step(r) \/ Kill(r)
    PROVE  Course(r)'
<1>0. /\ pc \in [Request -> Place] /\ result \in [Request -> Outcome]
      /\ accepted \subseteq Request
      /\ pc[r] \notin {"undo", "close", "done"} => result[r] = "pending"
      /\ pc[r] = "undo" => result[r] = "failure"
      /\ result'[r] \notin {"unsynced", "unknown", "error", "killed"}
  <2>1. ~Trouble(r) /\ ~Trouble(r)'
    BY DEF Calm
  <2> QED BY <2>1 DEF TypeOK, Pending, Trouble
<1>1. Update(r)' = Update(r) /\ Changed(r)' = Changed(r)
  BY LinesFixed DEF Next
<1>2. Update(r) \subseteq Line /\ Changed(r) \subseteq Line /\ Update(r) \subseteq Changed(r)
  BY ChangedLines
<1> USE <1>0, <1>1, <1>2 DEF Course, Early, Late, Started, Goto, Finish, Undo, Local, Fixed, Remote
<1>3. CASE Load(r)
  BY <1>3 DEF Load
<1>4. CASE Inquiry(r)
  BY <1>4 DEF Inquiry, AfterUpdate
<1>5. CASE CallUpdate(r)
  <2>1. PICK ok \in SUBSET Update(r) : iplan' = Set(iplan, ok, r) /\
          \/ ok = Update(r) /\ Goto(r, AfterUpdate(r))
          \/ ok # Update(r) /\ Finish(r, "failure")
          \/ Finish(r, "error")
    BY <1>5 DEF CallUpdate
  <2>2. UNCHANGED <<sap, accepted>> /\ pc[r] = "update"
    BY <1>5 DEF CallUpdate
  <2>3. ASSUME ok = Update(r) PROVE \A l \in Update(r) : iplan'[l] = r
    BY <2>1, <2>3, SetValue
  <2> QED BY <2>1, <2>2, <2>3 DEF AfterUpdate
<1>6. CASE CallReserve(r) \/ Save(r)
  BY <1>6 DEF CallReserve, Save
<1>7. CASE CallEs21(r)
  <2>1. ASSUME Accept(r) PROVE r \in accepted' /\ \A l \in Changed(r) : sap'[l] = r
    BY <2>1, SetValue DEF Accept
  <2> QED BY <1>7, <2>1 DEF CallEs21
<1>8. CASE Es21Raises(r) \/ SyncRaises(r) \/ Victim(r) \/ Kill(r)
  BY <1>8 DEF Es21Raises, SyncRaises, Victim, Kill
<1>9. CASE Rollback(r)
  BY <1>9 DEF Rollback
<1>10. CASE Confirm(r)
  <2>1. /\ pc[r] = "confirm" /\ UNCHANGED <<sap, accepted>>
        /\ Goto(r, "sync") \/ Finish(r, "error")
    BY <1>10 DEF Confirm
  <2> QED BY <2>1
<1>11. CASE CallEs26(r)
  BY <1>11 DEF CallEs26
<1>12. CASE SyncOrder(r) \/ SyncLines(r) \/ Close(r)
  BY <1>12 DEF SyncOrder, SyncLines, Close
<1> QED BY <1>3, <1>4, <1>5, <1>6, <1>7, <1>8, <1>9, <1>10, <1>11, <1>12 DEF Step

(* The rows the running request is to save, and the flags.                 *)
LEMMA FlagsStep ==
    ASSUME TypeOK, Calm, Calm', Reread, KeptFlags, NEW r \in Request, Load(r) \/ Step(r) \/ Kill(r),
           \A q \in Request : q # r => ~Started(q)'
    PROVE  Reread' /\ KeptFlags'
<1>0. /\ pc \in [Request -> Place] /\ rows \in [Line -> Row] /\ work \in [Line -> Row]
      /\ loaded \in [Request -> [Line -> Row]]
  BY DEF TypeOK
<1>1. ASSUME Started(r)' PROVE loaded'[r] = rows'
  <2>1. CASE Load(r)
    BY <1>0, <2>1 DEF Load
  <2>2. CASE ~Load(r)
    <3>1. Started(r) /\ UNCHANGED <<loaded, rows>>
      BY <1>0, <1>1, <2>2 DEF Started, Step, Inquiry, CallUpdate, CallReserve, Save, CallEs21, Es21Raises,
         Rollback, Confirm, CallEs26, SyncOrder, SyncLines, SyncRaises, Victim, Deadlocked, Close, Kill,
         Goto, Local, Fixed
    <3> QED BY <3>1 DEF Reread
  <2> QED BY <2>1, <2>2
<1>2. ASSUME NEW lines, work' = Flagged(lines), rows' = rows PROVE KeptFlags'
  <2>1. ASSUME NEW l \in Line, rows[l].r5 PROVE work'[l].r5
    <3>1. work[l].r5 /\ work[l] \in Row
      BY <1>0, <2>1 DEF KeptFlags
    <3> QED BY <1>2, <3>1 DEF Flagged
  <2> QED BY <1>2, <2>1 DEF KeptFlags
<1>3. CASE Save(r)
  <2>1. loaded[r] = rows
    BY <1>3 DEF Save, Reread, Started
  <2> QED BY <1>1, <1>3, <2>1 DEF Save, Fixed, KeptFlags, Reread
<1>4. CASE CallEs21(r) \/ Confirm(r)
  <2>1. rows' = rows /\ (work' = work \/ \E lines : work' = Flagged(lines))
    BY <1>4 DEF CallEs21, Confirm, Fixed
  <2>2. KeptFlags'
    BY <1>2, <2>1 DEF KeptFlags
  <2> QED BY <1>1, <2>2 DEF Reread
<1>5. CASE SyncLines(r)
  <2>1. ASSUME NEW l \in Line PROVE work'[l].r5 = work[l].r5
    <3>1. work[l] \in Row
      BY <1>0
    <3> QED BY <1>5, <3>1 DEF SyncLines
  <2> QED BY <1>1, <1>5, <2>1 DEF SyncLines, Fixed, KeptFlags, Reread
<1>6. CASE Close(r)
  <2>1. ASSUME NEW l \in Line PROVE rows'[l] = work'[l] \/ (rows'[l] = rows[l] /\ work'[l] = work[l])
    BY <1>6 DEF Close, EndTransaction
  <2> QED BY <1>1, <2>1 DEF KeptFlags, Reread
<1>7. CASE ~(Save(r) \/ CallEs21(r) \/ Confirm(r) \/ SyncLines(r) \/ Close(r))
  <2>1. UNCHANGED <<rows, work>>
    BY <1>7 DEF Step, Load, Inquiry, CallUpdate, CallReserve, Es21Raises, Rollback, CallEs26,
       SyncOrder, SyncRaises, Victim, Kill, Local, Fixed
  <2> QED BY <1>1, <2>1 DEF KeptFlags, Reread
<1> QED BY <1>3, <1>4, <1>5, <1>6, <1>7

(* iPlan and SAP have only what requests have sent them.                   *)
LEMMA WrittenStep ==
    ASSUME TypeOK, NEW r \in Request, Load(r) \/ Step(r) \/ Kill(r), NEW l \in Line, Written(l)
    PROVE  Written(l)'
<1>0. pc \in [Request -> Place]
  BY DEF TypeOK
<1>1. \A q \in Request : Changed(q)' = Changed(q)
  BY LinesFixed DEF Next
<1>2. accepted \subseteq accepted'
  BY SapWritten DEF Accept
<1>3. pc'[r] # "new"
  BY <1>0 DEF Step, Load, Inquiry, CallUpdate, CallReserve, Save, CallEs21, Es21Raises, Rollback, Confirm,
     CallEs26, SyncOrder, SyncLines, SyncRaises, Victim, Deadlocked, Close, Kill, Goto, Finish, Undo, AfterUpdate
<1>4. ASSUME NEW q \in Request, iplan'[l] = q PROVE l \in Changed(q) /\ pc'[q] # "new"
  <2>1. CASE iplan'[l] = iplan[l]
    BY <1>3, <1>4, <2>1, MovesItself DEF Written
  <2>2. CASE iplan'[l] # iplan[l]
    <3>1. PICK lines \in SUBSET Changed(r) : iplan' = Set(iplan, lines, r)
      BY <2>2, IPlanWritten, ChangedLines
    <3> QED BY <1>3, <1>4, <2>2, <3>1, SetValue
  <2> QED BY <2>1, <2>2
<1>5. ASSUME NEW q \in Request, sap'[l] = q PROVE q \in accepted'
  BY <1>2, <1>5, SapWritten, SetValue DEF Written, Accept
<1> QED BY <1>1, <1>4, <1>5 DEF Written

(* A step that sends nothing and commits nothing.                          *)
LEMMA MatchedQuietly ==
    ASSUME NEW l \in Line, Matched(l), Written(l), NEW r \in Request, Load(r) \/ Step(r) \/ Kill(r),
           \A q \in Request : q # r => ~Started(q),
           UNCHANGED <<iplan, sap, accepted>>, rows'[l] = rows[l],
           r \in accepted /\ Underway(l, r) => Underway(l, r)'
    PROVE  Matched(l)'
<1>1. \A q \in Request : Update(q)' = Update(q) /\ Reserve(q)' = Reserve(q)
  BY LinesFixed DEF Next
<1>2. ASSUME NEW q \in Request, q # r PROVE ~Underway(l, q)
  BY <1>2 DEF Underway
<1> QED BY <1>1, <1>2 DEF Matched, Written

LEMMA MatchedStep ==
    ASSUME TypeOK, Locking, Pending, Calm, Calm', NEW r \in Request, Load(r) \/ Step(r) \/ Kill(r),
           Course(r), KeptFlags, \A q \in Request : q # r => ~Started(q),
           NEW l \in Line, Written(l), Matched(l)
    PROVE  Matched(l)'
<1>0. /\ pc \in [Request -> Place] /\ result \in [Request -> Outcome] /\ work \in [Line -> Row]
      /\ accepted \subseteq Request /\ owner \in [Line -> Version] /\ None \notin Request
      /\ iplan \in [Line -> Version] /\ sap \in [Line -> Version]
      /\ pc[r] \notin {"undo", "close", "done"} => result[r] = "pending"
      /\ pc[r] = "undo" => result[r] = "failure"
      /\ result[r] \notin {"unsynced", "unknown", "error", "killed"}
      /\ result'[r] \notin {"unsynced", "unknown", "error", "killed"}
  <2>1. ~Trouble(r) /\ ~Trouble(r)'
    BY DEF Calm
  <2> QED BY <2>1 DEF TypeOK, Pending, Trouble
<1>1. \A q \in Request : Update(q)' = Update(q) /\ Reserve(q)' = Reserve(q)
  BY LinesFixed DEF Next
<1>2. \A q \in Request : Update(q) \cup Reserve(q) \subseteq Changed(q) /\ Changed(q) \subseteq Input(q)
  BY ChangedLines
<1>3. pc[r] \in Holding => \A i \in Input(r) : owner[i] = r
  BY DEF Locking, HoldsInput
<1>4. ASSUME NEW q \in Request, q # r PROVE ~Underway(l, q)
  BY <1>4 DEF Underway
<1>5. CASE Load(r) \/ Inquiry(r) \/ CallReserve(r) \/ Save(r) \/ Rollback(r)
  <2>1. UNCHANGED <<iplan, sap, accepted, rows>>
    BY <1>5 DEF Load, Inquiry, CallReserve, Save, Rollback, Local, Fixed, Remote
  <2>2. r \notin accepted
    BY <1>0, <1>5 DEF Load, Inquiry, CallReserve, Save, Rollback, Course, Early
  <2> QED BY <2>1, <2>2, MatchedQuietly
<1>6. CASE CallEs26(r) \/ SyncOrder(r) \/ SyncLines(r)
  <2>1. /\ UNCHANGED <<iplan, sap, accepted, rows>>
        /\ pc[r] \in {"sync", "order", "write"} /\ Started(r)'
    BY <1>0, <1>6 DEF CallEs26, SyncOrder, SyncLines, Local, Fixed, Remote, Goto, Finish, Started
  <2>2. ASSUME owner[l] = r, work[l].r5 PROVE owner'[l] = r /\ work'[l].r5
    <3>1. CASE SyncLines(r)
      <4>1. work[l] \in Row
        BY <1>0
      <4> QED BY <2>2, <3>1, <4>1, SetValue DEF SyncLines, Lock
    <3>2. CASE CallEs26(r) \/ SyncOrder(r)
      BY <2>2, <3>2 DEF CallEs26, SyncOrder, Locks
    <3> QED BY <1>6, <3>1, <3>2
  <2>3. Underway(l, r) => Underway(l, r)'
    BY <2>1, <2>2 DEF Underway
  <2> QED BY <2>1, <2>3, MatchedQuietly
(* What iPlan changes at once comes from a request SAP has not seen.       *)
<1>7. CASE CallUpdate(r)
  <2>1. /\ UNCHANGED <<sap, accepted, rows>> /\ r \notin accepted
        /\ iplan'[l] = iplan[l] \/ iplan'[l] = r
    <3>1. PICK ok : iplan' = Set(iplan, ok, r)
      BY <1>7 DEF CallUpdate
    <3>2. UNCHANGED <<sap, accepted, rows>> /\ r \notin accepted
      BY <1>7 DEF CallUpdate, Local, Fixed, Course, Early
    <3> QED BY <3>1, <3>2, SetValue
  <2> QED BY <1>0, <1>1, <1>4, <2>1 DEF Matched, Written
(* SAP accepts: iPlan has the updates already and will have the rest.      *)
<1>8. CASE CallEs21(r)
  <2>1. /\ UNCHANGED <<iplan, rows>> /\ r \notin accepted /\ pc[r] = "es21"
        /\ \A i \in Update(r) : iplan[i] = r
    BY <1>8 DEF CallEs21, Fixed, Course, Early
  <2>2. CASE UNCHANGED <<sap, accepted>>
    BY <2>1, <2>2, MatchedQuietly
  <2>3. CASE /\ Accept(r)
             /\ Goto(r, IF Reserve(r) # {} THEN "confirm" ELSE "sync")
    <3>1. CASE l \in Changed(r)
      <4>1. sap'[l] = r /\ pc'[r] = IF Reserve(r) # {} THEN "confirm" ELSE "sync"
        BY <1>0, <2>3, <3>1, SetValue DEF Accept, Goto
      <4>2. l \in Reserve(r) => Underway(l, r)'
        BY <1>1, <4>1 DEF Underway, Started
      <4> QED BY <1>1, <2>1, <4>1, <4>2 DEF Matched
    <3>2. CASE l \notin Changed(r)
      <4>1. sap'[l] = sap[l] /\ accepted' = accepted \cup {r} /\ sap[l] # r /\ iplan[l] # r
        BY <2>1, <2>3, <3>2, SetValue DEF Accept, Written
      <4> QED BY <1>1, <1>4, <2>1, <4>1 DEF Matched
    <3> QED BY <3>1, <3>2
  <2> QED BY <1>8, <2>2, <2>3 DEF CallEs21
(* The commit: what iPlan refuses is flagged.                              *)
<1>9. CASE Confirm(r)
  <2>0. /\ UNCHANGED <<sap, accepted, owner, rows>> /\ pc[r] = "confirm" /\ r \in accepted
        /\ \A i \in Changed(r) : sap[i] = r /\ owner[i] = r
    BY <1>2, <1>3, <1>9 DEF Confirm, Fixed, Locks, Course, Late, Started, Holding
  <2>1. PICK bad \in SUBSET Reserve(r) :
          /\ iplan' = Set(iplan, Reserve(r) \ bad, r)
          /\ Goto(r, "sync")
          /\ \E lines \in {bad, Changed(r)} : work' = Flagged(lines)
    BY <1>0, <1>9 DEF Confirm, Finish
  <2>2. PICK lines \in {bad, Changed(r)} : work' = Flagged(lines)
    BY <2>1
  <2>3. Started(r)'
    BY <1>0, <2>1 DEF Goto, Started
  <2>4. CASE l \in bad
    <3>1. l \in lines /\ work[l] \in Row /\ l \in Changed(r)
      BY <1>0, <1>2, <2>1, <2>2, <2>4
    <3>2. work'[l].r5
      BY <2>2, <3>1 DEF Flagged
    <3>3. Underway(l, r)' /\ sap'[l] = r
      BY <2>0, <2>3, <3>1, <3>2 DEF Underway
    <3> QED BY <3>3 DEF Matched
  <2>5. CASE l \in Reserve(r) \ bad
    <3>1. iplan'[l] = r /\ sap'[l] = r
      BY <1>2, <2>0, <2>1, <2>5, SetValue
    <3> QED BY <3>1 DEF Matched
  <2>6. CASE l \notin Reserve(r)
    <3>1. iplan'[l] = iplan[l]
      BY <2>1, <2>6, SetValue
    <3>2. Underway(l, r) => Underway(l, r)'
      <4>1. ASSUME work[l].r5 PROVE work'[l].r5
        <5>1. work[l] \in Row
          BY <1>0
        <5> QED BY <2>2, <4>1, <5>1 DEF Flagged
      <4> QED BY <2>0, <2>3, <2>6, <4>1 DEF Underway
    <3> QED BY <1>1, <1>4, <2>0, <3>1, <3>2 DEF Matched
  <2> QED BY <2>4, <2>5, <2>6
(* The end: what SAP has carried out is committed with its flags.          *)
<1>10. CASE Close(r)
  <2>1. /\ UNCHANGED <<iplan, sap, accepted>> /\ pc[r] = "close"
        /\ rows'[l] = IF owner[l] = r /\ Commits(r) THEN work[l] ELSE rows[l]
    BY <1>10 DEF Close, EndTransaction, Held, Remote
  <2>2. rows[l].r5 => rows'[l].r5
    BY <2>1 DEF KeptFlags
  <2>3. ASSUME sap[l] = r, Underway(l, r) PROVE rows'[l].r5
    <3>1. result[r] = "success" /\ owner[l] = r /\ work[l].r5
      BY <1>0, <2>1, <2>3 DEF Written, Course, Underway
    <3> QED BY <2>1, <3>1 DEF Commits
  <2> QED BY <1>1, <1>4, <2>1, <2>2, <2>3 DEF Matched
<1>11. CASE Es21Raises(r) \/ SyncRaises(r) \/ Victim(r) \/ Kill(r)
  BY <1>0, <1>11 DEF Es21Raises, SyncRaises, Victim, Kill, Finish, Undo
<1> QED BY <1>5, <1>6, <1>7, <1>8, <1>9, <1>10, <1>11 DEF Step

(* The invariant is inductive.                                             *)
LEMMA SerialStep == Serial /\ [Next]_vars => Serial'
<1> SUFFICES ASSUME Serial, [Next]_vars PROVE Serial'
  OBVIOUS
<1>1. TypeOK' /\ Locking'
  BY TypeStep, LockingStep DEF Serial
<1>2. CASE UNCHANGED vars
  BY <1>1, <1>2, LinesFixed DEF vars, Serial, Pending, Calm, Trouble, OneByOne, Alone, Started, Reread, KeptFlags,
     Course, Late, Written, Matched, Underway
<1>3. ASSUME NEW r \in Request, Load(r) \/ Step(r) \/ Kill(r) PROVE Serial'
  <2>1. Pending'
    BY <1>3, OutcomeStays DEF Serial
  <2> SUFFICES ASSUME Calm' PROVE OneByOne'
    BY <1>1, <2>1 DEF Serial
  <2>2. Calm /\ OneByOne
    BY <1>3, CalmBefore DEF Serial
  <2>3. Alone' /\ \A q \in Request : q # r => ~Started(q) /\ ~Started(q)'
    BY <1>3, <2>2, OnlyOne DEF Serial, OneByOne
  <2>4. Reread' /\ KeptFlags'
    BY <1>3, <2>2, <2>3, FlagsStep DEF Serial, OneByOne
  <2>5. Course(r)'
    BY <1>3, <2>2, CourseStep DEF Serial, OneByOne
  <2>6. ASSUME NEW q \in Request, q # r PROVE Course(q)'
    <3>1. pc'[q] = pc[q] /\ result'[q] = result[q] /\ pc[q] \in {"new", "done"} /\ ~Started(q)'
      BY <1>3, <2>3, <2>6, MovesItself DEF Started, Serial
    <3>2. q \in accepted' <=> q \in accepted
      BY <1>3, <2>6, SapWritten DEF Accept
    <3>3. Changed(q)' = Changed(q)
      BY LinesFixed
    <3> QED BY <2>2, <3>1, <3>2, <3>3 DEF OneByOne, Course, Late, Started
  <2>7. ASSUME NEW l \in Line PROVE Written(l)' /\ Matched(l)'
    BY <1>3, <2>2, <2>3, WrittenStep, MatchedStep DEF Serial, OneByOne
  <2> QED BY <2>3, <2>4, <2>5, <2>6, <2>7 DEF OneByOne
<1> QED BY <1>2, <1>3 DEF Next

(* After changes that came one by one and of which e-ordering knows what   *)
(* became, a line that SAP changed with iPlan's help is the same in iPlan, *)
(* or shows R5, or was changed there by an update that failed later        *)
(* (perform_mutation of ChangeOrderUpdate).                                *)
THEOREM StockFollowsSap == Spec => []IPlanFollowsSap
<1>0. Init => TypeOK
  BY DEF Init, TypeOK, NewRows, NoVersion
<1>1. Init => Serial
  BY <1>0 DEF Init, NewRows, NoVersion, Serial, Locking, HoldsInput, Holding, Pending, OneByOne, Alone, Started,
     Reread, KeptFlags, Course, Late, Written, Matched
<1>2. Serial => IPlanFollowsSap
  <2> SUFFICES ASSUME Serial, Settled, overlapped = {}, NEW l \in Line, NEW r \in Request,
                      sap[l] = r, l \in Update(r) \cup Reserve(r)
               PROVE  iplan[l] = r \/ rows[l].r5 \/ (iplan[l] # None /\ result[iplan[l]] = "failure")
    BY DEF IPlanFollowsSap, Agrees
  <2>1. ASSUME NEW q \in Request PROVE ~Trouble(q) /\ ~Started(q)
    <3>1. pc[q] = "new" => result[q] = "pending"
      BY DEF Serial, Pending
    <3> QED BY <3>1 DEF Settled, Trouble, Started
  <2>2. OneByOne
    BY <2>1 DEF Serial, Calm
  <2>3. ASSUME iplan[l] # None, iplan[l] \notin accepted PROVE result[iplan[l]] = "failure"
    <3>1. iplan[l] \in Request /\ l \in Changed(iplan[l]) /\ pc[iplan[l]] # "new"
      BY <2>2, <2>3 DEF OneByOne, Written, Serial, TypeOK
    <3> QED BY <2>2, <2>3, <3>1 DEF Settled, OneByOne, Course
  <2> QED BY <2>1, <2>2, <2>3 DEF OneByOne, Matched, Underway
<1> QED BY <1>0, <1>1, <1>2, SerialStep, PTL DEF Spec
============================================================================
