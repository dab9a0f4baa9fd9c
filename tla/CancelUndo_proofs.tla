------------------------- MODULE CancelUndo_proofs -------------------------
(* Proofs about CancelUndo: whatever the number of requests and lines, a   *)
(* request that reports success has been carried out in SAP and in the     *)
(* database, the order has the status of its rows unless an exception      *)
(* named in OrderOfRows applies, and a line whose requests are over is the *)
(* same in all three places, or flagged.                                   *)
EXTENDS CancelUndo, TLAPS

----------------------------------------------------------------------------
(* The inductive invariant.                                                *)

(* A request that undoes does nothing else.                                *)
UndoAlone == \A r \in Request : Undoes(r) => \A l \in Line : wish[r][l] \in {"undo", "none"}

(* It never goes on with a line it was not asked about.                    *)
RowsAsked == \A r \in Request : rows[r] \subseteq Asked(r)

(* The status about to be committed is that of the rows to be committed.   *)
StatusFits ==
    \A r \in Request : pc[r] = "commit" /\ r \notin raced /\ "delete" \notin Wants(r)
        => found[r] = StatusOf(Written(r))

(* Nobody who is under way disagrees with a request outside crossed,       *)
Apart == \A r \in Running \ crossed : \A q \in Running \ {r} : ~Meets(r, q)

(* so its rows are there,                                                  *)
Here == \A r \in Running \ crossed : \A l \in Asked(r) : line[l] # "gone"

(* it goes on with all of them as long as nothing was refused,             *)
Whole == \A r \in Running \ crossed : reply[r] = "none" => rows[r] = Asked(r)

(* and what SAP has done for it stays done until its commit.               *)
Target(w) == IF w = "cancel" THEN "rejected" ELSE IF w = "delete" THEN "gone" ELSE "active"
InSap == \A r \in Running \ crossed : pc[r] \in {"confirm", "store", "commit"}
             => \A l \in rows[r] : sap[l] = Target(wish[r][l])

Harmony == Apart /\ Here /\ Whole /\ InSap

IInv == TypeOK /\ UndoAlone /\ RowsAsked /\ OrderOfRows /\ StatusFits /\ Harmony

----------------------------------------------------------------------------
LEMMA RuleType == ASSUME NEW S PROVE Rule(S) \in OrderStatus
BY DEF Rule, OrderStatus

LEMMA StatusType == ASSUME NEW t PROVE StatusOf(t) \in OrderStatus
BY RuleType DEF StatusOf

LEMMA WrittenType ==
    ASSUME TypeOK, NEW r \in Request
    PROVE  Written(r) \in [Line -> Present \cup {"gone"}]
BY DEF TypeOK, Written, Present, Production

LEMMA WishesType ==
    ASSUME NEW w \in Wishes
    PROVE  /\ w \in [Line -> {"cancel", "delete", "undo", "none"}]
           /\ (\E l \in Line : w[l] = "undo") => \A l \in Line : w[l] \in {"undo", "none"}
           /\ \A l \in Line : w[l] # "none" => line[l] \in Production \cup {"cancelled"}
BY DEF Wishes

(* What a step of a request leaves alone.                                  *)
Framed(r) ==
    /\ pc[r] \notin {"idle", "done"}
    /\ flow' = flow /\ special' = special /\ wish' = wish /\ crossed' = crossed
    /\ rows'[r] \subseteq rows[r]
    /\ \A q \in Request \ {r} : /\ pc'[q] = pc[q] /\ rows'[q] = rows[q]
                                /\ answer'[q] = answer[q] /\ found'[q] = found[q]
                                /\ reply'[q] = reply[q]

LEMMA StepIsFramed ==
    ASSUME TypeOK, NEW r \in Request, Step(r) \/ Raise(r)
    PROVE  Framed(r)
<1> USE DEF TypeOK, Framed, Goto, End, Given, Rest, Database, Outside
<1>1. CASE DeleteInIPlan(r)
  BY <1>1 DEF DeleteInIPlan
<1>2. CASE ReserveInIPlan(r)
  BY <1>2 DEF ReserveInIPlan
<1>3. CASE Prepare(r)
  BY <1>3 DEF Prepare
<1>4. CASE Accepted(r)
  BY <1>4 DEF Accepted
<1>5. CASE Refused(r)
  BY <1>5 DEF Refused
<1>6. CASE Unanswered(r)
  BY <1>6 DEF Unanswered
<1>7. CASE RollbackInIPlan(r)
  BY <1>7 DEF RollbackInIPlan
<1>8. CASE ConfirmInIPlan(r)
  BY <1>8 DEF ConfirmInIPlan
<1>9. CASE Flag(r)
  BY <1>9 DEF Flag
<1>10. CASE SaveRaises(r)
  BY <1>10 DEF SaveRaises
<1>11. CASE Store(r)
  BY <1>11 DEF Store
<1>12. CASE Commit(r)
  BY <1>12 DEF Commit
<1>13. CASE Raise(r)
  BY <1>13 DEF Raise, Running
<1> QED BY <1>1, <1>2, <1>3, <1>4, <1>5, <1>6, <1>7, <1>8, <1>9, <1>10, <1>11, <1>12, <1>13
        DEF Step

(* The only steps that write the database are Flag and Commit.             *)
LEMMA OnlyCommitWrites ==
    ASSUME NEW r \in Request, Step(r) \/ Raise(r)
    PROVE  Commit(r) \/ (line' = line /\ order' = order /\ stale' = stale)
<1> USE DEF Database
<1>1. CASE DeleteInIPlan(r) \/ ReserveInIPlan(r) \/ Prepare(r)
  BY <1>1 DEF DeleteInIPlan, ReserveInIPlan, Prepare
<1>2. CASE Accepted(r) \/ Refused(r) \/ Unanswered(r)
  BY <1>2 DEF Accepted, Refused, Unanswered
<1>3. CASE RollbackInIPlan(r) \/ ConfirmInIPlan(r)
  BY <1>3 DEF RollbackInIPlan, ConfirmInIPlan
<1>4. CASE Flag(r) \/ SaveRaises(r) \/ Store(r) \/ Raise(r)
  BY <1>4 DEF Flag, SaveRaises, Store, Raise
<1> QED BY <1>1, <1>2, <1>3, <1>4 DEF Step

----------------------------------------------------------------------------
(* The type invariant; that flags need rows rests on UndoAlone.            *)
LEMMA InitType == Init => TypeOK
<1> SUFFICES ASSUME Init PROVE TypeOK
  OBVIOUS
<1>1. order \in OrderStatus
  BY StatusType DEF Init
<1>2. special \subseteq Line
  BY DEF Init
<1>3. faults \in 0..MaxFault
  BY BoundAssumption DEF Init
<1> QED BY <1>1, <1>2, <1>3 DEF Init, TypeOK, Production, OrderStatus

LEMMA StartType ==
    ASSUME TypeOK, NEW r \in Request, Start(r)
    PROVE  TypeOK'
<1> PICK w \in Wishes : wish' = [wish EXCEPT ![r] = w]
  BY DEF Start
<1>1. w \in [Line -> {"cancel", "delete", "undo", "none"}]
  BY WishesType
<1>2. wish' \in [Request -> [Line -> {"cancel", "delete", "undo", "none"}]]
  BY <1>1 DEF TypeOK
<1>3. Asked(r)' \subseteq Line
  BY DEF Asked
<1>4. rows' \in [Request -> SUBSET Line] /\ found' \in [Request -> OrderStatus]
  BY <1>3 DEF Start, TypeOK
<1>5. First(Asked(r)') \in {"iplan", "es21"}
  BY DEF First
<1>6. pc' \in [Request -> {"idle", "iplan", "es21", "rollback", "confirm", "flag",
                           "store", "commit", "done"}]
  BY <1>5 DEF Start, Goto, TypeOK
<1>7. crossed' \subseteq Request
  BY DEF Start, TypeOK, Running
<1> QED BY <1>2, <1>4, <1>6, <1>7 DEF Start, TypeOK, Database, Outside

LEMMA CommitType ==
    ASSUME TypeOK, UndoAlone, NEW r \in Request, Commit(r)
    PROVE  TypeOK'
<1> USE DEF Commit, Given, Outside
<1>1. line' \in [Line -> Present \cup {"gone"}]
  BY WrittenType
<1>2. order' \in OrderStatus
  BY DEF TypeOK
<1>3. flagged' \subseteq {l \in Line : line'[l] # "gone"}
  <2> SUFFICES ASSUME NEW l \in flagged'
               PROVE  l \in Line /\ line'[l] # "gone"
    OBVIOUS
  <2>1. l \in flagged /\ l \in Line /\ line[l] # "gone"
    BY DEF TypeOK
  <2>2. line'[l] = Written(r)[l]
    OBVIOUS
  <2>3. CASE Undoes(r)
    <3>1. wish[r][l] \in {"undo", "none"}
      BY <2>1, <2>3 DEF UndoAlone
    <3>2. answer[r] # "gone"
      BY DEF TypeOK, Production
    <3> QED BY <2>1, <2>2, <3>1, <3>2 DEF Written
  <2>4. CASE ~Undoes(r)
    <3>1. l \notin rows[r]
      BY <2>4
    <3> QED BY <2>1, <2>2, <3>1 DEF Written
  <2> QED BY <2>1, <2>3, <2>4
<1>4. raced' \subseteq Request
  BY DEF TypeOK
<1>5. stale' \in BOOLEAN
  OBVIOUS
<1>6. /\ pc' \in [Request -> {"idle", "iplan", "es21", "rollback", "confirm", "flag",
                              "store", "commit", "done"}]
      /\ reply' \in [Request -> {"none", "ok", "failed", "error"}]
  BY DEF TypeOK, End, Goto
<1> QED BY <1>1, <1>2, <1>3, <1>4, <1>5, <1>6 DEF TypeOK

LEMMA StoreType ==
    ASSUME TypeOK, NEW r \in Request, Store(r)
    PROVE  TypeOK'
<1> USE DEF Store, Given, Outside, Database
<1>1. Decided(r) \in OrderStatus
  BY StatusType DEF Decided
<1>2. found' \in [Request -> OrderStatus]
  BY <1>1 DEF TypeOK
<1> QED BY <1>2 DEF TypeOK, Goto

LEMMA StepType ==
    ASSUME TypeOK, UndoAlone, NEW r \in Request, Step(r) \/ Raise(r)
    PROVE  TypeOK'
<1> USE DEF TypeOK, Goto, End, Given, Rest, Database, Outside, GiveUp
<1>1. CASE DeleteInIPlan(r)
  BY <1>1 DEF DeleteInIPlan, Told
<1>2. CASE ReserveInIPlan(r)
  <2>1. answer' \in [Request -> Production]
    <3>1. \/ UNCHANGED answer
          \/ answer' \in {[answer EXCEPT ![r] = s] : s \in Production}
      BY <1>2 DEF ReserveInIPlan
    <3>2. answer \in [Request -> Production]
      OBVIOUS
    <3> HIDE DEF TypeOK
    <3> QED BY <3>1, <3>2
  <2>2. iplan' \in [Line -> {"held", "reserved", "free"}]
    <3>1. \/ UNCHANGED iplan
          \/ \E l \in rows[r] : iplan' = [iplan EXCEPT ![l] = "reserved"]
      BY <1>2 DEF ReserveInIPlan
    <3> QED BY <3>1
  <2>3. /\ pc' \in [Request -> {"idle", "iplan", "es21", "rollback", "confirm", "flag",
                                "store", "commit", "done"}]
        /\ reply' \in [Request -> {"none", "ok", "failed", "error"}]
    BY <1>2 DEF ReserveInIPlan
  <2> QED BY <1>2, <2>1, <2>2, <2>3 DEF ReserveInIPlan
<1>3. CASE Prepare(r)
  BY <1>3 DEF Prepare
<1>4. CASE Accepted(r)
  BY <1>4 DEF Accepted, Carried
<1>5. CASE Refused(r)
  BY <1>5 DEF Refused, AfterRefusal
<1>6. CASE Unanswered(r)
  BY <1>6, BoundAssumption DEF Unanswered, Carried
<1>7. CASE RollbackInIPlan(r)
  BY <1>7, BoundAssumption DEF RollbackInIPlan
<1>8. CASE ConfirmInIPlan(r)
  BY <1>8 DEF ConfirmInIPlan
<1>9. CASE Flag(r)
  BY <1>9 DEF Flag, Flaggable, Exists
<1>10. CASE SaveRaises(r)
  BY <1>10 DEF SaveRaises, Asked
<1>13. CASE Raise(r)
  BY <1>13, BoundAssumption DEF Raise, Asked
<1> QED BY <1>1, <1>2, <1>3, <1>4, <1>5, <1>6, <1>7, <1>8, <1>9, <1>10, <1>13,
           StoreType, CommitType DEF Step

----------------------------------------------------------------------------
(* UndoAlone and RowsAsked depend on what the requests were given.         *)
LEMMA StepWishes ==
    ASSUME TypeOK, UndoAlone, RowsAsked, NEW r \in Request, Framed(r)
    PROVE  UndoAlone' /\ RowsAsked' /\ \A q \in Request : Asked(q)' = Asked(q) /\ Wants(q)' = Wants(q)
<1>1. \A q \in Request : Asked(q)' = Asked(q)
  BY DEF Framed, Asked
<1>2. \A q \in Request : Wants(q)' = Wants(q)
  BY DEF Framed, Asked, Wants
<1>3. UndoAlone'
  BY <1>2 DEF Framed, UndoAlone, Undoes
<1>4. RowsAsked'
  BY <1>1 DEF Framed, RowsAsked
<1> QED BY <1>1, <1>2, <1>3, <1>4

LEMMA StartWishes ==
    ASSUME TypeOK, UndoAlone, RowsAsked, NEW r \in Request, Start(r)
    PROVE  /\ UndoAlone' /\ RowsAsked'
           /\ rows'[r] = Asked(r)'
           /\ \A q \in Request \ {r} :
                 /\ wish'[q] = wish[q] /\ rows'[q] = rows[q] /\ found'[q] = found[q]
                 /\ pc'[q] = pc[q] /\ Asked(q)' = Asked(q) /\ Wants(q)' = Wants(q)
           /\ \A l \in Asked(r)' : line[l] # "gone"
<1> PICK w \in Wishes : wish' = [wish EXCEPT ![r] = w]
  BY DEF Start
<1>1. wish'[r] = w
  BY DEF TypeOK
<1>2. rows' = [rows EXCEPT ![r] = Asked(r)'] /\ found' = [found EXCEPT ![r] = order]
      /\ Goto(r, First(Asked(r)'))
  BY DEF Start
<1>3. rows'[r] = Asked(r)'
  BY <1>2 DEF TypeOK
<1>4. \A q \in Request \ {r} : /\ wish'[q] = wish[q] /\ rows'[q] = rows[q]
                               /\ found'[q] = found[q] /\ pc'[q] = pc[q]
  BY <1>2 DEF TypeOK, Goto
<1>5. \A q \in Request \ {r} : Asked(q)' = Asked(q)
  BY <1>4 DEF Asked
<1>6. \A q \in Request \ {r} : Wants(q)' = Wants(q)
  BY <1>4, <1>5 DEF Wants
<1>7. Undoes(r)' => \A l \in Line : wish'[r][l] \in {"undo", "none"}
  <2>1. Undoes(r)' => \E l \in Line : w[l] = "undo"
    BY <1>1 DEF Undoes, Wants, Asked
  <2> QED BY <1>1, <2>1, WishesType
<1>8. UndoAlone'
  BY <1>4, <1>6, <1>7 DEF UndoAlone, Undoes
<1>9. RowsAsked'
  BY <1>3, <1>4, <1>5 DEF RowsAsked
<1>10. \A l \in Asked(r)' : line[l] # "gone"
  BY <1>1, WishesType DEF Asked, Production
<1> QED BY <1>3, <1>4, <1>5, <1>6, <1>8, <1>9, <1>10

----------------------------------------------------------------------------
(* The status of the order.                                                *)
LEMMA SameWritten ==
    ASSUME NEW r, line' = line, flow' = flow, special' = special, rows'[r] = rows[r],
           wish'[r] = wish[r], answer'[r] = answer[r]
    PROVE  Written(r)' = Written(r)
<1>1. Undoes(r)' <=> Undoes(r)
  BY DEF Undoes, Wants, Asked
<1>2. Saves(r)' <=> Saves(r)
  BY <1>1 DEF Saves
<1> QED BY <1>2, Zenon DEF Written

LEMMA DecidedFits ==
    ASSUME NEW r \in Request, "delete" \notin Wants(r)
    PROVE  Decided(r) = StatusOf(Written(r))
<1>1. \A l \in Line : wish[r][l] # "delete"
  BY DEF Wants, Asked
<1>2. [l \in Line |-> IF wish[r][l] = "delete" THEN line[l] ELSE Written(r)[l]]
        = [l \in Line |-> Written(r)[l]]
  BY <1>1
<1>3. [l \in Line |-> Written(r)[l]] = Written(r)
  BY DEF Written
<1> QED BY <1>2, <1>3 DEF Decided

LEMMA OnlyStoreLeads ==
    ASSUME TypeOK, NEW r \in Request, Step(r) \/ Raise(r), pc'[r] = "commit"
    PROVE  Store(r)
<1> USE DEF TypeOK, Goto, End
<1>1. ~DeleteInIPlan(r) /\ ~ReserveInIPlan(r)
  BY DEF DeleteInIPlan, ReserveInIPlan
<1>2. ~Prepare(r) /\ ~SaveRaises(r) /\ ~Raise(r) /\ ~Commit(r)
  BY DEF Prepare, SaveRaises, Raise, Commit
<1>3. ~Accepted(r) /\ ~Refused(r)
  BY DEF Accepted, Refused, AfterRefusal
<1>4. ~Unanswered(r) /\ ~RollbackInIPlan(r)
  BY DEF Unanswered, RollbackInIPlan
<1>5. ~ConfirmInIPlan(r) /\ ~Flag(r)
  BY DEF ConfirmInIPlan, Flag
<1> QED BY <1>1, <1>2, <1>3, <1>4, <1>5 DEF Step

LEMMA StepStatus ==
    ASSUME TypeOK, StatusFits, OrderOfRows, UndoAlone, RowsAsked,
           NEW r \in Request, Step(r) \/ Raise(r)
    PROVE  StatusFits' /\ OrderOfRows'
<1>0. Framed(r)
  BY StepIsFramed
<1>1. CASE Commit(r)
  <2>1. OrderOfRows'
    <3>1. CASE r \in raced \/ "delete" \in Wants(r)
      BY <1>1, <3>1 DEF Commit, OrderOfRows
    <3>2. CASE ~(r \in raced \/ "delete" \in Wants(r))
      <4>1. found[r] = StatusOf(Written(r))
        BY <1>1, <3>2 DEF StatusFits, Commit
      <4>2. order' = StatusOf(Written(r)) /\ line' = Written(r)
        BY <1>1, <4>1 DEF Commit
      <4>3. StatusOf(line)' = StatusOf(line')
        BY DEF StatusOf
      <4>4. StatusOf(line') = StatusOf(Written(r))
        BY <4>2
      <4> QED BY <4>2, <4>3, <4>4 DEF OrderOfRows
    <3> QED BY <3>1, <3>2
  <2>2. ASSUME NEW q \in Request, pc'[q] = "commit", q \notin raced'
        PROVE  FALSE
    <3>1. q # r
      BY <1>1, <2>2 DEF Commit, End, Goto, TypeOK
    <3>2. pc[q] = "commit"
      BY <1>0, <2>2, <3>1 DEF Framed
    <3> QED BY <1>1, <2>2, <3>1, <3>2 DEF Commit
  <2>3. StatusFits'
    BY <2>2 DEF StatusFits
  <2> QED BY <2>1, <2>3
<1>2. CASE ~Commit(r)
  <2>1. line' = line /\ order' = order /\ stale' = stale
    BY <1>2, OnlyCommitWrites
  <2>2. OrderOfRows'
    BY <2>1 DEF OrderOfRows, StatusOf
  <2>3. ASSUME NEW q \in Request, pc'[q] = "commit", q \notin raced', "delete" \notin Wants(q)'
        PROVE  found'[q] = StatusOf(Written(q))'
    <3>0. Wants(q)' = Wants(q) /\ flow' = flow /\ special' = special /\ wish'[q] = wish[q]
      BY <1>0, StepWishes DEF Framed
    <3>1. CASE q # r
      <4>1. pc[q] = "commit" /\ found'[q] = found[q] /\ rows'[q] = rows[q] /\ answer'[q] = answer[q]
        BY <1>0, <2>3, <3>1 DEF Framed
      <4>2. q \notin raced
        <5>1. raced' = raced \/ raced' = raced \ {r}
          <6> USE DEF Rest
          <6>1. CASE Store(r)
            BY <6>1 DEF Store
          <6>2. CASE SaveRaises(r) \/ Flag(r) \/ Raise(r) \/ Prepare(r) \/ Refused(r)
            BY <6>2 DEF SaveRaises, Flag, Raise, Prepare, Refused
          <6>3. CASE DeleteInIPlan(r) \/ ReserveInIPlan(r)
            BY <6>3 DEF DeleteInIPlan, ReserveInIPlan
          <6>4. CASE Accepted(r) \/ Unanswered(r)
            BY <6>4 DEF Accepted, Unanswered
          <6>5. CASE RollbackInIPlan(r) \/ ConfirmInIPlan(r)
            BY <6>5 DEF RollbackInIPlan, ConfirmInIPlan
          <6> QED BY <1>2, <6>1, <6>2, <6>3, <6>4, <6>5 DEF Step
        <5> QED BY <2>3, <3>1, <5>1
      <4>3. found[q] = StatusOf(Written(q))
        BY <2>3, <3>0, <4>1, <4>2 DEF StatusFits
      <4>4. Written(q)' = Written(q)
        BY <2>1, <3>0, <4>1, SameWritten
      <4> QED BY <4>1, <4>3, <4>4 DEF StatusOf
    <3>2. CASE q = r
      <4>1. Store(r)
        BY <1>2, <2>3, <3>2, OnlyStoreLeads
      <4>2. found'[r] = Decided(r)
        BY <2>3, <3>0, <3>2, <4>1 DEF Store, Recomputes, TypeOK
      <4>3. Decided(r) = StatusOf(Written(r))
        BY <2>3, <3>0, <3>2, DecidedFits
      <4>4. rows'[r] = rows[r] /\ answer'[r] = answer[r]
        BY <4>1 DEF Store
      <4>5. Written(r)' = Written(r)
        BY <2>1, <3>0, <3>2, <4>4, SameWritten
      <4> QED BY <3>2, <4>2, <4>3, <4>5 DEF StatusOf
    <3> QED BY <3>1, <3>2
  <2>4. StatusFits'
    BY <2>3 DEF StatusFits
  <2> QED BY <2>2, <2>4
<1> QED BY <1>1, <1>2

LEMMA StartStatus ==
    ASSUME TypeOK, StatusFits, OrderOfRows, UndoAlone, RowsAsked, NEW r \in Request, Start(r)
    PROVE  StatusFits' /\ OrderOfRows'
<1>1. line' = line /\ order' = order /\ stale' = stale /\ flow' = flow /\ special' = special
      /\ answer' = answer /\ raced' = raced
  BY DEF Start, Database
<1>2. OrderOfRows'
  BY <1>1 DEF OrderOfRows, StatusOf
<1>3. ASSUME NEW q \in Request, pc'[q] = "commit", q \notin raced', "delete" \notin Wants(q)'
      PROVE  found'[q] = StatusOf(Written(q))'
  <2>1. q # r
    <3>1. pc'[r] \in {"iplan", "es21"}
      BY DEF Start, Goto, First, TypeOK
    <3> QED BY <1>3, <3>1
  <2>2. /\ wish'[q] = wish[q] /\ rows'[q] = rows[q] /\ found'[q] = found[q]
        /\ pc[q] = "commit" /\ Wants(q)' = Wants(q)
    BY <1>3, <2>1, StartWishes
  <2>3. found[q] = StatusOf(Written(q))
    BY <1>1, <1>3, <2>2 DEF StatusFits
  <2>4. Written(q)' = Written(q)
    BY <1>1, <2>2, SameWritten
  <2> QED BY <2>2, <2>3, <2>4 DEF StatusOf
<1>4. StatusFits'
  BY <1>3 DEF StatusFits
<1> QED BY <1>2, <1>4

----------------------------------------------------------------------------
(* Requests that get along.                                                *)
LEMMA StartHarmony ==
    ASSUME TypeOK, UndoAlone, RowsAsked, Harmony, NEW r \in Request, Start(r)
    PROVE  Harmony'
<1>1. /\ pc[r] = "idle" /\ line' = line /\ sap' = sap /\ reply' = reply
      /\ pc'[r] \in {"iplan", "es21"}
  BY DEF Start, Database, Outside, Goto, First, TypeOK
<1>2. \A q \in Request \ {r} :
         /\ wish'[q] = wish[q] /\ rows'[q] = rows[q] /\ pc'[q] = pc[q]
         /\ Asked(q)' = Asked(q) /\ Wants(q)' = Wants(q)
  BY StartWishes
<1>3. Running' = Running \cup {r} /\ r \notin Running
  BY <1>1, <1>2 DEF Running
<1>4. /\ crossed \subseteq crossed'
      /\ \A q \in Running : Meets(r, q)' => q \in crossed' /\ r \in crossed'
  BY DEF Start
<1>5. \A q \in Running : Meets(q, r)' <=> Meets(r, q)'
  BY DEF Meets
<1>6. \A p, q \in Running : Meets(p, q)' <=> Meets(p, q)
  BY <1>2, <1>3 DEF Meets, Running
<1>7. Apart'
  BY <1>3, <1>4, <1>5, <1>6 DEF Apart, Harmony
<1>8. Here'
  BY <1>1, <1>2, <1>3, <1>4, StartWishes DEF Here, Harmony, Running
<1>9. Whole'
  BY <1>1, <1>2, <1>3, <1>4, StartWishes DEF Whole, Harmony, Running
<1>10. InSap'
  <2>1. SUFFICES ASSUME NEW q \in Running' \ crossed', pc'[q] \in {"confirm", "store", "commit"},
                        NEW l \in rows'[q]
                 PROVE  sap'[l] = Target(wish'[q][l])
    BY DEF InSap, Target
  <2>2. q # r /\ q \in Running \ crossed /\ q \in Request
    BY <1>1, <1>3, <1>4, <2>1 DEF Running
  <2> QED BY <1>1, <1>2, <2>1, <2>2 DEF Harmony, InSap
<1> QED BY <1>7, <1>8, <1>9, <1>10 DEF Harmony

(* Two that get along about a line want the same of it.                    *)
LEMMA SameWish ==
    ASSUME TypeOK, NEW r \in Request, NEW q \in Request, ~Meets(r, q),
           NEW l \in Line, l \in Asked(r), l \in Asked(q)
    PROVE  wish[q][l] = wish[r][l] /\ wish[r][l] # "delete"
<1>1. PICK w \in {"cancel", "undo"} : Wants(r) = {w} /\ Wants(q) = {w}
  BY DEF Meets
<1>2. wish[r][l] \in Wants(r) /\ wish[q][l] \in Wants(q)
  BY DEF Wants
<1> QED BY <1>1, <1>2

LEMMA OtherMayChange ==
    ASSUME TypeOK, RowsAsked, Apart, NEW r \in Running, NEW q \in Running \ crossed, q # r,
           NEW l \in Line, l \in rows[r], l \in Asked(q)
    PROVE  wish[r][l] = wish[q][l] /\ wish[q][l] # "delete"
<1>1. r \in Request /\ q \in Request /\ ~Meets(q, r)
  BY DEF Running, Apart
<1>2. l \in Asked(r)
  BY <1>1 DEF RowsAsked
<1> QED BY <1>1, <1>2, SameWish

(* What a step does to the items in SAP.                                   *)
LEMMA SapChange ==
    ASSUME TypeOK, NEW r \in Request, Step(r) \/ Raise(r)
    PROVE  \/ sap' = sap
           \/ sap' = Carried(r) /\ rows' = rows /\ (Accepted(r) \/ pc'[r] \in {"flag", "done"})
<1> USE DEF Given, Rest, Database, Outside
<1>1. CASE DeleteInIPlan(r) \/ ReserveInIPlan(r) \/ Prepare(r)
  BY <1>1 DEF DeleteInIPlan, ReserveInIPlan, Prepare
<1>2. CASE Accepted(r)
  BY <1>2 DEF Accepted
<1>3. CASE Refused(r) \/ ConfirmInIPlan(r) \/ RollbackInIPlan(r)
  BY <1>3 DEF Refused, ConfirmInIPlan, RollbackInIPlan
<1>4. CASE Unanswered(r)
  BY <1>4 DEF Unanswered, Goto, TypeOK
<1>5. CASE Flag(r) \/ SaveRaises(r) \/ Store(r) \/ Commit(r) \/ Raise(r)
  BY <1>5 DEF Flag, SaveRaises, Store, Commit, Raise
<1> QED BY <1>1, <1>2, <1>3, <1>4, <1>5 DEF Step

LEMMA CarriedMeets ==
    ASSUME TypeOK, NEW r \in Request, NEW l \in rows[r]
    PROVE  Carried(r)[l] = Target(wish[r][l])
BY DEF Carried, Target, TypeOK

(* Who reaches the statements of the transaction has been in SAP, or has   *)
(* no line left.                                                           *)
LEMMA WayToStore ==
    ASSUME TypeOK, NEW r \in Request, Step(r) \/ Raise(r),
           pc'[r] \in {"confirm", "store", "commit"}
    PROVE  \/ Accepted(r) /\ sap' = Carried(r) /\ rows' = rows
           \/ rows'[r] = {}
           \/ pc[r] \in {"confirm", "store"} /\ sap' = sap /\ rows' = rows
<1> USE DEF TypeOK, Goto, End, Given, Rest, Database, Outside
<1>1. CASE DeleteInIPlan(r)
  BY <1>1 DEF DeleteInIPlan
<1>2. ~ReserveInIPlan(r)
  BY DEF ReserveInIPlan
<1>3. ~Prepare(r) /\ ~SaveRaises(r) /\ ~Raise(r) /\ ~Commit(r)
  BY DEF Prepare, SaveRaises, Raise, Commit
<1>4. CASE Accepted(r)
  BY <1>4 DEF Accepted
<1>5. ~Refused(r)
  BY DEF Refused, AfterRefusal
<1>6. ~Unanswered(r) /\ ~RollbackInIPlan(r)
  BY DEF Unanswered, RollbackInIPlan
<1>7. CASE ConfirmInIPlan(r)
  BY <1>7 DEF ConfirmInIPlan
<1>8. ~Flag(r)
  BY DEF Flag
<1>9. CASE Store(r)
  BY <1>9 DEF Store
<1> QED BY <1>1, <1>2, <1>3, <1>4, <1>5, <1>6, <1>7, <1>8, <1>9 DEF Step

LEMMA StepSap ==
    ASSUME TypeOK, UndoAlone, RowsAsked, Harmony, NEW r \in Request, Step(r) \/ Raise(r)
    PROVE  InSap'
<1>0. Framed(r)
  BY StepIsFramed
<1>1. SUFFICES ASSUME NEW q \in Running' \ crossed', pc'[q] \in {"confirm", "store", "commit"},
                      NEW l \in rows'[q]
               PROVE  sap'[l] = Target(wish'[q][l])
  BY DEF InSap, Target
<1>2. q \in Request /\ wish' = wish /\ q \notin crossed /\ r \in Running
  BY <1>0, <1>1 DEF Framed, Running
<1>3. CASE q = r
  <2>1. CASE Accepted(r) /\ sap' = Carried(r) /\ rows' = rows
    BY <1>1, <1>2, <1>3, <2>1, CarriedMeets
  <2>2. CASE rows'[r] = {}
    BY <1>1, <1>3, <2>2
  <2>3. CASE pc[r] \in {"confirm", "store"} /\ sap' = sap /\ rows' = rows
    BY <1>1, <1>2, <1>3, <2>3 DEF Harmony, InSap
  <2> QED BY <1>1, <1>3, <2>1, <2>2, <2>3, WayToStore
<1>4. CASE q # r
  <2>1. q \in Running /\ pc'[q] = pc[q] /\ rows'[q] = rows[q]
    BY <1>0, <1>1, <1>2, <1>4 DEF Framed, Running
  <2>2. sap[l] = Target(wish[q][l])
    BY <1>1, <1>2, <2>1 DEF Harmony, InSap
  <2>3. CASE sap' = sap
    BY <1>2, <2>2, <2>3
  <2>4. CASE sap' = Carried(r)
    <3>0. l \in Line /\ l \in Asked(q)
      BY <1>1, <1>2, <2>1 DEF TypeOK, RowsAsked
    <3>1. CASE l \in rows[r]
      <4>1. wish[r][l] = wish[q][l]
        BY <1>2, <1>4, <2>1, <3>0, <3>1, OtherMayChange DEF Harmony
      <4> QED BY <1>2, <2>4, <3>1, <4>1, CarriedMeets
    <3>2. CASE l \notin rows[r]
      <4>1. Carried(r)[l] = sap[l]
        BY <3>0, <3>2 DEF Carried
      <4> QED BY <1>2, <2>2, <2>4, <4>1
    <3> QED BY <3>1, <3>2
  <2> QED BY <2>3, <2>4, SapChange
<1> QED BY <1>3, <1>4

(* A step after which nothing has been refused leaves all rows in.         *)
LEMMA NothingLeftOut ==
    ASSUME TypeOK, RowsAsked, Harmony, NEW r \in Running \ crossed, r \in Request,
           Step(r) \/ Raise(r), reply'[r] = "none"
    PROVE  reply[r] = "none" /\ rows'[r] = rows[r]
<1>1. rows[r] \subseteq Exists
  BY DEF RowsAsked, Harmony, Here, Exists, Asked, TypeOK
<1> USE DEF TypeOK, Goto, End, Given, Rest, Database, Outside
<1>2. CASE DeleteInIPlan(r)
  <2>1. PICK refused \in SUBSET Line :
           /\ reply' = [reply EXCEPT ![r] = Told(r, refused)]
           /\ rows' = [rows EXCEPT ![r] =
                 IF flow = "domestic" THEN rows[r] \ refused
                 ELSE IF refused # (rows[r] \cap Exists) \ special THEN rows[r] \cap Exists
                      ELSE (rows[r] \cap Exists) \cap special]
    BY <1>2 DEF DeleteInIPlan
  <2>2. refused = {} /\ reply[r] = "none"
    BY <2>1 DEF Told
  <2> QED BY <1>1, <2>1, <2>2
<1>3. CASE ReserveInIPlan(r)
  BY <1>3 DEF ReserveInIPlan
<1>4. ~Prepare(r) /\ ~SaveRaises(r) /\ ~Raise(r) /\ ~Commit(r)
  BY DEF Prepare, SaveRaises, Raise, Commit
<1>5. CASE Accepted(r)
  BY <1>5 DEF Accepted
<1>6. ~Refused(r) /\ ~Unanswered(r)
  BY DEF Refused, Unanswered
<1>7. CASE RollbackInIPlan(r) \/ ConfirmInIPlan(r)
  BY <1>7 DEF RollbackInIPlan, ConfirmInIPlan
<1>8. CASE Flag(r) \/ Store(r)
  BY <1>8 DEF Flag, Store
<1> QED BY <1>2, <1>3, <1>4, <1>5, <1>6, <1>7, <1>8 DEF Step

LEMMA StepHarmony ==
    ASSUME TypeOK, UndoAlone, RowsAsked, Harmony, NEW r \in Request, Step(r) \/ Raise(r)
    PROVE  Harmony'
<1>0. Framed(r)
  BY StepIsFramed
<1>1. /\ Running' \subseteq Running /\ r \in Running /\ crossed' = crossed /\ wish' = wish
      /\ \A q \in Request : Asked(q)' = Asked(q) /\ Wants(q)' = Wants(q)
  BY <1>0, StepWishes DEF Framed, Running
<1>2. Apart'
  BY <1>1 DEF Harmony, Apart, Meets, Running
<1>3. Here'
  <2>1. SUFFICES ASSUME NEW q \in Running' \ crossed', NEW l \in Asked(q)', line'[l] = "gone"
                 PROVE  FALSE
    BY DEF Here
  <2>2. q \in Running \ crossed /\ l \in Asked(q) /\ q \in Request /\ l \in Line
    BY <1>1, <2>1 DEF Running, Asked
  <2>3. line[l] # "gone"
    BY <2>2 DEF Harmony, Here
  <2>4. Commit(r)
    BY <2>1, <2>3, OnlyCommitWrites
  <2>5. q # r
    BY <2>1, <2>4 DEF Commit, End, Goto, Running, TypeOK
  <2>6. Written(r)[l] = "gone"
    BY <2>1, <2>4 DEF Commit
  <2>7. l \in rows[r]
    BY <2>2, <2>3, <2>6 DEF Written
  <2>8. wish[r][l] # "delete" /\ answer[r] # "gone"
    BY <1>1, <2>2, <2>5, <2>7, OtherMayChange DEF Harmony, TypeOK, Production
  <2> QED BY <2>2, <2>3, <2>6, <2>7, <2>8 DEF Written
<1>4. Whole'
  <2>1. SUFFICES ASSUME NEW q \in Running' \ crossed', reply'[q] = "none"
                 PROVE  rows'[q] = Asked(q)'
    BY DEF Whole
  <2>2. q \in Running \ crossed /\ q \in Request /\ Asked(q)' = Asked(q)
    BY <1>1, <2>1 DEF Running
  <2>3. reply[q] = "none" /\ rows'[q] = rows[q]
    BY <1>0, <2>1, <2>2, NothingLeftOut DEF Framed
  <2> QED BY <2>2, <2>3 DEF Harmony, Whole
<1>5. InSap'
  BY StepSap
<1> QED BY <1>2, <1>3, <1>4, <1>5 DEF Harmony

----------------------------------------------------------------------------
LEMMA InitInvariant == Init => IInv
<1> SUFFICES ASSUME Init PROVE IInv
  OBVIOUS
<1>1. TypeOK
  BY InitType
<1>2. \A r \in Request : Asked(r) = {}
  BY DEF Init, Asked
<1>3. UndoAlone /\ RowsAsked
  BY <1>2 DEF Init, UndoAlone, RowsAsked, Undoes, Wants
<1>4. OrderOfRows /\ StatusFits
  BY DEF Init, OrderOfRows, StatusFits
<1>5. Running = {}
  BY DEF Init, Running
<1>6. Harmony
  BY <1>5 DEF Harmony, Apart, Here, Whole, InSap
<1> QED BY <1>1, <1>3, <1>4, <1>6 DEF IInv

LEMMA Unchanged ==
    ASSUME IInv, UNCHANGED vars
    PROVE  IInv'
<1> USE DEF vars
<1>1. TypeOK'
  BY DEF IInv, TypeOK
<1>2. UndoAlone' /\ RowsAsked'
  BY DEF IInv, UndoAlone, RowsAsked, Undoes, Wants, Asked
<1>3. OrderOfRows'
  BY DEF IInv, OrderOfRows, StatusOf
<1>4. StatusFits'
  <2>1. \A r \in Request : Wants(r)' = Wants(r) /\ Written(r)' = Written(r)
    BY SameWritten DEF Wants, Asked
  <2>2. \A r \in Request : StatusOf(Written(r))' = StatusOf(Written(r))
    BY <2>1 DEF StatusOf
  <2> QED BY <2>1, <2>2 DEF IInv, StatusFits
<1>5. Harmony'
  <2>1. Running' = Running /\ \A r : Asked(r)' = Asked(r) /\ Wants(r)' = Wants(r)
    BY DEF Running, Asked, Wants
  <2>2. Apart'
    BY <2>1 DEF IInv, Harmony, Apart, Meets
  <2>3. Here' /\ Whole'
    BY <2>1 DEF IInv, Harmony, Here, Whole
  <2>4. InSap'
    BY <2>1 DEF IInv, Harmony, InSap, Target
  <2> QED BY <2>2, <2>3, <2>4 DEF Harmony
<1> QED BY <1>1, <1>2, <1>3, <1>4, <1>5 DEF IInv

LEMMA NextInvariant ==
    ASSUME IInv, [Next]_vars
    PROVE  IInv'
<1>1. ASSUME NEW r \in Request, Start(r)
      PROVE  IInv'
  BY <1>1, StartType, StartWishes, StartStatus, StartHarmony DEF IInv
<1>2. ASSUME NEW r \in Request, Step(r) \/ Raise(r)
      PROVE  IInv'
  <2>1. UndoAlone' /\ RowsAsked'
    BY <1>2, StepIsFramed, StepWishes DEF IInv
  <2> QED BY <1>2, <2>1, StepType, StepStatus, StepHarmony DEF IInv
<1> QED BY <1>1, <1>2, Unchanged DEF Next

LEMMA Invariance == Spec => []IInv
BY InitInvariant, NextInvariant, PTL DEF Spec

(* Type correctness: in particular only rows that exist are flagged R5.    *)
THEOREM TypeCorrect == Spec => []TypeOK
<1>1. IInv => TypeOK
  BY DEF IInv
<1> QED BY <1>1, Invariance, PTL

(* After every request the status of the order is the one                  *)
(* update_order_status computes from its rows, except after a deletion and *)
(* after a commit that overtook another: StatusFits is needed because the  *)
(* status is computed a step before it is committed.                       *)
THEOREM StatusFollowsRows == Spec => []OrderOfRows
<1>1. IInv => OrderOfRows
  BY DEF IInv
<1> QED BY <1>1, Invariance, PTL

(* Only Commit reports success, and only if nothing was refused before.    *)
LEMMA SuccessIsCommit ==
    ASSUME TypeOK, NEW r \in Request, Step(r) \/ Raise(r), reply[r] # "ok", reply'[r] = "ok"
    PROVE  Commit(r) /\ reply[r] = "none" /\ pc[r] = "commit"
<1> USE DEF TypeOK, Goto, End
<1>1. ~DeleteInIPlan(r) /\ ~ReserveInIPlan(r)
  BY DEF DeleteInIPlan, ReserveInIPlan, Told
<1>2. ~Prepare(r) /\ ~SaveRaises(r) /\ ~Raise(r)
  BY DEF Prepare, SaveRaises, Raise
<1>3. ~Accepted(r) /\ ~Refused(r) /\ ~Unanswered(r)
  BY DEF Accepted, Refused, Unanswered
<1>4. ~RollbackInIPlan(r) /\ ~ConfirmInIPlan(r)
  BY DEF RollbackInIPlan, ConfirmInIPlan
<1>5. ~Flag(r) /\ ~Store(r)
  BY DEF Flag, Store
<1>6. Commit(r)
  BY <1>1, <1>2, <1>3, <1>4, <1>5 DEF Step
<1> QED BY <1>6 DEF Commit

LEMMA SuccessStep ==
    ASSUME IInv, Next, NEW r \in Request \ crossed, reply[r] # "ok", reply'[r] = "ok",
           NEW l \in Asked(r)
    PROVE  Done(r, l)'
<1>1. PICK q \in Request : Start(q) \/ Step(q) \/ Raise(q)
  BY DEF Next
<1>2. q = r /\ (Step(r) \/ Raise(r))
  BY <1>1, StepIsFramed DEF Start, Framed, IInv
<1>3. Commit(r) /\ reply[r] = "none" /\ pc[r] = "commit"
  BY <1>2, SuccessIsCommit DEF IInv
<1>4. /\ line' = Written(r) /\ sap' = sap /\ wish' = wish
      /\ r \in Running \ crossed /\ l \in Line /\ wish[r][l] \in {"cancel", "delete", "undo"}
  BY <1>3 DEF Commit, Outside, Given, Running, Asked, IInv, TypeOK
<1>5. l \in rows[r] /\ line[l] # "gone"
  BY <1>3, <1>4 DEF IInv, Harmony, Whole, Here
<1>6. sap[l] = Target(wish[r][l])
  BY <1>3, <1>4, <1>5 DEF IInv, Harmony, InSap
<1>7. answer[r] \in Production
  BY DEF IInv, TypeOK
<1>8. line'[l] = CASE wish[r][l] = "cancel" -> "cancelled"
                   [] wish[r][l] = "delete" -> "gone"
                   [] OTHER -> answer[r]
  BY <1>4, <1>5 DEF Written
<1>9. CASE wish[r][l] = "cancel"
  BY <1>4, <1>6, <1>8, <1>9 DEF Done, Target
<1>10. CASE wish[r][l] = "delete"
  BY <1>4, <1>6, <1>8, <1>10 DEF Done, Target
<1>11. CASE wish[r][l] = "undo"
  BY <1>4, <1>6, <1>7, <1>8, <1>11 DEF Done, Target
<1> QED BY <1>4, <1>9, <1>10, <1>11

(* A request that reports success has changed all its lines in SAP and in  *)
(* the database, whatever others did to the order meanwhile, if none of    *)
(* them wanted something else of the same lines.                           *)
THEOREM SuccessIsReal == Spec => SuccessMeansDone
<1>1. ASSUME IInv, [Next]_vars
      PROVE  [\A r \in Request \ crossed : reply[r] # "ok" /\ reply'[r] = "ok"
                 => \A l \in Asked(r) : Done(r, l)']_vars
  BY <1>1, SuccessStep
<1> QED BY <1>1, Invariance, PTL DEF Spec, SuccessMeansDone
----------------------------------------------------------------------------
(* What becomes of a line: the invariant behind SettledOrFlagged.  It is   *)
(* about lines the code has not given up and about which no request met    *)
(* one of another kind.                                                    *)
Calm(l) == l \notin adrift /\ \A r \in Request : l \in Asked(r) => r \notin crossed

(* Before it starts, a request is about nothing; an undo is about one      *)
(* line, and keeps it.                                                     *)
Fresh   == \A r \in Request : pc[r] = "idle" => Asked(r) = {}
OneLine == \A r \in Running : Undoes(r) =>
              rows[r] = Asked(r) /\ \A l, m \in Asked(r) : l = m

(* Only an undo takes back or confirms, and only what is planned.          *)
Path == \A r \in Running :
           /\ pc[r] = "iplan" => First(Asked(r)) = "iplan"
           /\ pc[r] \in {"rollback", "confirm"} => Undoes(r)
           /\ pc[r] = "confirm" \/ (pc[r] = "flag" /\ Undoes(r)) =>
                 \A l \in rows[r] : Planned(l)

Unplanned == \A l \in Line : ~Planned(l) => iplan[l] = "free"

(* A cancellation that goes on with a line has freed it in iPlan, and a    *)
(* line that another one has cancelled meanwhile is free.                  *)
Freed(l) == \A r \in Running : l \in Asked(r) /\ ~Undoes(r) =>
               /\ l \in rows[r] /\ pc[r] # "iplan" => iplan[l] = "free"
               /\ line[l] = "cancelled" => iplan[l] = "free"

(* One undo at a time has the reservation of a line, from iPlan's answer   *)
(* to its commit or rollback; until SAP accepts it nothing else changes.   *)
Reserving == {"es21", "rollback", "confirm", "flag"}
Held(l) == \A r \in Running : l \in Asked(r) /\ Undoes(r) /\ Planned(l) =>
              /\ pc[r] \in Reserving => iplan[l] = "reserved"
              /\ pc[r] \in {"store", "commit"} => iplan[l] = "held"
              /\ pc[r] \in Reserving => \A q \in Running :
                    l \in Asked(q) /\ Undoes(q) /\ pc[q] \in Reserving => q = r
              /\ pc[r] \in {"es21", "rollback"} =>
                    l \in flagged \/ (line[l] = "cancelled" /\ sap[l] = "rejected")

(* When the three places differ about a line without a flag, some request  *)
(* is going to store or flag it, or to take back what it has reserved.     *)
Owes(r, l) == /\ r \in Running /\ l \in rows[r]
              /\ \/ pc[r] \in {"store", "commit", "flag"}
                 \/ Planned(l) /\ pc[r] \in {"es21", "rollback", "confirm"}
Owed(l) == Agree(l) \/ l \in flagged \/ \E r \in Request : Owes(r, l)

Lines == \A l \in Line : Calm(l) => Freed(l) /\ Held(l) /\ Owed(l)

Ways == Fresh /\ OneLine /\ Path /\ Unplanned

(* What a step of a request leaves alone, for the operators above.         *)
LEMMA FramedSame ==
    ASSUME TypeOK, NEW r \in Request, Framed(r)
    PROVE  /\ r \in Running /\ Running' \subseteq Running
           /\ Running' \cup {r} = Running
           /\ \A q \in Request : Asked(q)' = Asked(q) /\ (Undoes(q)' <=> Undoes(q))
           /\ \A l \in Line : Planned(l)' <=> Planned(l)
           /\ \A q \in Running : q # r => pc'[q] = pc[q] /\ rows'[q] = rows[q]
<1>1. \A q \in Request : Asked(q)' = Asked(q)
  BY DEF Framed, Asked
<1>2. \A q \in Request : Undoes(q)' <=> Undoes(q)
  BY <1>1 DEF Framed, Undoes, Wants
<1> QED BY <1>1, <1>2 DEF Framed, Running, Planned

Same(l) == /\ line'[l] = line[l] /\ sap'[l] = sap[l] /\ iplan'[l] = iplan[l]
           /\ l \in flagged' <=> l \in flagged

(* Only the lines a request goes on with are changed.                      *)
LEMMA OtherLines ==
    ASSUME TypeOK, NEW r \in Request, Step(r) \/ Raise(r), NEW l \in Line, l \notin rows[r]
    PROVE  Same(l)
<1> USE DEF Database, Outside, Given, Rest, Same, TypeOK
<1>1. CASE DeleteInIPlan(r)
  BY <1>1 DEF DeleteInIPlan
<1>2. CASE ReserveInIPlan(r)
  BY <1>2 DEF ReserveInIPlan
<1>3. CASE Prepare(r) \/ Refused(r) \/ SaveRaises(r) \/ Store(r) \/ Raise(r)
  BY <1>3 DEF Prepare, Refused, SaveRaises, Store, Raise
<1>4. CASE Accepted(r) \/ Unanswered(r)
  BY <1>4 DEF Accepted, Unanswered, Carried
<1>5. CASE RollbackInIPlan(r)
  BY <1>5 DEF RollbackInIPlan
<1>6. CASE ConfirmInIPlan(r)
  BY <1>6 DEF ConfirmInIPlan
<1>7. CASE Flag(r)
  BY <1>7 DEF Flag, Flaggable
<1>8. CASE Commit(r)
  BY <1>8 DEF Commit, Written
<1> QED BY <1>1, <1>2, <1>3, <1>4, <1>5, <1>6, <1>7, <1>8 DEF Step

(* Those under way about a line that is calm want the same of it.          *)
LEMMA Companions ==
    ASSUME IInv, NEW l \in Line, Calm(l),
           NEW r \in Running, l \in Asked(r), NEW q \in Running, l \in Asked(q)
    PROVE  /\ r \in Request /\ q \in Request
           /\ Undoes(q) <=> Undoes(r)
           /\ line[l] # "gone"
<1>1. r \in Request /\ q \in Request
  BY DEF Running
<1>2. r \notin crossed /\ line[l] # "gone"
  BY <1>1 DEF Calm, IInv, Harmony, Here
<1>3. CASE q = r
  BY <1>1, <1>2, <1>3
<1>4. CASE q # r
  <2>1. ~Meets(r, q) /\ Asked(r) \cap Asked(q) # {}
    BY <1>2, <1>4 DEF IInv, Harmony, Apart
  <2>2. Wants(r) = Wants(q)
    BY <2>1 DEF Meets
  <2> QED BY <1>1, <1>2, <2>2 DEF Undoes
<1> QED BY <1>3, <1>4

LEMMA CalmBefore ==
    ASSUME TypeOK, NEW r \in Request, Step(r) \/ Raise(r), NEW l \in Line, Calm(l)'
    PROVE  Calm(l)
<1>1. adrift \subseteq adrift'
  <2> USE DEF Database, Outside, Given, Rest, GiveUp
  <2>1. CASE DeleteInIPlan(r) \/ ReserveInIPlan(r) \/ Prepare(r)
    BY <2>1 DEF DeleteInIPlan, ReserveInIPlan, Prepare
  <2>2. CASE Accepted(r) \/ Refused(r) \/ Unanswered(r)
    BY <2>2 DEF Accepted, Refused, Unanswered
  <2>3. CASE RollbackInIPlan(r) \/ ConfirmInIPlan(r) \/ Flag(r)
    BY <2>3 DEF RollbackInIPlan, ConfirmInIPlan, Flag
  <2>4. CASE SaveRaises(r) \/ Store(r) \/ Commit(r) \/ Raise(r)
    BY <2>4 DEF SaveRaises, Store, Commit, Raise
  <2> QED BY <2>1, <2>2, <2>3, <2>4 DEF Step
<1>2. \A q \in Request : Asked(q)' = Asked(q)
  BY StepIsFramed, FramedSame
<1>3. crossed' = crossed
  BY StepIsFramed DEF Framed
<1> QED BY <1>1, <1>2, <1>3 DEF Calm

----------------------------------------------------------------------------
(* The way of a request.                                                   *)
LEMMA UndoKeepsRows ==
    ASSUME TypeOK, NEW r \in Request, Step(r) \/ Raise(r), Undoes(r)
    PROVE  rows' = rows
<1> USE DEF Given
<1>1. ~DeleteInIPlan(r)
  BY DEF DeleteInIPlan
<1>2. CASE ReserveInIPlan(r) \/ Prepare(r) \/ Accepted(r) \/ Refused(r) \/ Unanswered(r)
  BY <1>2 DEF ReserveInIPlan, Prepare, Accepted, Refused, Unanswered
<1>3. CASE RollbackInIPlan(r) \/ ConfirmInIPlan(r) \/ Flag(r) \/ SaveRaises(r)
  BY <1>3 DEF RollbackInIPlan, ConfirmInIPlan, Flag, SaveRaises
<1>4. CASE Store(r) \/ Commit(r) \/ Raise(r)
  BY <1>4 DEF Store, Commit, Raise
<1> QED BY <1>1, <1>2, <1>3, <1>4 DEF Step

LEMMA PathStep ==
    ASSUME TypeOK, Path, NEW r \in Request, Step(r) \/ Raise(r)
    PROVE  Path'
<1> USE DEF TypeOK, Goto, End, Given, Rest, Database, Outside
<1>0. /\ r \in Running /\ Running' \subseteq Running
      /\ \A q \in Request : Asked(q)' = Asked(q) /\ (Undoes(q)' <=> Undoes(q))
      /\ \A l \in Line : Planned(l)' <=> Planned(l)
      /\ \A q \in Running : q # r => pc'[q] = pc[q] /\ rows'[q] = rows[q]
      /\ rows'[r] \subseteq rows[r] /\ flow' = flow /\ special' = special
  BY StepIsFramed, FramedSame DEF Framed
<1>1. \A q \in Request : First(Asked(q))' = First(Asked(q))
  BY <1>0 DEF First
<1>2. SUFFICES /\ pc'[r] # "iplan"
               /\ pc'[r] \in {"rollback", "confirm"} => Undoes(r)
               /\ pc'[r] = "confirm" \/ (pc'[r] = "flag" /\ Undoes(r)) =>
                     \A l \in rows[r] : Planned(l)
  <2>1. \A q \in Running : q \in Request /\ rows[q] \subseteq Line
    BY DEF Running
  <2> QED BY <1>0, <1>1, <1>2, <2>1 DEF Path
<1>3. CASE DeleteInIPlan(r)
  BY <1>3 DEF DeleteInIPlan
<1>4. CASE ReserveInIPlan(r) \/ Prepare(r)
  BY <1>4 DEF ReserveInIPlan, Prepare
<1>5. CASE Accepted(r)
  BY <1>5 DEF Accepted
<1>6. CASE Refused(r)
  BY <1>6 DEF Refused, AfterRefusal
<1>7. CASE Unanswered(r) \/ RollbackInIPlan(r)
  BY <1>7 DEF Unanswered, RollbackInIPlan
<1>8. CASE ConfirmInIPlan(r)
  BY <1>0, <1>8 DEF ConfirmInIPlan, Path
<1>9. CASE Flag(r) \/ SaveRaises(r) \/ Store(r)
  BY <1>9 DEF Flag, SaveRaises, Store
<1>10. CASE Commit(r) \/ Raise(r)
  BY <1>10 DEF Commit, Raise
<1> QED BY <1>3, <1>4, <1>5, <1>6, <1>7, <1>8, <1>9, <1>10 DEF Step

LEMMA UndoIsPlanned ==
    ASSUME TypeOK, OneLine, Path, NEW r \in Running, Undoes(r), pc[r] = "iplan", NEW l \in rows[r]
    PROVE  Planned(l)
<1>1. Asked(r) = {l}
  BY DEF OneLine
<1>2. First(Asked(r)) = "iplan"
  BY DEF Path
<1> QED BY <1>1, <1>2 DEF First, Planned

LEMMA WaysStep ==
    ASSUME TypeOK, Ways, NEW r \in Request, Step(r) \/ Raise(r)
    PROVE  Ways'
<1>0. /\ Framed(r) /\ r \in Running /\ Running' \subseteq Running /\ Running \subseteq Request
      /\ \A q \in Request : Asked(q)' = Asked(q) /\ (Undoes(q)' <=> Undoes(q))
      /\ \A l \in Line : Planned(l)' <=> Planned(l)
      /\ \A q \in Running : q # r => pc'[q] = pc[q] /\ rows'[q] = rows[q]
  BY StepIsFramed, FramedSame DEF Running
<1>1. Fresh'
  <2>1. pc'[r] # "idle"
    <3> USE DEF TypeOK, Goto, End
    <3>1. CASE DeleteInIPlan(r) \/ ReserveInIPlan(r) \/ Prepare(r) \/ Accepted(r)
      BY <3>1 DEF DeleteInIPlan, ReserveInIPlan, Prepare, Accepted
    <3>2. CASE Refused(r) \/ Unanswered(r) \/ RollbackInIPlan(r) \/ ConfirmInIPlan(r)
      BY <3>2 DEF Refused, AfterRefusal, Unanswered, RollbackInIPlan, ConfirmInIPlan
    <3>3. CASE Flag(r) \/ SaveRaises(r) \/ Store(r) \/ Commit(r) \/ Raise(r)
      BY <3>3 DEF Flag, SaveRaises, Store, Commit, Raise
    <3> QED BY <3>1, <3>2, <3>3 DEF Step
  <2> QED BY <1>0, <2>1 DEF Fresh, Framed, Ways
<1>2. OneLine'
  BY <1>0, UndoKeepsRows DEF OneLine, Ways
<1>3. Path'
  BY PathStep DEF Ways
<1>4. ASSUME NEW l \in Line, ~Planned(l) PROVE iplan'[l] = "free"
  <2>1. iplan[l] = "free"
    BY <1>4 DEF Ways, Unplanned
  <2> USE DEF TypeOK, Database, Outside, Given, Rest
  <2>2. CASE DeleteInIPlan(r)
    BY <2>1, <2>2 DEF DeleteInIPlan
  <2>3. CASE ReserveInIPlan(r)
    <3>1. pc[r] = "iplan" /\ Undoes(r)
      BY <2>3 DEF ReserveInIPlan
    <3>2. l \notin rows[r]
      BY <1>0, <1>4, <3>1, UndoIsPlanned DEF Ways
    <3> QED BY <2>1, <2>3, <3>2, OtherLines DEF Same
  <2>4. CASE RollbackInIPlan(r)
    BY <2>1, <2>4 DEF RollbackInIPlan
  <2>5. CASE ConfirmInIPlan(r)
    BY <2>1, <2>5 DEF ConfirmInIPlan
  <2>6. CASE Prepare(r) \/ Accepted(r) \/ Refused(r) \/ Unanswered(r)
    BY <2>1, <2>6 DEF Prepare, Accepted, Refused, Unanswered
  <2>7. CASE Flag(r) \/ SaveRaises(r) \/ Store(r) \/ Commit(r) \/ Raise(r)
    BY <2>1, <2>7 DEF Flag, SaveRaises, Store, Commit, Raise
  <2> QED BY <2>2, <2>3, <2>4, <2>5, <2>6, <2>7 DEF Step
<1>5. Unplanned'
  BY <1>0, <1>4 DEF Unplanned
<1> QED BY <1>1, <1>2, <1>3, <1>5 DEF Ways

----------------------------------------------------------------------------
(* A step of a cancellation that leaves the line what it was, or settles,  *)
(* flags or still owes it.                                                 *)
LEMMA CancelChange ==
    ASSUME IInv, Ways, Lines, NEW r \in Running, r \in Request, Step(r) \/ Raise(r), ~Undoes(r),
           NEW l \in Line, l \in rows[r], Calm(l)', Calm(l)
    PROVE  /\ iplan'[l] \in {iplan[l], "free"}
           /\ l \in rows'[r] /\ r \in Running' /\ pc'[r] # "iplan" => iplan'[l] = "free"
           /\ line'[l] # line[l] => iplan'[l] = "free"
           /\ \/ Same(l) /\ (Owes(r, l) => Owes(r, l)')
              \/ Agree(l)' \/ l \in flagged' \/ Owes(r, l)'
<1> USE DEF Same, Owes, Goto, End, Given, Rest, Database, Outside
<1>0. /\ TypeOK /\ Framed(r) /\ (Planned(l)' <=> Planned(l)) /\ (r \in Running' <=> pc'[r] # "done")
      /\ l \in Asked(r) /\ line[l] # "gone" /\ rows[r] \subseteq Exists
      /\ (~Planned(l) => iplan[l] = "free")
  <2>1. l \in Asked(r) /\ TypeOK /\ Framed(r)
    BY StepIsFramed DEF IInv, RowsAsked
  <2>2. line[l] # "gone"
    BY <2>1, Companions
  <2>3. r \notin crossed
    BY <2>1 DEF Calm
  <2>4. rows[r] \subseteq Exists
    BY <2>3 DEF IInv, Harmony, Here, RowsAsked, Exists, TypeOK
  <2>6. r \in Running' <=> pc'[r] # "done" /\ pc'[r] # "idle"
    BY DEF Running
  <2>7. Fresh'
    BY <2>1, WaysStep DEF Ways
  <2>8. Asked(r)' = Asked(r)
    BY <2>1, FramedSame
  <2>9. pc'[r] # "idle"
    BY <2>1, <2>7, <2>8 DEF Fresh
  <2> QED BY <2>1, <2>2, <2>4, <2>6, <2>9, FramedSame DEF Ways, Unplanned
<1>1. /\ pc[r] # "iplan" => iplan[l] = "free"
      /\ line[l] = "cancelled" => iplan[l] = "free"
  BY <1>0 DEF Lines, Freed
<1> USE <1>0 DEF TypeOK
<1>2. CASE DeleteInIPlan(r)
  <2>0. /\ line' = line /\ sap' = sap /\ flagged' = flagged /\ pc[r] = "iplan" /\ rows[r] \cap Exists = rows[r]
        /\ Planned(l) \/ iplan[l] = "free"
    BY <1>2 DEF DeleteInIPlan
  <2> DEFINE here == rows[r] \cap Exists
             sent == IF flow = "domestic" THEN {k \in here : line[k] # "cancelled"}
                     ELSE here \ special
             goOn(refused) == IF flow = "domestic" THEN rows[r] \ refused
                              ELSE IF refused # sent THEN here ELSE here \cap special
  <2>a. PICK refused \in SUBSET sent :
           /\ iplan' = [k \in Line |-> IF k \in sent \ refused THEN "free" ELSE iplan[k]]
           /\ rows' = [rows EXCEPT ![r] = goOn(refused)]
           /\ GiveUp(goOn(refused) \cap refused)
           /\ Goto(r, IF goOn(refused) # {} THEN "es21"
                      ELSE IF flow = "domestic" THEN "done" ELSE "store")
    <3> HIDE DEF TypeOK, Goto
    <3> QED BY <1>2, Zenon DEF DeleteInIPlan
  <2>1. CASE flow = "domestic"
    <3>1. /\ l \in refused => line[l] # "cancelled"
          /\ iplan'[l] = IF l \notin refused /\ line[l] # "cancelled" THEN "free" ELSE iplan[l]
          /\ rows'[r] = rows[r] \ refused
          /\ pc'[r] = IF rows[r] \ refused # {} THEN "es21" ELSE "done"
      BY <2>0, <2>a, <2>1
    <3>2. Planned(l)
      BY <2>1 DEF Planned
    <3>3. CASE l \in refused
      BY <1>1, <2>0, <3>1, <3>3
    <3>4. CASE l \notin refused
      <4>1. iplan'[l] = "free" /\ l \in rows'[r] /\ pc'[r] = "es21"
        BY <1>1, <3>1, <3>4
      <4> QED BY <3>2, <4>1
    <3> QED BY <3>3, <3>4
  <2>2. CASE flow # "domestic"
    <3>1. flow = "export"
      <4>1. First(Asked(r)) = "iplan"
        BY <2>0 DEF Ways, Path
      <4> QED BY <2>2, <4>1 DEF First
    <3>2. /\ refused \subseteq rows[r] \ special
          /\ iplan'[l] = IF l \notin special /\ l \notin refused THEN "free" ELSE iplan[l]
          /\ rows'[r] = IF refused # rows[r] \ special THEN rows[r] ELSE rows[r] \cap special
          /\ adrift' = adrift \cup (rows'[r] \cap refused)
          /\ pc'[r] = IF rows'[r] # {} THEN "es21" ELSE "store"
      BY <2>0, <2>a, <2>2 DEF GiveUp
    <3>3. Planned(l) <=> l \notin special
      BY <3>1 DEF Planned
    <3>4. l \notin adrift'
      BY DEF Calm
    <3>5. CASE l \in refused
      <4>1. l \notin rows'[r] /\ iplan'[l] = iplan[l]
        BY <3>2, <3>4, <3>5
      <4> QED BY <2>0, <4>1
    <3>6. CASE l \in special
      <4>1. iplan'[l] = iplan[l] /\ iplan[l] = "free"
        BY <2>0, <3>2, <3>3, <3>6
      <4> QED BY <2>0, <4>1
    <3>7. CASE l \notin refused /\ l \notin special
      <4>1. iplan'[l] = "free" /\ l \in rows'[r] /\ pc'[r] = "es21"
        BY <3>2, <3>7
      <4> QED BY <3>3, <3>7, <4>1
    <3> QED BY <3>5, <3>6, <3>7
  <2> QED BY <2>1, <2>2
<1>3. ~ReserveInIPlan(r) /\ ~Prepare(r) /\ ~RollbackInIPlan(r) /\ ~ConfirmInIPlan(r)
  BY DEF ReserveInIPlan, Prepare, Unprepared, RollbackInIPlan, ConfirmInIPlan, Ways, Path
<1>4. CASE Accepted(r)
  <2>1. pc'[r] = "store" /\ rows' = rows /\ iplan' = iplan /\ line' = line /\ pc[r] = "es21"
    BY <1>4 DEF Accepted
  <2> QED BY <1>1, <2>1
<1>5. CASE Refused(r)
  <2>1. /\ Same(l) /\ rows' = rows /\ iplan' = iplan /\ line' = line /\ pc[r] = "es21"
        /\ pc'[r] = IF flow \in {"domestic", "export"} THEN "flag" ELSE "done"
    BY <1>5 DEF Refused, AfterRefusal
  <2>2. Planned(l) => flow \in {"domestic", "export"}
    BY DEF Planned
  <2> QED BY <1>1, <2>1, <2>2
<1>6. CASE Unanswered(r)
  <2>1. /\ rows' = rows /\ iplan' = iplan /\ line' = line /\ pc[r] = "es21"
        /\ pc'[r] = IF flow = "domestic" THEN "flag" ELSE "done"
        /\ adrift' = adrift \cup IF flow = "domestic" THEN {} ELSE rows[r]
    BY <1>6 DEF Unanswered, GiveUp
  <2>2. l \notin adrift'
    BY DEF Calm
  <2> QED BY <1>1, <2>1, <2>2
<1>7. CASE Flag(r)
  BY <1>7 DEF Flag, Flaggable
<1>8. CASE SaveRaises(r) \/ Raise(r)
  <2>1. l \in adrift'
    BY <1>8 DEF SaveRaises, Raise, GiveUp
  <2> QED BY <2>1 DEF Calm
<1>9. CASE Store(r)
  <2>1. /\ rows' = rows /\ iplan' = iplan /\ line' = line /\ pc[r] = "store" /\ pc'[r] = "commit"
    BY <1>9 DEF Store
  <2> QED BY <1>1, <2>1
<1>10. CASE Commit(r)
  <2>1. /\ rows' = rows /\ iplan' = iplan /\ sap' = sap /\ pc[r] = "commit" /\ pc'[r] = "done"
        /\ line' = Written(r)
    BY <1>10 DEF Commit
  <2>2. iplan'[l] = "free"
    BY <1>1, <2>1
  <2>3. sap[l] = Target(wish[r][l])
    BY <2>1 DEF IInv, Harmony, InSap, Calm
  <2>4. wish[r][l] \in {"cancel", "delete"}
    <3>1. wish[r][l] # "none" /\ wish[r][l] \in Wants(r)
      BY DEF Asked, Wants
    <3> QED BY <3>1 DEF Undoes
  <2>5. line'[l] = IF wish[r][l] = "cancel" THEN "cancelled" ELSE "gone"
    BY <2>1, <2>4 DEF Written
  <2> QED BY <2>1, <2>2, <2>3, <2>4, <2>5 DEF Agree, Target
<1> QED BY <1>2, <1>3, <1>4, <1>5, <1>6, <1>7, <1>8, <1>9, <1>10 DEF Step

(* The same of an undo.                                                    *)
LEMMA UndoChange ==
    ASSUME IInv, Ways, Lines, NEW r \in Running, r \in Request, Step(r) \/ Raise(r), Undoes(r),
           NEW l \in Line, l \in rows[r], Calm(l)', Calm(l)
    PROVE  /\ \/ Same(l) /\ (Owes(r, l) => Owes(r, l)')
              \/ Agree(l)' \/ l \in flagged' \/ Owes(r, l)'
           /\ l \in flagged => l \in flagged'
           /\ \/ line'[l] = line[l] /\ sap'[l] = sap[l] /\ iplan'[l] = iplan[l]
              \/ pc[r] = "iplan" /\ iplan[l] = "free"
              \/ pc[r] \in Reserving
              \/ pc[r] \in {"store", "commit"} /\ iplan'[l] = iplan[l]
           /\ Planned(l) /\ r \in Running' =>
                 /\ pc'[r] \in Reserving => iplan'[l] = "reserved"
                 /\ pc'[r] \in {"store", "commit"} => iplan'[l] = "held"
                 /\ pc'[r] \in Reserving =>
                       pc[r] \in Reserving \/ (pc[r] = "iplan" /\ iplan[l] = "free")
                 /\ pc'[r] \in {"es21", "rollback"} =>
                       l \in flagged' \/ (line'[l] = "cancelled" /\ sap'[l] = "rejected")
<1> USE DEF Same, Owes, Goto, End, Given, Rest, Database, Outside
<1>0. /\ TypeOK /\ Framed(r) /\ (Planned(l)' <=> Planned(l)) /\ (r \in Running' <=> pc'[r] # "done")
      /\ l \in Asked(r) /\ line[l] # "gone" /\ rows[r] = {l} /\ rows' = rows
      /\ (~Planned(l) => iplan[l] = "free") /\ Exists = {k \in Line : line[k] # "gone"}
      /\ (pc[r] = "iplan" => Planned(l)) /\ (pc[r] = "confirm" => Planned(l))
      /\ (pc[r] = "flag" => Planned(l))
  <2>1. l \in Asked(r) /\ TypeOK /\ Framed(r)
    BY StepIsFramed DEF IInv, RowsAsked
  <2>2. line[l] # "gone" /\ rows[r] = {l}
    BY <2>1, Companions DEF Ways, OneLine
  <2>3. r \in Running' <=> pc'[r] # "done" /\ pc'[r] # "idle"
    BY DEF Running
  <2>4. Fresh'
    BY <2>1, WaysStep DEF Ways
  <2>5. Asked(r)' = Asked(r)
    BY <2>1, FramedSame
  <2>6. pc'[r] # "idle"
    BY <2>1, <2>4, <2>5 DEF Fresh
  <2>7. pc[r] \in {"confirm", "flag"} => Planned(l)
    BY DEF Ways, Path
  <2> QED BY <2>1, <2>2, <2>3, <2>6, <2>7, FramedSame, UndoKeepsRows, UndoIsPlanned DEF Ways, Unplanned, Exists
<1>1. Planned(l) =>
         /\ pc[r] \in Reserving => iplan[l] = "reserved"
         /\ pc[r] \in {"store", "commit"} => iplan[l] = "held"
         /\ pc[r] \in {"es21", "rollback"} =>
               l \in flagged \/ (line[l] = "cancelled" /\ sap[l] = "rejected")
  BY <1>0 DEF Lines, Held
<1> USE <1>0 DEF TypeOK, Reserving
<1>2. ~DeleteInIPlan(r) /\ ~Unanswered(r)
  BY DEF DeleteInIPlan, Unanswered
<1>3. CASE ReserveInIPlan(r)
  <2>1. /\ line' = line /\ sap' = sap /\ flagged' = flagged /\ pc[r] = "iplan" /\ Planned(l)
        /\ \/ iplan[l] = "free" /\ iplan' = [iplan EXCEPT ![l] = "reserved"] /\ pc'[r] = "es21"
           \/ iplan' = iplan /\ pc'[r] = "done"
    BY <1>3 DEF ReserveInIPlan
  <2>2. iplan[l] = "free" => l \in flagged \/ (line[l] = "cancelled" /\ sap[l] = "rejected")
    <3>1. ASSUME iplan[l] = "free", NEW q \in Request, Owes(q, l) PROVE FALSE
      <4>1. q \in Running /\ l \in Asked(q)
        BY <3>1 DEF IInv, RowsAsked
      <4>2. Undoes(q)
        BY <4>1, Companions
      <4> QED BY <2>1, <3>1, <4>1, <4>2 DEF Lines, Held
    <3>2. iplan[l] = "free" => Agree(l) \/ l \in flagged
      BY <3>1 DEF Lines, Owed
    <3> QED BY <2>1, <3>2 DEF Agree
  <2> QED BY <2>1, <2>2
<1>4. CASE Prepare(r)
  <2>1. Same(l) /\ pc'[r] = "done" /\ (pc[r] = "iplan" \/ (~Planned(l) /\ pc[r] = "es21"))
    BY <1>4 DEF Prepare, Unprepared, First, Planned
  <2> QED BY <2>1
<1>5. CASE Accepted(r)
  <2>1. /\ line' = line /\ iplan' = iplan /\ flagged' = flagged /\ pc[r] = "es21"
        /\ pc'[r] = IF Planned(l) THEN "confirm" ELSE "store"
    BY <1>5 DEF Accepted
  <2> QED BY <1>1, <2>1
<1>6. CASE Refused(r)
  <2>1. /\ line' = line /\ sap' = sap /\ iplan' = iplan /\ flagged' = flagged /\ pc[r] = "es21"
        /\ pc'[r] = IF flow \in {"domestic", "export"} THEN "rollback" ELSE "done"
    BY <1>6 DEF Refused, AfterRefusal
  <2>2. Planned(l) => flow \in {"domestic", "export"}
    BY DEF Planned
  <2> QED BY <1>1, <2>1, <2>2
<1>7. CASE RollbackInIPlan(r)
  <2>1. l \notin adrift'
    BY DEF Calm
  <2>2. /\ line' = line /\ sap' = sap /\ flagged' = flagged /\ pc[r] = "rollback" /\ pc'[r] = "done"
        /\ iplan'[l] = IF iplan[l] = "reserved" THEN "free" ELSE iplan[l]
    BY <1>7, <2>1 DEF RollbackInIPlan, GiveUp
  <2>3. CASE Planned(l)
    BY <1>1, <2>2, <2>3 DEF Agree
  <2>4. CASE ~Planned(l)
    BY <2>2, <2>4
  <2> QED BY <2>3, <2>4
<1>8. CASE ConfirmInIPlan(r)
  <2>1. /\ line' = line /\ sap' = sap /\ flagged' = flagged /\ pc[r] = "confirm" /\ Planned(l)
        /\ \/ iplan' = [iplan EXCEPT ![l] = "held"] /\ pc'[r] = "store"
           \/ iplan' = iplan /\ pc'[r] = "flag"
    BY <1>8 DEF ConfirmInIPlan
  <2> QED BY <1>1, <2>1
<1>9. CASE Flag(r)
  <2>1. flagged' = flagged \cup {l} /\ line' = line /\ sap' = sap /\ iplan' = iplan /\ pc'[r] = "done"
    BY <1>9 DEF Flag, Flaggable
  <2> QED BY <2>1
<1>10. CASE SaveRaises(r) \/ Raise(r)
  <2>1. l \in adrift'
    BY <1>10 DEF SaveRaises, Raise, GiveUp
  <2> QED BY <2>1 DEF Calm
<1>11. CASE Store(r)
  <2>1. /\ line' = line /\ sap' = sap /\ iplan' = iplan /\ flagged' = flagged
        /\ pc[r] = "store" /\ pc'[r] = "commit"
    BY <1>11 DEF Store
  <2> QED BY <1>1, <2>1
<1>12. CASE Commit(r)
  <2>1. /\ iplan' = iplan /\ sap' = sap /\ pc[r] = "commit" /\ pc'[r] = "done"
        /\ line' = Written(r) /\ flagged' = flagged
    BY <1>12 DEF Commit
  <2>2. wish[r][l] = "undo"
    BY DEF IInv, UndoAlone, Asked
  <2>3. sap[l] = "active"
    BY <2>1, <2>2 DEF IInv, Harmony, InSap, Calm, Target
  <2>4. line'[l] = answer[r] /\ answer[r] \in Production
    BY <2>1, <2>2 DEF Written
  <2>5. iplan[l] = IF Planned(l) THEN "held" ELSE "free"
    BY <1>1, <2>1
  <2> QED BY <2>1, <2>3, <2>4, <2>5 DEF Agree, Production
<1> QED BY <1>2, <1>3, <1>4, <1>5, <1>6, <1>7, <1>8, <1>9, <1>10, <1>11, <1>12 DEF Step

(* Each step keeps what is said of a calm line.                            *)
LEMMA StepLine ==
    ASSUME IInv, Ways, Lines, NEW r \in Request, Step(r) \/ Raise(r), NEW l \in Line, Calm(l)'
    PROVE  Freed(l)' /\ Held(l)' /\ Owed(l)'
<1>1. TypeOK /\ Framed(r) /\ Calm(l)
  BY StepIsFramed, CalmBefore DEF IInv
<1>2. /\ r \in Running /\ Running' \subseteq Running /\ Running' \cup {r} = Running
      /\ \A q \in Request : Asked(q)' = Asked(q) /\ (Undoes(q)' <=> Undoes(q))
      /\ Planned(l)' <=> Planned(l)
      /\ \A q \in Running : q # r => pc'[q] = pc[q] /\ rows'[q] = rows[q]
      /\ Running \subseteq Request /\ rows'[r] \subseteq rows[r]
  BY <1>1, FramedSame DEF Running, Framed
<1>3. Freed(l) /\ Held(l) /\ Owed(l)
  BY <1>1 DEF Lines
<1>4. \A q \in Running : l \in rows[q] => l \in Asked(q)
  BY <1>2 DEF IInv, RowsAsked
<1>5. Same(l) => (Agree(l)' <=> Agree(l))
  BY <1>2 DEF Same, Agree
<1>6. ASSUME NEW q \in Request, q # r, Owes(q, l) PROVE Owes(q, l)'
  BY <1>2, <1>6 DEF Owes
<1>7. Same(l) /\ (Owes(r, l) => Owes(r, l)') => Owed(l)'
  BY <1>3, <1>5, <1>6 DEF Owed, Same
<1>8. Agree(l)' \/ l \in flagged' \/ Owes(r, l)' => Owed(l)'
  BY DEF Owed
(* A line the request does not go on with.                                 *)
<1>9. CASE l \notin rows[r]
  <2>1. Same(l) /\ ~Owes(r, l)
    BY <1>1, <1>9, OtherLines DEF Owes
  <2>2. Freed(l)'
    BY <1>2, <1>3, <1>9, <2>1 DEF Freed, Same
  <2>3. Undoes(r) => l \notin Asked(r)
    BY <1>2, <1>9 DEF Ways, OneLine
  <2>4. Held(l)'
    BY <1>2, <1>3, <2>1, <2>3 DEF Held, Same
  <2> QED BY <1>7, <2>1, <2>2, <2>4
<1>10. CASE l \in rows[r] /\ ~Undoes(r)
  <2>1. \A q \in Running : l \in Asked(q) => ~Undoes(q)
    BY <1>1, <1>2, <1>4, <1>10, Companions
  <2>2. Held(l)'
    BY <1>2, <2>1 DEF Held
  <2>3. /\ iplan'[l] \in {iplan[l], "free"}
        /\ l \in rows'[r] /\ r \in Running' /\ pc'[r] # "iplan" => iplan'[l] = "free"
        /\ line'[l] # line[l] => iplan'[l] = "free"
        /\ \/ Same(l) /\ (Owes(r, l) => Owes(r, l)')
           \/ Agree(l)' \/ l \in flagged' \/ Owes(r, l)'
    BY <1>1, <1>2, <1>10, CancelChange
  <2>4. Freed(l)'
    BY <1>2, <1>3, <2>3 DEF Freed
  <2> QED BY <1>7, <1>8, <2>2, <2>3, <2>4
<1>11. CASE l \in rows[r] /\ Undoes(r)
  <2>1. \A q \in Running : l \in Asked(q) => Undoes(q)
    BY <1>1, <1>2, <1>4, <1>11, Companions
  <2>2. Freed(l)'
    BY <1>2, <2>1 DEF Freed
  <2>3. /\ \/ Same(l) /\ (Owes(r, l) => Owes(r, l)')
           \/ Agree(l)' \/ l \in flagged' \/ Owes(r, l)'
        /\ l \in flagged => l \in flagged'
        /\ \/ line'[l] = line[l] /\ sap'[l] = sap[l] /\ iplan'[l] = iplan[l]
           \/ pc[r] = "iplan" /\ iplan[l] = "free"
           \/ pc[r] \in Reserving
           \/ pc[r] \in {"store", "commit"} /\ iplan'[l] = iplan[l]
        /\ Planned(l) /\ r \in Running' =>
              /\ pc'[r] \in Reserving => iplan'[l] = "reserved"
              /\ pc'[r] \in {"store", "commit"} => iplan'[l] = "held"
              /\ pc'[r] \in Reserving =>
                    pc[r] \in Reserving \/ (pc[r] = "iplan" /\ iplan[l] = "free")
              /\ pc'[r] \in {"es21", "rollback"} =>
                    l \in flagged' \/ (line'[l] = "cancelled" /\ sap'[l] = "rejected")
    BY <1>1, <1>2, <1>11, UndoChange
  <2>4. Held(l)'
    <3>1. SUFFICES ASSUME Planned(l), NEW q \in Running', l \in Asked(q)
          PROVE  /\ pc'[q] \in Reserving => iplan'[l] = "reserved"
                 /\ pc'[q] \in {"store", "commit"} => iplan'[l] = "held"
                 /\ pc'[q] \in Reserving => \A p \in Running' :
                       l \in Asked(p) /\ pc'[p] \in Reserving => p = q
                 /\ pc'[q] \in {"es21", "rollback"} =>
                       l \in flagged' \/ (line'[l] = "cancelled" /\ sap'[l] = "rejected")
      BY <1>2 DEF Held
    <3>2. ASSUME NEW p \in Running, l \in Asked(p)
          PROVE  /\ pc[p] \in Reserving => iplan[l] = "reserved"
                 /\ pc[p] \in {"store", "commit"} => iplan[l] = "held"
                 /\ pc[p] \in Reserving => \A s \in Running :
                       l \in Asked(s) /\ pc[s] \in Reserving => s = p
                 /\ pc[p] \in {"es21", "rollback"} =>
                       l \in flagged \/ (line[l] = "cancelled" /\ sap[l] = "rejected")
      BY <1>3, <2>1, <3>1, <3>2 DEF Held
    <3>3. l \in Asked(r)
      BY <1>2, <1>4, <1>11
    <3>4. ASSUME NEW p \in Running', l \in Asked(p), p # r, pc[p] \in Reserving
          PROVE  /\ line'[l] = line[l] /\ sap'[l] = sap[l] /\ iplan'[l] = iplan[l]
                 /\ pc'[p] = pc[p]
                 /\ r \in Running' => pc'[r] \notin Reserving
      <4>1. iplan[l] = "reserved" /\ pc'[p] = pc[p]
        BY <1>2, <3>2, <3>4
      <4>2. pc[r] \notin Reserving \cup {"store", "commit"}
        BY <1>2, <3>2, <3>3, <3>4, <4>1
      <4> QED BY <2>3, <3>1, <4>1, <4>2
    <3>5. ASSUME NEW p \in Running', l \in Asked(p), p # r, pc[p] \in {"store", "commit"}
          PROVE  iplan'[l] = iplan[l]
      <4>1. iplan[l] = "held"
        BY <1>2, <3>2, <3>5
      <4>2. pc[r] \notin Reserving
        BY <3>2, <3>3, <1>2, <4>1
      <4> QED BY <2>3, <4>1, <4>2
    <3>6. CASE q = r
      <4>1. pc'[r] \in Reserving => \A p \in Running' :
               l \in Asked(p) /\ pc'[p] \in Reserving => p = r
        BY <1>2, <3>1, <3>4, <3>6
      <4> QED BY <2>3, <3>1, <3>6, <4>1
    <3>7. CASE q # r
      <4>0. pc'[q] = pc[q] /\ q \in Running
        BY <1>2, <3>7
      <4>1. pc'[q] \in Reserving => \A p \in Running' :
               l \in Asked(p) /\ pc'[p] \in Reserving => p = q
        BY <1>2, <3>1, <3>2, <3>4, <3>7, <4>0
      <4>2. CASE pc[q] \in Reserving
        BY <2>3, <3>1, <3>2, <3>4, <3>7, <4>0, <4>1, <4>2 DEF Reserving
      <4>3. CASE pc[q] \in {"store", "commit"}
        BY <3>1, <3>2, <3>5, <3>7, <4>0, <4>3 DEF Reserving
      <4>4. CASE pc[q] \notin Reserving \cup {"store", "commit"}
        BY <4>0, <4>4 DEF Reserving
      <4> QED BY <4>2, <4>3, <4>4
    <3> QED BY <3>6, <3>7
  <2> QED BY <1>7, <1>8, <2>2, <2>3, <2>4
<1> QED BY <1>9, <1>10, <1>11

LEMMA StartLines ==
    ASSUME IInv, Ways, Lines, NEW r \in Request, Start(r)
    PROVE  Ways' /\ Lines'
<1>1. /\ TypeOK /\ pc[r] = "idle" /\ flow' = flow /\ special' = special /\ line' = line
      /\ sap' = sap /\ iplan' = iplan /\ flagged' = flagged /\ adrift' = adrift
      /\ crossed \subseteq crossed' /\ pc'[r] = First(Asked(r)')
  BY DEF Start, Database, Outside, Goto, IInv, TypeOK
<1>2. /\ \A q \in Request \ {r} : /\ rows'[q] = rows[q] /\ pc'[q] = pc[q]
                                  /\ Asked(q)' = Asked(q) /\ (Undoes(q)' <=> Undoes(q))
      /\ rows'[r] = Asked(r)' /\ Asked(r) = {}
      /\ \A l \in Line : Planned(l)' <=> Planned(l)
  BY <1>1, StartWishes DEF IInv, Ways, Fresh, Undoes, Planned
<1>3. /\ Running \subseteq Request /\ r \notin Running /\ Running' = Running \cup {r}
      /\ First(Asked(r)') \in {"iplan", "es21"}
  BY <1>1, <1>2 DEF Running, First
<1>4. PICK w \in Wishes : wish'[r] = w
  BY DEF Start, IInv, TypeOK
<1>5. Undoes(r)' => \A l, m \in Asked(r)' : l = m
  <2>1. Undoes(r)' => \E l \in Line : w[l] = "undo"
    BY <1>4 DEF Undoes, Wants, Asked
  <2>2. (\E l \in Line : w[l] = "undo") =>
           \A l, m \in Line : w[l] # "none" /\ w[m] # "none" => l = m
    BY DEF Wishes
  <2> QED BY <1>4, <2>1, <2>2 DEF Asked
<1>6. \A l \in Asked(r)' : ~Undoes(r)' => line[l] \in Production
  <2>1. ~Undoes(r)' => \A l \in Line : w[l] # "undo"
    BY <1>4 DEF Undoes, Wants, Asked
  <2>2. (\A l \in Line : w[l] # "undo") => \A l \in Line : w[l] # "none" => line[l] \in Production
    BY DEF Wishes
  <2> QED BY <1>4, <2>1, <2>2 DEF Asked
<1>7. Ways'
  <2>1. Fresh'
    BY <1>1, <1>2, <1>3 DEF Ways, Fresh
  <2>2. OneLine'
    BY <1>2, <1>3, <1>5 DEF Ways, OneLine
  <2>3. Path'
    <3>1. ASSUME NEW q \in Running
          PROVE  /\ pc'[q] = "iplan" => First(Asked(q))' = "iplan"
                 /\ pc'[q] \in {"rollback", "confirm"} => Undoes(q)'
                 /\ pc'[q] = "confirm" \/ (pc'[q] = "flag" /\ Undoes(q)') =>
                       \A l \in rows'[q] : Planned(l)'
      <4>1. q \in Request \ {r} /\ rows[q] \subseteq Line
        BY <1>1, <1>3 DEF TypeOK
      <4>2. First(Asked(q))' = First(Asked(q))
        BY <1>1, <1>2, <4>1 DEF First
      <4> QED BY <1>2, <4>1, <4>2 DEF Ways, Path
    <3>2. pc'[r] \in {"iplan", "es21"} /\ pc'[r] = First(Asked(r))'
      BY <1>1, <1>3 DEF First
    <3> QED BY <1>3, <3>1, <3>2 DEF Path
  <2>4. Unplanned'
    BY <1>1, <1>2 DEF Ways, Unplanned
  <2> QED BY <2>1, <2>2, <2>3, <2>4 DEF Ways
<1>8. ASSUME NEW l \in Line, Calm(l)' PROVE Freed(l)' /\ Held(l)' /\ Owed(l)'
  <2>1. Calm(l)
    BY <1>1, <1>2, <1>8 DEF Calm
  <2>2. Freed(l) /\ Held(l) /\ Owed(l)
    BY <2>1 DEF Lines
  <2>3. pc'[r] = "es21" /\ l \in Asked(r)' => ~Planned(l)
    BY <1>1 DEF First, Planned
  <2>4. ~Planned(l) => iplan[l] = "free"
    BY DEF Ways, Unplanned
  <2>5. Freed(l)'
    BY <1>1, <1>2, <1>3, <1>6, <2>2, <2>3, <2>4 DEF Freed, Production
  <2>6. Held(l)'
    <3>1. l \in Asked(r)' /\ Planned(l) => pc'[r] = "iplan"
      BY <1>1, <1>3, <2>3
    <3> QED BY <1>1, <1>2, <1>3, <2>2, <3>1 DEF Held, Reserving
  <2>7. Owed(l)'
    <3>1. Agree(l) => Agree(l)'
      BY <1>1, <1>2 DEF Agree
    <3>2. ASSUME NEW q \in Request, Owes(q, l) PROVE Owes(q, l)'
      BY <1>2, <1>3, <3>2 DEF Owes
    <3> QED BY <1>1, <2>2, <3>1, <3>2 DEF Owed
  <2> QED BY <2>5, <2>6, <2>7
<1> QED BY <1>7, <1>8 DEF Lines

LEMMA LinesUnchanged ==
    ASSUME Ways, Lines, UNCHANGED vars
    PROVE  Ways' /\ Lines'
<1>1. /\ Running' = Running
      /\ \A r : Asked(r)' = Asked(r)
      /\ \A l : (Planned(l)' <=> Planned(l))
  BY DEF vars, Running, Asked, Planned
<1>2. /\ \A r : Undoes(r)' <=> Undoes(r)
      /\ \A r : First(Asked(r))' = First(Asked(r))
  BY <1>1 DEF vars, Undoes, Wants, First
<1>3. Ways'
  BY <1>1, <1>2 DEF vars, Ways, Fresh, OneLine, Path, Unplanned
<1>4. \A l \in Line : Calm(l)' => Calm(l)
  BY <1>1 DEF vars, Calm
<1>5. \A l \in Line : Freed(l) /\ Held(l) => Freed(l)' /\ Held(l)'
  BY <1>1, <1>2 DEF vars, Freed, Held
<1>6. \A l \in Line : Owed(l) => Owed(l)'
  BY <1>1 DEF vars, Owed, Owes, Agree
<1> QED BY <1>3, <1>4, <1>5, <1>6 DEF Lines

LEMMA LinesInvariance == Spec => [](Ways /\ Lines)
<1>1. Init => Ways /\ Lines
  <2> SUFFICES ASSUME Init PROVE Ways /\ Lines
    OBVIOUS
  <2>1. (\A r \in Request : Asked(r) = {}) /\ Running = {}
    BY DEF Init, Asked, Running
  <2>2. Ways
    BY <2>1 DEF Init, Ways, Fresh, OneLine, Path, Unplanned
  <2>3. \A l \in Line : Agree(l)
    BY DEF Init, Agree, Present, Production
  <2> QED BY <2>1, <2>2, <2>3 DEF Lines, Freed, Held, Owed
<1>2. ASSUME IInv, Ways /\ Lines, [Next]_vars PROVE (Ways /\ Lines)'
  <2>1. ASSUME NEW r \in Request, Step(r) \/ Raise(r) PROVE Ways' /\ Lines'
    BY <1>2, <2>1, WaysStep, StepLine DEF IInv, Lines
  <2> QED BY <1>2, <2>1, StartLines, LinesUnchanged DEF Next
<1> QED BY <1>1, <1>2, Invariance, PTL DEF Spec

(* When all requests about a line are over, the database, SAP and iPlan    *)
(* say the same of it or it is flagged for the retry job, unless the code  *)
(* gave it up or requests of different kinds met over it: whoever changed  *)
(* one of the three stores, flags or takes back before it ends (Owed).     *)
THEOREM SettledInTheEnd == Spec => []SettledOrFlagged
<1>1. IInv /\ Lines => SettledOrFlagged
  <2> SUFFICES ASSUME IInv, Lines, NEW l \in Line \ adrift, Quiet(l)
               PROVE  Agree(l) \/ l \in flagged
    BY DEF SettledOrFlagged
  <2>1. Calm(l)
    BY DEF Calm, Quiet
  <2>2. \A r \in Request : ~Owes(r, l)
    BY DEF Owes, Quiet, IInv, RowsAsked
  <2> QED BY <2>1, <2>2 DEF Lines, Owed
<1> QED BY <1>1, Invariance, LinesInvariance, PTL
=============================================================================
