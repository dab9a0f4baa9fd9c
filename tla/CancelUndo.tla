----------------------------- MODULE CancelUndo -----------------------------
(***************************************************************************)
(* Cancelling and deleting lines of an order, and undoing a cancellation   *)
(* (cancel_delete_order_lines, undo_order_lines, and what export and CIP   *)
(* orders have in their place).                                            *)
(*                                                                         *)
(* A line lives in three places: its row in the database, the item in SAP, *)
(* and the production or stock iPlan holds for it.  iPlan is asked first,  *)
(* then SAP, and the rows are written last, all in one transaction; only   *)
(* what an undo reserves in iPlan can be taken back.  Orders of four kinds *)
(* differ in whom they ask and in what they do about a refusal.            *)
(***************************************************************************)
EXTENDS StatusRule

CONSTANTS Line, Request,
          MaxFault       \* bound: exceptions, kills and lost answers

ASSUME BoundAssumption == MaxFault \in Nat

VARIABLES flow,      \* kind of the order
          special,   \* lines of an export order iPlan is not asked about
          line,      \* committed item status, "gone" without a row
          flagged,   \* lines with the attention type R5
          order,     \* committed order status
          sap,       \* the item in SAP
          iplan,     \* what iPlan holds for the line
          pc,        \* progress of each request
          wish,      \* what a request wants of each line
          rows,      \* the lines it goes on with
          answer,    \* item status iPlan's reservation leads to
          found,     \* order status it has read or computed
          reply,     \* what the user is told
          crossed,   \* requests that met one they may disagree with
          raced,     \* requests overtaken by another's commit
          adrift,    \* lines the code gives up (see GiveUp)
          stale,     \* the order status was not decided from all rows
          faults

vars == <<flow, special, line, flagged, order, sap, iplan, pc, wish, rows, answer,
          found, reply, crossed, raced, adrift, stale, faults>>

Present == Production \cup {"cancelled"}

TypeOK == /\ flow \in {"domestic", "noIplan", "export", "cip"}
          /\ special \subseteq Line
          /\ line \in [Line -> Present \cup {"gone"}]
          /\ flagged \subseteq {l \in Line : line[l] # "gone"}
          /\ order \in OrderStatus
          /\ sap \in [Line -> {"active", "rejected", "gone"}]
          /\ iplan \in [Line -> {"held", "reserved", "free"}]
          /\ pc \in [Request -> {"idle", "iplan", "es21", "rollback", "confirm", "flag",
                                 "store", "commit", "done"}]
          /\ wish \in [Request -> [Line -> {"cancel", "delete", "undo", "none"}]]
          /\ rows \in [Request -> SUBSET Line]
          /\ answer \in [Request -> Production]
          /\ found \in [Request -> OrderStatus]
          /\ reply \in [Request -> {"none", "ok", "failed", "error"}]
          /\ crossed \subseteq Request /\ raced \subseteq Request
          /\ adrift \subseteq Line
          /\ stale \in BOOLEAN
          /\ faults \in 0..MaxFault

----------------------------------------------------------------------------
Asked(r)   == {l \in Line : wish[r][l] # "none"}
Wants(r)   == {wish[r][l] : l \in Asked(r)}
Undoes(r)  == "undo" \in Wants(r)
Planned(l) == flow = "domestic" \/ (flow = "export" /\ l \notin special)

Exists == {l \in Line : line[l] # "gone"}

(* The rows as the transaction of r leaves them.  save() of an undone line *)
(* of an export order would insert a deleted row again, bulk_update not.   *)
Saves(r) == flow = "export" /\ Undoes(r) /\ rows[r] \subseteq special
Written(r) == [l \in Line |-> IF l \notin rows[r] \/ (line[l] = "gone" /\ ~Saves(r))
                              THEN line[l]
                              ELSE CASE wish[r][l] = "cancel" -> "cancelled"
                                     [] wish[r][l] = "delete" -> "gone"
                                     [] OTHER -> answer[r]]

(* update_order_status: the rule of StatusRule for the rows there are.     *)
StatusOf(t) == Rule({t[l] : l \in {k \in Line : t[k] # "gone"}})

Running == {r \in Request : pc[r] \notin {"idle", "done"}}

Goto(r, p) == pc' = [pc EXCEPT ![r] = p]
End(r, said) == /\ Goto(r, "done")
                  /\ reply' = [reply EXCEPT ![r] = said]

Database == <<line, flagged, order, stale>>
Outside  == <<sap, iplan>>
Given    == <<flow, special, wish, crossed>>
Rest     == <<answer, found, raced, faults>>

Init == /\ flow \in {"domestic", "noIplan", "export", "cip"}
        /\ special \in IF flow = "export" THEN SUBSET Line ELSE {{}}
        /\ line \in [Line -> Present]
        /\ order = StatusOf(line)
        /\ sap = [l \in Line |-> IF line[l] = "cancelled" THEN "rejected" ELSE "active"]
        /\ iplan = [l \in Line |-> IF Planned(l) /\ line[l] # "cancelled" THEN "held" ELSE "free"]
        /\ flagged = {} /\ crossed = {} /\ raced = {} /\ adrift = {}
        /\ pc = [r \in Request |-> "idle"]
        /\ wish = [r \in Request |-> [l \in Line |-> "none"]]
        /\ rows = [r \in Request |-> {}]
        /\ answer = [r \in Request |-> "created"]
        /\ found = [r \in Request |-> "received"]
        /\ reply = [r \in Request |-> "none"]
        /\ stale = FALSE
        /\ faults = 0

----------------------------------------------------------------------------
(* What the page lets the user ask for: to cancel or delete lines that are *)
(* there and not cancelled (a domestic or CIP request may do both), or to  *)
(* undo one cancelled line.                                                *)
Wishes == LET open == {l \in Line : line[l] \in Production}
              undo == {l \in Line : line[l] = "cancelled"}
              Only(L, w) == [l \in Line |-> IF l \in L THEN w ELSE "none"]
          IN  {Only({l}, "undo") : l \in undo}
              \cup {Only(L, w) : L \in SUBSET open \ {{}}, w \in {"cancel", "delete"}}
              \cup IF flow = "export" THEN {}
                   ELSE {w \in [Line -> {"cancel", "delete", "none"}] :
                            /\ \E l \in Line : w[l] # "none"
                            /\ \A l \in Line : w[l] # "none" => l \in open}

(* Two requests about one line get along if both cancel or both undo.      *)
Meets(r, q) == /\ Asked(r) \cap Asked(q) # {}
               /\ ~ \E w \in {"cancel", "undo"} : Wants(r) = {w} /\ Wants(q) = {w}

(* iPlan is asked first, if it is asked about any line.                    *)
First(L) == IF flow = "domestic" \/ (flow = "export" /\ ~(L \subseteq special))
            THEN "iplan" ELSE "es21"

Start(r) ==
    /\ pc[r] = "idle"
    /\ wish' \in {[wish EXCEPT ![r] = w] : w \in Wishes}
    /\ crossed' = LET met == {q \in Running : Meets(r, q)'}
                  IN  crossed \cup met \cup IF met # {} THEN {r} ELSE {}
    /\ rows' = [rows EXCEPT ![r] = Asked(r)']
    /\ found' = [found EXCEPT ![r] = order]
    /\ Goto(r, First(Asked(r)'))
    /\ UNCHANGED <<flow, special, Database, Outside, answer, reply, raced, adrift, faults>>

(* A row that has gone makes the preparation of the first call of an undo  *)
(* fail, and that of the call of SAP otherwise (an export request looks    *)
(* for the rows there are).  Only CIP looks whether the line to undo is    *)
(* still cancelled.                                                        *)
Unprepared(r) ==
    IF Undoes(r)
    THEN pc[r] = First(rows[r]) /\ \E l \in rows[r] :
            line[l] = "gone" \/ (flow = "cip" /\ line[l] # "cancelled")
    ELSE pc[r] = "es21" /\ flow # "export" /\ ~(rows[r] \subseteq Exists)

Prepare(r) ==
    /\ pc[r] \in {"iplan", "es21"} /\ Unprepared(r)
    /\ End(r, IF (IF Undoes(r) THEN rows[r] \subseteq Exists ELSE flow # "cip")
              THEN "failed" ELSE "error")
    /\ UNCHANGED <<Database, Outside, Given, rows, adrift, Rest>>

(* What nobody will settle: an answer that never came and that leads to no *)
(* flag, a rollback that iPlan refuses, and the lines of an export order   *)
(* that iPlan refuses to delete and that are cancelled all the same.       *)
GiveUp(L) == adrift' = adrift \cup L

(* Faulty variant: the user is not told of a refusal.                      *)
ToldNothing(r, refused) == reply[r]

Told(r, refused) == IF refused # {} THEN "failed" ELSE reply[r]

(* Request DELETE of iPlan: each line is answered on its own.  A domestic  *)
(* order goes on with the lines that were not refused, an export order     *)
(* with all of them as soon as one was not.                                *)
DeleteInIPlan(r) ==
    /\ pc[r] = "iplan" /\ ~Undoes(r)
    /\ LET here == rows[r] \cap Exists
           sent == IF flow = "domestic" THEN {l \in here : line[l] # "cancelled"}
                   ELSE here \ special
       IN  \E refused \in SUBSET sent :
             LET goOn == IF flow = "domestic" THEN rows[r] \ refused
                         ELSE IF refused # sent THEN here ELSE here \cap special
             IN  /\ iplan' = [l \in Line |-> IF l \in sent \ refused THEN "free" ELSE iplan[l]]
                 /\ rows' = [rows EXCEPT ![r] = goOn]
                 /\ GiveUp(goOn \cap refused)
                 /\ reply' = [reply EXCEPT ![r] = Told(r, refused)]
                 /\ Goto(r, IF goOn # {} THEN "es21"
                            ELSE IF flow = "domestic" THEN "done" ELSE "store")
    /\ UNCHANGED <<Database, sap, Given, Rest>>

(* Request NEW of iPlan for the line to undo.                              *)
ReserveInIPlan(r) ==
    /\ pc[r] = "iplan" /\ Undoes(r) /\ ~Unprepared(r)
    /\ \/ /\ \E l \in rows[r] : iplan[l] = "free" /\ iplan' = [iplan EXCEPT ![l] = "reserved"]
          /\ answer' \in {[answer EXCEPT ![r] = s] : s \in Production}
          /\ Goto(r, "es21")
          /\ UNCHANGED reply
       \/ /\ End(r, "failed")
          /\ UNCHANGED <<iplan, answer>>
    /\ UNCHANGED <<Database, sap, Given, rows, adrift, found, raced, faults>>

----------------------------------------------------------------------------
(* ES21 (ES18 for CIP): SAP changes all items or none.                     *)
Carried(r) == [l \in Line |-> IF l \notin rows[r] THEN sap[l]
                              ELSE CASE wish[r][l] = "cancel" -> "rejected"
                                     [] wish[r][l] = "delete" -> "gone"
                                     [] OTHER -> "active"]
Possible(r) == \A l \in rows[r] : sap[l] # "gone"

Accepted(r) ==
    /\ pc[r] = "es21" /\ ~Unprepared(r) /\ Possible(r)
    /\ sap' = Carried(r)
    /\ Goto(r, IF Undoes(r) /\ \A l \in rows[r] : Planned(l) THEN "confirm" ELSE "store")
    /\ UNCHANGED <<Database, iplan, Given, rows, reply, adrift, Rest>>

(* Faulty variant: a cancellation that SAP refuses is not flagged.         *)
AfterRefusalUnflagged(r) == IF Undoes(r) /\ flow \in {"domestic", "export"} THEN "rollback"
                            ELSE "done"

(* SAP refuses, or another user is at the order.                           *)
AfterRefusal(r) == IF Undoes(r) THEN IF flow \in {"domestic", "export"} THEN "rollback" ELSE "done"
                   ELSE IF flow \in {"domestic", "export"} THEN "flag" ELSE "done"

Refused(r) ==
    /\ pc[r] = "es21" /\ ~Unprepared(r)
    /\ Goto(r, AfterRefusal(r))
    /\ reply' = [reply EXCEPT ![r] = "failed"]
    /\ UNCHANGED <<Database, Outside, Given, rows, adrift, Rest>>

(* The call raises, carried out or not; a cancellation of a domestic order *)
(* catches that (others: Raise).                                           *)
Unanswered(r) ==
    /\ pc[r] = "es21" /\ ~Unprepared(r) /\ ~Undoes(r)
    /\ flow \in {"domestic", "noIplan"}
    /\ faults < MaxFault /\ faults' = faults + 1
    /\ \/ Possible(r) /\ sap' = Carried(r)
       \/ UNCHANGED sap
    /\ Goto(r, IF flow = "domestic" THEN "flag" ELSE "done")
    /\ GiveUp(IF flow = "domestic" THEN {} ELSE rows[r])
    /\ reply' = [reply EXCEPT ![r] = "failed"]
    /\ UNCHANGED <<Database, iplan, Given, rows, answer, found, raced>>

(* call_iplan_roll_back, whose answer nobody reads.                        *)
RollbackInIPlan(r) ==
    /\ pc[r] = "rollback"
    /\ \E l \in rows[r] :
          \/ /\ iplan' = [iplan EXCEPT ![l] = IF @ = "reserved" THEN "free" ELSE @]
             /\ UNCHANGED <<adrift, faults>>
          \/ /\ faults < MaxFault /\ faults' = faults + 1
             /\ GiveUp({l})
             /\ UNCHANGED iplan
    /\ Goto(r, "done")
    /\ UNCHANGED <<Database, sap, Given, rows, answer, reply, found, raced>>

(* call_iplan_confirm_undo: COMMIT of what was reserved.                   *)
ConfirmInIPlan(r) ==
    /\ pc[r] = "confirm"
    /\ \/ /\ \E l \in rows[r] : iplan[l] = "reserved" /\ iplan' = [iplan EXCEPT ![l] = "held"]
          /\ Goto(r, "store")
          /\ UNCHANGED reply
       \/ /\ Goto(r, "flag")
          /\ reply' = [reply EXCEPT ![r] = "failed"]
          /\ UNCHANGED iplan
    /\ UNCHANGED <<Database, sap, Given, rows, adrift, Rest>>

----------------------------------------------------------------------------
(* Faulty variant: save() would insert a row again that has been deleted.  *)
FlaggableSaved(r) == rows[r]

(* update_attention_type_r5, and the commit.                               *)
Flaggable(r) == rows[r] \cap Exists

Flag(r) ==
    /\ pc[r] = "flag"
    /\ flagged' = flagged \cup Flaggable(r)
    /\ Goto(r, "done")
    /\ UNCHANGED <<line, order, stale, Outside, Given, rows, reply, adrift, Rest>>

(* save(update_fields=...) of CIP raises for a row that has gone.          *)
Lacking(r) == flow = "cip" /\ \E l \in rows[r] : wish[r][l] # "delete" /\ line[l] = "gone"

SaveRaises(r) ==
    /\ pc[r] = "store" /\ Lacking(r)
    /\ GiveUp(Asked(r))
    /\ End(r, "error")
    /\ UNCHANGED <<Database, Outside, Given, rows, Rest>>

Free(r) == \A q \in Request \ {r} : pc[q] = "commit" => rows[q] \cap rows[r] = {}

(* The statements that write the rows, and update_order_status, which is   *)
(* called before rows are deleted.  A mere deletion saves the order with   *)
(* the status it was read with, by export and CIP at the very beginning.   *)
Decided(r) == StatusOf([l \in Line |-> IF wish[r][l] = "delete" THEN line[l]
                                       ELSE Written(r)[l]])
Recomputes(r) == Wants(r) # {"delete"}

(* Faulty variant: the status is decided before the rows are written.      *)
StoreEarly(r) ==
    /\ pc[r] = "store" /\ Free(r) /\ ~Lacking(r)
    /\ found' = [found EXCEPT ![r] = StatusOf(line)]
    /\ raced' = raced \ {r}
    /\ Goto(r, "commit")
    /\ UNCHANGED <<Database, Outside, Given, rows, answer, reply, adrift, faults>>

Store(r) ==
    /\ pc[r] = "store" /\ Free(r) /\ ~Lacking(r)
    /\ found' = [found EXCEPT ![r] = IF Recomputes(r) THEN Decided(r)
                                     ELSE IF flow \in {"export", "cip"} THEN @ ELSE order]
    /\ raced' = raced \ {r}
    /\ Goto(r, "commit")
    /\ UNCHANGED <<Database, Outside, Given, rows, answer, reply, adrift, faults>>

(* order.save() and the commit.                                            *)
Commit(r) ==
    /\ pc[r] = "commit"
    /\ line' = Written(r)
    /\ flagged' = IF Undoes(r) THEN flagged ELSE flagged \ rows[r]
    /\ order' = found[r]
    /\ stale' = (r \in raced \/ "delete" \in Wants(r))
    /\ raced' = raced \cup {q \in Request \ {r} : pc[q] = "commit"}
    /\ End(r, IF reply[r] = "none" THEN "ok" ELSE reply[r])
    /\ UNCHANGED <<Outside, Given, rows, answer, found, adrift, faults>>

(* An exception nobody catches, or the death of the process: the           *)
(* transaction is rolled back, what the others have done stays.            *)
Raise(r) ==
    /\ r \in Running
    /\ faults < MaxFault /\ faults' = faults + 1
    /\ GiveUp(Asked(r))
    /\ End(r, "error")
    /\ UNCHANGED <<Database, Outside, Given, rows, answer, found, raced>>

Step(r) == \/ DeleteInIPlan(r) \/ ReserveInIPlan(r)
           \/ Prepare(r) \/ Accepted(r) \/ Refused(r) \/ Unanswered(r)
           \/ RollbackInIPlan(r) \/ ConfirmInIPlan(r)
           \/ Flag(r) \/ SaveRaises(r) \/ Store(r) \/ Commit(r)

Next == \E r \in Request : Start(r) \/ Step(r) \/ Raise(r)

Spec == Init /\ [][Next]_vars

----------------------------------------------------------------------------
(* What becomes of a line whose requests are over: database, SAP and iPlan *)
(* say the same of it, or it is flagged R5 for the job that repeats the    *)
(* call.  Excepted are lines the code gives up (GiveUp), and requests that *)
(* overlap with a request of another kind about the same line.             *)
Agree(l) == CASE line[l] = "gone"      -> sap[l] = "gone" /\ iplan[l] = "free"
              [] line[l] = "cancelled" -> sap[l] = "rejected" /\ iplan[l] = "free"
              [] OTHER -> sap[l] = "active" /\ iplan[l] = (IF Planned(l) THEN "held" ELSE "free")

Quiet(l) == \A r \in Request : l \in Asked(r) => r \notin Running \cup crossed

SettledOrFlagged == \A l \in Line \ adrift : Quiet(l) => Agree(l) \/ l \in flagged

(* Who is told of success has got what he asked for, in SAP and in the     *)
(* database, also when others ask for other lines or for the same.         *)
Done(r, l) == CASE wish[r][l] = "cancel" -> line[l] = "cancelled" /\ sap[l] = "rejected"
                [] wish[r][l] = "delete" -> line[l] = "gone" /\ sap[l] = "gone"
                [] OTHER -> line[l] \in Production /\ sap[l] = "active"
SuccessMeansDone ==
    [][\A r \in Request \ crossed : reply[r] # "ok" /\ reply'[r] = "ok"
          => \A l \in Asked(r) : Done(r, l)']_vars

(* The order has the status its rows decide, unless the last request to    *)
(* write it deleted lines or was overtaken by another between its          *)
(* statements and its commit.                                              *)
OrderOfRows == stale \/ order = StatusOf(line)
============================================================================
