---------------------------- MODULE OrderCreate ----------------------------
(***************************************************************************)
(* Submission of one e-ordering order: reservation in iPlan, creation in   *)
(* SAP (ES17), commit or rollback of the reservation, and the database     *)
(* transaction around it all (call_i_plan_create_order and its callers).   *)
(*                                                                         *)
(* The same order can be submitted several times, one after the other or   *)
(* at the same time; each submission is a Request, which also names its    *)
(* reservation in iPlan (headerCode) and the sales order it makes SAP      *)
(* create (salesdocument).  The callers differ in what they read and write *)
(* before the remote calls and in how they end their transaction:          *)
(*   domestic   contract_order_update        customer  update_customer_order*)
(*   export     update_export_order          eo_upload create_new_export_order*)
(* For eo_upload, whose order rows are new at each attempt, "order" is the *)
(* EoUploadLog entry: its state, received or not, and its eo_no.           *)
(*                                                                         *)
(* PostgreSQL runs at READ COMMITTED: a statement sees what is committed   *)
(* and its own transaction's writes, and a row that was written stays      *)
(* locked until the transaction ends.                                      *)
(***************************************************************************)
EXTENDS FiniteSets

CONSTANTS Request, Line,
          Flows,       \* the kinds of caller that may occur
          None         \* no request: nobody holds the rows, no SAP number

ASSUME FlowAssumption ==
    Flows \subseteq {"domestic", "customer", "export", "eo_upload"}
ASSUME NoneAssumption == None \notin Request

VARIABLES kind,        \* the caller, and whether the product group needs iPlan
          order,       \* committed row: status, so_no, attention flag R5
          owner,       \* the request whose transaction has written the rows
          view,        \* the row as that transaction sees it
          loaded,      \* the Order object each request holds in memory
          pc, result,  \* progress and outcome of each request
          iplan,       \* iPlan: what became of the lines of each reservation
          sapOrders    \* SAP: the requests for which a sales order exists

vars == <<kind, order, owner, view, loaded, pc, result, iplan, sapOrders>>

Status  == {"draft", "received"}
Row     == [status : Status, so : Request \cup {None}, r5 : BOOLEAN]
Outcome == {"pending", "success", "failure", "invalid", "error", "killed"}
Place   == {"new", "save", "guard", "plan", "accepted", "rejected", "short", "sap",
            "confirm", "undo", "undoRaise", "finish", "close", "done"}
LineState == {"none", "reserved", "committed", "released"}

TypeOK == /\ kind \in [flow : Flows, iplan : BOOLEAN]
          /\ order \in Row
          /\ owner \in Request \cup {None}
          /\ view \in [Request -> Row]
          /\ loaded \in [Request -> Row]
          /\ pc \in [Request -> Place]
          /\ result \in [Request -> Outcome]
          /\ iplan \in [Request -> [Line -> LineState]]
          /\ sapOrders \subseteq Request

NewRow == [status |-> "draft", so |-> None, r5 |-> FALSE]

Init == /\ kind \in [flow : Flows, iplan : BOOLEAN]
        /\ order = NewRow
        /\ owner = None
        /\ view = [r \in Request |-> NewRow]
        /\ loaded = [r \in Request |-> NewRow]
        /\ pc = [r \in Request |-> "new"]
        /\ result = [r \in Request |-> "pending"]
        /\ iplan = [r \in Request |-> [l \in Line |-> "none"]]
        /\ sapOrders = {}

----------------------------------------------------------------------------
Goto(r, p) == pc' = [pc EXCEPT ![r] = p] /\ UNCHANGED result

(* The function returns or raises; what is left is the end of the          *)
(* transaction.  "invalid" is a ValidationError, "error" anything else.    *)
Leave(r, res) == /\ pc' = [pc EXCEPT ![r] = "close"]
                 /\ result' = [result EXCEPT ![r] = res]

(* The first write of a transaction to the rows waits for the transaction  *)
(* that has written them.                                                  *)
Lock(r) == /\ owner \in {None, r}
           /\ owner' = r

(* The row as a statement of the transaction of r sees it.                 *)
Seen(r) == IF owner = r \/ kind.flow = "eo_upload" THEN view[r] ELSE order

Write(r, row) == view' = [view EXCEPT ![r] = row]

(* iPlan moves the given lines of the reservation of r to a new state.     *)
Move(r, lines, s) ==
    iplan' = [iplan EXCEPT ![r] = [l \in Line |-> IF l \in lines THEN s ELSE @[l]]]

Reserved(r) == {l \in Line : iplan[r][l] = "reserved"}

Remote == <<iplan, sapOrders>>
Local  == <<kind, order, owner, view, loaded>>

----------------------------------------------------------------------------
(* The caller reads the order; eo_upload ignores a log entry in state      *)
(* ReceivedOrder, the others test the status further on.                   *)
Load(r) ==
    /\ pc[r] = "new"
    /\ loaded' = [loaded EXCEPT ![r] = order]
    /\ \/ /\ kind.flow \in {"domestic", "export"}
          /\ Goto(r, "save")
       \/ /\ kind.flow = "customer" \/ (kind.flow = "eo_upload" /\ order.status # "received")
          /\ Goto(r, "guard")
       \/ /\ kind.flow = "eo_upload" /\ order.status = "received"
          /\ pc' = [pc EXCEPT ![r] = "done"]
          /\ result' = [result EXCEPT ![r] = "failure"]
    /\ UNCHANGED <<kind, order, owner, view, Remote>>

(* Faulty variant: contract_order_update saves the whole Order in memory.   *)
SaveWhole(r) ==
    /\ pc[r] = "save"
    /\ Lock(r)
    /\ Write(r, [order EXCEPT !.status = loaded[r].status, !.so = loaded[r].so])
    /\ IF loaded[r].status = "draft" THEN Goto(r, "guard") ELSE Leave(r, "invalid")
    /\ UNCHANGED <<kind, order, loaded, Remote>>

(* Writes that precede the remote calls: contract_order_update updates the *)
(* lines, update_export_order saves every field of the Order in memory.    *)
(* Both then test the status of the Order in memory and raise a            *)
(* ValidationError for a duplicate request.                                *)
Save(r) ==
    /\ pc[r] = "save"
    /\ Lock(r)
    /\ Write(r, IF kind.flow = "export"
                THEN [order EXCEPT !.status = loaded[r].status, !.so = loaded[r].so]
                ELSE order)
    /\ IF loaded[r].status = "draft" THEN Goto(r, "guard") ELSE Leave(r, "invalid")
    /\ UNCHANGED <<kind, order, loaded, Remote>>

(* Faulty variant: the status of the Order in memory is tested.            *)
GuardInMemory(r) ==
    /\ pc[r] = "guard"
    /\ \/ loaded[r].status # "draft" /\ Leave(r, "failure")
       \/ loaded[r].status = "draft" /\ Goto(r, IF kind.iplan THEN "plan" ELSE "sap")
    /\ UNCHANGED <<Local, Remote>>

(* The query of call_i_plan_create_order: no line of an order in status    *)
(* draft or pre-draft means a duplicate request.                           *)
Guard(r) ==
    /\ pc[r] = "guard"
    /\ \/ Seen(r).status # "draft" /\ Leave(r, "failure")
       \/ Seen(r).status = "draft" /\ Goto(r, IF kind.iplan THEN "plan" ELSE "sap")
    /\ UNCHANGED <<Local, Remote>>

(* request_i_plan: iPlan reserves some of the lines and answers with the   *)
(* status of each, or with fewer lines than were sent.                     *)
PlanAnswers(r) ==
    /\ pc[r] = "plan"
    /\ \E ok \in SUBSET Line :
          /\ Move(r, ok, "reserved")
          /\ \/ ok = Line /\ Goto(r, "accepted")
             \/ ok # Line /\ Goto(r, "rejected")
             \/ ok # Line /\ Goto(r, "short")
    /\ UNCHANGED <<Local, sapOrders>>

(* request_i_plan raises; iPlan may have reserved lines all the same.      *)
PlanRaises(r) ==
    /\ pc[r] = "plan"
    /\ \E ok \in SUBSET Line : Move(r, ok, "reserved")
    /\ \E e \in {"invalid", "error"} : Leave(r, e)
    /\ UNCHANGED <<Local, sapOrders>>

(* Faulty variant: the reservation is committed before SAP is called.      *)
WriteLinesAndConfirm(r) ==
    /\ pc[r] \in {"accepted", "rejected", "short"}
    /\ IF kind.flow = "eo_upload" THEN UNCHANGED owner ELSE Lock(r)
    /\ Write(r, Seen(r))
    /\ IF pc[r] = "accepted" THEN Goto(r, "confirm") ELSE Leave(r, "failure")
    /\ UNCHANGED <<kind, order, loaded, Remote>>

(* update_order_line_after_call_i_plan writes the lines.  Of a rejected    *)
(* plan, only eo_upload gives back the lines that were reserved, and only  *)
(* when the answer listed every line.                                      *)
WriteLines(r) ==
    /\ pc[r] \in {"accepted", "rejected", "short"}
    /\ IF kind.flow = "eo_upload" THEN UNCHANGED owner ELSE Lock(r)
    /\ Write(r, Seen(r))
    /\ \/ pc[r] = "accepted" /\ Goto(r, "sap")
       \/ /\ pc[r] = "rejected" /\ kind.flow = "eo_upload" /\ Reserved(r) # {}
          /\ Goto(r, "undo")
       \/ /\ pc[r] = "short" \/ (pc[r] = "rejected"
                                    /\ (kind.flow # "eo_upload" \/ Reserved(r) = {}))
          /\ Leave(r, "failure")
    /\ UNCHANGED <<kind, order, loaded, Remote>>

(* Faulty variant: without iPlan, the refusal of SAP is not looked at.     *)
SapAnswersUnread(r) ==
    /\ pc[r] = "sap"
    /\ sapOrders' \in {sapOrders, sapOrders \cup {r}}
    /\ Goto(r, IF ~kind.iplan THEN "finish"
               ELSE IF r \in sapOrders' THEN "confirm" ELSE "undo")
    /\ UNCHANGED <<Local, iplan>>

(* request_create_order_sap (ES17): SAP creates the order, or refuses it.  *)
SapAnswers(r) ==
    /\ pc[r] = "sap"
    /\ \/ /\ sapOrders' = sapOrders \cup {r}
          /\ Goto(r, IF kind.iplan THEN "confirm" ELSE "finish")
       \/ /\ UNCHANGED sapOrders
          /\ IF kind.iplan THEN Goto(r, "undo") ELSE Leave(r, "failure")
    /\ UNCHANGED <<Local, iplan>>

(* request_create_order_sap raises, before or after SAP created the order; *)
(* only eo_upload then rolls the reservation back.                         *)
SapRaises(r) ==
    /\ pc[r] = "sap"
    /\ sapOrders' \in {sapOrders, sapOrders \cup {r}}
    /\ \E e \in {"invalid", "error"} :
          /\ result' = [result EXCEPT ![r] = e]
          /\ pc' = [pc EXCEPT ![r] = IF kind.iplan /\ kind.flow = "eo_upload"
                                     THEN "undoRaise" ELSE "close"]
    /\ UNCHANGED <<Local, iplan>>

(* Faulty variant: only a commit that fails for every line is flagged.     *)
CommitAnswersUnflagged(r) ==
    /\ pc[r] = "confirm"
    /\ \E bad \in SUBSET Line :
          /\ Move(r, Line \ bad, "committed")
          /\ Write(r, [view[r] EXCEPT !.r5 = @ \/ bad = Line])
    /\ Goto(r, "finish")
    /\ UNCHANGED <<kind, order, owner, loaded, sapOrders>>

(* confirm_i_plan COMMIT: the lines iPlan does not commit flag the order   *)
(* R5, and the order is a success nevertheless.                            *)
CommitAnswers(r) ==
    /\ pc[r] = "confirm"
    /\ \E bad \in SUBSET Line :
          /\ Move(r, Line \ bad, "committed")
          /\ Write(r, [view[r] EXCEPT !.r5 = @ \/ bad # {}])
    /\ Goto(r, "finish")
    /\ UNCHANGED <<kind, order, owner, loaded, sapOrders>>

(* confirm_i_plan COMMIT raises: the order in memory, still a draft, is    *)
(* flagged R5 and saved with the SAP number, then the exception goes on.   *)
CommitRaises(r) ==
    /\ pc[r] = "confirm"
    /\ \E ok \in SUBSET Line : Move(r, ok, "committed")
    /\ Write(r, [status |-> loaded[r].status, so |-> r, r5 |-> TRUE])
    /\ \E e \in {"invalid", "error"} : Leave(r, e)
    /\ UNCHANGED <<kind, order, owner, loaded, sapOrders>>

(* confirm_i_plan ROLLBACK: nobody looks at what iPlan acknowledges.       *)
RollbackAnswers(r) ==
    /\ pc[r] \in {"undo", "undoRaise"}
    /\ \E ok \in SUBSET Reserved(r) : Move(r, ok, "released")
    /\ Leave(r, IF pc[r] = "undo" THEN "failure" ELSE result[r])
    /\ UNCHANGED <<Local, sapOrders>>

RollbackRaises(r) ==
    /\ pc[r] \in {"undo", "undoRaise"}
    /\ \E ok \in SUBSET Reserved(r) : Move(r, ok, "released")
    /\ \E e \in {"invalid", "error"} : Leave(r, e)
    /\ UNCHANGED <<Local, sapOrders>>

(* Faulty variant: two of the fields are assigned the wrong way round.     *)
FinishSwapped(r) ==
    /\ pc[r] = "finish"
    /\ Lock(r)
    /\ Write(r, [status |-> "received", so |-> Seen(r).r5, r5 |-> r])
    /\ Leave(r, "success")
    /\ UNCHANGED <<kind, order, loaded, Remote>>

(* The order is saved as Received Order with the number SAP gave it (by    *)
(* eo_upload: the log entry is).                                           *)
Finish(r) ==
    /\ pc[r] = "finish"
    /\ Lock(r)
    /\ Write(r, [status |-> "received", so |-> r, r5 |-> Seen(r).r5])
    /\ Leave(r, "success")
    /\ UNCHANGED <<kind, order, loaded, Remote>>

(* The end of the transaction.  A failed submission is rolled back (that   *)
(* of customer is not, but has not written the row), a ValidationError is  *)
(* returned as a value and commits, any other exception rolls back.        *)
(* eo_upload catches every exception and then sets the log to Error.       *)
Commits(r) == \/ result[r] = "success"
              \/ result[r] = "invalid" /\ kind.flow # "eo_upload"

(* Faulty variant: a failed submission leaves its transaction open.        *)
CloseLeavingOpen(r) ==
    /\ pc[r] = "close"
    /\ IF Commits(r) THEN order' = Seen(r) ELSE UNCHANGED order
    /\ owner' = IF owner = r /\ Commits(r) THEN None ELSE owner
    /\ Goto(r, "done")
    /\ UNCHANGED <<kind, view, loaded, Remote>>

Close(r) ==
    /\ pc[r] = "close"
    /\ \/ /\ Commits(r)
          /\ order' = Seen(r)
       \/ /\ ~Commits(r) /\ kind.flow # "eo_upload"
          /\ UNCHANGED order
       \/ /\ ~Commits(r) /\ kind.flow = "eo_upload" /\ owner = None
          /\ order' = [order EXCEPT !.status = "draft"]
    /\ owner' = IF owner = r THEN None ELSE owner
    /\ Goto(r, "done")
    /\ UNCHANGED <<kind, view, loaded, Remote>>

(* The server process dies; the database rolls the transaction back.       *)
Kill(r) ==
    /\ pc[r] \notin {"new", "done"}
    /\ owner' = IF owner = r THEN None ELSE owner
    /\ pc' = [pc EXCEPT ![r] = "done"]
    /\ result' = [result EXCEPT ![r] = "killed"]
    /\ UNCHANGED <<kind, order, view, loaded, Remote>>

Step(r) == \/ Save(r) \/ Guard(r) \/ PlanAnswers(r) \/ PlanRaises(r) \/ WriteLines(r)
           \/ SapAnswers(r) \/ SapRaises(r) \/ CommitAnswers(r) \/ CommitRaises(r)
           \/ RollbackAnswers(r) \/ RollbackRaises(r) \/ Finish(r) \/ Close(r)

Next == \E r \in Request : Load(r) \/ Step(r) \/ Kill(r)

Spec == Init /\ [][Next]_vars

(* A request under way goes on: remote calls have a timeout, and the       *)
(* database grants a row lock once it is free.                             *)
FairSpec == Spec /\ \A r \in Request : WF_vars(Step(r))

----------------------------------------------------------------------------
(* The e-ordering side does not know what became of the request.           *)
Lost(r) == result[r] \in {"invalid", "error", "killed"}

(* "Duplicate order creation request found": SAP gets a second sales order *)
(* for the same order only when an exception or a crash has hidden the     *)
(* outcome of one of the two requests, never because of a second click.    *)
NoDuplicateOrder == \A q, r \in sapOrders : q # r => Lost(q) \/ Lost(r)

(* An order in status Received Order carries the number of a sales order   *)
(* that exists in SAP.                                                     *)
ReceivedIsInSap == order.status = "received" => order.so \in sapOrders

(* A line of a received order that iPlan has not committed is under the    *)
(* attention flag R5, which makes the retry job commit it later.           *)
UncommittedIsFlagged ==
    (order.status = "received" /\ kind.iplan) =>
        \/ order.r5
        \/ \A l \in Line : iplan[order.so][l] = "committed"

(* iPlan is told to commit only what SAP has accepted.                     *)
CommittedIsInSap == \A r \in Request, l \in Line :
                        iplan[r][l] = "committed" => r \in sapOrders

(* A received order does not become a draft again, whatever requests with  *)
(* an older copy of it in memory do.                                       *)
NeverReopened == [][order.status = "received" => order' = order]_vars

(* A domestic submission keeps the promises of Submission: the order has   *)
(* been received once its committed row says so.                           *)
Abstract == INSTANCE Submission
                WITH received <- IF order.status = "received" THEN order.so ELSE None,
                     stock <- iplan, sales <- sapOrders

ImplementsSubmission == Abstract!Spec

(* Every submission comes to an end, also one that waits for the rows of   *)
(* another.                                                                *)
RequestEnds == \A r \in Request : pc[r] \in {"save", "guard"} ~> pc[r] = "done"
============================================================================
