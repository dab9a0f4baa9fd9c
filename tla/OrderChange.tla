---------------------------- MODULE OrderChange ----------------------------
(***************************************************************************)
(* Changes of a domestic order that SAP knows already                      *)
(* (ChangeOrderUpdate.perform_mutation): changed lines are sent to iPlan,  *)
(* as an update that takes effect at once (YT-65217) or as a reservation   *)
(* to be committed (YT-65156), then to SAP (ES21); then the reservation is *)
(* committed or rolled back, and the whole order is read back from SAP     *)
(* (ES26).  All of it is one database transaction, at READ COMMITTED:      *)
(* written rows stay locked until its end.                                 *)
(*                                                                         *)
(* Each Request changes each line at most once, so that the content of a   *)
(* line is named by the request that wrote it.                             *)
(***************************************************************************)
EXTENDS FiniteSets

CONSTANTS Request, Line,
          Kinds,       \* what a request may do with a line, see kind
          None         \* no request: the line as it was, a free row

ASSUME KindAssumption ==
    Kinds \subseteq {"absent", "same", "plain", "yt65217", "yt65156"}
ASSUME NoneAssumption == None \notin Request

VARIABLES kind,        \* mapping_change_order: the lines of each request
          rows,        \* committed order lines: content and attention flag R5
          work,        \* the same as their lock holder sees them
          owner,       \* lock of each line
          orderOwner,  \* lock of the Order row
          loaded,      \* order_lines_in_database of each request
          es26,        \* the order as each request read it from SAP
          iplan, sap,  \* content of each line in iPlan and SAP
          reserved,    \* lines iPlan keeps reserved for each request
          accepted,    \* requests ES21 was carried out for
          marked,      \* requests that marked their log for the retry job
          overlapped,  \* requests that ran at the same time as another
          pc, result

vars == <<kind, rows, work, owner, orderOwner, loaded, es26, iplan, sap, reserved,
          accepted, marked, overlapped, pc, result>>

Version == Request \cup {None}
Row     == [ver : Version, r5 : BOOLEAN]
Place   == {"new", "inquiry", "update", "reserve", "save", "es21", "undo", "confirm",
            "sync", "order", "write", "close", "done"}
Outcome == {"pending", "success", "unsynced", "failure", "unknown", "error", "killed"}

TypeOK == /\ kind \in [Request -> [Line -> Kinds]]
          /\ rows \in [Line -> Row] /\ work \in [Line -> Row]
          /\ owner \in [Line -> Version] /\ orderOwner \in Version
          /\ loaded \in [Request -> [Line -> Row]]
          /\ es26 \in [Request -> [Line -> Version]]
          /\ iplan \in [Line -> Version] /\ sap \in [Line -> Version]
          /\ reserved \in [Request -> SUBSET Line]
          /\ accepted \subseteq Request /\ marked \subseteq Request
          /\ overlapped \subseteq Request
          /\ pc \in [Request -> Place] /\ result \in [Request -> Outcome]

NoVersion == [l \in Line |-> None]
NewRows   == [l \in Line |-> [ver |-> None, r5 |-> FALSE]]

Init == /\ kind \in [Request -> [Line -> Kinds]]
        /\ rows = NewRows /\ work = NewRows
        /\ owner = NoVersion /\ orderOwner = None
        /\ loaded = [r \in Request |-> NewRows]
        /\ es26 = [r \in Request |-> NoVersion]
        /\ iplan = NoVersion /\ sap = NoVersion
        /\ reserved = [r \in Request |-> {}]
        /\ accepted = {} /\ marked = {} /\ overlapped = {}
        /\ pc = [r \in Request |-> "new"]
        /\ result = [r \in Request |-> "pending"]

----------------------------------------------------------------------------
Of(r, kinds) == {l \in Line : kind[r][l] \in kinds}
Input(r)     == Line \ Of(r, {"absent"})                 \* the lines of item_details
Changed(r)   == Of(r, {"plain", "yt65217", "yt65156"})   \* order_lines_update
Update(r)    == Of(r, {"yt65217"})
Reserve(r)   == Of(r, {"yt65156"})

Goto(r, p)       == pc' = [pc EXCEPT ![r] = p] /\ UNCHANGED result
Finish(r, res)   == pc' = [pc EXCEPT ![r] = "close"] /\ result' = [result EXCEPT ![r] = res]
Undo(r, res)     == pc' = [pc EXCEPT ![r] = "undo"] /\ result' = [result EXCEPT ![r] = res]

Set(f, lines, v) == [l \in Line |-> IF l \in lines THEN v ELSE f[l]]

(* Locks of line rows; taken when all of the rows are free.                *)
Lock(r, lines) == /\ \A l \in lines : owner[l] \in {None, r}
                  /\ owner' = Set(owner, lines, r)

(* Faulty variant: the flag is written over the content.                   *)
FlaggedOverContent(lines) ==
    [l \in Line |-> IF l \in lines THEN [work[l] EXCEPT !.ver = TRUE] ELSE work[l]]

Flagged(lines) == [l \in Line |-> IF l \in lines THEN [work[l] EXCEPT !.r5 = TRUE] ELSE work[l]]

Fixed  == <<kind, rows, overlapped>>
Locks  == <<owner, orderOwner>>
Local  == <<Fixed, work, Locks, loaded, es26, marked>>
Remote == <<iplan, sap, reserved, accepted>>

----------------------------------------------------------------------------
(* mapping_change_order reads the lines.                                   *)
Started(q) == pc[q] \notin {"new", "done"}

Load(r) ==
    /\ pc[r] = "new"
    /\ loaded' = [loaded EXCEPT ![r] = rows]
    /\ LET others == {q \in Request \ {r} : Started(q)}
       IN overlapped' = IF others = {} THEN overlapped ELSE overlapped \cup others \cup {r}
    /\ Goto(r, "inquiry")
    /\ UNCHANGED <<kind, rows, work, Locks, es26, marked, Remote>>

AfterUpdate(r) == IF Reserve(r) # {} THEN "reserve" ELSE "save"

(* update_inquiry_method writes the lines whose inquiry method differs;    *)
(* when neither line nor header has changed, the request ends here.        *)
Inquiry(r) ==
    /\ pc[r] = "inquiry"
    /\ \E lines \in {{}, Input(r)} : Lock(r, lines)
    /\ \/ Goto(r, IF Update(r) # {} THEN "update" ELSE AfterUpdate(r))
       \/ Changed(r) = {} /\ Finish(r, "success")
    /\ UNCHANGED <<Fixed, work, orderOwner, loaded, es26, marked, Remote>>

(* YT-65217: iPlan changes the lines it does not refuse, for good.         *)
CallUpdate(r) ==
    /\ pc[r] = "update"
    /\ \E ok \in SUBSET Update(r) :
          /\ iplan' = Set(iplan, ok, r)
          /\ \/ ok = Update(r) /\ Goto(r, AfterUpdate(r))
             \/ ok # Update(r) /\ Finish(r, "failure")
             \/ Finish(r, "error")
    /\ UNCHANGED <<Local, sap, reserved, accepted>>

(* Faulty variant: a partial refusal leaves the rest reserved.             *)
CallReserveNoUndo(r) ==
    /\ pc[r] = "reserve"
    /\ \E ok \in SUBSET Reserve(r) :
          /\ reserved' = [reserved EXCEPT ![r] = ok]
          /\ \/ ok = Reserve(r) /\ Goto(r, "save")
             \/ ok # Reserve(r) /\ Finish(r, "failure")
             \/ Finish(r, "error")
    /\ UNCHANGED <<Local, iplan, sap, accepted>>

(* YT-65156: when iPlan refuses a line, the others are rolled back.        *)
CallReserve(r) ==
    /\ pc[r] = "reserve"
    /\ \E ok \in SUBSET Reserve(r) :
          /\ reserved' = [reserved EXCEPT ![r] = ok]
          /\ \/ ok = Reserve(r) /\ Goto(r, "save")
             \/ ok # Reserve(r) /\ ok # {} /\ Undo(r, "failure")
             \/ ok = {} /\ Finish(r, "failure")
             \/ Finish(r, "error")
    /\ UNCHANGED <<Local, iplan, sap, accepted>>

(* Faulty variant: only the changed lines are saved.                       *)
SaveChanged(r) ==
    /\ pc[r] = "save"
    /\ Lock(r, Changed(r))
    /\ work' = [l \in Line |-> IF l \in Changed(r) THEN loaded[r][l] ELSE work[l]]
    /\ Goto(r, "es21")
    /\ UNCHANGED <<Fixed, orderOwner, loaded, es26, marked, Remote>>

(* save_reason_for_change_request_date saves every field of every line of  *)
(* the input as it was loaded.                                             *)
Save(r) ==
    /\ pc[r] = "save"
    /\ Lock(r, Input(r))
    /\ work' = [l \in Line |-> IF l \in Input(r) THEN loaded[r][l] ELSE work[l]]
    /\ Goto(r, "es21")
    /\ UNCHANGED <<Fixed, orderOwner, loaded, es26, marked, Remote>>

Accept(r) == accepted' = accepted \cup {r} /\ sap' = Set(sap, Changed(r), r)

(* Faulty variant: errors of single items are not looked at.               *)
CallEs21Unread(r) ==
    /\ pc[r] = "es21"
    /\ Accept(r) \/ UNCHANGED <<accepted, sap>>
    /\ Goto(r, IF Reserve(r) # {} THEN "confirm" ELSE "sync")
    /\ UNCHANGED <<Local, iplan, reserved>>

(* ES21: SAP changes the lines, or returns errors for the order or items.  *)
(* A refusal of the order flags the lines iPlan has updated, in the        *)
(* transaction that is rolled back; the mark on the log is not.            *)
CallEs21(r) ==
    /\ pc[r] = "es21"
    /\ \/ /\ Accept(r)
          /\ Goto(r, IF Reserve(r) # {} THEN "confirm" ELSE "sync")
          /\ UNCHANGED <<work, marked>>
       \/ /\ UNCHANGED <<accepted, sap>>
          /\ \/ UNCHANGED <<work, marked>>
             \/ /\ Update(r) # {}
                /\ work' = Flagged(Update(r))
                /\ marked' = marked \cup {r}
          /\ IF Reserve(r) # {} THEN Undo(r, "failure") ELSE Finish(r, "failure")
    /\ UNCHANGED <<Fixed, Locks, loaded, es26, iplan, reserved>>

(* ES21 raises, before or after SAP carried it out.  A ValidationError is  *)
(* reported as a failure and commits, unless there is a reservation; of    *)
(* any other exception e.messages raises in its turn.                      *)
Es21Raises(r) ==
    /\ pc[r] = "es21"
    /\ Accept(r) \/ UNCHANGED <<accepted, sap>>
    /\ \/ IF Reserve(r) # {} THEN Undo(r, "error") ELSE Finish(r, "unknown")
       \/ Finish(r, "error")
    /\ UNCHANGED <<Local, iplan, reserved>>

(* Rollback of the reserved lines; it may raise.                           *)
Rollback(r) ==
    /\ pc[r] = "undo"
    /\ \/ reserved' = [reserved EXCEPT ![r] = {}] /\ Goto(r, "close")
       \/ /\ \E left \in SUBSET reserved[r] : reserved' = [reserved EXCEPT ![r] = left]
          /\ Finish(r, "error")
    /\ UNCHANGED <<Local, iplan, sap, accepted>>

(* Faulty variant: lines whose commit iPlan refuses are not flagged.       *)
ConfirmUnflagged(r) ==
    /\ pc[r] = "confirm"
    /\ \E bad \in SUBSET Reserve(r) :
          /\ iplan' = Set(iplan, Reserve(r) \ bad, r)
          /\ reserved' = [reserved EXCEPT ![r] = bad]
    /\ Goto(r, "sync")
    /\ UNCHANGED <<Local, sap, accepted>>

(* Commit of the reservation: refused lines are flagged R5 and the log is  *)
(* marked; a ValidationError flags every changed line; any other exception *)
(* is raised.                                                              *)
Confirm(r) ==
    /\ pc[r] = "confirm"
    /\ \E bad \in SUBSET Reserve(r) :
          /\ iplan' = Set(iplan, Reserve(r) \ bad, r)
          /\ reserved' = [reserved EXCEPT ![r] = bad]
          /\ \/ /\ Goto(r, "sync")
                /\ \E lines \in {bad, Changed(r)} :
                      /\ work' = Flagged(lines)
                      /\ marked' = IF lines = {} THEN marked ELSE marked \cup {r}
             \/ /\ Finish(r, "error")
                /\ UNCHANGED <<work, marked>>
    /\ UNCHANGED <<Fixed, Locks, loaded, es26, sap, accepted>>

(* ES26 returns the order as it is in SAP.                                 *)
CallEs26(r) ==
    /\ pc[r] = "sync"
    /\ \/ es26' = [es26 EXCEPT ![r] = sap] /\ Goto(r, "order")
       \/ UNCHANGED es26 /\ Finish(r, "error")
    /\ UNCHANGED <<Fixed, work, Locks, loaded, marked, Remote>>

(* update_or_create of the Order row, then bulk_update of all its lines.   *)
SyncOrder(r) ==
    /\ pc[r] = "order"
    /\ orderOwner = None
    /\ orderOwner' = r
    /\ Goto(r, "write")
    /\ UNCHANGED <<Fixed, work, owner, loaded, es26, marked, Remote>>

SyncLines(r) ==
    /\ pc[r] = "write"
    /\ Lock(r, Line)
    /\ work' = [l \in Line |-> [work[l] EXCEPT !.ver = es26[r][l]]]
    /\ Finish(r, "success")
    /\ UNCHANGED <<Fixed, orderOwner, loaded, es26, marked, Remote>>

(* The answer of SAP cannot be stored.  An answer without a header, and    *)
(* MultipleObjectsReturned (two Order rows with the number) are dropped:   *)
(* success is reported.  Any other exception is raised.                    *)
SyncRaises(r) ==
    /\ \/ pc[r] = "order" /\ Finish(r, "unsynced")
       \/ pc[r] \in {"order", "write"} /\ Finish(r, "error")
    /\ UNCHANGED <<Local, Remote>>

(* PostgreSQL aborts one of two transactions that wait for each other.     *)
Deadlocked(q, r) == /\ pc[q] = "write" /\ pc[r] = "order" /\ orderOwner = q
                    /\ \E l \in Line : owner[l] = r

Victim(r) ==
    /\ \E q \in Request : Deadlocked(q, r) \/ Deadlocked(r, q)
    /\ Finish(r, "error")
    /\ UNCHANGED <<Local, Remote>>

(* Faulty variant: set_rollback is forgotten.                              *)
CommitsRefused(r) == result[r] \in {"success", "unsynced", "unknown", "failure"}

(* The end of the transaction: committed after success and after the       *)
(* caught ValidationError of ES21, rolled back otherwise.  (A refusal of   *)
(* iPlan commits, too, but nothing but the inquiry method was written.)    *)
Commits(r) == result[r] \in {"success", "unsynced", "unknown"}
Held(r)    == {l \in Line : owner[l] = r}

EndTransaction(r) ==
    /\ rows' = [l \in Line |-> IF l \in Held(r) /\ Commits(r) THEN work[l] ELSE rows[l]]
    /\ work' = [l \in Line |-> IF l \in Held(r) THEN rows'[l] ELSE work[l]]
    /\ owner' = Set(owner, Held(r), None)
    /\ orderOwner' = IF orderOwner = r THEN None ELSE orderOwner

Close(r) ==
    /\ pc[r] = "close"
    /\ EndTransaction(r)
    /\ Goto(r, "done")
    /\ UNCHANGED <<kind, loaded, es26, marked, overlapped, Remote>>

(* The server process dies.                                                *)
Kill(r) ==
    /\ pc[r] \notin {"new", "close", "done"}
    /\ Finish(r, "killed")
    /\ UNCHANGED <<Local, Remote>>

Step(r) == \/ Inquiry(r) \/ CallUpdate(r) \/ CallReserve(r) \/ Save(r) \/ CallEs21(r)
           \/ Es21Raises(r) \/ Rollback(r) \/ Confirm(r) \/ CallEs26(r) \/ SyncOrder(r)
           \/ SyncLines(r) \/ SyncRaises(r) \/ Victim(r) \/ Close(r)

Next == \E r \in Request : Load(r) \/ Step(r) \/ Kill(r)

Spec == Init /\ [][Next]_vars

----------------------------------------------------------------------------
(* Every change so far is over, and e-ordering knows what became of it and *)
(* has stored what it read from SAP.                                       *)
Settled == \A r \in Request :
              pc[r] = "new" \/ (pc[r] = "done" /\ result[r] \in {"success", "failure"})

(* When changes that touch a common line are over, the lines of the order  *)
(* in the database are those of SAP, although the copy of SAP that a       *)
(* request writes was read before it waits for other transactions.         *)
DbFollowsSap ==
    (Settled /\ \A q, r \in Request : Input(q) \cap Input(r) # {}) =>
        \A l \in Line : rows[l].ver = sap[l]

(* A line that a request changed in SAP with iPlan's help has the same     *)
(* content in iPlan, shows R5, or was changed in iPlan by an update whose  *)
(* request failed later.                                                   *)
Agrees(l) == \A r \in Request :
    (sap[l] = r /\ l \in Update(r) \cup Reserve(r)) =>
        \/ iplan[l] = r
        \/ rows[l].r5
        \/ iplan[l] # None /\ result[iplan[l]] = "failure"

(* iPlan follows SAP, as long as changes come one after the other.         *)
IPlanFollowsSap == Settled /\ overlapped = {} => \A l \in Line : Agrees(l)

(* A line is committed in iPlan only for a change SAP has carried out.     *)
CommittedIsInSap == \A l \in Line : \A r \in Request :
    iplan[l] = r /\ l \in Reserve(r) => r \in accepted

(* A change that failed without an exception keeps nothing reserved.       *)
FailureReleases == \A r \in Request :
    pc[r] = "done" /\ result[r] = "failure" => reserved[r] = {}

(* Changes that touch a common line never wait for each other's rows, so   *)
(* that none is aborted after SAP and iPlan have carried it out.           *)
NoDeadlock == \A q, r \in Request :
    Input(q) \cap Input(r) # {} => ~Deadlocked(q, r)

(* A call is retried "as the item being marked for R5": when a request is  *)
(* over that marked its log, some line shows R5.                           *)
MarkedIsFlagged == \A r \in marked :
    pc[r] = "done" /\ result[r] \in {"success", "failure"} => \E l \in Line : rows[l].r5
============================================================================
