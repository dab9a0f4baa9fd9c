------------------------------ MODULE EoUpload ------------------------------
(***************************************************************************)
(* Export orders uploaded by the EO system.  The view receive_eo_data      *)
(* stores an upload as an EoUploadLog and publishes its id; a task that    *)
(* runs every minute takes one message from the queue, creates, changes or *)
(* splits the order in one transaction with the new state of the log, and  *)
(* deletes the message before that transaction commits.                    *)
(*                                                                         *)
(* Tasks overlap, a message comes again if it was not deleted in time, and *)
(* results are written to the last log with the key of the upload, which   *)
(* another upload of the same order may have.                              *)
(***************************************************************************)
EXTENDS Integers, FiniteSets

CONSTANTS MaxUpload,     \* bound: uploads, numbered like the ids of their logs
          Key,           \* contract, PO number and lot number
          Worker,        \* runs of task_sync_eo_upload
          MaxFault       \* bound: deaths, exceptions, deletions that fail, slow runs

ASSUME BoundAssumption == MaxUpload \in Nat \ {0} /\ MaxFault \in Nat
ASSUME WorkerAssumption == IsFiniteSet(Worker)

Upload == 1..MaxUpload

(* What an upload asks for: a new order ("mixed": of two product groups),  *)
(* a change of lines or of the "header" alone, a split of lines the order  *)
(* has or lacks ("carve"), or, with createAndChangeType missing, nothing.  *)
Kind == {"new", "mixed", "change", "header", "split", "carve", "untyped"}

VARIABLES kind, key,
          view,      \* progress of receive_eo_data for each upload
          log,       \* committed state and order number of each log
          message,   \* the message of each upload in the queue
          sap,       \* orders or changes SAP has accepted for an upload
          kept,      \* those of them with rows in the database
          altered,   \* uploads whose change is in the rows of the old order
          pc, cur,   \* progress of each task, and the upload it works on
          mine,      \* logs as its transaction has written (and locked) them
          made,      \* SAP has accepted, the rows are in the transaction
          wrote,     \* rows of the old order are written (and locked)
          result,    \* state to write to the log
          copy,      \* the log as it was read, and which
          misled,    \* uploads with a result on the wrong log
          doubled,   \* uploads two tasks worked on at once
          torn,      \* uploads hit by a fault nothing repairs
          faults

vars == <<kind, key, view, log, message, sap, kept, altered, pc, cur, mine, made,
          wrote, result, copy, misled, doubled, torn, faults>>

LogState == {"absent", "progress", "received", "error"}
Log      == [state : LogState, number : 0..MaxUpload]   \* 0: as the EO system sent it
NoLog    == [state |-> "absent", number |-> 0]

TypeOK == /\ kind \in [Upload -> Kind] /\ key \in [Upload -> Key]
          /\ view \in [Upload -> {"none", "logged", "done"}]
          /\ log \in [Upload -> Log]
          /\ message \in [Upload -> {"none", "visible", "hidden", "gone"}]
          /\ sap \in [Upload -> Nat] /\ kept \in [Upload -> Nat]
          /\ altered \subseteq Upload
          /\ pc \in [Worker -> {"idle", "write", "change", "create", "number", "saveNumber",
                                "state", "saveState", "finish", "delete", "commit"}]
          /\ cur \in [Worker -> Upload]
          /\ mine \in [Worker -> [Upload -> Log]]
          /\ made \in [Worker -> BOOLEAN] /\ wrote \in [Worker -> BOOLEAN]
          /\ result \in [Worker -> {"received", "error"}]
          /\ copy \in [Worker -> [of : Upload, was : Log]]
          /\ \A w \in Worker : \A x \in Worker \ {w} :    \* rows are locked
                /\ \A u \in Upload : mine[w][u] = NoLog \/ mine[x][u] = NoLog
                /\ ~(wrote[w] /\ wrote[x])
          /\ misled \subseteq Upload /\ doubled \subseteq Upload /\ torn \subseteq Upload
          /\ faults \in 0..MaxFault

----------------------------------------------------------------------------
Unread == [of |-> 1, was |-> NoLog]
NoLogs == [u \in Upload |-> NoLog]

Init == /\ kind \in [Upload -> Kind] /\ key \in [Upload -> Key]
        /\ view = [u \in Upload |-> "none"]
        /\ log = [u \in Upload |-> NoLog]
        /\ message = [u \in Upload |-> "none"]
        /\ sap = [u \in Upload |-> 0] /\ kept = [u \in Upload |-> 0]
        /\ altered = {}
        /\ pc = [w \in Worker |-> "idle"]
        /\ cur = [w \in Worker |-> 1]
        /\ mine = [w \in Worker |-> NoLogs]
        /\ made = [w \in Worker |-> FALSE] /\ wrote = [w \in Worker |-> FALSE]
        /\ result = [w \in Worker |-> "error"]
        /\ copy = [w \in Worker |-> Unread]
        /\ misled = {} /\ doubled = {} /\ torn = {}
        /\ faults = 0

Uploads  == <<kind, key>>
Database == <<log, kept, altered>>
Buffer   == <<mine, made, wrote>>
Registers == <<result, copy>>

Fault == faults < MaxFault /\ faults' = faults + 1

Goto(w, p) == pc' = [pc EXCEPT ![w] = p]
Running(u) == {w \in Worker : pc[w] # "idle" /\ cur[w] = u}

(* EoUploadLog.objects.filter(log_key=log_key).last()                      *)
Last(u)    == log[u].state # "absent"
              /\ \A v \in Upload : v > u => log[v].state = "absent" \/ key[v] # key[u]
LastLog(k) == CHOOSE u \in Upload : key[u] = k /\ Last(u)

(* Faulty variant: rows are not locked.                                    *)
LockedNever(u, w) == FALSE

Locked(u, w) == \E x \in Worker \ {w} : mine[x][u] # NoLog

(* The logs as the transaction of a task sees them.                        *)
Seen(w) == [u \in Upload |-> IF mine[w][u] = NoLog THEN log[u] ELSE mine[w][u]]
Mislead(u, v) == misled' = misled \cup IF u = v THEN {} ELSE {u, v}

----------------------------------------------------------------------------
(* receive_eo_data: the log is created and committed at once, the payload  *)
(* checked, and the id of the log published.  A process that dies, or a    *)
(* publication that fails, leaves the log behind.                          *)
Receive(u) ==
    /\ view[u] = "none"
    /\ \A v \in Upload : v < u => view[v] # "none"
    /\ view' = [view EXCEPT ![u] = "logged"]
    /\ log' = [log EXCEPT ![u].state = "progress"]
    /\ UNCHANGED <<Uploads, message, sap, kept, altered, pc, cur, Buffer, Registers,
                   misled, doubled, torn, faults>>

Refuse(u) ==
    /\ view[u] = "logged" /\ kind[u] = "mixed"
    /\ \A w \in Worker : mine[w][LastLog(key[u])] = NoLog
    /\ log' = [log EXCEPT ![LastLog(key[u])].state = "error"]
    /\ Mislead(u, LastLog(key[u]))
    /\ view' = [view EXCEPT ![u] = "done"]
    /\ UNCHANGED <<Uploads, message, sap, kept, altered, pc, cur, Buffer, Registers,
                   doubled, torn, faults>>

Publish(u) ==
    /\ view[u] = "logged" /\ kind[u] # "mixed"
    /\ view' = [view EXCEPT ![u] = "done"]
    /\ message' = [message EXCEPT ![u] = "visible"]
    /\ UNCHANGED <<Uploads, Database, sap, pc, cur, Buffer, Registers,
                   misled, doubled, torn, faults>>

----------------------------------------------------------------------------
(* The queue: a message that was received and not deleted comes again,     *)
(* also to a second task while the first still works on it.                *)
Reappear(u) ==
    /\ message[u] = "hidden" /\ Running(u) = {}
    /\ message' = [message EXCEPT ![u] = "visible"]
    /\ UNCHANGED <<Uploads, view, Database, sap, pc, cur, Buffer, Registers,
                   misled, doubled, torn, faults>>

Expire(u) ==
    /\ message[u] = "hidden" /\ Running(u) # {} /\ Fault
    /\ message' = [message EXCEPT ![u] = "visible"]
    /\ UNCHANGED <<Uploads, view, Database, sap, pc, cur, Buffer, Registers,
                   misled, doubled, torn>>

----------------------------------------------------------------------------
(* Faulty variant: the state of the log is not looked at.                  *)
FirstAlways(u) ==
    CASE kind[u] = "untyped"                     -> "delete"
      [] kind[u] = "new"                         -> "create"
      [] kind[u] = "carve"                       -> "change"
      [] OTHER                                   -> "write"

(* create_change_export_order: an upload that is done is not done again;   *)
(* without a type the call raises outside of every handler but the last,   *)
(* which writes no state.                                                  *)
First(u) ==
    IF log[u].state = "received" \/ kind[u] = "untyped" THEN "delete"
    ELSE CASE kind[u] = "new"   -> "create"
           [] kind[u] = "carve" -> "change"
           [] OTHER             -> "write"

Take(w, u) ==
    /\ pc[w] = "idle" /\ message[u] = "visible"
    /\ message' = [message EXCEPT ![u] = "hidden"]
    /\ cur' = [cur EXCEPT ![w] = u]
    /\ doubled' = doubled \cup IF Running(u) # {} THEN {u} ELSE {}
    /\ Goto(w, First(u))
    /\ UNCHANGED <<Uploads, view, Database, sap, Buffer, Registers, misled, torn, faults>>

(* Faulty variant: what check_recall_i_plan raises is not caught.          *)
AfterWriteUncaught(u) == IF kind[u] = "header" THEN "change" ELSE "delete"

AfterWrite(u) == IF kind[u] = "header" THEN "change" ELSE "state"

(* change_db_export_order and split_export_order write the rows of the old *)
(* order before anybody is asked, if they find it and it has enough left.  *)
(* With lines that change, check_recall_i_plan raises: nobody gives it a   *)
(* sap_update_flag.                                                        *)
WriteOrder(w) ==
    /\ pc[w] = "write"
    /\ \/ /\ \A x \in Worker \ {w} : ~wrote[x]
          /\ wrote' = [wrote EXCEPT ![w] = TRUE]
          /\ Goto(w, AfterWrite(cur[w]))
       \/ /\ Goto(w, "state")
          /\ UNCHANGED wrote
    /\ UNCHANGED <<Uploads, view, Database, message, sap, cur, mine, made, Registers,
                   misled, doubled, torn, faults>>

(* Faulty variant: the answer is not looked at.                            *)
VerdictUnread(yes) == "received"

Verdict(yes) == IF yes THEN "received" ELSE "error"

(* ES21.  A split creates its order whatever the answer is.                *)
AskChange(w) ==
    /\ pc[w] = "change"
    /\ LET u == cur[w] IN
       \E yes \in BOOLEAN :
          /\ result' = [result EXCEPT ![w] = Verdict(yes)]
          /\ IF kind[u] = "header"
             THEN /\ sap' = [sap EXCEPT ![u] = @ + IF yes THEN 1 ELSE 0]
                  /\ made' = [made EXCEPT ![w] = yes]
                  /\ Goto(w, "state")
             ELSE /\ Goto(w, "create")
                  /\ UNCHANGED <<sap, made>>
    /\ UNCHANGED <<Uploads, view, Database, message, cur, mine, wrote, copy,
                   misled, doubled, torn, faults>>

(* iPlan and ES17 (call_i_plan_create_order, see OrderCreate).             *)
AskCreate(w) ==
    /\ pc[w] = "create"
    /\ LET u == cur[w] IN
       \E yes \in BOOLEAN :
          /\ sap' = [sap EXCEPT ![u] = @ + IF yes THEN 1 ELSE 0]
          /\ made' = [made EXCEPT ![w] = yes]
          /\ result' = [result EXCEPT ![w] = IF kind[u] = "new" \/ ~yes THEN Verdict(yes) ELSE @]
          /\ Goto(w, IF kind[u] = "new" /\ yes THEN "number" ELSE "state")
    /\ UNCHANGED <<Uploads, view, Database, message, cur, mine, wrote, copy,
                   misled, doubled, torn, faults>>

(* A call raises, carried out or not, or what follows an accepted order    *)
(* does.  The rows of a new order are rolled back, others stay, and the    *)
(* log gets the error.                                                     *)
Raise(w) ==
    /\ pc[w] \in {"change", "create", "finish"} /\ Fault
    /\ LET u == cur[w] IN
       \E carried \in BOOLEAN :
          /\ sap' = [sap EXCEPT ![u] = @ + IF carried /\ pc[w] # "finish" THEN 1 ELSE 0]
          /\ torn' = torn \cup IF carried \/ pc[w] = "finish" THEN {u} ELSE {}
          /\ IF kind[u] = "new"
             THEN /\ mine' = [mine EXCEPT ![w] = NoLogs]
                  /\ made' = [made EXCEPT ![w] = FALSE]
             ELSE UNCHANGED <<mine, made>>
    /\ result' = [result EXCEPT ![w] = "error"]
    /\ Goto(w, "state")
    /\ UNCHANGED <<Uploads, view, Database, message, cur, wrote, copy, misled, doubled>>

----------------------------------------------------------------------------
(* eo_log_so_no, then eo_log_state: each reads the last log with the key   *)
(* and saves all of its columns, once no other transaction holds the row.  *)
ReadLog(w) ==
    /\ pc[w] \in {"number", "state"}
    /\ LET v == LastLog(key[cur[w]])
       IN  copy' = [copy EXCEPT ![w] = [of |-> v, was |-> Seen(w)[v]]]
    /\ Goto(w, IF pc[w] = "number" THEN "saveNumber" ELSE "saveState")
    /\ UNCHANGED <<Uploads, view, Database, message, sap, cur, Buffer, result,
                   misled, doubled, torn, faults>>

AfterSave(w) == IF pc[w] = "saveNumber" THEN "state"
                ELSE IF result[w] = "received" THEN "finish" ELSE "delete"

SaveLog(w) ==
    /\ pc[w] \in {"saveNumber", "saveState"}
    /\ ~Locked(copy[w].of, w)
    /\ mine' = [mine EXCEPT ![w][copy[w].of] =
                   IF pc[w] = "saveNumber" THEN [copy[w].was EXCEPT !.number = cur[w]]
                                           ELSE [copy[w].was EXCEPT !.state = result[w]]]
    /\ Mislead(cur[w], copy[w].of)
    /\ Goto(w, AfterSave(w))
    /\ copy' = [copy EXCEPT ![w] = Unread]
    /\ UNCHANGED <<Uploads, view, Database, message, sap, cur, made, wrote, result,
                   doubled, torn, faults>>

(* Both drop every exception.                                              *)
SaveFails(w) ==
    /\ pc[w] \in {"saveNumber", "saveState"} /\ Fault
    /\ torn' = torn \cup {cur[w]}
    /\ Goto(w, AfterSave(w))
    /\ UNCHANGED <<Uploads, view, Database, message, sap, cur, Buffer, Registers,
                   misled, doubled>>

Finish(w) ==
    /\ pc[w] = "finish"
    /\ Goto(w, "delete")
    /\ UNCHANGED <<Uploads, view, Database, message, sap, cur, Buffer, Registers,
                   misled, doubled, torn, faults>>

(* message.delete(), whose exceptions are dropped too.                     *)
Delete(w) ==
    /\ pc[w] = "delete"
    /\ \/ message' = [message EXCEPT ![cur[w]] = "gone"] /\ UNCHANGED faults
       \/ Fault /\ UNCHANGED message
    /\ Goto(w, "commit")
    /\ UNCHANGED <<Uploads, view, Database, sap, cur, Buffer, Registers,
                   misled, doubled, torn>>

(* Faulty variant: what failed is rolled back as a whole.                  *)
SurvivesSuccess(w) == made[w] /\ result[w] = "received"

Survives(w) == made[w]

Drop(w) == /\ mine' = [mine EXCEPT ![w] = NoLogs]
           /\ made' = [made EXCEPT ![w] = FALSE]
           /\ wrote' = [wrote EXCEPT ![w] = FALSE]
           /\ result' = [result EXCEPT ![w] = "error"]
           /\ copy' = [copy EXCEPT ![w] = Unread]
           /\ cur' = [cur EXCEPT ![w] = 1]
           /\ Goto(w, "idle")

Commit(w) ==
    /\ pc[w] = "commit"
    /\ log' = Seen(w)
    /\ kept' = [kept EXCEPT ![cur[w]] = @ + IF Survives(w) THEN 1 ELSE 0]
    /\ altered' = altered \cup IF wrote[w] THEN {cur[w]} ELSE {}
    /\ Drop(w)
    /\ UNCHANGED <<Uploads, view, message, sap, misled, doubled, torn, faults>>

(* The task dies, or the commit fails.  What is lost then is what SAP has  *)
(* accepted, and an upload whose message is already deleted.               *)
Die(w) ==
    /\ pc[w] # "idle" /\ Fault
    /\ torn' = torn \cup IF made[w] \/ message[cur[w]] = "gone" THEN {cur[w]} ELSE {}
    /\ Drop(w)
    /\ UNCHANGED <<Uploads, view, Database, message, sap, misled, doubled>>

Work(w) == \/ WriteOrder(w) \/ AskChange(w) \/ AskCreate(w) \/ ReadLog(w) \/ SaveLog(w)
           \/ Finish(w) \/ Delete(w) \/ Commit(w)

Next == \/ \E u \in Upload : Receive(u) \/ Refuse(u) \/ Publish(u) \/ Reappear(u) \/ Expire(u)
        \/ \E w \in Worker : Work(w) \/ Raise(w) \/ SaveFails(w) \/ Die(w)
        \/ \E w \in Worker, u \in Upload : Take(w, u)

Spec == Init /\ [][Next]_vars

(* A task goes on, the next minute brings another, and the queue hands out *)
(* what it holds.  The view promises nothing.                              *)
Fairness == /\ \A w \in Worker : WF_vars(Work(w))
            /\ \A u \in Upload : WF_vars(Reappear(u))
            /\ \A u \in Upload : WF_vars(\E w \in Worker : Take(w, u))

FairSpec == Spec /\ Fairness

----------------------------------------------------------------------------
Excepted == misled \cup doubled \cup torn

(* A log tells the truth about its upload once no task works on it: a      *)
(* received one has what it asked for in SAP and in the database, with the *)
(* changes of the header in the rows, and SAP has nothing of one that      *)
(* failed (a split apart, which creates its order although the change was  *)
(* refused).  Excepted: uploads that share a key and cross, that two tasks *)
(* worked on, or that a fault has torn.                                    *)
LogTellsTruth ==
    \A u \in Upload \ Excepted : Running(u) = {} =>
        /\ log[u].state = "received" => sap[u] > 0 /\ kept[u] > 0
        /\ log[u].state = "received" /\ kind[u] = "header" => u \in altered
        /\ log[u].state = "received" /\ kind[u] = "new" => log[u].number = u
        /\ log[u].state = "error" /\ kind[u] # "carve" => sap[u] = 0

(* However often a message comes, SAP gets one order for an upload.        *)
OneOrder == \A u \in Upload \ Excepted : kind[u] = "new" => sap[u] <= 1

(* Every order SAP has accepted has rows in the database, whatever logs    *)
(* say and however many tasks there are, if no fault tore it.              *)
NoOrphan == \A u \in Upload \ torn : Running(u) = {} => sap[u] = kept[u]

(* The last published upload with a key is decided in the end, even if     *)
(* uploads with its key cross it.                                          *)
Decided ==
    \A u \in Upload : message[u] = "visible" ~>
        \/ log[u].state \in {"received", "error"}
        \/ u \in torn \/ kind[u] = "untyped" \/ ~Last(u)
=============================================================================
