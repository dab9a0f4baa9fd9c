------------------------------ MODULE PoUpload ------------------------------
(***************************************************************************)
(* Files of purchase orders.  The view checks a file, publishes its id and *)
(* commits its PoUploadFileLog; a task that runs every minute takes one    *)
(* message, turns each order of the file into rows, reserves with iPlan,   *)
(* asks SAP (ES17), and commits or rolls back with iPlan.  All rows of a   *)
(* file are one transaction; the final state of the log is another.  A     *)
(* file SAP was too busy for (BEING_PROCESS) may be sent again by its user.*)
(*                                                                         *)
(* Nothing keeps two tasks from working at once: the states that should    *)
(* are not visible before the transaction they are written in commits.     *)
(***************************************************************************)
EXTENDS Integers, Sequences, FiniteSets

CONSTANTS MaxUpload,     \* bound: files, numbered like the ids of their logs
          PO,            \* purchase order numbers
          MaxLength,     \* bound: orders in a file
          MaxTask,       \* bound: runs of handle_po_upload at once
          MaxTrouble     \* bound: files sent again, deaths and exceptions

ASSUME BoundAssumption == /\ MaxUpload \in Nat \ {0} /\ MaxLength \in Nat \ {0}
                          /\ MaxTask \in Nat \ {0} /\ MaxTrouble \in Nat

File == 1..MaxUpload
Task == 1..MaxTask

VARIABLES content,       \* the purchase orders of each file
          staff,         \* files of users who may order a number twice
          view,          \* progress of the upload
          message,       \* messages in the queue for each file
          retrying,      \* retries that have published and not saved yet
          retries,
          log,           \* committed state of each log
          sales,         \* orders SAP has accepted, by number
          rows,          \* committed orders
          pc, cur, at,   \* progress of each task, its file, its place in it
          mine,          \* orders its transaction has written
          number,        \* sap_order_number, which lasts from order to order
          answer,        \* SAP's answer for the order it works on
          result,        \* state to write to the log
          missed,        \* files whose message found no log
          undone,        \* files whose final state a retry has overwritten
          doubled,       \* purchase orders two tasks worked on at once
          ruined,        \* SAP orders whose rows a failed rollback has taken
          torn,          \* files hit by a death or a lost answer
          faults

vars == <<content, staff, view, message, retrying, retries, log, sales, rows, pc, cur,
          at, mine, number, answer, result, missed, undone, doubled, ruined, torn, faults>>

Number == Nat                    \* 0: none
Order == [file : File, po : PO, number : Number, lines : BOOLEAN,
          stock : {"reserved", "settled"}, flag : BOOLEAN,
          success : BOOLEAN, being : BOOLEAN, silent : BOOLEAN]

Inside == {"order", "sap", "commit", "rollback"}     \* save_po_order

TypeOK == /\ content \in [File -> Seq(PO)] /\ staff \subseteq File
          /\ view \in [File -> {"none", "checked", "published", "done", "refused"}]
          /\ message \in [File -> Nat] /\ retrying \in [File -> Nat]
          /\ retries \in 0..MaxTrouble
          /\ log \in [File -> {"absent", "queued", "running", "success", "fail", "being"}]
          /\ sales \in Seq([file : File, po : PO])
          /\ rows \subseteq Order
          /\ pc \in [Task -> Inside \cup {"idle", "receive", "start", "final"}]
          /\ cur \in [Task -> File] /\ at \in [Task -> Nat]
          /\ mine \in [Task -> SUBSET Order]
          /\ number \in [Task -> 0..Len(sales)]
          /\ answer \in [Task -> {"accepted", "part", "refused", "being"}]
          /\ result \in [Task -> {"success", "fail", "being"}]
          /\ missed \subseteq File /\ undone \subseteq File /\ doubled \subseteq PO
          /\ ruined \subseteq Nat /\ torn \subseteq File
          /\ faults \in 0..MaxTrouble
          /\ \A t \in Task : \A r \in mine[t] : r.file = cur[t]
          /\ \A t, x \in Task :                       \* the log of a file is locked
                t # x /\ pc[t] \in Inside /\ pc[x] \in Inside => cur[t] # cur[x]

----------------------------------------------------------------------------
Contents == {s \in UNION {[1..n -> PO] : n \in 1..MaxLength} :
                \A i, j \in DOMAIN s : i # j => s[i] # s[j]}

Init == /\ content \in [File -> Contents] /\ staff \in SUBSET File
        /\ view = [f \in File |-> "none"]
        /\ message = [f \in File |-> 0] /\ retrying = [f \in File |-> 0]
        /\ retries = 0
        /\ log = [f \in File |-> "absent"]
        /\ sales = << >> /\ rows = {}
        /\ pc = [t \in Task |-> "idle"] /\ cur = [t \in Task |-> 1]
        /\ at = [t \in Task |-> 1]
        /\ mine = [t \in Task |-> {}]
        /\ number = [t \in Task |-> 0]
        /\ answer = [t \in Task |-> "refused"] /\ result = [t \in Task |-> "fail"]
        /\ missed = {} /\ undone = {} /\ doubled = {} /\ ruined = {} /\ torn = {}
        /\ faults = 0

Uploads   == <<content, staff>>
Views     == <<view, retrying, retries>>
Registers == <<at, mine, number, answer>>
Marks     == <<missed, undone, doubled, ruined, torn>>

Fault      == retries + faults < MaxTrouble /\ faults' = faults + 1
Goto(t, p) == pc' = [pc EXCEPT ![t] = p]

POs(f)    == {content[f][i] : i \in DOMAIN content[f]}

(* Runs are alike until they have a file: the first of them goes on.       *)
First(t, p) == pc[t] = p /\ \A x \in 1..(t - 1) : pc[x] # p

Locked(f) == \E t \in Task : pc[t] \in Inside /\ cur[t] = f

(* Faulty variant: purchase orders that were ordered already are accepted. *)
RepeatedNever(f) == FALSE

(* validate_duplicate_po_for_customer_user                                 *)
Repeated(f) == f \notin staff /\ \E r \in rows : r.number # 0 /\ r.po \in POs(f)

(* check_po_in_progress                                                    *)
InProgress(f) == \E g \in File : log[g] \in {"queued", "running"} /\ POs(g) \cap POs(f) # {}

----------------------------------------------------------------------------
(* validate_po_file: the message is published before the log commits.      *)
Check(f) ==
    /\ view[f] = "none"
    /\ view' = [view EXCEPT ![f] = IF Repeated(f) \/ InProgress(f) THEN "refused" ELSE "checked"]
    /\ UNCHANGED <<Uploads, message, retrying, retries, log, sales, rows, pc, cur, Registers,
                   result, Marks, faults>>

Publish(f) ==
    /\ view[f] = "checked"
    /\ view' = [view EXCEPT ![f] = "published"]
    /\ message' = [message EXCEPT ![f] = @ + 1]
    /\ UNCHANGED <<Uploads, retrying, retries, log, sales, rows, pc, cur, Registers,
                   result, Marks, faults>>

Store(f) ==
    /\ view[f] = "published"
    /\ view' = [view EXCEPT ![f] = "done"]
    /\ log' = [log EXCEPT ![f] = "queued"]
    /\ UNCHANGED <<Uploads, message, retrying, retries, sales, rows, pc, cur, Registers,
                   result, Marks, faults>>

Withdraw(f) ==
    /\ view[f] \in {"checked", "published"} /\ Fault
    /\ view' = [view EXCEPT ![f] = "refused"]
    /\ UNCHANGED <<Uploads, message, retrying, retries, log, sales, rows, pc, cur, Registers,
                   result, Marks>>

(* retry_upload_file: published first, and then saved as it was read.      *)
Retry(f) ==
    /\ log[f] = "being" /\ retries + faults < MaxTrouble
    /\ retries' = retries + 1
    /\ retrying' = [retrying EXCEPT ![f] = @ + 1]
    /\ message' = [message EXCEPT ![f] = @ + 1]
    /\ UNCHANGED <<Uploads, view, log, sales, rows, pc, cur, Registers, result, Marks, faults>>

SaveRetry(f) ==
    /\ retrying[f] > 0 /\ ~Locked(f)
    /\ retrying' = [retrying EXCEPT ![f] = @ - 1]
    /\ log' = [log EXCEPT ![f] = "queued"]
    /\ undone' = undone \cup IF message[f] = 0 THEN {f} ELSE {}
    /\ UNCHANGED <<Uploads, view, retries, message, sales, rows, pc, cur, Registers, result,
                   missed, doubled, ruined, torn, faults>>

----------------------------------------------------------------------------
(* Faulty variant: a file that waits counts as running.                    *)
RunningOrQueued(f) == log[f] \in {"running", "queued"}

(* get_po_upload_running sees committed states only.                       *)
Running(f) == log[f] = "running"

Begin(t) ==
    /\ First(t, "idle")
    /\ \A f \in File : ~Running(f)
    /\ \E f \in File : message[f] > 0
    /\ Goto(t, "receive")
    /\ UNCHANGED <<Uploads, Views, message, log, sales, rows, cur, Registers, result,
                   Marks, faults>>

(* The message is deleted before anything is done about it.                *)
Receive(t, f) ==
    /\ First(t, "receive") /\ message[f] > 0
    /\ message' = [message EXCEPT ![f] = @ - 1]
    /\ IF log[f] = "absent"
       THEN /\ missed' = missed \cup {f}
            /\ Goto(t, "idle")
            /\ UNCHANGED cur
       ELSE /\ cur' = [cur EXCEPT ![t] = f]
            /\ Goto(t, "start")
            /\ UNCHANGED missed
    /\ UNCHANGED <<Uploads, Views, log, sales, rows, Registers, result,
                   undone, doubled, ruined, torn, faults>>

Leave(t) ==
    /\ pc[t] = "receive" /\ \A f \in File : message[f] = 0
    /\ Goto(t, "idle")
    /\ UNCHANGED <<Uploads, Views, message, log, sales, rows, cur, Registers, result,
                   Marks, faults>>

(* save_po_order writes IN_PROGRESS first, and so locks the log.  A file   *)
(* with one repeated purchase order fails as a whole.                      *)
Validate(t) ==
    /\ pc[t] = "start" /\ ~Locked(cur[t])
    /\ IF Repeated(cur[t])
       THEN /\ log' = [log EXCEPT ![cur[t]] = "running"]
            /\ result' = [result EXCEPT ![t] = "fail"]
            /\ Goto(t, "final")
            /\ UNCHANGED doubled
       ELSE /\ doubled' = doubled \cup
                  UNION {POs(cur[t]) \cap POs(cur[x]) :
                            x \in {y \in Task \ {t} : pc[y] \in Inside}}
            /\ Goto(t, "order")
            /\ UNCHANGED <<log, result>>
    /\ UNCHANGED <<Uploads, Views, message, sales, rows, cur, Registers,
                   missed, undone, ruined, torn, faults>>

----------------------------------------------------------------------------
(* A file has a purchase order once: the order it works on has its number. *)
Current(t) == content[cur[t]][at[t]]
Mine(t)    == CHOOSE r \in mine[t] : r.po = Current(t)
Save(t, r) == mine' = [mine EXCEPT ![t] = {o \in @ : o.po # r.po} \cup {r}]
Ended(t)   == /\ at' = [at EXCEPT ![t] = @ + 1]
              /\ answer' = [answer EXCEPT ![t] = "refused"]
              /\ Goto(t, "order")

Reserved(t) ==
    [file |-> cur[t], po |-> Current(t), number |-> 0, lines |-> TRUE,
     stock |-> "reserved", flag |-> FALSE, success |-> TRUE, being |-> FALSE, silent |-> FALSE]

(* Contract, draft, iPlan.  When the contract cannot be read or is not     *)
(* valid, or iPlan does not answer or has no line to deliver, the order is *)
(* over; a draft that only the database knows is left out.                 *)
Prepare(t) ==
    /\ pc[t] = "order" /\ at[t] <= Len(content[cur[t]])
    /\ \/ Ended(t) /\ UNCHANGED mine
       \/ /\ mine' = [mine EXCEPT ![t] = @ \cup {Reserved(t)}]
          /\ Goto(t, "sap")
          /\ UNCHANGED <<at, answer>>
    /\ UNCHANGED <<Uploads, Views, message, log, sales, rows, cur, number, result,
                   Marks, faults>>

(* ES17.  SAP takes all lines, some or none, or is busy with the contract. *)
CallSap(t) ==
    /\ pc[t] = "sap"
    /\ \E a \in {"accepted", "part", "refused", "being"} :
          /\ answer' = [answer EXCEPT ![t] = a]
          /\ IF a \in {"accepted", "part"}
             THEN /\ sales' = Append(sales, [file |-> cur[t], po |-> Mine(t).po])
                  /\ number' = [number EXCEPT ![t] = Len(sales) + 1]
                  /\ Goto(t, "commit")
                  /\ UNCHANGED mine
             ELSE /\ Save(t, [Mine(t) EXCEPT !.success = FALSE, !.being = (a = "being")])
                  /\ Goto(t, "rollback")
                  /\ UNCHANGED <<sales, number>>
    /\ UNCHANGED <<Uploads, Views, message, log, rows, cur, at, result, Marks, faults>>

(* ES17 raises, carried out or not: the next order, with nothing undone.   *)
SapRaises(t) ==
    /\ pc[t] = "sap" /\ Fault
    /\ Save(t, [Mine(t) EXCEPT !.success = FALSE, !.silent = TRUE])
    /\ \/ /\ sales' = Append(sales, [file |-> cur[t], po |-> Mine(t).po])
          /\ torn' = torn \cup {cur[t]}
       \/ UNCHANGED <<sales, torn>>
    /\ Ended(t)
    /\ UNCHANGED <<Uploads, Views, message, log, rows, cur, number, result,
                   missed, undone, doubled, ruined>>

(* Faulty variant: lines whose COMMIT iPlan refused are not flagged.       *)
AcknowledgedUnread(r, yes) == [r EXCEPT !.stock = IF yes THEN "settled" ELSE @]

(* check_acknowledge                                                       *)
Acknowledged(r, yes) == IF yes THEN [r EXCEPT !.stock = "settled"] ELSE [r EXCEPT !.flag = TRUE]

Commit(t) ==
    /\ pc[t] = "commit"
    /\ \E yes \in BOOLEAN :
          Save(t, [Acknowledged(Mine(t), yes) EXCEPT !.number = number[t]])
    /\ IF answer[t] = "part" THEN Goto(t, "rollback") /\ UNCHANGED <<at, answer>> ELSE Ended(t)
    /\ UNCHANGED <<Uploads, Views, message, log, sales, rows, cur, number, result,
                   Marks, faults>>

(* Faulty variant: the number is not saved.                                *)
MarkedOnly(r, n) == [r EXCEPT !.flag = TRUE, !.success = FALSE]

Marked(r, n) == [r EXCEPT !.number = n, !.flag = TRUE, !.success = FALSE]

CommitRaises(t) ==
    /\ pc[t] = "commit" /\ Fault
    /\ Save(t, Marked(Mine(t), number[t]))
    /\ Ended(t)
    /\ UNCHANGED <<Uploads, Views, message, log, sales, rows, cur, number, result,
                   Marks>>

(* The lines SAP did not take.                                             *)
Rollback(t) ==
    /\ pc[t] = "rollback"
    /\ \E yes \in BOOLEAN :
          Save(t, IF answer[t] = "part" /\ yes THEN Mine(t) ELSE Acknowledged(Mine(t), yes))
    /\ Ended(t)
    /\ UNCHANGED <<Uploads, Views, message, log, sales, rows, cur, number, result,
                   Marks, faults>>

(* The handler gives the order the number in sap_order_number, if there is *)
(* one yet, after it has deleted the orders with that number: that is the  *)
(* order itself, with its lines, or an earlier order of the file.          *)
RollbackRaises(t) ==
    /\ pc[t] = "rollback" /\ Fault
    /\ LET n == number[t]
           own == n # 0 /\ Mine(t).number = n
           after == [Marked(Mine(t), n) EXCEPT !.lines = @ /\ ~own]
           others == {r \in mine[t] : r.po # after.po /\ (n = 0 \/ r.number # n)}
       IN  /\ mine' = [mine EXCEPT ![t] = others \cup {after}]
           /\ ruined' = ruined \cup IF n # 0 THEN {n} ELSE {}
    /\ Ended(t)
    /\ UNCHANGED <<Uploads, Views, message, log, sales, rows, cur, number, result,
                   missed, undone, doubled, torn>>

(* Any other exception in the loop: the order counts as it stood.          *)
Stumble(t) ==
    /\ pc[t] \in {"sap", "commit", "rollback"} /\ Fault
    /\ torn' = torn \cup {cur[t]}
    /\ Ended(t)
    /\ UNCHANGED <<Uploads, Views, message, log, sales, rows, cur, mine, number, 
                   result, missed, undone, doubled, ruined>>

----------------------------------------------------------------------------
(* Faulty variant: the results of the last file are still there.           *)
ForgetPlace(t) == /\ at' = [at EXCEPT ![t] = 1]
                  /\ number' = [number EXCEPT ![t] = 0] /\ answer' = [answer EXCEPT ![t] = "refused"]
                  /\ UNCHANGED mine

Forget(t) == /\ at' = [at EXCEPT ![t] = 1] /\ mine' = [mine EXCEPT ![t] = {}]
             /\ number' = [number EXCEPT ![t] = 0] /\ answer' = [answer EXCEPT ![t] = "refused"]

Kept(t) == {r \in mine[t] : ~r.being}
Known(r) == r.number # 0 \/ r.stock = "reserved"    \* to SAP or to iPlan

(* Faulty variant: an order counts as soon as it is there.                 *)
OutcomeAny(t) == IF mine[t] # {} THEN "success" ELSE "fail"

Outcome(t) == IF \E r \in mine[t] : r.being THEN "being"
              ELSE IF \E r \in mine[t] : r.success THEN "success"
              ELSE "fail"

(* Mails, then the transaction commits, with the last state of the calls.  *)
CommitFile(t) ==
    /\ pc[t] = "order" /\ at[t] > Len(content[cur[t]])
    /\ rows' = rows \cup {r \in Kept(t) : Known(r)}
    /\ log' = [log EXCEPT ![cur[t]] = "running"]
    /\ result' = [result EXCEPT ![t] = Outcome(t)]
    /\ Forget(t)
    /\ Goto(t, "final")
    /\ UNCHANGED <<Uploads, Views, message, sales, cur, Marks, faults>>

Finish(t) ==
    /\ pc[t] = "final" /\ ~Locked(cur[t])
    /\ log' = [log EXCEPT ![cur[t]] = result[t]]
    /\ result' = [result EXCEPT ![t] = "fail"]
    /\ cur' = [cur EXCEPT ![t] = 1]
    /\ Goto(t, "idle")
    /\ UNCHANGED <<Uploads, Views, message, sales, rows, Registers, Marks, faults>>

(* The rows of the file are rolled back, or its log keeps a running state. *)
Die(t) ==
    /\ pc[t] \notin {"idle", "receive"} /\ Fault
    /\ torn' = torn \cup {cur[t]}
    /\ Forget(t)
    /\ result' = [result EXCEPT ![t] = "fail"]
    /\ cur' = [cur EXCEPT ![t] = 1]
    /\ Goto(t, "idle")
    /\ UNCHANGED <<Uploads, Views, message, log, sales, rows, missed, undone, doubled, ruined>>

Work(t) == \/ Leave(t) \/ Validate(t) \/ Prepare(t) \/ CallSap(t) \/ Commit(t)
           \/ Rollback(t) \/ CommitFile(t) \/ Finish(t)
           \/ \E f \in File : Receive(t, f)

Next == \/ \E f \in File : \/ Check(f) \/ Publish(f) \/ Store(f) \/ Withdraw(f)
                           \/ Retry(f) \/ SaveRetry(f)
        \/ \E t \in Task : \/ Begin(t) \/ Work(t) \/ SapRaises(t) \/ CommitRaises(t)
                           \/ RollbackRaises(t) \/ Stumble(t) \/ Die(t)

Spec == Init /\ [][Next]_vars

(* A task goes on, and every minute brings another.                        *)
Fairness == /\ \A t \in Task : WF_vars(Work(t))
            /\ WF_vars(\E t \in Task : Begin(t))

FairSpec == Spec /\ Fairness

----------------------------------------------------------------------------
Numbered(n) == {r \in rows : r.number = n}
Sold(po)    == {n \in 1..Len(sales) : sales[n].po = po}
Working(f)  == \E t \in Task : pc[t] \in Inside /\ cur[t] = f

(* A customer gets at most one order for a purchase order number, whatever *)
(* is uploaded or sent again, unless two tasks had the number at once, an  *)
(* answer or a task was lost, or a failed rollback took the row.           *)
OneOrderPerPo ==
    \A po \in PO \ doubled :
        \/ \E f \in staff \cup torn : po \in POs(f)
        \/ \E n \in Sold(po) : n \in ruined
        \/ Cardinality(Sold(po)) <= 1

(* Every SAP order has its order in the database, for the purchase order   *)
(* it was made for and with its lines, and every number there is one of    *)
(* SAP; apart from lost answers and what failed rollbacks do to numbers.   *)
RowsFollowSap ==
    /\ \A n \in 1..Len(sales) \ ruined :
          sales[n].file \in torn \/ Working(sales[n].file)
          \/ \E r \in Numbered(n) : r.po = sales[n].po /\ r.lines
    /\ \A r \in rows : r.number # 0 /\ r.number \notin ruined =>
          r.number <= Len(sales) /\ r.po = sales[r.number].po /\ Numbered(r.number) = {r}

(* What iPlan has reserved for an order that is kept is committed or       *)
(* released, or its lines are flagged, unless SAP's answer was lost.       *)
StockSettled ==
    \A r \in rows : r.stock = "reserved" => r.flag \/ r.silent \/ r.file \in torn

(* What the user is told of a file that was not sent again: it succeeded   *)
(* only with an order in SAP, and when it failed all there is in SAP are   *)
(* orders with flags.                                                      *)
FileTellsTruth ==
    \A f \in File \ torn : retries = 0 =>
        /\ log[f] = "success" => \E n \in 1..Len(sales) : sales[n].file = f
        /\ log[f] = "fail" => \A r \in rows : r.file = f /\ r.number # 0 => r.flag

(* A file in the queue is decided in the end, unless its message came too  *)
(* early, a retry has overwritten its state, or a task has died.           *)
FileDecided ==
    \A f \in File : log[f] = "queued" ~>
        log[f] \in {"success", "fail", "being"} \/ f \in missed \cup undone \/ torn # {}
=============================================================================
