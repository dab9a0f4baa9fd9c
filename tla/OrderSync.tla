----------------------------- MODULE OrderSync -----------------------------
(***************************************************************************)
(* How the status of an order and of its items follows iPlan and SAP       *)
(* (sync_i_plan_data, sync_sap_data, handle_order_lines_from_es26,         *)
(* update_order_status).                                                   *)
(*                                                                         *)
(* iPlan tells the production status of some lines in a message YT-65218.  *)
(* SAP tells by a message ES38 that a delivery has changed; what has       *)
(* become of the lines is then read from SAP with ES26, for all lines of   *)
(* the order at once.  Two celery tasks handle the two queues; each runs   *)
(* in a transaction.  Who opens the page of an order reads ES26 too, and   *)
(* writes the rows statement by statement, without a transaction.          *)
(***************************************************************************)
EXTENDS StatusRule, Functions

CONSTANTS Line,
          IPlanTask, SapTask,      \* runs of the two jobs
          Page,                    \* times the page of the order is opened
          MaxNews,                 \* bound: changes in SAP
          MaxPlan,                 \* bound: messages YT-65218
          PlanStatus,              \* item statuses they lead to, "none": the old one
          MaxFault,                \* bound: exceptions and kills
          None

Reader == SapTask \cup Page
Actor  == IPlanTask \cup Reader

ASSUME ActorAssumption == /\ IPlanTask \cap Reader = {} /\ SapTask \cap Page = {}
                          /\ None \notin Actor
ASSUME LineAssumption == IsFiniteSet(Line)
ASSUME StatusAssumption == PlanStatus \subseteq {"created", "full", "none"}
ASSUME BoundAssumption == MaxNews \in Nat /\ MaxPlan \in Nat /\ MaxFault \in Nat

VARIABLES line,        \* committed rows: item_status_en, item_status_en_rollback
          order,       \* committed status of the order
          lock,        \* who holds the row of each line
          sap,         \* SAP: deliveryStatus of each line, or the rejection 93
          news, plan,  \* the queues of ES38 and YT-65218
          sent,        \* messages sent so far, which number them
          pc, msg,     \* progress of each actor, the message in its hands
          answer,      \* the answer of ES26 it has got
          rows,        \* the lines it is going to write, or has written
          status,      \* the order status it has computed
          faults,
          missed       \* the handling of some message ES38 has failed

vars == <<line, order, lock, sap, news, plan, sent, pc, msg, answer, rows,
          status, faults, missed>>

Row     == [status : ItemStatus, rollback : ItemStatus]
SapLine == {"A", "B", "C", "93"}
News    == [id : Nat, line : Line]
Plan    == [id : Nat, lines : SUBSET Line, status : PlanStatus]

TypeOK == /\ line \in [Line -> Row]
          /\ order \in OrderStatus
          /\ lock \in [Line -> Actor \cup {None}]
          /\ sap \in [Line -> SapLine]
          /\ news \subseteq News /\ plan \subseteq Plan
          /\ sent \in [news : 0..MaxNews, plan : 0..MaxPlan]
          /\ pc \in [Actor -> {"idle", "ask", "header", "read", "update", "decide",
                               "save", "delete", "done"}]
          /\ msg \in [Actor -> News \cup Plan \cup {None}]
          /\ answer \in [Reader -> [Line -> SapLine]]
          /\ rows \in [Actor -> [Line -> Row]]
          /\ status \in [Actor -> OrderStatus]
          /\ faults \in 0..MaxFault
          /\ missed \in BOOLEAN

----------------------------------------------------------------------------
Statuses(t) == {t[l].status : l \in Line}

(* get_line_status_from_es26: the new row of a line, from the old one and  *)
(* what SAP answers.  An order that SAP knows first has lines without one. *)
Current(row, ans) == IF row.status # "none" THEN row.status
                     ELSE CASE ans = "B" -> "partial" [] ans = "C" -> "delivered"
                            [] OTHER -> "created"

(* Faulty variant: the status to go back to is remembered too late.        *)
get_line_status_late(row, ans) ==
    LET now == Current(row, ans)
        new == CASE ans = "B" -> "partial" [] ans = "C" -> "delivered"
                 [] ans = "93" -> "cancelled"
                 [] ans = "A" /\ now \in Delivery /\ row.rollback # "none" -> row.rollback
                 [] OTHER -> now
    IN  [status |-> new, rollback |-> new]

(* Faulty variant: a rejected line gets the code of SAP as its status.     *)
get_line_status_raw(row, ans) ==
    [status |-> IF ans = "93" THEN ans ELSE Current(row, ans), rollback |-> row.rollback]

get_line_status_from_es26(row, ans) ==
    LET now == Current(row, ans)
    IN  [status |-> CASE ans = "B" -> "partial"
                      [] ans = "C" -> "delivered"
                      [] ans = "93" -> "cancelled"
                      [] ans = "A" /\ now \in Delivery /\ row.rollback # "none" -> row.rollback
                      [] OTHER -> now,
         rollback |-> IF now \in Delivery THEN row.rollback ELSE now]

----------------------------------------------------------------------------
NoAnswer == [l \in Line |-> "A"]
NoRows   == [l \in Line |-> [status |-> "none", rollback |-> "none"]]

(* An order of e-ordering, one of SAP, or one that has been delivered.     *)
Start == {<<"created", "none", "A">>, <<"none", "none", "A">>, <<"delivered", "created", "C">>}

Init == /\ \E s \in Start :
              /\ line = [l \in Line |-> [status |-> s[1], rollback |-> s[2]]]
              /\ order = Rule(Statuses(line))
              /\ sap = [l \in Line |-> s[3]]
        /\ lock = [l \in Line |-> None]
        /\ news = {} /\ plan = {}
        /\ sent = [news |-> 0, plan |-> 0]
        /\ pc = [a \in Actor |-> "idle"]
        /\ msg = [a \in Actor |-> None]
        /\ answer = [a \in Reader |-> NoAnswer]
        /\ rows = [a \in Actor |-> NoRows]
        /\ status = [a \in Actor |-> "received"]
        /\ faults = 0 /\ missed = FALSE

Goto(a, p) == pc' = [pc EXCEPT ![a] = p]

Database == <<line, order, lock>>
Queues   == <<news, plan, sent>>
Memory   == <<msg, answer, rows, status>>
Faults   == <<faults, missed>>

(* The lines as a statement of the transaction of a sees them: i_plan does *)
(* not write item_status_en_rollback.                                      *)
Written(a, l) == IF a \in IPlanTask THEN [line[l] EXCEPT !.status = rows[a][l].status]
                 ELSE rows[a][l]
View(a) == [l \in Line |-> IF lock[l] = a THEN Written(a, l) ELSE line[l]]

Targets(a) == IF a \in IPlanTask THEN msg[a].lines ELSE Line

(* What an actor has in memory when it has nothing to do.                  *)
Forget(a) == /\ rows' = [rows EXCEPT ![a] = NoRows]
             /\ status' = [status EXCEPT ![a] = "received"]

Release(a) == lock' = [l \in Line |-> IF lock[l] = a THEN None ELSE lock[l]]

----------------------------------------------------------------------------
(* The outside.  A delivery of a line changes in SAP; a message says so.   *)
SapDelivers(l) ==
    /\ sent.news < MaxNews
    /\ \E s \in {"A", "B", "C"} \ {sap[l]} :
          /\ sap[l] \in {"A", "B"} \/ (sap[l] = "C" /\ s = "A")
          /\ sap' = [sap EXCEPT ![l] = s]
    /\ news' = news \cup {[id |-> sent.news + 1, line |-> l]}
    /\ sent' = [sent EXCEPT !.news = @ + 1]
    /\ UNCHANGED <<Database, plan, pc, Memory, Faults>>

(* A line is rejected in SAP with reason 93; no message is sent.           *)
SapRejects(l) ==
    /\ sent.news < MaxNews
    /\ sap[l] = "A"
    /\ sap' = [sap EXCEPT ![l] = "93"]
    /\ sent' = [sent EXCEPT !.news = @ + 1]
    /\ UNCHANGED <<Database, news, plan, pc, Memory, Faults>>

(* A message about the production of some lines; some operation statuses   *)
(* have no item status.                                                    *)
IPlanProduces ==
    /\ sent.plan < MaxPlan
    /\ \E L \in SUBSET Line \ {{}}, s \in PlanStatus :
          plan' = plan \cup {[id |-> sent.plan + 1, lines |-> L, status |-> s]}
    /\ sent' = [sent EXCEPT !.plan = @ + 1]
    /\ UNCHANGED <<Database, sap, news, pc, Memory, Faults>>

----------------------------------------------------------------------------
(* sync_i_plan_data receives a message and loads its lines.                *)
ReceivePlan(a) ==
    /\ a \in IPlanTask /\ pc[a] = "idle"
    /\ \E m \in plan :
          /\ msg' = [msg EXCEPT ![a] = m]
          /\ rows' = [rows EXCEPT ![a] = [l \in Line |->
                         IF l \in m.lines /\ m.status # "none"
                         THEN [line[l] EXCEPT !.status = m.status] ELSE line[l]]]
    /\ Goto(a, "update")
    /\ UNCHANGED <<Database, sap, Queues, answer, status, Faults>>

(* sync_sap_data receives a message and opens the transaction.             *)
ReceiveNews(a) ==
    /\ a \in SapTask /\ pc[a] = "idle"
    /\ \E m \in news : msg' = [msg EXCEPT ![a] = m]
    /\ Goto(a, "ask")
    /\ UNCHANGED <<Database, sap, Queues, answer, rows, status, Faults>>

OpenPage(a) ==
    /\ a \in Page /\ pc[a] = "idle"
    /\ Goto(a, "ask")
    /\ UNCHANGED <<Database, sap, Queues, Memory, Faults>>

Ask(a) ==
    /\ pc[a] = "ask"
    /\ answer' = [answer EXCEPT ![a] = sap]
    /\ Goto(a, IF a \in Page THEN "header" ELSE "read")
    /\ UNCHANGED <<Database, sap, Queues, msg, rows, status, Faults>>

(* create_or_update_order writes the header, with the status Received.     *)
Header(a) ==
    /\ pc[a] = "header"
    /\ order' = "received"
    /\ Goto(a, "read")
    /\ UNCHANGED <<line, lock, sap, Queues, Memory, Faults>>

(* handle_order_lines_from_es26 reads the rows of all lines.               *)
ReadRows(a) ==
    /\ pc[a] = "read"
    /\ rows' = [rows EXCEPT ![a] = [l \in Line |->
                   get_line_status_from_es26(line[l], answer[a][l])]]
    /\ answer' = [answer EXCEPT ![a] = NoAnswer]
    /\ Goto(a, "update")
    /\ UNCHANGED <<Database, sap, Queues, msg, status, Faults>>

(* bulk_update takes the rows one after the other and is done when it has  *)
(* them all; without a transaction, that commits.                          *)
TakeRow(a, l) ==
    /\ pc[a] = "update"
    /\ l \in Targets(a) /\ lock[l] = None
    /\ IF \E k \in Targets(a) \ {l} : lock[k] # a
       THEN /\ lock' = [lock EXCEPT ![l] = a]
            /\ UNCHANGED <<line, pc>>
       ELSE /\ Goto(a, "decide")
            /\ IF a \in Page THEN line' = rows[a] /\ Release(a)
               ELSE lock' = [lock EXCEPT ![l] = a] /\ UNCHANGED line
    /\ UNCHANGED <<order, sap, Queues, Memory, Faults>>

(* Faulty variant: the status of the lines in memory is what counts.       *)
DecideInMemory(a) ==
    /\ pc[a] = "decide"
    /\ status' = [status EXCEPT ![a] = Rule({rows[a][l].status : l \in Targets(a)})]
    /\ Goto(a, "save")
    /\ UNCHANGED <<Database, sap, Queues, msg, answer, rows, Faults>>

(* The orders in which the query may list the lines.                       *)
Listings == {s \in [1..Cardinality(Line) -> Line] : Range(s) = Line}

Decide(a) ==
    /\ pc[a] = "decide"
    /\ \E s \in Listings :
          status' = [status EXCEPT ![a] =
              update_order_status([k \in 1..Len(s) |-> View(a)[s[k]].status])]
    /\ Goto(a, "save")
    /\ UNCHANGED <<Database, sap, Queues, msg, answer, rows, Faults>>

(* order.save() and the commit; without a transaction the save commits and *)
(* is the end.  The row of the order is locked last, so that who waits for *)
(* it waits for nobody who waits for him.                                  *)
Save(a) ==
    /\ pc[a] = "save"
    /\ order' = status[a]
    /\ line' = View(a)
    /\ Release(a) /\ Forget(a)
    /\ Goto(a, IF a \in Page THEN "done" ELSE "delete")
    /\ UNCHANGED <<sap, Queues, msg, answer, Faults>>

(* message.delete()                                                        *)
Delete(a) ==
    /\ pc[a] = "delete"
    /\ news' = news \ {msg[a]} /\ plan' = plan \ {msg[a]}
    /\ msg' = [msg EXCEPT ![a] = None]
    /\ Goto(a, "idle")
    /\ UNCHANGED <<Database, sap, sent, answer, rows, status, Faults>>

Working(a) == pc[a] \notin {"idle", "delete", "done"}

(* An exception, in the database or in a call (ES26, ES21): the            *)
(* transaction is rolled back, and the message is deleted nevertheless.    *)
Raise(a) ==
    /\ Release(a) /\ Forget(a)
    /\ answer' = [b \in Reader |-> IF b = a THEN NoAnswer ELSE answer[b]]
    /\ Goto(a, IF a \in Page THEN "done" ELSE "delete")
    /\ missed' = (missed \/ a \in SapTask)
    /\ UNCHANGED <<line, order, sap, Queues, msg>>

Fail(a) == /\ Working(a) /\ faults < MaxFault
           /\ faults' = faults + 1
           /\ Raise(a)

(* Two updates wait for each other; the database makes one of them fail.   *)
Victim(a) ==
    /\ \E b \in Actor \ {a} :
          /\ pc[a] = "update" /\ pc[b] = "update"
          /\ \E l \in Targets(a) : lock[l] = b
          /\ \E l \in Targets(b) : lock[l] = a
    /\ Raise(a)
    /\ UNCHANGED faults

(* The process dies.  The queue delivers the message again.                *)
Kill(a) ==
    /\ pc[a] \notin {"idle", "done"} /\ faults < MaxFault
    /\ faults' = faults + 1
    /\ Release(a) /\ Forget(a)
    /\ msg' = [msg EXCEPT ![a] = None]
    /\ answer' = [b \in Reader |-> IF b = a THEN NoAnswer ELSE answer[b]]
    /\ Goto(a, IF a \in Page THEN "done" ELSE "idle")
    /\ UNCHANGED <<line, order, sap, Queues, missed>>

Work(a) == \/ Ask(a) \/ Header(a) \/ ReadRows(a) \/ (\E l \in Line : TakeRow(a, l))
           \/ Decide(a) \/ Save(a) \/ Delete(a) \/ Victim(a)

Receive(a) == ReceivePlan(a) \/ ReceiveNews(a)

Next == \/ \E l \in Line : SapDelivers(l) \/ SapRejects(l)
        \/ IPlanProduces
        \/ \E a \in Actor : Receive(a) \/ OpenPage(a) \/ Work(a) \/ Fail(a) \/ Kill(a)

Spec == Init /\ [][Next]_vars

(* celery beat starts the tasks every minute, the queue delivers what has  *)
(* not been deleted, and remote calls have a timeout.                      *)
FairSpec == Spec /\ \A a \in Actor : WF_vars(Receive(a) \/ Work(a))

----------------------------------------------------------------------------
(* "decide Order status from Order Items Status": while nobody opens the   *)
(* page, the committed status of the order is what the committed statuses  *)
(* of its items say, whatever the two jobs do at the same time and in      *)
(* whatever order the items are listed.                                    *)
StatusOfItems == order = Rule(Statuses(line))
StatusFollowsItems == (\A a \in Page : pc[a] = "idle") => StatusOfItems

(* What a waiting message ES38 announces is shown at some time, also after *)
(* a crash, unless the handling of a message fails: the status of the line *)
(* is that of the delivery in SAP or, when SAP took the delivery back, a   *)
(* status of production again (if it ever had one in e-ordering).          *)
Announced(l) == \E m \in news : m.line = l /\ \A a \in Actor : msg[a] # m
Shown(l) == /\ sap[l] = "C" => line[l].status = "delivered"
            /\ sap[l] = "B" => line[l].status = "partial"
            /\ sap[l] = "A" => line[l].status \in Production \/ line[l].rollback = "none"
AnnouncedIsShown == \A l \in Line : Announced(l) ~> Shown(l) \/ missed
============================================================================
