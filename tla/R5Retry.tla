------------------------------ MODULE R5Retry ------------------------------
(***************************************************************************)
(* The attention flag R5 of order lines and the job that retries the calls *)
(* behind it (update_attention_type_r5, save_mulesoft_api_log_entry,       *)
(* retry_r5_required_attention_resolver).                                  *)
(*                                                                         *)
(* A web request or celery task makes one logged call to iPlan or SAP, for *)
(* the lines of one order.  When the call fails, the lines are flagged R5  *)
(* and the mark {"retry": True} is put behind the log entry in a           *)
(* thread-local list, which is written to mulesoft_api_logs only when the  *)
(* request is over.  The log of a request carries the request's name here. *)
(*                                                                         *)
(* The job runs alone (JobLock is about that); it shares the tables with   *)
(* the requests, statement by statement.                                   *)
(***************************************************************************)
EXTENDS Integers, FiniteSets, Sequences

CONSTANTS Request, Order, Line,
          RetryCount, BatchSize,   \* settings.py
          MaxKill                  \* bound: times the job's worker is killed

ASSUME RequestAssumption == IsFiniteSet(Request)
ASSUME SettingsAssumption ==
    RetryCount \in Nat /\ BatchSize \in Nat \ {0} /\ MaxKill \in Nat

VARIABLES orderOf,   \* the order each request is about
          attn,      \* attention_type of each line: NULL, without R5, with R5
          called,    \* place of each call in time (created_at of its log), 0 before
          place,     \* place of each log by updated_at, 0 without a row
          log,       \* the columns retry and retry_count of each row
          settled,   \* calls that iPlan or SAP have carried out
          flagged,   \* the lines each request has flagged
          pc, found, \* of each request; the row its mark is going to be saved to
          job,       \* the job: pc, log_count, i, the rest of the batch, lines read
          sends,     \* how often each call was retried
          kills

vars == <<orderOf, attn, called, place, log, settled, flagged, pc, found, job, sends, kills>>

Attention == {"null", "clear", "R5"}
LogRow    == [retry : BOOLEAN, count : Nat]
Instance  == [id : Request, row : LogRow]      \* a MulesoftLog object in memory
Lines     == [Line -> Attention]

TypeOK == /\ orderOf \in [Request -> Order]
          /\ attn \in [Order -> Lines]
          /\ called \in [Request -> Nat] /\ place \in [Request -> Nat]
          /\ log \in [Request -> LogRow]
          /\ settled \subseteq Request
          /\ flagged \in [Request -> SUBSET Line]
          /\ pc \in [Request -> {"new", "flag", "create", "keep", "find", "mark", "done", "dead"}]
          /\ found \in [Request -> Instance]
          /\ job \in [pc : {"idle", "batch", "send", "read", "save", "resolve", "count"},
                      n : Nat, i : Nat, batch : Seq(Instance), lines : Lines]
          /\ sends \in [Request -> Nat]
          /\ kills \in 0..MaxKill

NoLines == [l \in Line |-> "null"]
NewLog  == [retry |-> FALSE, count |-> 0]       \* the defaults of the columns
Idle    == [pc |-> "idle", n |-> 0, i |-> 0, batch |-> <<>>, lines |-> NoLines]

Init == /\ orderOf \in [Request -> Order]
        /\ attn \in [Order -> [Line -> {"null", "clear"}]]
        /\ called = [r \in Request |-> 0] /\ place = [r \in Request |-> 0]
        /\ log = [r \in Request |-> NewLog]
        /\ settled = {}
        /\ flagged = [r \in Request |-> {}]
        /\ pc = [r \in Request |-> "new"]
        /\ found = [r \in Request |-> [id |-> r, row |-> NewLog]]
        /\ job = Idle
        /\ sends = [r \in Request |-> 0]
        /\ kills = 0

Goto(r, p) == pc' = [pc EXCEPT ![r] = p]

Rows == {q \in Request : place[q] # 0}

(* save() of a row: every column is written and updated_at is now.         *)
SaveRow(id, row) ==
    /\ log' = [log EXCEPT ![id] = row]
    /\ place' = [q \in Request |-> IF q = id THEN Cardinality(Rows)
                                   ELSE IF place[q] > place[id] THEN place[q] - 1
                                   ELSE place[q]]

JobVars     == <<job, sends, kills>>
RequestVars == <<orderOf, called, flagged, pc, found>>

----------------------------------------------------------------------------
(* Requests.  The call is made; it fails, or iPlan or SAP carries it out.  *)
Call(r) ==
    /\ pc[r] = "new"
    /\ called' = [called EXCEPT ![r] = Cardinality({q \in Request : called[q] # 0}) + 1]
    /\ \/ Goto(r, "flag") /\ UNCHANGED settled
       \/ Goto(r, "keep") /\ settled' = settled \cup {r}
    /\ UNCHANGED <<orderOf, attn, place, log, flagged, found, JobVars>>

(* update_attention_type_r5 for the lines that failed.  The transaction of *)
(* the request may still be rolled back, the marks in the thread are not.  *)
Flag(r) ==
    /\ pc[r] = "flag"
    /\ \E S \in SUBSET Line :
          /\ flagged' = [flagged EXCEPT ![r] = S]
          /\ attn' = [attn EXCEPT ![orderOf[r]] =
                         [l \in Line |-> IF l \in S THEN "R5" ELSE @[l]]]
    /\ Goto(r, "create")
    /\ UNCHANGED <<orderOf, called, place, log, settled, found, JobVars>>

(* The end of the request: the log entries are created, then marked.       *)
Create(r) ==
    /\ pc[r] \in {"create", "keep"}
    /\ place' = [place EXCEPT ![r] = Cardinality(Rows) + 1]
    /\ Goto(r, IF pc[r] = "create" THEN "find" ELSE "done")
    /\ UNCHANGED <<orderOf, attn, called, log, settled, flagged, found, JobVars>>

(* The mark goes to the log of the order that was created last.            *)
LogsOf(o) == {q \in Rows : orderOf[q] = o}
LastOf(o) == {q \in LogsOf(o) : \A p \in LogsOf(o) : called[p] <= called[q]}

Find(r) ==
    /\ pc[r] = "find"
    /\ \E id \in LastOf(orderOf[r]) :
          found' = [found EXCEPT ![r] = [id |-> id, row |-> log[id]]]
    /\ Goto(r, "mark")
    /\ UNCHANGED <<orderOf, attn, called, place, log, settled, flagged, JobVars>>

Mark(r) ==
    /\ pc[r] = "mark"
    /\ SaveRow(found[r].id, [found[r].row EXCEPT !.retry = TRUE])
    /\ Goto(r, "done")
    /\ UNCHANGED <<orderOf, attn, called, settled, flagged, found, JobVars>>

(* The process dies, or the celery task raises and on_success is not       *)
(* called: what is in the thread-local list is lost.                       *)
KillRequest(r) ==
    /\ pc[r] \in {"flag", "create", "keep", "find", "mark"}
    /\ Goto(r, "dead")
    /\ UNCHANGED <<orderOf, attn, called, place, log, settled, flagged, found, JobVars>>

----------------------------------------------------------------------------
(* The job.  Rows it will retry, oldest first.                             *)
(* Faulty variant: one attempt too many.                                   *)
RetryableOnceMore(id) == log[id].retry /\ log[id].count <= RetryCount + 1

Retryable(id) == log[id].retry /\ log[id].count <= RetryCount
Due == {id \in Rows : Retryable(id)}

(* What a slice of that query lists: the rows that have i to i + size - 1  *)
(* others before them.                                                     *)
Before(id) == Cardinality({q \in Due : place[q] < place[id]})
Slice(i, size) == {id \in Due : i <= Before(id) /\ Before(id) < i + size}
Listed(S) == {s \in [1..Cardinality(S) -> S] :
                 \A j, k \in DOMAIN s : j < k => place[s[j]] < place[s[k]]}

ApiLog == Head(job.batch)         \* the api_log in hand

(* The number of rows is taken once.                                       *)
Count ==
    /\ job.pc = "idle"
    /\ Due # {}
    /\ job' = [Idle EXCEPT !.pc = "batch", !.n = Cardinality(Due)]
    /\ UNCHANGED <<RequestVars, attn, place, log, settled, sends, kills>>

(* The objects of a slice, in the order of the query; after the last slice *)
(* the job is over.                                                        *)
Fetch(slice) ==
    /\ job.pc = "batch"
    /\ \/ job.i >= job.n /\ job' = Idle
       \/ /\ job.i < job.n
          /\ \E s \in Listed(slice) :
                job' = [job EXCEPT !.i = @ + BatchSize,
                                   !.batch = [k \in DOMAIN s |-> [id |-> s[k], row |-> log[s[k]]]],
                                   !.pc = IF s = <<>> THEN "batch" ELSE "send"]
    /\ UNCHANGED <<RequestVars, attn, place, log, settled, sends, kills>>

(* Faulty variant: the slices start one row late.                          *)
BatchFromSecond == Fetch(Slice(job.i + 1, BatchSize))

(* The batches are slices i, i + BATCH_SIZE, ... of a query that is        *)
(* evaluated anew each time, when rows have left it or moved to its end.   *)
Batch == Fetch(Slice(job.i, BatchSize))

(* Faulty variant: a refusal in the answer is not looked at.               *)
SendUnread ==
    /\ job.pc = "send"
    /\ sends' = [sends EXCEPT ![ApiLog.id] = @ + 1]
    /\ job' = [job EXCEPT !.pc = "read"]
    /\ settled' \in {settled, settled \cup {ApiLog.id}}
    /\ UNCHANGED <<RequestVars, attn, place, log, kills>>

(* The call is sent again: refused, carried out, or carried out with an    *)
(* answer that is lost.                                                    *)
Send ==
    /\ job.pc = "send"
    /\ sends' = [sends EXCEPT ![ApiLog.id] = @ + 1]
    /\ \/ job' = [job EXCEPT !.pc = "count"] /\ settled' \in {settled, settled \cup {ApiLog.id}}
       \/ job' = [job EXCEPT !.pc = "read"] /\ settled' = settled \cup {ApiLog.id}
    /\ UNCHANGED <<RequestVars, attn, place, log, kills>>

(* Faulty variant: the log is resolved before the lines are reset.         *)
ReadLinesResolved ==
    /\ job.pc = "read"
    /\ job' = [job EXCEPT !.pc = "save", !.lines = attn[orderOf[ApiLog.id]]]
    /\ SaveRow(ApiLog.id, [ApiLog.row EXCEPT !.retry = FALSE])
    /\ UNCHANGED <<RequestVars, attn, settled, sends, kills>>

(* cancel_retry_and_reset_required_atttn reads all lines of the order.     *)
ReadLines ==
    /\ job.pc = "read"
    /\ job' = [job EXCEPT !.pc = "save", !.lines = attn[orderOf[ApiLog.id]]]
    /\ UNCHANGED <<RequestVars, attn, place, log, settled, sends, kills>>

(* It saves them one after the other without the flag; the first line      *)
(* whose attention_type is NULL raises, which counts as a failed attempt.  *)
NullLines == {l \in Line : job.lines[l] = "null"}

SaveLines ==
    /\ job.pc = "save"
    /\ \E S \in SUBSET (Line \ NullLines) :
          /\ NullLines = {} => S = Line
          /\ attn' = [attn EXCEPT ![orderOf[ApiLog.id]] =
                         [l \in Line |-> IF l \in S THEN "clear" ELSE @[l]]]
    /\ job' = [job EXCEPT !.pc = IF NullLines = {} THEN "resolve" ELSE "count"]
    /\ UNCHANGED <<RequestVars, place, log, settled, sends, kills>>

Continue == job' = [job EXCEPT !.batch = Tail(@), !.lines = NoLines,
                               !.pc = IF Len(job.batch) = 1 THEN "batch" ELSE "send"]

Resolve ==
    /\ job.pc = "resolve"
    /\ SaveRow(ApiLog.id, [ApiLog.row EXCEPT !.retry = FALSE])
    /\ Continue
    /\ UNCHANGED <<RequestVars, attn, settled, sends, kills>>

(* Faulty variant: the attempts are counted down.                          *)
Decrement ==
    /\ job.pc = "count"
    /\ SaveRow(ApiLog.id, [ApiLog.row EXCEPT !.count = @ - 1])
    /\ Continue
    /\ UNCHANGED <<RequestVars, attn, settled, sends, kills>>

Increment ==
    /\ job.pc = "count"
    /\ SaveRow(ApiLog.id, [ApiLog.row EXCEPT !.count = @ + 1])
    /\ Continue
    /\ UNCHANGED <<RequestVars, attn, settled, sends, kills>>

KillJob ==
    /\ job.pc # "idle"
    /\ kills < MaxKill
    /\ kills' = kills + 1
    /\ job' = Idle
    /\ UNCHANGED <<RequestVars, attn, place, log, settled, sends>>

RequestStep(r) == Flag(r) \/ Create(r) \/ Find(r) \/ Mark(r)
JobStep == Count \/ Batch \/ Send \/ ReadLines \/ SaveLines \/ Resolve \/ Increment

Next == \/ \E r \in Request : Call(r) \/ RequestStep(r) \/ KillRequest(r)
        \/ JobStep
        \/ KillJob

Spec == Init /\ [][Next]_vars

(* celery beat starts the job every minute; requests under way end.        *)
FairSpec == /\ Spec
            /\ WF_vars(JobStep)
            /\ \A r \in Request : WF_vars(RequestStep(r))

----------------------------------------------------------------------------
(* No other request is about the order of r.                               *)
Alone(r) == \A q \in Request : orderOf[q] = orderOf[r] => q = r

(* "update type R5 for items fail confirm": when a request has flagged     *)
(* lines and is over, and its call is still not carried out, the lines     *)
(* show the flag.  It is lost neither to a killed worker nor to the lines  *)
(* the job read before.                                                    *)
FlagsShown(r) == pc[r] = "done" /\ r \notin settled
                    => \A l \in flagged[r] : attn[orderOf[r]][l] = "R5"
FlaggedUntilSettled == \A r \in Request : Alone(r) => FlagsShown(r)

(* A flag that is shown has a log the job will find, until the attempts    *)
(* are used up: no flag stays on a line whose call was resolved.           *)
FlagIsTracked == \A r \in Request :
    Alone(r) /\ pc[r] = "done" /\ (\E l \in Line : attn[orderOf[r]][l] = "R5")
        => log[r].retry

(* A call is retried RETRY_COUNT + 1 times, and once more for each time    *)
(* the worker was killed between the call and the count.                   *)
AttemptsBounded == \A r \in Request : Alone(r) => sends[r] <= RetryCount + 1 + kills

(* No log starves behind others that fail again and again, although the    *)
(* batches skip rows.                                                      *)
EveryLogIsRetried == \A r \in Request : log[r].retry ~> ~Retryable(r)

============================================================================
