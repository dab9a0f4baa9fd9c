--------------------------- MODULE R5Retry_proofs ---------------------------
(***************************************************************************)
(* Theorems of R5Retry, for any number of requests, orders and lines and   *)
(* any settings: the types, and for a request that is alone about its      *)
(* order that its flag lasts until its call is carried out, that a flag    *)
(* that is shown has a log to be retried, and how often it is retried.     *)
(***************************************************************************)
EXTENDS R5Retry, FiniteSetTheorems, SequenceTheorems, TLAPS

----------------------------------------------------------------------------
(* The inductive invariant.                                                *)
Busy == job.pc \notin {"idle", "batch"}
InHand(r) == job.pc \in {"read", "save", "resolve", "count"} /\ ApiLog.id = r

(* The job has a batch while it works on one, with each log once, and      *)
(* resets lines only for a call that was carried out.                      *)
Batched == /\ job.batch # <<>> <=> Busy
           /\ \A j, k \in DOMAIN job.batch : job.batch[j].id = job.batch[k].id => j = k
           /\ job.pc \in {"read", "save", "resolve"} => ApiLog.id \in settled

(* A mark goes to a log of the same order.                                 *)
Marking == \A q \in Request : pc[q] = "mark" => orderOf[found[q].id] = orderOf[q]

(* Of a request r that is alone: nobody touches its log before it is over, *)
Fresh(r) == /\ pc[r] # "done" => log[r] = NewLog /\ sends[r] = 0
            /\ pc[r] = "mark" => found[r].row = NewLog

(* what the job read of its log is still what the log says,                *)
Current(r) == \A k \in DOMAIN job.batch : job.batch[k].id = r =>
                  /\ job.batch[k].row = log[r]
                  /\ log[r].retry /\ log[r].count <= RetryCount

(* each attempt has been counted, is going to be, or was lost or the last, *)
Counted(r) == /\ sends[r] <= log[r].count + kills + 1
              /\ ~InHand(r) /\ log[r].retry => sends[r] <= log[r].count + kills
              /\ log[r].count <= RetryCount + 1
              /\ ~log[r].retry => log[r].count <= RetryCount

(* its lines are flagged unless its call was carried out,                  *)
Shown(r) == r \notin settled => \A l \in flagged[r] : attn[orderOf[r]][l] = "R5"

(* and a flag on any line of its order is its own.                         *)
Showing(r) == \E l \in Line : attn[orderOf[r]][l] = "R5"
Tracked(r) == Showing(r) => /\ pc[r] \notin {"new", "flag", "keep"}
                            /\ pc[r] = "done" => log[r].retry
                            /\ ~(job.pc = "resolve" /\ ApiLog.id = r)

Own(r) == Fresh(r) /\ Current(r) /\ Counted(r) /\ Shown(r) /\ Tracked(r)

IInv == TypeOK /\ Batched /\ Marking /\ \A r \in Request : Alone(r) => Own(r)
----------------------------------------------------------------------------
(* Types.                                                                  *)
LEMMA CardType == ASSUME NEW S, S \subseteq Request PROVE Cardinality(S) \in Nat
  BY RequestAssumption, FS_Subset, FS_CardinalityType

LEMMA SaveRowTypes ==
    ASSUME TypeOK, NEW id \in Request, NEW row \in LogRow, SaveRow(id, row)
    PROVE  log' \in [Request -> LogRow] /\ place' \in [Request -> Nat]
<1>1. Cardinality(Rows) \in Nat
  BY CardType DEF Rows
<1>2. log' \in [Request -> LogRow]
  BY DEF SaveRow, TypeOK
<1>3. \A q \in Request : place[q] > place[id] => place[q] - 1 \in Nat
  BY DEF TypeOK
<1> QED BY <1>1, <1>2, <1>3 DEF SaveRow, TypeOK

(* The log in hand.                                                        *)
LEMMA ApiLogType ==
    ASSUME TypeOK, Batched, Busy
    PROVE  /\ ApiLog \in Instance /\ ApiLog = job.batch[1] /\ 1 \in DOMAIN job.batch
           /\ Tail(job.batch) \in Seq(Instance)
           /\ Len(Tail(job.batch)) = Len(job.batch) - 1
           /\ Len(job.batch) \in Nat \ {0}
<1>1. job.batch \in Seq(Instance) /\ job.batch # <<>>
  BY DEF TypeOK, Batched
<1>2. /\ Head(job.batch) \in Instance /\ Tail(job.batch) \in Seq(Instance)
      /\ Len(Tail(job.batch)) = Len(job.batch) - 1
  BY <1>1, HeadTailProperties
<1>3. Len(job.batch) \in Nat \ {0}
  BY <1>1, EmptySeq
<1>4. DOMAIN job.batch = 1..Len(job.batch)
  BY <1>1, LenProperties
<1> QED BY <1>1, <1>2, <1>3, <1>4 DEF ApiLog

(* What a query of the job lists are rows, each once.                      *)
LEMMA ListedObjects ==
    ASSUME TypeOK, NEW S, S \subseteq Due, NEW s \in Listed(S),
           NEW b, b = [k \in DOMAIN s |-> [id |-> s[k], row |-> log[s[k]]]]
    PROVE  /\ b \in Seq(Instance)
           /\ b # <<>> <=> s # <<>>
           /\ \A k \in DOMAIN b : b[k].id \in Due /\ b[k].row = log[b[k].id]
           /\ \A j, k \in DOMAIN b : b[j].id = b[k].id => j = k
<1>1. S \subseteq Request /\ Cardinality(S) \in Nat
  BY CardType DEF Due, Rows
<1>2. s \in [1..Cardinality(S) -> S]
  BY DEF Listed
<1>3. b \in [1..Cardinality(S) -> Instance]
  BY <1>1, <1>2 DEF TypeOK, Instance
<1>4. b \in Seq(Instance)
  BY <1>1, <1>3
<1>5. \A k \in DOMAIN b : b[k].id = s[k] /\ b[k].row = log[s[k]] /\ s[k] \in Due
  BY <1>2
<1>6. \A j, k \in DOMAIN s : j < k => s[j] # s[k]
  <2> SUFFICES ASSUME NEW j \in DOMAIN s, NEW k \in DOMAIN s, j < k, s[j] = s[k] PROVE FALSE
    OBVIOUS
  <2>1. place[s[j]] < place[s[k]] /\ place[s[j]] \in Nat
    BY <1>1, <1>2 DEF Listed, TypeOK
  <2> QED BY <2>1
<1>7. \A j, k \in DOMAIN b : b[j].id = b[k].id => j = k
  BY <1>1, <1>2, <1>5, <1>6
<1>8. b # <<>> <=> s # <<>>
  <2>1. b = <<>> <=> DOMAIN b = {}
    BY <1>4
  <2>2. s \in Seq(S)
    BY <1>1, <1>2
  <2>3. s = <<>> <=> DOMAIN s = {}
    BY <2>2
  <2> QED BY <2>1, <2>3
<1> QED BY <1>4, <1>5, <1>7, <1>8

JobPc == {"idle", "batch", "send", "read", "save", "resolve", "count"}
Jobs  == [pc : JobPc, n : Nat, i : Nat, batch : Seq(Instance), lines : Lines]

LEMMA IdleType == Idle \in Jobs
  BY EmptySeq DEF Idle, Jobs, JobPc, Lines, NoLines, Attention

(* What the job does after it is done with a log.                          *)
LEMMA ContinueType ==
    ASSUME TypeOK, Batched, Busy, Continue
    PROVE  /\ job' \in Jobs
           /\ job'.batch = Tail(job.batch)
           /\ job'.pc \in {"batch", "send"}
           /\ job'.pc = "batch" <=> Len(job.batch) = 1
<1>1. Tail(job.batch) \in Seq(Instance)
  BY ApiLogType
<1>2. job \in Jobs
  BY DEF TypeOK, Jobs, JobPc
<1>3. NoLines \in Lines
  BY DEF NoLines, Lines, Attention
<1> QED BY <1>1, <1>2, <1>3 DEF Continue, Jobs, JobPc

(* The job gets a new batch or ends.                                       *)
LEMMA FetchType ==
    ASSUME TypeOK, NEW S, S \subseteq Due, Fetch(S)
    PROVE  /\ job' \in Jobs
           /\ job'.batch # <<>> <=> job'.pc = "send"
           /\ job'.pc \in {"idle", "batch", "send"}
           /\ \A k \in DOMAIN job'.batch : job'.batch[k].id \in Due /\ job'.batch[k].row = log[job'.batch[k].id]
           /\ \A j, k \in DOMAIN job'.batch : job'.batch[j].id = job'.batch[k].id => j = k
<1>0. job \in Jobs
  BY DEF TypeOK, Jobs, JobPc
<1>1. CASE job' = Idle
  <2>1. job'.batch = <<>> /\ job'.pc = "idle"
    BY <1>1 DEF Idle
  <2> QED BY <1>1, <2>1, IdleType
<1>2. CASE job.i < job.n
  <2>1. PICK s \in Listed(S) :
           job' = [job EXCEPT !.i = @ + BatchSize,
                              !.batch = [k \in DOMAIN s |-> [id |-> s[k], row |-> log[s[k]]]],
                              !.pc = IF s = <<>> THEN "batch" ELSE "send"]
    <3>1. ~(job.i >= job.n)
      BY <1>0, <1>2 DEF Jobs
    <3> QED BY <3>1, Zenon DEF Fetch
  <2> DEFINE b == [k \in DOMAIN s |-> [id |-> s[k], row |-> log[s[k]]]]
  <2>2. /\ b \in Seq(Instance)
        /\ b # <<>> <=> s # <<>>
        /\ \A k \in DOMAIN b : b[k].id \in Due /\ b[k].row = log[b[k].id]
        /\ \A j, k \in DOMAIN b : b[j].id = b[k].id => j = k
    BY ListedObjects
  <2> HIDE DEF b
  <2>3. /\ job'.batch = b /\ job'.pc = (IF s = <<>> THEN "batch" ELSE "send")
        /\ job'.i = job.i + BatchSize /\ job'.n = job.n /\ job'.lines = job.lines
    BY <1>0, <2>1 DEF Jobs, b
  <2>4. job' \in Jobs
    <3>1. job' = [job EXCEPT !.i = @ + BatchSize, !.batch = b,
                             !.pc = IF s = <<>> THEN "batch" ELSE "send"]
      BY <2>1, Zenon DEF b
    <3>2. job.i + BatchSize \in Nat
      BY <1>0, SettingsAssumption DEF Jobs
    <3>3. (IF s = <<>> THEN "batch" ELSE "send") \in JobPc
      BY DEF JobPc
    <3> QED BY <1>0, <2>2, <3>1, <3>2, <3>3 DEF Jobs
  <2> QED BY <2>2, <2>3, <2>4
<1> QED BY <1>0, <1>1, <1>2 DEF Fetch, Jobs

LEMMA SliceDue == Slice(job.i, BatchSize) \subseteq Due
  BY DEF Slice

LEMMA TypeStep == TypeOK /\ Batched /\ [Next]_vars => TypeOK'
<1> SUFFICES ASSUME TypeOK, Batched, [Next]_vars PROVE TypeOK'
  OBVIOUS
<1>0. job \in Jobs
  BY DEF TypeOK, Jobs, JobPc
<1>1. CASE UNCHANGED vars
  BY <1>1 DEF vars, TypeOK
<1>2. ASSUME NEW r \in Request, Call(r) PROVE TypeOK'
  <2>1. Cardinality({q \in Request : called[q] # 0}) \in Nat
    BY CardType
  <2>2. called' \in [Request -> Nat]
    BY <1>2, <2>1 DEF Call, TypeOK
  <2> QED BY <1>2, <2>2 DEF Call, Goto, JobVars, TypeOK
<1>3. ASSUME NEW r \in Request, Flag(r) PROVE TypeOK'
  <2>1. PICK S \in SUBSET Line :
          /\ flagged' = [flagged EXCEPT ![r] = S]
          /\ attn' = [attn EXCEPT ![orderOf[r]] =
                         [l \in Line |-> IF l \in S THEN "R5" ELSE @[l]]]
    BY <1>3 DEF Flag
  <2>2. flagged' \in [Request -> SUBSET Line]
    BY <2>1 DEF TypeOK
  <2>3. attn' \in [Order -> Lines]
    BY <2>1 DEF TypeOK, Lines, Attention
  <2> QED BY <1>3, <2>2, <2>3 DEF Flag, Goto, JobVars, TypeOK
<1>4. ASSUME NEW r \in Request, Create(r) PROVE TypeOK'
  <2>1. Cardinality(Rows) \in Nat
    BY CardType DEF Rows
  <2>2. place' \in [Request -> Nat]
    BY <1>4, <2>1 DEF Create, TypeOK
  <2> QED BY <1>4, <2>2 DEF Create, Goto, JobVars, TypeOK
<1>5. ASSUME NEW r \in Request, Find(r) PROVE TypeOK'
  <2>1. found' \in [Request -> Instance]
    BY <1>5 DEF Find, TypeOK, Instance, LastOf, LogsOf, Rows
  <2> QED BY <1>5, <2>1 DEF Find, Goto, JobVars, TypeOK
<1>6. ASSUME NEW r \in Request, Mark(r) PROVE TypeOK'
  <2>1. found[r] \in Instance
    BY DEF TypeOK
  <2>2. [found[r].row EXCEPT !.retry = TRUE] \in LogRow
    BY <2>1 DEF Instance, LogRow
  <2>3. log' \in [Request -> LogRow] /\ place' \in [Request -> Nat]
    BY <1>6, <2>1, <2>2, SaveRowTypes DEF Mark, Instance
  <2> QED BY <1>6, <2>3 DEF Mark, Goto, JobVars, TypeOK
<1>7. ASSUME NEW r \in Request, KillRequest(r) PROVE TypeOK'
  BY <1>7 DEF KillRequest, Goto, JobVars, TypeOK
<1>8. ASSUME Count PROVE TypeOK'
  <2>1. Cardinality(Due) \in Nat
    BY CardType DEF Due, Rows
  <2>2. job' \in Jobs
    BY <1>8, <2>1, IdleType DEF Count, Jobs, JobPc
  <2> QED BY <1>8, <2>2 DEF Count, RequestVars, TypeOK, Jobs, JobPc
<1>9. ASSUME Batch PROVE TypeOK'
  <2>1. job' \in Jobs
    BY <1>9, SliceDue, FetchType DEF Batch
  <2> QED BY <1>9, <2>1 DEF Batch, Fetch, RequestVars, TypeOK, Jobs, JobPc
<1>10. ASSUME Send PROVE TypeOK'
  <2>1. ApiLog.id \in Request
    BY <1>10, ApiLogType DEF Send, Busy, Instance
  <2>2. job' \in Jobs
    BY <1>0, <1>10 DEF Send, Jobs, JobPc
  <2>3. settled' \subseteq Request
    BY <1>10, <2>1 DEF Send, TypeOK
  <2>4. sends' \in [Request -> Nat]
    <3>1. sends \in [Request -> Nat]
      BY DEF TypeOK
    <3> QED BY <1>10, <2>1, <3>1 DEF Send
  <2> QED BY <1>10, <2>2, <2>3, <2>4 DEF Send, RequestVars, TypeOK, Jobs, JobPc
<1>11. ASSUME ReadLines PROVE TypeOK'
  <2>1. ApiLog.id \in Request
    BY <1>11, ApiLogType DEF ReadLines, Busy, Instance
  <2>2. attn[orderOf[ApiLog.id]] \in Lines
    BY <2>1 DEF TypeOK
  <2>3. job' \in Jobs
    BY <1>0, <1>11, <2>2 DEF ReadLines, Jobs, JobPc
  <2> QED BY <1>11, <2>3 DEF ReadLines, RequestVars, TypeOK, Jobs, JobPc
<1>12. ASSUME SaveLines PROVE TypeOK'
  <2>1. ApiLog.id \in Request
    BY <1>12, ApiLogType DEF SaveLines, Busy, Instance
  <2>2. PICK S \in SUBSET (Line \ NullLines) :
          attn' = [attn EXCEPT ![orderOf[ApiLog.id]] =
                      [l \in Line |-> IF l \in S THEN "clear" ELSE @[l]]]
    BY <1>12 DEF SaveLines
  <2>3. attn' \in [Order -> Lines]
    BY <2>1, <2>2 DEF TypeOK, Lines, Attention
  <2>4. job' \in Jobs
    BY <1>0, <1>12 DEF SaveLines, Jobs, JobPc
  <2> QED BY <1>12, <2>3, <2>4 DEF SaveLines, RequestVars, TypeOK, Jobs, JobPc
<1>13. ASSUME Resolve PROVE TypeOK'
  <2>1. ApiLog.id \in Request /\ [ApiLog.row EXCEPT !.retry = FALSE] \in LogRow /\ job' \in Jobs
    BY <1>13, ApiLogType, ContinueType DEF Resolve, Busy, Instance, LogRow
  <2>2. log' \in [Request -> LogRow] /\ place' \in [Request -> Nat]
    BY <1>13, <2>1, SaveRowTypes DEF Resolve
  <2> QED BY <1>13, <2>1, <2>2 DEF Resolve, RequestVars, TypeOK, Jobs, JobPc
<1>14. ASSUME Increment PROVE TypeOK'
  <2>1. ApiLog.id \in Request /\ [ApiLog.row EXCEPT !.count = @ + 1] \in LogRow /\ job' \in Jobs
    BY <1>14, ApiLogType, ContinueType DEF Increment, Busy, Instance, LogRow
  <2>2. log' \in [Request -> LogRow] /\ place' \in [Request -> Nat]
    BY <1>14, <2>1, SaveRowTypes DEF Increment
  <2> QED BY <1>14, <2>1, <2>2 DEF Increment, RequestVars, TypeOK, Jobs, JobPc
<1>15. ASSUME KillJob PROVE TypeOK'
  <2>1. kills + 1 \in 0..MaxKill
    BY <1>15, SettingsAssumption DEF KillJob, TypeOK
  <2> QED BY <1>15, <2>1, IdleType DEF KillJob, RequestVars, TypeOK, Jobs, JobPc
<1> QED
  BY <1>1, <1>2, <1>3, <1>4, <1>5, <1>6, <1>7, <1>8, <1>9, <1>10, <1>11, <1>12,
     <1>13, <1>14, <1>15 DEF Next, RequestStep, JobStep
----------------------------------------------------------------------------
(* The steps of requests.                                                  *)
LEMMA OthersStep ==
    ASSUME NEW r \in Request, Own(r),
           pc'[r] = pc[r], found'[r] = found[r], log'[r] = log[r], sends'[r] = sends[r],
           flagged'[r] = flagged[r], orderOf' = orderOf, attn'[orderOf[r]] = attn[orderOf[r]],
           UNCHANGED JobVars, settled \subseteq settled'
    PROVE  Own(r)'
<1>1. UNCHANGED <<job, sends, kills>>
  BY DEF JobVars
<1>2. Fresh(r)' /\ Current(r)' /\ Counted(r)'
  BY <1>1 DEF Own, Fresh, Current, Counted, InHand, ApiLog
<1>3. Shown(r)' /\ Tracked(r)'
  BY <1>1 DEF Own, Shown, Tracked, Showing, ApiLog
<1> QED BY <1>2, <1>3 DEF Own

(* A log the job has in its batch is that of a request that is over.       *)
LEMMA InBatch ==
    ASSUME IInv, NEW r \in Request, Alone(r), Busy, ApiLog.id = r
    PROVE  /\ pc[r] = "done"
           /\ ApiLog.row = log[r] /\ log[r].retry /\ log[r].count <= RetryCount
<1>1. ApiLog = job.batch[1] /\ 1 \in DOMAIN job.batch
  BY ApiLogType DEF IInv
<1>2. ApiLog.row = log[r] /\ log[r].retry /\ log[r].count <= RetryCount
  BY <1>1 DEF IInv, Own, Current
<1>3. pc[r] = "done"
  BY <1>2 DEF IInv, Own, Fresh, NewLog
<1> QED BY <1>2, <1>3

LEMMA RequestsStep ==
    ASSUME IInv, TypeOK',
           NEW q \in Request, Call(q) \/ RequestStep(q) \/ KillRequest(q)
    PROVE  Batched' /\ Marking' /\ \A r \in Request : Alone(r)' => Own(r)'
<1>0. UNCHANGED JobVars /\ orderOf' = orderOf /\ settled \subseteq settled'
  BY DEF Call, RequestStep, Flag, Create, Find, Mark, KillRequest
<1>1. UNCHANGED <<job, sends, kills>>
  BY <1>0 DEF JobVars
<1>2. Batched'
  BY <1>0, <1>1 DEF IInv, Batched, Busy, ApiLog
<1>3. \A r \in Request : Alone(r)' <=> Alone(r)
  BY <1>0 DEF Alone
<1>4. \A r \in Request \ {q} : pc'[r] = pc[r] /\ found'[r] = found[r] /\ flagged'[r] = flagged[r]
  <2>1. DOMAIN pc = Request /\ DOMAIN found = Request /\ DOMAIN flagged = Request
    BY DEF IInv, TypeOK
  <2>2. CASE Call(q) \/ KillRequest(q)
    BY <2>1, <2>2 DEF Call, KillRequest, Goto
  <2>3. CASE RequestStep(q)
    BY <2>1, <2>3 DEF RequestStep, Flag, Create, Find, Mark, Goto
  <2> QED BY <2>2, <2>3
<1>5. Marking'
  <2>1. CASE Find(q)
    <3>1. PICK id \in LastOf(orderOf[q]) : found' = [found EXCEPT ![q] = [id |-> id, row |-> log[id]]]
      BY <2>1 DEF Find
    <3>2. orderOf[found'[q].id] = orderOf[q]
      BY <3>1 DEF LastOf, LogsOf, IInv, TypeOK
    <3> QED BY <1>0, <1>4, <3>2 DEF IInv, Marking
  <2>2. CASE ~Find(q)
    <3>1. found' = found /\ pc'[q] # "mark"
      BY <2>2 DEF Call, RequestStep, Flag, Create, Find, Mark, KillRequest, Goto, IInv, TypeOK
    <3> QED BY <1>0, <1>4, <3>1 DEF IInv, Marking
  <2> QED BY <2>1, <2>2
<1>6. ASSUME NEW r \in Request, Alone(r), r # q PROVE Own(r)'
  <2>1. orderOf[q] # orderOf[r]
    BY <1>6 DEF Alone
  <2>2. attn'[orderOf[r]] = attn[orderOf[r]]
    BY <2>1 DEF Call, RequestStep, Flag, Create, Find, Mark, KillRequest, IInv, TypeOK
  <2>3. log'[r] = log[r]
    <3>1. CASE Mark(q)
      <4>1. found[q].id # r
        BY <2>1, <3>1 DEF Mark, IInv, Marking
      <4> QED BY <3>1, <4>1 DEF Mark, SaveRow, IInv, TypeOK
    <3>2. CASE ~Mark(q)
      BY <3>2 DEF Call, RequestStep, Flag, Create, Find, KillRequest
    <3> QED BY <3>1, <3>2
  <2> QED BY <1>0, <1>1, <1>4, <1>6, <2>2, <2>3, OthersStep DEF IInv
<1>7. ASSUME Alone(q) PROVE Own(q)'
  <2> USE DEF IInv
  <2>0. Own(q) /\ pc[q] # "done" /\ log[q] = NewLog /\ sends[q] = 0
    BY <1>7 DEF Own, Fresh, Call, RequestStep, Flag, Create, Find, Mark, KillRequest
  <2>1. \A k \in DOMAIN job.batch : job.batch[k].id # q
    BY <2>0 DEF Own, Current, NewLog
  <2>2. ~(Busy /\ ApiLog.id = q)
    BY <1>7, <2>0, InBatch
  <2>3. Current(q)'
    BY <1>1, <2>1 DEF Current
  <2>4. ~InHand(q) /\ ~InHand(q)' /\ ~(job.pc = "resolve" /\ ApiLog.id = q)'
    BY <1>1, <2>2 DEF InHand, Busy, ApiLog
  <2>5. ASSUME Mark(q)
        PROVE  /\ pc' = [pc EXCEPT ![q] = "done"] /\ log'[q].retry /\ log'[q].count = 0
               /\ UNCHANGED <<attn, flagged, settled, sends, kills>>
    <3>1. found[q].id = q /\ found[q].row = NewLog
      <4>1. orderOf[found[q].id] = orderOf[q] /\ found[q].id \in Request
        BY <2>5 DEF Mark, Marking, TypeOK, Instance
      <4> QED BY <1>7, <2>0, <2>5, <4>1 DEF Own, Fresh, Mark, Alone
    <3>2. log' = [log EXCEPT ![q] = [NewLog EXCEPT !.retry = TRUE]]
      BY <2>5, <3>1 DEF Mark, SaveRow
    <3>3. [NewLog EXCEPT !.retry = TRUE].retry /\ [NewLog EXCEPT !.retry = TRUE].count = 0
      BY DEF NewLog
    <3>4. log'[q].retry /\ log'[q].count = 0
      BY <3>2, <3>3 DEF TypeOK
    <3> QED BY <1>1, <2>5, <3>4 DEF Mark, Goto
  <2>6. ASSUME ~Mark(q) PROVE log' = log
    BY <2>6 DEF Call, RequestStep, Flag, Create, Find, KillRequest
  <2>7. Fresh(q)'
    <3>1. CASE Find(q)
      <4>1. PICK id \in LastOf(orderOf[q]) : found' = [found EXCEPT ![q] = [id |-> id, row |-> log[id]]]
        BY <3>1 DEF Find
      <4>2. id = q
        BY <1>7, <4>1 DEF LastOf, LogsOf, Rows, Alone
      <4>3. found'[q].row = NewLog
        BY <2>0, <4>1, <4>2 DEF TypeOK
      <4> QED BY <1>1, <2>0, <3>1, <4>3 DEF Find, Fresh, Goto
    <3>2. CASE Mark(q)
      BY <2>5, <3>2 DEF Fresh, TypeOK
    <3>3. CASE ~Find(q) /\ ~Mark(q)
      <4>1. pc'[q] # "mark"
        BY <3>3 DEF Call, RequestStep, Flag, Create, KillRequest, Goto, TypeOK
      <4> QED BY <1>1, <2>0, <2>6, <3>3, <4>1 DEF Fresh
    <3> QED BY <3>1, <3>2, <3>3
  <2>8. Counted(q)'
    <3>1. log'[q].count = 0
      BY <2>0, <2>5, <2>6 DEF NewLog
    <3>2. sends'[q] = 0 /\ kills' \in Nat
      BY <1>1, <2>0 DEF TypeOK
    <3>3. \A k \in Nat : /\ 0 <= RetryCount /\ 0 <= RetryCount + 1
                         /\ 0 <= 0 + k /\ 0 <= 0 + k + 1
      BY SettingsAssumption
    <3> QED BY <3>1, <3>2, <3>3, Zenon DEF Counted
  <2>9. Shown(q)'
    <3>1. CASE Flag(q)
      <4>1. PICK S \in SUBSET Line :
               /\ flagged' = [flagged EXCEPT ![q] = S]
               /\ attn' = [attn EXCEPT ![orderOf[q]] =
                              [l \in Line |-> IF l \in S THEN "R5" ELSE @[l]]]
        BY <3>1 DEF Flag
      <4>2. flagged'[q] = S /\ \A l \in S : attn'[orderOf[q]][l] = "R5"
        BY <4>1 DEF TypeOK
      <4> QED BY <1>0, <4>2 DEF Shown
    <3>2. CASE ~Flag(q)
      <4>1. UNCHANGED <<attn, flagged>>
        BY <3>2 DEF Call, RequestStep, Create, Find, Mark, KillRequest
      <4> QED BY <1>0, <2>0, <4>1 DEF Own, Shown
    <3> QED BY <3>1, <3>2
  <2>10. Tracked(q)'
    <3>1. CASE Flag(q)
      <4>1. pc'[q] = "create"
        BY <3>1 DEF Flag, Goto, TypeOK
      <4> QED BY <2>4, <4>1 DEF Tracked
    <3>2. CASE ~Flag(q)
      <4>1. UNCHANGED attn
        BY <3>2 DEF Call, RequestStep, Create, Find, Mark, KillRequest
      <4>2. Showing(q)' => Showing(q)
        BY <1>0, <4>1 DEF Showing
      <4>3. ASSUME Showing(q)
            PROVE  pc'[q] \in {"find", "mark", "done", "dead"} /\ (pc'[q] = "done" => log'[q].retry)
        <5>1. pc[q] \notin {"new", "flag", "keep"}
          BY <2>0, <4>3 DEF Own, Tracked
        <5>2. CASE Mark(q)
          BY <2>5, <5>2 DEF TypeOK
        <5> QED BY <3>2, <5>1, <5>2 DEF Call, RequestStep, Create, Find, KillRequest, Goto, TypeOK
      <4> QED BY <2>4, <4>2, <4>3 DEF Tracked
    <3> QED BY <3>1, <3>2
  <2> QED BY <2>3, <2>7, <2>8, <2>9, <2>10 DEF Own
<1> QED BY <1>2, <1>3, <1>5, <1>6, <1>7
----------------------------------------------------------------------------
(* The steps of the job.                                                   *)
LEMMA TailOfBatch ==
    ASSUME TypeOK, Batched, Busy, NEW t, t = Tail(job.batch)
    PROVE  /\ t # <<>> <=> Len(job.batch) # 1
           /\ \A k \in DOMAIN t : k + 1 \in DOMAIN job.batch /\ t[k] = job.batch[k + 1]
           /\ \A k \in DOMAIN t : t[k].id # ApiLog.id
           /\ \A j, k \in DOMAIN t : t[j].id = t[k].id => j = k
<1>1. /\ ApiLog = job.batch[1] /\ 1 \in DOMAIN job.batch
      /\ t \in Seq(Instance) /\ Len(t) = Len(job.batch) - 1 /\ Len(job.batch) \in Nat \ {0}
  BY ApiLogType
<1>2. DOMAIN t = 1..Len(t) /\ DOMAIN job.batch = 1..Len(job.batch)
  BY <1>1, LenProperties DEF TypeOK
<1>3. ASSUME NEW k \in DOMAIN t PROVE k + 1 \in DOMAIN job.batch /\ t[k] = job.batch[k + 1]
  <2>1. k \in Nat \ {0} /\ k <= Len(job.batch) - 1
    BY <1>1, <1>2
  <2>2. k + 1 \in DOMAIN job.batch
    BY <1>1, <1>2, <2>1
  <2>3. job.batch \in Seq(Instance)
    BY DEF TypeOK
  <2> QED BY <1>1, <2>1, <2>2, <2>3
<1>4. \A k \in DOMAIN t : k \in Nat /\ k + 1 # 1
  BY <1>1, <1>2
<1>5. t # <<>> <=> Len(job.batch) # 1
  <2>1. t = <<>> <=> Len(t) = 0
    BY <1>1, EmptySeq
  <2> QED BY <1>1, <2>1
<1>6. \A k \in DOMAIN t : t[k].id # ApiLog.id
  BY <1>1, <1>3, <1>4 DEF Batched
<1>7. \A j, k \in DOMAIN t : t[j].id = t[k].id => j = k
  <2> SUFFICES ASSUME NEW j \in DOMAIN t, NEW k \in DOMAIN t, t[j].id = t[k].id PROVE j = k
    OBVIOUS
  <2>1. j + 1 = k + 1
    BY <1>3 DEF Batched
  <2> QED BY <1>4, <2>1
<1> QED BY <1>3, <1>5, <1>6, <1>7

(* A step that leaves the tables alone and does not go on with a log.      *)
LEMMA JobPasses ==
    ASSUME IInv, TypeOK', NEW r \in Request, Alone(r),
           UNCHANGED <<RequestVars, attn, log, settled, sends>>,
           kills' = kills \/ kills' = kills + 1,
           InHand(r) => kills' = kills + 1,
           job'.pc \in {"idle", "batch", "send"}, Current(r)'
    PROVE  Own(r)'
<1>1. UNCHANGED <<orderOf, called, flagged, pc, found>> /\ Own(r)
  BY DEF RequestVars, IInv
<1>2. Fresh(r)' /\ Shown(r)' /\ Tracked(r)'
  BY <1>1 DEF Own, Fresh, Shown, Tracked, Showing
<1>3. ~InHand(r)'
  BY DEF InHand
<1>4. sends[r] \in Nat /\ log[r].count \in Nat /\ kills \in Nat /\ kills' \in Nat
  BY DEF IInv, TypeOK, LogRow
<1>5. Counted(r)'
  <2>1. /\ sends[r] <= log[r].count + kills + 1
        /\ ~InHand(r) /\ log[r].retry => sends[r] <= log[r].count + kills
    BY <1>1 DEF Own, Counted
  <2>2. sends[r] <= log[r].count + kills' + 1
    BY <1>4, <2>1
  <2>3. log[r].retry => sends[r] <= log[r].count + kills'
    BY <1>4, <2>1
  <2>4. sends'[r] = sends[r] /\ log'[r] = log[r]
    OBVIOUS
  <2>5. log[r].count <= RetryCount + 1 /\ (~log[r].retry => log[r].count <= RetryCount)
    BY <1>1 DEF Own, Counted
  <2> QED BY <2>2, <2>3, <2>4, <2>5, Zenon DEF Counted
<1> QED BY <1>2, <1>5 DEF Own

LEMMA CountStep ==
    ASSUME IInv, TypeOK', Count
    PROVE  Batched' /\ \A r \in Request : Alone(r) => Own(r)'
<1>1. job'.pc = "batch" /\ job'.batch = <<>>
  BY DEF Count, Idle
<1>2. \A r \in Request : Current(r)' /\ ~InHand(r)
  BY <1>1 DEF Current, InHand, Count
<1> QED BY <1>1, <1>2, JobPasses DEF Count, Batched, Busy

LEMMA BatchStep ==
    ASSUME IInv, TypeOK', Batch
    PROVE  Batched' /\ \A r \in Request : Alone(r) => Own(r)'
<1>0. UNCHANGED <<RequestVars, attn, place, log, settled, sends, kills>> /\ job.pc = "batch"
  BY DEF Batch, Fetch
<1>1. /\ job'.batch # <<>> <=> job'.pc = "send"
      /\ job'.pc \in {"idle", "batch", "send"}
      /\ \A k \in DOMAIN job'.batch : job'.batch[k].id \in Due /\ job'.batch[k].row = log[job'.batch[k].id]
      /\ \A j, k \in DOMAIN job'.batch : job'.batch[j].id = job'.batch[k].id => j = k
  BY SliceDue, FetchType DEF Batch, IInv
<1>2. \A r \in Request : Current(r)' /\ ~InHand(r)
  BY <1>0, <1>1 DEF Current, InHand, Due, Retryable
<1>3. Batched'
  BY <1>1 DEF Batched, Busy
<1> QED BY <1>0, <1>1, <1>2, <1>3, JobPasses

LEMMA KillJobStep ==
    ASSUME IInv, TypeOK', KillJob
    PROVE  Batched' /\ \A r \in Request : Alone(r) => Own(r)'
<1>1. job'.pc = "idle" /\ job'.batch = <<>>
  BY DEF KillJob, Idle
<1>2. \A r \in Request : Current(r)'
  BY <1>1 DEF Current
<1> QED BY <1>1, <1>2, JobPasses DEF KillJob, Batched, Busy

(* The log in hand is that of a request about the order the job works on.  *)
LEMMA InHandFacts ==
    ASSUME IInv, Busy, NEW r \in Request, Alone(r)
    PROVE  /\ Own(r) /\ ApiLog.id \in Request
           /\ ApiLog.id # r => orderOf[ApiLog.id] # orderOf[r]
           /\ sends[r] \in Nat /\ log[r].count \in Nat /\ kills \in Nat
<1>1. ApiLog.id \in Request
  BY ApiLogType DEF IInv, Instance
<1> QED BY <1>1 DEF IInv, Alone, TypeOK, LogRow

LEMMA SendStep ==
    ASSUME IInv, TypeOK', Send
    PROVE  Batched' /\ \A r \in Request : Alone(r) => Own(r)'
<1>0. /\ UNCHANGED <<orderOf, called, flagged, pc, found, attn, place, log, kills>>
      /\ job.pc = "send" /\ sends' = [sends EXCEPT ![ApiLog.id] = @ + 1]
      /\ settled \subseteq settled'
  BY DEF Send, RequestVars
<1>1. /\ job'.pc \in {"read", "count"} /\ job'.batch = job.batch
      /\ job'.pc = "read" => ApiLog.id \in settled'
  BY DEF Send, IInv, TypeOK
<1>2. ApiLog' = ApiLog /\ Busy
  BY <1>0, <1>1 DEF ApiLog, Busy
<1>3. Batched'
  BY <1>0, <1>1, <1>2 DEF IInv, Batched, Busy
<1>4. ASSUME NEW r \in Request, Alone(r) PROVE Own(r)'
  <2>0. /\ Own(r) /\ ApiLog.id \in Request
        /\ sends[r] \in Nat /\ log[r].count \in Nat /\ kills \in Nat
    BY <1>2, <1>4, InHandFacts
  <2>1. ApiLog.id # r => sends'[r] = sends[r]
    BY <1>0, <2>0 DEF IInv, TypeOK
  <2>2. ApiLog.id = r => sends'[r] = sends[r] + 1 /\ pc[r] = "done" /\ log[r].retry
    BY <1>0, <1>2, <1>4, InBatch DEF IInv, TypeOK
  <2>3. Fresh(r)'
    BY <1>0, <2>0, <2>1, <2>2 DEF Own, Fresh
  <2>4. Current(r)' /\ Shown(r)' /\ Tracked(r)'
    BY <1>0, <1>1, <2>0 DEF Own, Current, Shown, Tracked, Showing
  <2>5. Counted(r)'
    <3>1. /\ sends[r] <= log[r].count + kills + 1
          /\ log[r].retry => sends[r] <= log[r].count + kills
          /\ log[r].count <= RetryCount + 1 /\ (~log[r].retry => log[r].count <= RetryCount)
      BY <1>0, <2>0 DEF Own, Counted, InHand
    <3>2. CASE ApiLog.id = r
      <4>1. InHand(r)'
        BY <1>1, <1>2, <3>2 DEF InHand
      <4>2. sends'[r] <= log[r].count + kills + 1
        BY <2>0, <2>2, <3>1, <3>2
      <4> QED BY <1>0, <3>1, <4>1, <4>2, Zenon DEF Counted
    <3>3. CASE ApiLog.id # r
      BY <1>0, <2>1, <3>1, <3>3, Zenon DEF Counted
    <3> QED BY <3>2, <3>3
  <2> QED BY <2>3, <2>4, <2>5 DEF Own
<1> QED BY <1>3, <1>4

LEMMA ReadLinesStep ==
    ASSUME IInv, TypeOK', ReadLines
    PROVE  Batched' /\ \A r \in Request : Alone(r) => Own(r)'
<1>0. /\ UNCHANGED <<orderOf, called, flagged, pc, found, attn, place, log, settled, sends, kills>>
      /\ job.pc = "read" /\ job'.pc = "save" /\ job'.batch = job.batch
  BY DEF ReadLines, RequestVars, IInv, TypeOK
<1>1. ApiLog' = ApiLog /\ \A r \in Request : InHand(r)' <=> InHand(r)
  BY <1>0 DEF ApiLog, InHand
<1>2. Batched'
  BY <1>0, <1>1 DEF IInv, Batched, Busy
<1>3. ASSUME NEW r \in Request, Alone(r) PROVE Own(r)'
  <2>1. Fresh(r)' /\ Current(r)' /\ Shown(r)' /\ Tracked(r)'
    BY <1>0, <1>3 DEF IInv, Own, Fresh, Current, Shown, Tracked, Showing
  <2>2. Counted(r)'
    BY <1>0, <1>1, <1>3, Zenon DEF IInv, Own, Counted
  <2> QED BY <2>1, <2>2 DEF Own
<1> QED BY <1>2, <1>3

LEMMA SaveLinesStep ==
    ASSUME IInv, TypeOK', SaveLines
    PROVE  Batched' /\ \A r \in Request : Alone(r) => Own(r)'
<1>0. /\ UNCHANGED <<orderOf, called, flagged, pc, found, place, log, settled, sends, kills>>
      /\ job.pc = "save" /\ job'.batch = job.batch
      /\ job'.pc = IF NullLines = {} THEN "resolve" ELSE "count"
  BY DEF SaveLines, RequestVars, IInv, TypeOK
<1>1. ApiLog' = ApiLog /\ Busy /\ ApiLog.id \in settled
  BY <1>0 DEF ApiLog, Busy, IInv, Batched
<1>2. \A r \in Request : InHand(r)' <=> InHand(r)
  BY <1>0, <1>1 DEF InHand
<1>3. Batched'
  BY <1>0, <1>1 DEF IInv, Batched, Busy
<1>4. PICK S \in SUBSET (Line \ NullLines) :
         /\ NullLines = {} => S = Line
         /\ attn' = [attn EXCEPT ![orderOf[ApiLog.id]] =
                        [l \in Line |-> IF l \in S THEN "clear" ELSE @[l]]]
  BY DEF SaveLines
<1>5. ASSUME NEW r \in Request, Alone(r) PROVE Own(r)'
  <2>0. /\ Own(r) /\ ApiLog.id \in Request
        /\ ApiLog.id # r => orderOf[ApiLog.id] # orderOf[r]
    BY <1>1, <1>5, InHandFacts
  <2>1. Fresh(r)' /\ Current(r)'
    BY <1>0, <2>0 DEF Own, Fresh, Current
  <2>2. Counted(r)'
    BY <1>0, <1>2, <2>0, Zenon DEF Own, Counted
  <2>3. ApiLog.id # r => attn'[orderOf[r]] = attn[orderOf[r]]
    BY <1>4, <2>0 DEF IInv, TypeOK
  <2>4. ApiLog.id = r => \A l \in Line : attn'[orderOf[r]][l] = IF l \in S THEN "clear" ELSE attn[orderOf[r]][l]
    BY <1>4 DEF IInv, TypeOK
  <2>5. Shown(r)'
    BY <1>0, <1>1, <2>0, <2>3 DEF Own, Shown
  <2>6. Showing(r)' => Showing(r)
    BY <1>0, <2>3, <2>4 DEF Showing
  <2>7. ApiLog.id = r /\ job'.pc = "resolve" => ~Showing(r)'
    BY <1>0, <1>4, <2>4 DEF Showing
  <2>8. Tracked(r)'
    BY <1>0, <1>1, <2>0, <2>6, <2>7 DEF Own, Tracked
  <2> QED BY <2>1, <2>2, <2>5, <2>8 DEF Own
<1> QED BY <1>3, <1>5

(* The log in hand is saved, and the job goes on to the next.              *)
LEMMA SavedStep ==
    ASSUME IInv, TypeOK', job.pc \in {"resolve", "count"},
           NEW row \in LogRow, SaveRow(ApiLog.id, row), Continue,
           UNCHANGED <<RequestVars, attn, settled, sends, kills>>
    PROVE  /\ Batched'
           /\ \A r \in Request : /\ ~InHand(r)'
                                 /\ Alone(r) /\ ApiLog.id # r => Own(r)'
                                 /\ ApiLog.id = r => log'[r] = row /\ Current(r)'
<1>0. UNCHANGED <<orderOf, called, flagged, pc, found>> /\ Busy /\ TypeOK /\ Batched
  BY DEF RequestVars, Busy, IInv
<1>1. /\ job'.batch = Tail(job.batch) /\ job'.pc \in {"batch", "send"}
      /\ job'.pc = "batch" <=> Len(job.batch) = 1
  BY <1>0, ContinueType
<1>2. /\ job'.batch # <<>> <=> Len(job.batch) # 1
      /\ \A k \in DOMAIN job'.batch : k + 1 \in DOMAIN job.batch /\ job'.batch[k] = job.batch[k + 1]
      /\ \A k \in DOMAIN job'.batch : job'.batch[k].id # ApiLog.id
      /\ \A j, k \in DOMAIN job'.batch : job'.batch[j].id = job'.batch[k].id => j = k
  BY <1>0, <1>1, TailOfBatch
<1>3. Batched'
  BY <1>1, <1>2 DEF Batched, Busy
<1>4. \A r \in Request : ~InHand(r)'
  BY <1>1 DEF InHand
<1>5. ASSUME NEW r \in Request, ApiLog.id = r PROVE log'[r] = row /\ Current(r)'
  BY <1>0, <1>2, <1>5 DEF SaveRow, TypeOK, Current
<1>6. ASSUME NEW r \in Request, Alone(r), ApiLog.id # r PROVE Own(r)'
  <2>0. Own(r) /\ log'[r] = log[r]
    BY <1>0, <1>6 DEF IInv, SaveRow, TypeOK
  <2>1. Fresh(r)' /\ Shown(r)' /\ Tracked(r)'
    BY <1>0, <1>1, <2>0 DEF Own, Fresh, Shown, Tracked, Showing
  <2>2. Current(r)'
    BY <1>2, <2>0 DEF Own, Current
  <2>3. ~InHand(r)
    BY <1>6 DEF InHand
  <2>4. Counted(r)'
    BY <2>0, <2>3, Zenon DEF Own, Counted
  <2> QED BY <2>1, <2>2, <2>4 DEF Own
<1> QED BY <1>3, <1>4, <1>5, <1>6

LEMMA ResolveStep ==
    ASSUME IInv, TypeOK', Resolve
    PROVE  Batched' /\ \A r \in Request : Alone(r) => Own(r)'
<1>0. UNCHANGED <<orderOf, called, flagged, pc, found, attn, settled, sends, kills>> /\ Busy /\ job.pc = "resolve"
  BY DEF Resolve, RequestVars, Busy
<1> DEFINE row == [ApiLog.row EXCEPT !.retry = FALSE]
<1>1. ApiLog.row \in LogRow
  BY <1>0, ApiLogType DEF IInv, Instance
<1>2. row \in LogRow /\ ~row.retry /\ row.count = ApiLog.row.count
  BY <1>1 DEF LogRow
<1>3. /\ Batched'
      /\ \A r \in Request : /\ ~InHand(r)'
                            /\ Alone(r) /\ ApiLog.id # r => Own(r)'
                            /\ ApiLog.id = r => log'[r] = row /\ Current(r)'
  <2> HIDE DEF row
  <2>1. SaveRow(ApiLog.id, row) /\ Continue
    BY DEF Resolve, row
  <2> QED BY <1>0, <1>2, <2>1, SavedStep DEF Resolve
<1> HIDE DEF row
<1>4. ASSUME NEW r \in Request, Alone(r), ApiLog.id = r PROVE Own(r)'
  <2>0. /\ Own(r) /\ pc[r] = "done" /\ log[r].count <= RetryCount /\ ApiLog.row = log[r]
        /\ log'[r] = row /\ Current(r)' /\ log[r].count \in Nat
    BY <1>0, <1>3, <1>4, InBatch, InHandFacts DEF IInv
  <2>1. Fresh(r)' /\ Shown(r)'
    BY <1>0, <2>0 DEF Own, Fresh, Shown
  <2>2. Tracked(r)'
    BY <1>0, <1>4, <2>0 DEF Own, Tracked, Showing
  <2>3. Counted(r)'
    <3>1. log[r].count <= RetryCount + 1
      BY <2>0, SettingsAssumption
    <3>2. sends[r] <= log[r].count + kills + 1
      BY <2>0 DEF Own, Counted
    <3> QED BY <1>0, <1>2, <2>0, <3>1, <3>2, Zenon DEF Counted
  <2> QED BY <2>0, <2>1, <2>2, <2>3 DEF Own
<1> QED BY <1>3, <1>4

LEMMA IncrementStep ==
    ASSUME IInv, TypeOK', Increment
    PROVE  Batched' /\ \A r \in Request : Alone(r) => Own(r)'
<1>0. UNCHANGED <<orderOf, called, flagged, pc, found, attn, settled, sends, kills>> /\ Busy /\ job.pc = "count"
  BY DEF Increment, RequestVars, Busy
<1> DEFINE row == [ApiLog.row EXCEPT !.count = @ + 1]
<1>1. ApiLog.row \in LogRow
  BY <1>0, ApiLogType DEF IInv, Instance
<1>2. row \in LogRow /\ (row.retry <=> ApiLog.row.retry) /\ row.count = ApiLog.row.count + 1
  BY <1>1 DEF LogRow
<1>3. /\ Batched'
      /\ \A r \in Request : /\ ~InHand(r)'
                            /\ Alone(r) /\ ApiLog.id # r => Own(r)'
                            /\ ApiLog.id = r => log'[r] = row /\ Current(r)'
  <2> HIDE DEF row
  <2>1. SaveRow(ApiLog.id, row) /\ Continue
    BY DEF Increment, row
  <2> QED BY <1>0, <1>2, <2>1, SavedStep DEF Increment
<1> HIDE DEF row
<1>4. ASSUME NEW r \in Request, Alone(r), ApiLog.id = r PROVE Own(r)'
  <2>0. /\ Own(r) /\ pc[r] = "done" /\ log[r].count <= RetryCount /\ log[r].retry /\ ApiLog.row = log[r]
        /\ log'[r] = row /\ Current(r)'
        /\ log[r].count \in Nat /\ sends[r] \in Nat /\ kills \in Nat
    BY <1>0, <1>3, <1>4, InBatch, InHandFacts DEF IInv
  <2>1. row.retry /\ row.count = log[r].count + 1
    BY <1>2, <2>0
  <2>2. Fresh(r)' /\ Shown(r)'
    BY <1>0, <2>0 DEF Own, Fresh, Shown
  <2>3. Tracked(r)'
    <3>1. job'.pc # "resolve"
      BY <1>0, ContinueType DEF Increment, IInv
    <3> QED BY <1>0, <2>0, <2>1, <3>1 DEF Own, Tracked, Showing
  <2>4. Counted(r)'
    <3>1. sends[r] <= log[r].count + kills + 1
      BY <2>0 DEF Own, Counted
    <3>2. /\ sends[r] <= row.count + kills + 1 /\ sends[r] <= row.count + kills
          /\ row.count <= RetryCount + 1
      <4>1. \A x, y, z \in Nat : z <= x + y + 1 /\ x <= RetryCount =>
               z <= x + 1 + y + 1 /\ z <= x + 1 + y /\ x + 1 <= RetryCount + 1
        BY SettingsAssumption
      <4> QED BY <2>0, <2>1, <3>1, <4>1
    <3> QED BY <1>0, <2>0, <2>1, <3>2, Zenon DEF Counted
  <2> QED BY <2>0, <2>2, <2>3, <2>4 DEF Own
<1> QED BY <1>3, <1>4
----------------------------------------------------------------------------
(* The invariant holds in every behaviour.                                 *)
LEMMA Initially == Init => IInv
<1> SUFFICES ASSUME Init PROVE IInv
  OBVIOUS
<1>1. TypeOK
  <2>1. job \in Jobs
    BY IdleType DEF Init
  <2>2. 0 \in 0..MaxKill
    BY SettingsAssumption
  <2>3. NewLog \in LogRow
    BY DEF NewLog, LogRow
  <2> QED BY <2>1, <2>2, <2>3 DEF Init, TypeOK, Lines, Attention, Instance, Jobs, JobPc
<1>2. Batched /\ Marking
  BY DEF Init, Idle, Batched, Busy, Marking
<1>3. ASSUME NEW r \in Request PROVE Own(r)
  <2>1. Fresh(r) /\ Current(r) /\ Shown(r) /\ Tracked(r)
    BY DEF Init, Idle, Fresh, Current, Shown, Tracked, Showing
  <2>2. 0 <= 0 + 0 + 1 /\ 0 <= RetryCount + 1 /\ 0 <= RetryCount
    BY SettingsAssumption
  <2>3. log[r].count = 0 /\ ~log[r].retry /\ sends[r] = 0 /\ kills = 0
    BY DEF Init, NewLog
  <2>4. Counted(r)
    BY <2>2, <2>3, Zenon DEF Counted
  <2> QED BY <2>1, <2>4 DEF Own
<1> QED BY <1>1, <1>2, <1>3 DEF IInv

LEMMA Invariance == IInv /\ [Next]_vars => IInv'
<1> SUFFICES ASSUME IInv, [Next]_vars PROVE IInv'
  OBVIOUS
<1>1. TypeOK'
  BY TypeStep DEF IInv
<1>2. CASE UNCHANGED vars
  BY <1>1, <1>2 DEF vars, IInv, Batched, Busy, Marking, Alone, Own, Fresh, Current, Counted,
     InHand, ApiLog, Shown, Tracked, Showing
<1>3. ASSUME NEW q \in Request, Call(q) \/ RequestStep(q) \/ KillRequest(q) PROVE IInv'
  BY <1>1, <1>3, RequestsStep DEF IInv
<1>4. CASE JobStep \/ KillJob
  <2>1. UNCHANGED <<orderOf, pc, found>>
    BY <1>4 DEF JobStep, Count, Batch, Fetch, Send, ReadLines, SaveLines, Resolve, Increment,
       KillJob, RequestVars
  <2>2. Marking' /\ \A r \in Request : Alone(r)' <=> Alone(r)
    BY <2>1 DEF IInv, Marking, Alone
  <2>3. Batched' /\ \A r \in Request : Alone(r) => Own(r)'
    BY <1>1, <1>4, CountStep, BatchStep, SendStep, ReadLinesStep, SaveLinesStep, ResolveStep,
       IncrementStep, KillJobStep DEF JobStep
  <2> QED BY <1>1, <2>2, <2>3 DEF IInv
<1> QED BY <1>2, <1>3, <1>4 DEF Next

(* Requests, logs, the flags and the job keep their types.                 *)
THEOREM TypeCorrect == Spec => []TypeOK
<1>1. IInv => TypeOK
  BY DEF IInv
<1> QED BY <1>1, Initially, Invariance, PTL DEF Spec

(* The lines a request has flagged show R5 until its call is carried out,  *)
(* whatever the job reads, saves and repeats meanwhile, and whoever is     *)
(* killed (update_attention_type_r5, cancel_retry_and_reset_...).          *)
THEOREM FlagLasts == Spec => []FlaggedUntilSettled
<1>1. IInv => FlaggedUntilSettled
  BY DEF IInv, Own, Shown, FlaggedUntilSettled, FlagsShown
<1> QED BY <1>1, Initially, Invariance, PTL DEF Spec

(* A line that shows R5 has a log the job will find                        *)
(* (save_mulesoft_api_log_entry).                                          *)
THEOREM FlagHasLog == Spec => []FlagIsTracked
<1>1. IInv => FlagIsTracked
  BY DEF IInv, Own, Tracked, Showing, FlagIsTracked
<1> QED BY <1>1, Initially, Invariance, PTL DEF Spec

(* No call is repeated more than RETRY_COUNT + 1 times, but for the times  *)
(* the worker was killed (increment_retry_count).                          *)
THEOREM RetriesBounded == Spec => []AttemptsBounded
<1>1. ASSUME IInv, NEW r \in Request, Alone(r) PROVE sends[r] <= RetryCount + 1 + kills
  <2>1. /\ sends[r] \in Nat /\ log[r].count \in Nat /\ kills \in Nat /\ Own(r)
    BY <1>1 DEF IInv, TypeOK, LogRow
  <2>2. CASE InHand(r)
    <3>1. log[r].count <= RetryCount
      BY <1>1, <2>2, InBatch DEF InHand, Busy
    <3>2. sends[r] <= log[r].count + kills + 1
      BY <2>1 DEF Own, Counted
    <3> QED BY <2>1, <3>1, <3>2, SettingsAssumption
  <2>3. CASE ~InHand(r) /\ log[r].retry
    <3>1. sends[r] <= log[r].count + kills /\ log[r].count <= RetryCount + 1
      BY <2>1, <2>3 DEF Own, Counted
    <3> QED BY <2>1, <3>1, SettingsAssumption
  <2>4. CASE ~log[r].retry
    <3>1. sends[r] <= log[r].count + kills + 1 /\ log[r].count <= RetryCount
      BY <2>1, <2>4 DEF Own, Counted
    <3> QED BY <2>1, <3>1, SettingsAssumption
  <2> QED BY <2>2, <2>3, <2>4
<1>2. IInv => AttemptsBounded
  BY <1>1 DEF AttemptsBounded
<1> QED BY <1>2, Initially, Invariance, PTL DEF Spec
=============================================================================
