------------------------------ MODULE JobLock ------------------------------
(***************************************************************************)
(* The database lock of the scheduled r5_retry job (common/job/job.py,     *)
(* common/job/jobfactory.py).  A worker is a celery process: the           *)
(* threading.Lock of job.py orders threads of one process only, so the     *)
(* steps below, one per database statement, interleave freely between      *)
(* workers.  The table JobInformation is modelled by the set of row ids of *)
(* the job type and the subset of them that has is_locked = True.          *)
(***************************************************************************)
EXTENDS Integers

CONSTANTS Worker,     \* the celery worker processes
          MaxRow,     \* bound: ids of rows referenced at the same time
          MaxCrash    \* bound: workers killed in the middle of a task

ASSUME BoundAssumption == MaxRow \in Nat /\ MaxCrash \in Nat

NoRow == 0            \* self.job_information is None
Row   == 1..MaxRow

VARIABLES rows,       \* ids of the rows in the table
          locked,     \* ids of the rows with is_locked = True
          pc,         \* where each worker is in execute_job
          info,       \* self.job_information of each worker
          success,    \* the local of that name in execute_job
          crashes

vars == <<rows, locked, pc, info, success, crashes>>

TypeOK == /\ rows \subseteq Row
          /\ locked \subseteq rows
          /\ pc \in [Worker -> {"idle", "get", "create", "run", "find", "write"}]
          /\ info \in [Worker -> Row \cup {NoRow}]
          /\ success \in [Worker -> BOOLEAN]
          /\ crashes \in 0..MaxCrash

Init == /\ rows = {}
        /\ locked = {}
        /\ pc = [w \in Worker |-> "idle"]
        /\ info = [w \in Worker |-> NoRow]
        /\ success = [w \in Worker |-> FALSE]
        /\ crashes = 0

Goto(w, l)    == pc' = [pc EXCEPT ![w] = l]
SetInfo(w, r) == info' = [info EXCEPT ![w] = r]

(* The task is over; the next one starts from a new Job instance.          *)
End(w) == /\ Goto(w, "idle")
          /\ SetInfo(w, NoRow)
          /\ success' = [success EXCEPT ![w] = FALSE]

(* initiate, first query: the first locked row of the job type refuses the *)
(* worker, which keeps that row in self.job_information and goes to the    *)
(* finally of execute_job with success = False.                            *)
FirstLocked(r) == r \in locked /\ \A q \in locked : r <= q

Filter(w) ==
    /\ pc[w] = "idle"
    /\ \/ locked = {} /\ Goto(w, "get") /\ UNCHANGED info
       \/ \E r \in locked : FirstLocked(r) /\ SetInfo(w, r) /\ Goto(w, "find")
    /\ UNCHANGED <<rows, locked, success, crashes>>

(* initiate, the get of get_or_create: one row is taken as it is, locked   *)
(* or not.  Several rows raise MultipleObjectsReturned; the except clause  *)
(* and the finally of execute_job then raise in their turn (there is no    *)
(* job.task_logger and job_information is None), and the task just ends.   *)
GetRow(w) ==
    /\ pc[w] = "get"
    /\ \/ rows = {} /\ Goto(w, "create") /\ UNCHANGED <<info, success>>
       \/ \E r \in rows : /\ rows = {r}
                          /\ SetInfo(w, r)
                          /\ Goto(w, "run")
                          /\ UNCHANGED success
       \/ (\E q, r \in rows : q # r) /\ End(w)
    /\ UNCHANGED <<rows, locked, crashes>>

(* unique_id is an AutoField: an inserted row comes after every row there  *)
(* is.  An id nobody refers to any more is reused, which nobody can see.   *)
Referenced == rows \cup {info[w] : w \in Worker}
NewId(r) == r - 1 \in Referenced \cup {0} /\ \A q \in Referenced : q < r

(* initiate, the create of get_or_create.  No constraint of the database   *)
(* keeps two workers from inserting a row each.                            *)
CreateRow(w) ==
    /\ pc[w] = "create"
    /\ \E r \in Row : /\ NewId(r)
                      /\ rows' = rows \cup {r}
                      /\ locked' = locked \cup {r}
                      /\ SetInfo(w, r)
    /\ Goto(w, "run")
    /\ UNCHANGED <<success, crashes>>

(* run: RetryRequiredAttentionItems.run returns True, the resolver it      *)
(* calls swallows every exception.                                         *)
Run(w) ==
    /\ pc[w] = "run"
    /\ success' = [success EXCEPT ![w] = TRUE]
    /\ Goto(w, "find")
    /\ UNCHANGED <<rows, locked, info, crashes>>

(* complete, the get: DoesNotExist ends the task when the row is gone.     *)
FindRow(w) ==
    /\ pc[w] = "find"
    /\ \/ info[w] \in rows /\ Goto(w, "write") /\ UNCHANGED <<info, success>>
       \/ info[w] \notin rows /\ End(w)
    /\ UNCHANGED <<rows, locked, crashes>>

(* complete, the write: delete() on success; otherwise save() of the       *)
(* instance read before, an UPDATE that falls back to INSERT when the row  *)
(* was deleted in between.                                                 *)
(* Faulty variants: is_locked is not reset before save(); delete() leaves  *)
(* the lock set.                                                           *)
WriteRowStillLocked(w) ==
    /\ pc[w] = "write"
    /\ rows' = IF success[w] THEN rows \ {info[w]} ELSE rows \cup {info[w]}
    /\ locked' = IF success[w] THEN locked \ {info[w]} ELSE locked \cup {info[w]}
    /\ End(w)
    /\ UNCHANGED crashes

WriteRowKeepingLock(w) ==
    /\ pc[w] = "write"
    /\ rows' = IF success[w] THEN rows \ {info[w]} ELSE rows \cup {info[w]}
    /\ locked' = IF success[w] THEN locked ELSE locked \ {info[w]}
    /\ End(w)
    /\ UNCHANGED crashes

WriteRow(w) ==
    /\ pc[w] = "write"
    /\ rows' = IF success[w] THEN rows \ {info[w]} ELSE rows \cup {info[w]}
    /\ locked' = locked \ {info[w]}
    /\ End(w)
    /\ UNCHANGED crashes

(* The worker process is killed in the middle of the task.                 *)
Crash(w) ==
    /\ pc[w] # "idle"
    /\ crashes < MaxCrash
    /\ crashes' = crashes + 1
    /\ End(w)
    /\ UNCHANGED <<rows, locked>>

Step(w) == GetRow(w) \/ CreateRow(w) \/ Run(w) \/ FindRow(w) \/ WriteRow(w)

Next == \E w \in Worker : Filter(w) \/ Step(w) \/ Crash(w)

Spec == Init /\ [][Next]_vars

----------------------------------------------------------------------------
(* A worker that may hold the lock: between initiate and complete, and not *)
(* there because it was refused.                                           *)
Holder(w) == pc[w] = "run" \/ (pc[w] \in {"find", "write"} /\ success[w])

(* While no worker was killed, every locked row belongs to a worker that   *)
(* is still between initiate and complete: neither a refused worker nor a  *)
(* late save of complete can leave the job locked with nobody to unlock it.*)
NoOrphanLock == crashes = 0 =>
                  \A r \in locked : \E w \in Worker : Holder(w) /\ info[w] = r

(* The comment of tasks.r5_retry, "prevent duplicate task from scheduler": *)
(* two workers never execute the body of the job at the same time.         *)
NoDuplicateRun == \A v, w \in Worker : pc[v] = "run" /\ pc[w] = "run" => v = w

============================================================================
