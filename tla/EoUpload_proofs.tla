-------------------------- MODULE EoUpload_proofs --------------------------
(* Proofs about EoUpload, for any number of uploads, tasks and faults: the *)
(* log of an upload tells the truth, an upload becomes one order, and no   *)
(* order of SAP is without its rows, with the exceptions the properties    *)
(* name.                                                                   *)
EXTENDS EoUpload, FiniteSetTheorems, WellFoundedInduction, TLAPS

----------------------------------------------------------------------------
(* The inductive invariant.                                                *)

(* A log is there once its upload came, and nothing is known of it before; *)
(* a row a task has written, or is about to write, is that of such a log.  *)
Known ==
    /\ \A u \in Upload : view[u] = "none" <=> log[u].state = "absent"
    /\ \A u \in Upload : message[u] # "none" => view[u] = "done"
    /\ \A w \in Worker : pc[w] # "idle" => message[cur[w]] # "none"
    /\ \A w \in Worker, u \in Upload : mine[w][u] # NoLog => log[u].state # "absent" /\ mine[w][u].state # "absent"
    /\ \A w \in Worker : pc[w] \in {"saveNumber", "saveState"} =>
          log[copy[w].of].state # "absent" /\ copy[w].was.state # "absent"

(* A task that has not asked SAP holds no rows of an order, and one that   *)
(* is idle has written nothing.                                            *)
Fresh ==
    \A w \in Worker : /\ pc[w] \in {"idle", "write", "change", "create"} => ~made[w]
                      /\ pc[w] \in {"idle", "write", "change", "create"} => mine[w] = NoLogs
                      /\ pc[w] = "idle" => ~wrote[w] /\ result[w] = "error"

(* What SAP has of an upload is in the database or in a transaction.       *)
Holding(u) == {w \in Worker : pc[w] # "idle" /\ cur[w] = u /\ made[w]}
Booked == \A u \in Upload \ torn : sap[u] = kept[u] + Cardinality(Holding(u))

(* Whoever writes another log, and whoever is not alone, is excepted.      *)
OwnLog == \A w \in Worker : \A u \in Upload \ misled :
              pc[w] # "idle" /\ mine[w][u] # NoLog => u = cur[w]
Alone  == \A u \in Upload \ doubled : \A w, x \in Running(u) : w = x

(* Which steps the kinds of upload take.                                   *)
Path ==
    \A w \in Worker : LET u == cur[w] IN
       /\ pc[w] = "write"  => kind[u] \notin {"new", "carve"} /\ result[w] = "error"
       /\ pc[w] = "change" => kind[u] = "carve" \/ (kind[u] = "header" /\ wrote[w] /\ result[w] = "error")
       /\ pc[w] = "create" => kind[u] = "carve" \/ (kind[u] = "new" /\ result[w] = "error")
       /\ pc[w] \in {"number", "saveNumber"} => kind[u] = "new" /\ made[w] /\ result[w] = "received"

(* The committed log is true,                                              *)
Truth(u) ==
    /\ log[u].state = "received" => /\ view[u] = "done"
                                    /\ sap[u] > 0 /\ kept[u] > 0
                                    /\ kind[u] = "header" => u \in altered
                                    /\ kind[u] = "new" => log[u].number = u
    /\ log[u].state # "received" /\ kind[u] # "carve" => sap[u] = 0

(* and what a task knows of it after it asked SAP, and after it wrote the  *)
(* log, makes it true.                                                     *)
Outcome(w, u) ==
    /\ log[u].state # "received"
    /\ result[w] = "received" => /\ sap[u] > 0 /\ made[w]
                                 /\ kind[u] = "header" => wrote[w]
    /\ result[w] = "error" /\ kind[u] # "carve" => sap[u] = 0

Numbered(w, u) == kind[u] = "new" /\ result[w] = "received" => mine[w][u].number = u

Idle(w, u) == Truth(u) /\ mine[w][u] = NoLog /\ ~made[w]

Stage(w, u) ==
    /\ pc[w] \in {"write", "change", "create"} => Truth(u) /\ log[u].state # "received"
    /\ pc[w] \in {"number", "saveNumber", "state", "saveState"} => Outcome(w, u)
    /\ pc[w] \in {"state", "saveState"} => Numbered(w, u)
    /\ pc[w] = "saveState" /\ copy[w].of = u /\ kind[u] = "new" /\ result[w] = "received"
          => copy[w].was.number = u
    /\ pc[w] \in {"finish", "delete", "commit"} =>
          \/ Idle(w, u)
          \/ (Outcome(w, u) /\ Numbered(w, u) /\ mine[w][u].state = result[w])

Staged == \A u \in Upload \ Excepted :
             /\ Running(u) = {} => Truth(u)
             /\ \A w \in Running(u) : Stage(w, u)
             /\ kind[u] = "new" => sap[u] <= 1

IInv == TypeOK /\ Known /\ Fresh /\ Booked /\ OwnLog /\ Alone /\ Path /\ Staged
----------------------------------------------------------------------------
LEMMA LastExists ==
    ASSUME TypeOK, NEW k \in Key, NEW u \in Upload, key[u] = k, log[u].state # "absent"
    PROVE  LastLog(k) \in Upload /\ key[LastLog(k)] = k /\ Last(LastLog(k))
<1> DEFINE P == {v \in Upload : key[v] = k /\ log[v].state # "absent"}
<1> DEFINE T == {MaxUpload - v : v \in P}
<1>1. T \subseteq Nat /\ T # {}
  BY BoundAssumption DEF Upload
<1>2. PICK t \in T : \A s \in T : t <= s
  <2> HIDE DEF T
  <2>1. PICK t \in T : \A s \in T : ~(<<s, t>> \in OpToRel(<, Nat))
    BY <1>1, NatLessThanWellFounded, WFMin
  <2>2. \A s \in T : ~(s < t)
    BY <1>1, <2>1, Zenon DEF OpToRel
  <2>3. \A s \in T : t <= s
    BY <1>1, <2>2
  <2> QED BY <2>1, <2>3
<1>3. PICK v \in P : t = MaxUpload - v
  BY <1>2
<1>4. ASSUME NEW x \in P PROVE x <= v
  <2>1. MaxUpload - x \in T
    OBVIOUS
  <2>2. MaxUpload - v <= MaxUpload - x
    BY <1>2, <1>3, <2>1
  <2> QED BY <2>2, BoundAssumption DEF Upload
<1>5. key[v] = k /\ Last(v)
  BY <1>3, <1>4 DEF Last, Upload
<1> QED BY <1>3, <1>5 DEF LastLog

(* The log a result is written to.                                         *)
LEMMA LastOf ==
    ASSUME TypeOK, NEW u \in Upload, log[u].state # "absent"
    PROVE  LastLog(key[u]) \in Upload /\ log[LastLog(key[u])].state # "absent"
<1>1. key[u] \in Key
  BY DEF TypeOK
<1> QED BY <1>1, LastExists DEF Last

LEMMA SeenType ==
    ASSUME TypeOK, NEW w \in Worker
    PROVE  /\ Seen(w) \in [Upload -> Log]
           /\ \A u \in Upload : Seen(w)[u] = IF mine[w][u] = NoLog THEN log[u] ELSE mine[w][u]
BY DEF TypeOK, Seen

(* A step of a task.                                                       *)
TaskStep(w) == Work(w) \/ Raise(w) \/ SaveFails(w) \/ Die(w)

----------------------------------------------------------------------------
(* Types.                                                                  *)
LEMMA InitType == Init => TypeOK
<1> SUFFICES ASSUME Init PROVE TypeOK
  OBVIOUS
<1>1. 1 \in Upload /\ 0 \in 0..MaxFault /\ 0 \in Nat
  BY BoundAssumption DEF Upload
<1>2. NoLog \in Log
  BY BoundAssumption DEF NoLog, Log, LogState
<1> QED BY <1>1, <1>2 DEF Init, TypeOK, NoLogs, Unread

(* A log with another state.                                               *)
LEMMA WithState ==
    ASSUME NEW l \in Log, NEW s \in LogState
    PROVE  [l EXCEPT !.state = s] \in Log
BY DEF Log

LEMMA ConstType == 1 \in Upload /\ NoLog \in Log /\ Upload \subseteq Nat /\ Upload \subseteq 0..MaxUpload
BY BoundAssumption DEF Upload, NoLog, Log, LogState

LEMMA FaultType == ASSUME TypeOK, Fault PROVE faults' \in 0..MaxFault
BY BoundAssumption DEF TypeOK, Fault

(* After a commit or a death.                                              *)
LEMMA DropType ==
    ASSUME TypeOK, NEW w \in Worker, Drop(w)
    PROVE  /\ pc' = [pc EXCEPT ![w] = "idle"]
           /\ mine' \in [Worker -> [Upload -> Log]] /\ mine' = [mine EXCEPT ![w] = NoLogs]
           /\ cur' \in [Worker -> Upload] /\ copy' \in [Worker -> [of : Upload, was : Log]]
           /\ made' \in [Worker -> BOOLEAN] /\ wrote' \in [Worker -> BOOLEAN]
           /\ result' \in [Worker -> {"received", "error"}]
           /\ \A x \in Worker : wrote'[x] => wrote[x]
           /\ \A x \in Worker, u \in Upload : mine'[x][u] = mine[x][u] \/ mine'[x][u] = NoLog
<1>1. NoLogs \in [Upload -> Log] /\ Unread \in [of : Upload, was : Log]
  BY ConstType DEF NoLogs, Unread
<1>2. mine' = [mine EXCEPT ![w] = NoLogs] /\ wrote' = [wrote EXCEPT ![w] = FALSE]
  BY DEF Drop
<1>3. \A x \in Worker, u \in Upload : mine'[x][u] = mine[x][u] \/ mine'[x][u] = NoLog
  BY <1>2 DEF TypeOK, NoLogs
<1>4. \A x \in Worker : wrote'[x] => wrote[x]
  BY <1>2 DEF TypeOK
<1> QED BY <1>1, <1>2, <1>3, <1>4, ConstType DEF TypeOK, Drop, Goto

LEMMA DropKeepsType ==
    ASSUME TypeOK, NEW w \in Worker, Drop(w), UNCHANGED <<kind, key, view, message, sap>>,
           log' \in [Upload -> Log], kept' \in [Upload -> Nat], altered' \subseteq Upload,
           misled' = misled, doubled' = doubled, torn' \subseteq Upload, faults' \in 0..MaxFault
    PROVE  TypeOK'
<1>1. \A x, y \in Worker : x # y =>
        /\ \A u \in Upload : mine'[x][u] = NoLog \/ mine'[y][u] = NoLog
        /\ ~(wrote'[x] /\ wrote'[y])
  BY DropType DEF TypeOK
<1>2. pc' \in [Worker -> {"idle", "write", "change", "create", "number", "saveNumber",
                         "state", "saveState", "finish", "delete", "commit"}]
  BY DropType DEF TypeOK
<1> QED BY <1>1, <1>2, DropType DEF TypeOK

LEMMA ViewType ==
    ASSUME TypeOK, Known, NEW u \in Upload, Receive(u) \/ Refuse(u) \/ Publish(u) \/ Reappear(u) \/ Expire(u)
    PROVE  TypeOK'
<1>1. CASE Receive(u)
  <2>1. [log[u] EXCEPT !.state = "progress"] \in Log
    BY WithState DEF TypeOK, LogState
  <2>2. log' \in [Upload -> Log]
    BY <1>1, <2>1 DEF Receive, TypeOK
  <2> QED BY <1>1, <2>2 DEF TypeOK, Receive, Uploads, Buffer, Registers
<1>2. CASE Refuse(u)
  <2>1. LastLog(key[u]) \in Upload
    BY <1>2, LastOf DEF Refuse, Known
  <2>2. [log[LastLog(key[u])] EXCEPT !.state = "error"] \in Log
    BY <2>1, WithState DEF TypeOK, LogState
  <2>3. log' \in [Upload -> Log]
    BY <1>2, <2>1, <2>2 DEF Refuse, TypeOK
  <2> QED BY <1>2, <2>1, <2>3 DEF TypeOK, Refuse, Mislead, Uploads, Buffer, Registers
<1>3. CASE Publish(u)
  BY <1>3 DEF TypeOK, Publish, Uploads, Database, Buffer, Registers
<1>4. CASE Reappear(u)
  BY <1>4 DEF TypeOK, Reappear, Uploads, Database, Buffer, Registers
<1>5. CASE Expire(u)
  BY <1>5, FaultType DEF TypeOK, Expire, Uploads, Database, Buffer, Registers
<1> QED BY <1>1, <1>2, <1>3, <1>4, <1>5

LEMMA TakeType ==
    ASSUME TypeOK, NEW w \in Worker, NEW u \in Upload, Take(w, u)
    PROVE  TypeOK'
<1>1. First(u) \in {"delete", "create", "change", "write"}
  BY DEF First
<1> QED BY <1>1 DEF TypeOK, Take, Goto, Uploads, Database, Buffer, Registers

LEMMA CommitType ==
    ASSUME TypeOK, NEW w \in Worker, Commit(w)
    PROVE  TypeOK'
<1>1. log' \in [Upload -> Log]
  BY SeenType DEF Commit
<1>2. kept' \in [Upload -> Nat]
  BY DEF Commit, TypeOK
<1>3. altered' \subseteq Upload
  BY DEF Commit, TypeOK
<1>4. /\ UNCHANGED <<kind, key, view, message, sap, misled, doubled, torn, faults>>
      /\ Drop(w)
  BY DEF Commit, Uploads
<1>5. torn \subseteq Upload /\ faults \in 0..MaxFault
  BY DEF TypeOK
<1> QED BY <1>1, <1>2, <1>3, <1>4, <1>5, DropKeepsType

LEMMA DieType ==
    ASSUME TypeOK, NEW w \in Worker, Die(w)
    PROVE  TypeOK'
<1>1. torn' \subseteq Upload
  BY DEF Die, TypeOK
<1>2. log' \in [Upload -> Log] /\ kept' \in [Upload -> Nat] /\ altered' \subseteq Upload
  BY DEF Die, Database, TypeOK
<1> QED BY <1>1, <1>2, FaultType, DropKeepsType DEF Die, Database, Uploads

LEMMA SaveType ==
    ASSUME TypeOK, NEW w \in Worker, SaveLog(w)
    PROVE  TypeOK'
<1> DEFINE v == copy[w].of
<1> DEFINE row == IF pc[w] = "saveNumber" THEN [copy[w].was EXCEPT !.number = cur[w]]
                                          ELSE [copy[w].was EXCEPT !.state = result[w]]
<1>1. v \in Upload /\ copy[w].was \in Log
  BY DEF TypeOK
<1>2. cur[w] \in 0..MaxUpload /\ result[w] \in LogState
  BY ConstType DEF TypeOK, LogState
<1>3. row \in Log
  BY <1>1, <1>2 DEF Log
<1>4. mine' = [mine EXCEPT ![w][v] = row]
  BY DEF SaveLog
<1> HIDE DEF row
<1>5. mine' \in [Worker -> [Upload -> Log]]
  BY <1>1, <1>3, <1>4 DEF TypeOK
<1>6. \A x \in Worker \ {w} : mine[x][v] = NoLog
  BY DEF SaveLog, Locked
<1>7. \A x, y \in Worker : x # y => \A u \in Upload : mine'[x][u] = NoLog \/ mine'[y][u] = NoLog
  BY <1>1, <1>4, <1>6 DEF TypeOK
<1>8. copy' \in [Worker -> [of : Upload, was : Log]]
  <2>1. Unread \in [of : Upload, was : Log]
    BY ConstType DEF Unread
  <2> QED BY <2>1 DEF SaveLog, TypeOK
<1>9. misled' \subseteq Upload
  BY <1>1 DEF SaveLog, Mislead, TypeOK
<1>10. AfterSave(w) \in {"state", "finish", "delete"}
  BY DEF AfterSave
<1>11. pc' \in [Worker -> {"idle", "write", "change", "create", "number", "saveNumber",
                          "state", "saveState", "finish", "delete", "commit"}]
  BY <1>10 DEF SaveLog, Goto, TypeOK
<1> HIDE DEF v
<1> QED BY <1>5, <1>7, <1>8, <1>9, <1>11 DEF SaveLog, TypeOK, Uploads, Database

LEMMA ReadType ==
    ASSUME TypeOK, Known, NEW w \in Worker, ReadLog(w)
    PROVE  TypeOK'
<1> DEFINE v == LastLog(key[cur[w]])
<1>1. v \in Upload
  BY LastOf DEF ReadLog, Known, TypeOK
<1>2. [of |-> v, was |-> Seen(w)[v]] \in [of : Upload, was : Log]
  BY <1>1, SeenType
<1>3. copy' \in [Worker -> [of : Upload, was : Log]]
  BY <1>2 DEF ReadLog, TypeOK
<1> QED BY <1>3 DEF ReadLog, Goto, TypeOK, Uploads, Database, Buffer

LEMMA TaskType ==
    ASSUME TypeOK, Known, NEW w \in Worker, TaskStep(w)
    PROVE  TypeOK'
<1> USE DEF Goto, Uploads, Database, Buffer, Registers
<1>1. CASE WriteOrder(w)
  <2>1. AfterWrite(cur[w]) \in {"change", "state"}
    BY DEF AfterWrite
  <2>2. \A x, y \in Worker : x # y => ~(wrote'[x] /\ wrote'[y])
    <3>1. CASE wrote' = wrote
      BY <3>1 DEF TypeOK
    <3>2. CASE wrote' = [wrote EXCEPT ![w] = TRUE] /\ \A x \in Worker \ {w} : ~wrote[x]
      BY <3>2 DEF TypeOK
    <3> QED BY <1>1, <3>1, <3>2 DEF WriteOrder
  <2>3. pc' \in [Worker -> {"idle", "write", "change", "create", "number", "saveNumber",
                           "state", "saveState", "finish", "delete", "commit"}]
    <3>1. pc' = [pc EXCEPT ![w] = AfterWrite(cur[w])] \/ pc' = [pc EXCEPT ![w] = "state"]
      BY <1>1 DEF WriteOrder
    <3> QED BY <2>1, <3>1 DEF TypeOK
  <2>4. wrote' \in [Worker -> BOOLEAN]
    BY <1>1 DEF WriteOrder, TypeOK
  <2> QED BY <1>1, <2>2, <2>3, <2>4 DEF WriteOrder, TypeOK
<1>2. CASE AskChange(w)
  <2>1. \A yes \in BOOLEAN : Verdict(yes) \in {"received", "error"}
    BY DEF Verdict
  <2>2. result' \in [Worker -> {"received", "error"}]
    BY <1>2, <2>1 DEF AskChange, TypeOK
  <2>3. sap' \in [Upload -> Nat]
    BY <1>2 DEF AskChange, TypeOK
  <2>4. made' \in [Worker -> BOOLEAN]
    <3>1. made' = made \/ \E yes \in BOOLEAN : made' = [made EXCEPT ![w] = yes]
      BY <1>2 DEF AskChange
    <3> QED BY <3>1 DEF TypeOK
  <2>5. pc' \in [Worker -> {"idle", "write", "change", "create", "number", "saveNumber",
                           "state", "saveState", "finish", "delete", "commit"}]
    <3>1. pc' = [pc EXCEPT ![w] = "state"] \/ pc' = [pc EXCEPT ![w] = "create"]
      BY <1>2 DEF AskChange
    <3> QED BY <3>1 DEF TypeOK
  <2>6. UNCHANGED <<kind, key, view, log, kept, altered, message, cur, mine, wrote, copy,
                    misled, doubled, torn, faults>>
    BY <1>2 DEF AskChange
  <2> QED BY <2>2, <2>3, <2>4, <2>5, <2>6 DEF TypeOK
<1>3. CASE AskCreate(w)
  <2>1. \A yes \in BOOLEAN : Verdict(yes) \in {"received", "error"}
    BY DEF Verdict
  <2>2. result' \in [Worker -> {"received", "error"}]
    BY <1>3, <2>1 DEF AskCreate, TypeOK
  <2>3. sap' \in [Upload -> Nat]
    BY <1>3 DEF AskCreate, TypeOK
  <2> QED BY <1>3, <2>2, <2>3 DEF AskCreate, TypeOK
<1>4. CASE Raise(w)
  <2>1. NoLogs \in [Upload -> Log]
    BY ConstType DEF NoLogs
  <2>2. /\ mine' \in [Worker -> [Upload -> Log]]
        /\ \A x, y \in Worker : x # y => \A u \in Upload : mine'[x][u] = NoLog \/ mine'[y][u] = NoLog
    <3>1. CASE mine' = mine
      BY <3>1 DEF TypeOK
    <3>2. CASE mine' = [mine EXCEPT ![w] = NoLogs]
      BY <2>1, <3>2 DEF TypeOK, NoLogs
    <3> QED BY <1>4, <3>1, <3>2 DEF Raise
  <2>3. sap' \in [Upload -> Nat] /\ torn' \subseteq Upload /\ made' \in [Worker -> BOOLEAN]
    <3>1. sap' \in [Upload -> Nat]
      BY <1>4 DEF Raise, TypeOK
    <3>2. torn' \subseteq Upload
      BY <1>4 DEF Raise, TypeOK
    <3>3. made' = made \/ made' = [made EXCEPT ![w] = FALSE]
      BY <1>4 DEF Raise
    <3> QED BY <3>1, <3>2, <3>3 DEF TypeOK
  <2>4. faults' \in 0..MaxFault
    BY <1>4, FaultType DEF Raise
  <2>5. pc' \in [Worker -> {"idle", "write", "change", "create", "number", "saveNumber",
                           "state", "saveState", "finish", "delete", "commit"}]
        /\ result' \in [Worker -> {"received", "error"}]
    BY <1>4 DEF Raise, TypeOK
  <2> QED BY <1>4, <2>2, <2>3, <2>4, <2>5 DEF Raise, TypeOK
<1>5. CASE SaveFails(w)
  <2>1. AfterSave(w) \in {"state", "finish", "delete"}
    BY DEF AfterSave
  <2> QED BY <1>5, <2>1, FaultType DEF SaveFails, TypeOK
<1>6. CASE Finish(w)
  BY <1>6 DEF Finish, TypeOK
<1>7. CASE Delete(w)
  <2>1. faults' \in 0..MaxFault
    BY <1>7, FaultType DEF Delete, TypeOK
  <2>2. message' \in [Upload -> {"none", "visible", "hidden", "gone"}]
    BY <1>7 DEF Delete, TypeOK
  <2> QED BY <1>7, <2>1, <2>2 DEF Delete, TypeOK
<1> QED BY <1>1, <1>2, <1>3, <1>4, <1>5, <1>6, <1>7, CommitType, DieType, SaveType, ReadType
        DEF TaskStep, Work

----------------------------------------------------------------------------
(* What a step of a task leaves alone.                                     *)
Framed(w) ==
    /\ pc[w] # "idle"
    /\ UNCHANGED <<kind, key, view, doubled>>
    /\ \A x \in Worker \ {w} : /\ pc'[x] = pc[x] /\ cur'[x] = cur[x] /\ mine'[x] = mine[x]
                               /\ made'[x] = made[x] /\ wrote'[x] = wrote[x]
                               /\ result'[x] = result[x] /\ copy'[x] = copy[x]
    /\ \A v \in Upload \ {cur[w]} : /\ sap'[v] = sap[v] /\ kept'[v] = kept[v]
                                    /\ message'[v] = message[v]
                                    /\ v \in altered <=> v \in altered'
    /\ misled \subseteq misled' /\ torn \subseteq torn'
    /\ log' = log \/ log' = Seen(w)
    /\ pc'[w] = "idle" \/ cur'[w] = cur[w]
    /\ message'[cur[w]] \in {message[cur[w]], "gone"}

LEMMA DropIsFramed ==
    ASSUME TypeOK, NEW w \in Worker, Drop(w)
    PROVE  /\ \A x \in Worker \ {w} : /\ pc'[x] = pc[x] /\ cur'[x] = cur[x] /\ mine'[x] = mine[x]
                               /\ made'[x] = made[x] /\ wrote'[x] = wrote[x]
                               /\ result'[x] = result[x] /\ copy'[x] = copy[x]
           /\ pc'[w] = "idle" /\ mine'[w] = NoLogs /\ ~made'[w] /\ ~wrote'[w] /\ result'[w] = "error"
BY DEF TypeOK, Drop, Goto

LEMMA StepIsFramed ==
    ASSUME TypeOK, NEW w \in Worker, TaskStep(w)
    PROVE  Framed(w)
<1> USE DEF Goto, Uploads, Database, Buffer, Registers
<1>1. CASE WriteOrder(w)
  BY <1>1 DEF WriteOrder, Framed, TypeOK
<1>2. CASE AskChange(w)
  <2>1. \A v \in Upload \ {cur[w]} : sap'[v] = sap[v]
    BY <1>2 DEF AskChange, TypeOK
  <2>2. \A x \in Worker \ {w} : made'[x] = made[x] /\ pc'[x] = pc[x] /\ result'[x] = result[x]
    BY <1>2 DEF AskChange, TypeOK
  <2> QED BY <1>2, <2>1, <2>2 DEF AskChange, Framed
<1>3. CASE AskCreate(w)
  <2>1. \A v \in Upload \ {cur[w]} : sap'[v] = sap[v]
    BY <1>3 DEF AskCreate, TypeOK
  <2>2. \A x \in Worker \ {w} : made'[x] = made[x] /\ pc'[x] = pc[x] /\ result'[x] = result[x]
    BY <1>3 DEF AskCreate, TypeOK
  <2> QED BY <1>3, <2>1, <2>2 DEF AskCreate, Framed
<1>4. CASE Raise(w)
  <2>1. \A v \in Upload \ {cur[w]} : sap'[v] = sap[v]
    BY <1>4 DEF Raise, TypeOK
  <2>2. \A x \in Worker \ {w} : pc'[x] = pc[x] /\ result'[x] = result[x]
    BY <1>4 DEF Raise, TypeOK
  <2>3. \A x \in Worker \ {w} : made'[x] = made[x] /\ mine'[x] = mine[x]
    BY <1>4 DEF Raise, TypeOK
  <2>4. torn \subseteq torn'
    BY <1>4 DEF Raise
  <2> QED BY <1>4, <2>1, <2>2, <2>3, <2>4 DEF Raise, Framed
<1>5. CASE ReadLog(w)
  BY <1>5 DEF ReadLog, Framed, TypeOK
<1>6. CASE SaveLog(w)
  <2>1. \A x \in Worker \ {w} : pc'[x] = pc[x] /\ mine'[x] = mine[x] /\ copy'[x] = copy[x]
    BY <1>6 DEF SaveLog, TypeOK
  <2>2. misled \subseteq misled'
    BY <1>6 DEF SaveLog, Mislead
  <2> QED BY <1>6, <2>1, <2>2 DEF SaveLog, Framed
<1>7. CASE SaveFails(w)
  BY <1>7 DEF SaveFails, Framed, TypeOK
<1>8. CASE Finish(w)
  BY <1>8 DEF Finish, Framed, TypeOK
<1>9. CASE Delete(w)
  BY <1>9 DEF Delete, Framed, TypeOK
<1>10. CASE Commit(w)
  <2>1. \A v \in Upload \ {cur[w]} : kept'[v] = kept[v] /\ (v \in altered <=> v \in altered')
    BY <1>10 DEF Commit, TypeOK
  <2> QED BY <1>10, <2>1, DropIsFramed DEF Commit, Framed
<1>11. CASE Die(w)
  <2>1. torn \subseteq torn'
    BY <1>11 DEF Die
  <2> QED BY <1>11, <2>1, DropIsFramed DEF Die, Framed
<1> QED BY <1>1, <1>2, <1>3, <1>4, <1>5, <1>6, <1>7, <1>8, <1>9, <1>10, <1>11
        DEF TaskStep, Work

(* Logs stay, and the state of a log is written by SaveLog.                *)
LEMMA LogsStay ==
    ASSUME TypeOK, Known, NEW w \in Worker, Framed(w)
    PROVE  \A u \in Upload : log'[u].state = "absent" <=> log[u].state = "absent"
<1>1. CASE log' = log
  BY <1>1
<1>2. CASE log' = Seen(w)
  BY <1>2, SeenType DEF Known
<1> QED BY <1>1, <1>2 DEF Framed

LEMMA WorkedOn ==
    ASSUME TypeOK, Known, NEW w \in Worker, pc[w] # "idle"
    PROVE  cur[w] \in Upload /\ log[cur[w]].state # "absent" /\ view[cur[w]] = "done"
<1>1. cur[w] \in Upload
  BY DEF TypeOK
<1>2. view[cur[w]] = "done"
  BY <1>1 DEF Known
<1> QED BY <1>1, <1>2 DEF Known

LEMMA SaveKnown ==
    ASSUME TypeOK, Known, NEW w \in Worker, SaveLog(w), NEW u \in Upload, mine'[w][u] # NoLog
    PROVE  log[u].state # "absent" /\ mine'[w][u].state # "absent"
<1> DEFINE v == copy[w].of
<1> DEFINE row == IF pc[w] = "saveNumber" THEN [copy[w].was EXCEPT !.number = cur[w]]
                                          ELSE [copy[w].was EXCEPT !.state = result[w]]
<1>1. v \in Upload /\ copy[w].was \in Log
  BY DEF TypeOK
<1>2. mine' = [mine EXCEPT ![w][v] = row]
  BY DEF SaveLog
<1>3. row.state # "absent"
  BY <1>1 DEF Log, Known, TypeOK, SaveLog
<1> HIDE DEF row
<1>4. CASE u = v
  <2>1. mine'[w][u] = row
    BY <1>1, <1>2, <1>4 DEF TypeOK
  <2>2. log[v].state # "absent"
    BY DEF Known, SaveLog
  <2> QED BY <1>3, <1>4, <2>1, <2>2
<1>5. CASE u # v
  <2>1. mine'[w][u] = mine[w][u]
    BY <1>1, <1>2, <1>5 DEF TypeOK
  <2> QED BY <2>1 DEF Known
<1> QED BY <1>4, <1>5

(* Which rows a step of a task writes, and when it is about to.            *)
LEMMA WritesLog ==
    ASSUME TypeOK, NEW w \in Worker, TaskStep(w)
    PROVE  /\ SaveLog(w) \/ mine'[w] = mine[w] \/ mine'[w] = NoLogs
           /\ pc'[w] \in {"saveNumber", "saveState"} => ReadLog(w)
<1> USE DEF Goto, Uploads, Database, Buffer, Registers
<1>1. CASE WriteOrder(w)
  BY <1>1 DEF WriteOrder, TypeOK, AfterWrite
<1>2. CASE AskChange(w)
  BY <1>2 DEF AskChange, TypeOK
<1>3. CASE AskCreate(w)
  BY <1>3 DEF AskCreate, TypeOK
<1>4. CASE Raise(w)
  <2>1. pc'[w] = "state"
    BY <1>4 DEF Raise, TypeOK
  <2>2. mine'[w] = mine[w] \/ mine'[w] = NoLogs
    BY <1>4 DEF Raise, TypeOK
  <2> QED BY <2>1, <2>2
<1>5. CASE ReadLog(w)
  BY <1>5 DEF ReadLog, TypeOK
<1>6. CASE SaveLog(w)
  <2>1. pc'[w] \notin {"saveNumber", "saveState"}
    BY <1>6 DEF SaveLog, TypeOK, AfterSave
  <2> QED BY <1>6, <2>1
<1>7. CASE SaveFails(w)
  BY <1>7 DEF SaveFails, TypeOK, AfterSave
<1>8. CASE Finish(w)
  BY <1>8 DEF Finish, TypeOK
<1>9. CASE Delete(w)
  BY <1>9 DEF Delete, TypeOK
<1>10. CASE Commit(w)
  BY <1>10, DropIsFramed DEF Commit
<1>11. CASE Die(w)
  BY <1>11, DropIsFramed DEF Die
<1> QED BY <1>1, <1>2, <1>3, <1>4, <1>5, <1>6, <1>7, <1>8, <1>9, <1>10, <1>11
        DEF TaskStep, Work

LEMMA ReadKnown ==
    ASSUME TypeOK, Known, NEW w \in Worker, ReadLog(w)
    PROVE  log[copy'[w].of].state # "absent" /\ copy'[w].was.state # "absent" /\ copy'[w].of \in Upload
<1> DEFINE v == LastLog(key[cur[w]])
<1>1. v \in Upload /\ log[v].state # "absent"
  <2>1. log[cur[w]].state # "absent" /\ cur[w] \in Upload
    BY WorkedOn DEF ReadLog
  <2> QED BY <2>1, LastOf
<1>2. copy'[w] = [of |-> v, was |-> Seen(w)[v]]
  BY DEF ReadLog, TypeOK
<1>3. Seen(w)[v].state # "absent"
  BY <1>1, SeenType DEF Known
<1> QED BY <1>1, <1>2, <1>3

LEMMA TaskKnown ==
    ASSUME TypeOK, Known, NEW w \in Worker, TaskStep(w)
    PROVE  Known'
<1>1. Framed(w)
  BY StepIsFramed
<1>2. \A u \in Upload : log'[u].state = "absent" <=> log[u].state = "absent"
  BY <1>1, LogsStay
<1>3. \A u \in Upload : message'[u] = "none" <=> message[u] = "none"
  BY <1>1 DEF Framed, Known, TypeOK
<1>4. ASSUME NEW x \in Worker, pc'[x] # "idle" PROVE message'[cur'[x]] # "none"
  <2>1. pc[x] # "idle" /\ cur'[x] = cur[x] /\ cur[x] \in Upload
    BY <1>1, <1>4 DEF Framed, TypeOK
  <2> QED BY <1>3, <2>1 DEF Known
<1>5. ASSUME NEW x \in Worker, NEW u \in Upload, mine'[x][u] # NoLog
      PROVE  log'[u].state # "absent" /\ mine'[x][u].state # "absent"
  <2>1. CASE x # w
    BY <1>1, <1>2, <1>5, <2>1 DEF Framed, Known
  <2>2. CASE x = w /\ SaveLog(w)
    BY <1>2, <1>5, <2>2, SaveKnown
  <2>3. CASE x = w /\ (mine'[w] = mine[w] \/ mine'[w] = NoLogs)
    BY <1>2, <1>5, <2>3 DEF Known, NoLogs
  <2> QED BY <2>1, <2>2, <2>3, WritesLog
<1>6. ASSUME NEW x \in Worker, pc'[x] \in {"saveNumber", "saveState"}
      PROVE  log'[copy'[x].of].state # "absent" /\ copy'[x].was.state # "absent"
  <2>1. CASE x # w
    BY <1>1, <1>2, <1>6, <2>1 DEF Framed, Known, TypeOK
  <2>2. CASE x = w
    BY <1>2, <1>6, <2>2, WritesLog, ReadKnown
  <2> QED BY <2>1, <2>2
<1>7. view' = view
  BY <1>1 DEF Framed
<1> QED BY <1>2, <1>3, <1>4, <1>5, <1>6, <1>7 DEF Known

LEMMA KnownStays ==
    ASSUME TypeOK, Known, UNCHANGED <<message, pc, cur, mine, copy>>,
           \A u \in Upload : log[u].state # "absent" => log'[u].state # "absent",
           \A u \in Upload : view'[u] = "none" <=> log'[u].state = "absent",
           \A u \in Upload : view[u] = "done" => view'[u] = "done"
    PROVE  Known'
<1>1. \A w \in Worker : copy[w].of \in Upload
  BY DEF TypeOK
<1> QED BY <1>1 DEF Known

LEMMA ViewKnown ==
    ASSUME TypeOK, Known, NEW u \in Upload, Receive(u) \/ Refuse(u) \/ Publish(u) \/ Reappear(u) \/ Expire(u)
    PROVE  Known'
<1> USE DEF Uploads, Database, Buffer, Registers
<1>1. CASE Receive(u)
  <2>1. log' = [log EXCEPT ![u] = [log[u] EXCEPT !.state = "progress"]] /\ view' = [view EXCEPT ![u] = "logged"]
    BY <1>1 DEF Receive
  <2>2. \A v \in Upload : (v # u => log'[v] = log[v] /\ view'[v] = view[v])
                          /\ log'[u].state = "progress" /\ view'[u] = "logged"
    BY <2>1 DEF TypeOK, Log
  <2>3. view[u] = "none" /\ log[u].state = "absent" /\ message[u] = "none"
    BY <1>1 DEF Receive, Known
  <2>4. UNCHANGED <<message, pc, cur, mine, copy>>
    BY <1>1 DEF Receive
  <2>5. \A v \in Upload : view'[v] = "none" <=> log'[v].state = "absent"
    BY <2>2 DEF Known
  <2> QED BY <2>2, <2>3, <2>4, <2>5, KnownStays
<1>2. CASE Refuse(u)
  <2> DEFINE l == LastLog(key[u])
  <2>1. l \in Upload /\ log[l].state # "absent" /\ log[u].state # "absent"
    BY <1>2, LastOf DEF Refuse, Known
  <2>2. log' = [log EXCEPT ![l] = [log[l] EXCEPT !.state = "error"]] /\ view' = [view EXCEPT ![u] = "done"]
    BY <1>2 DEF Refuse
  <2> HIDE DEF l
  <2>3. \A v \in Upload : log'[v].state = "absent" <=> log[v].state = "absent"
    BY <2>1, <2>2 DEF TypeOK, Log
  <2>4. UNCHANGED <<message, pc, cur, mine, copy>>
    BY <1>2 DEF Refuse
  <2>5. \A v \in Upload : v # u => view'[v] = view[v]
    BY <2>2 DEF TypeOK
  <2>6. view'[u] = "done" /\ view[u] = "logged"
    BY <1>2, <2>2 DEF TypeOK, Refuse
  <2>7. \A v \in Upload : view'[v] = "none" <=> log'[v].state = "absent"
    BY <2>3, <2>5, <2>6 DEF Known
  <2> QED BY <2>3, <2>4, <2>5, <2>6, <2>7, KnownStays
<1>3. CASE Publish(u)
  BY <1>3 DEF Publish, Known, TypeOK
<1>4. CASE Reappear(u)
  BY <1>4 DEF Reappear, Known, TypeOK
<1>5. CASE Expire(u)
  BY <1>5 DEF Expire, Known, TypeOK
<1> QED BY <1>1, <1>2, <1>3, <1>4, <1>5

LEMMA TakeKnown ==
    ASSUME TypeOK, Known, NEW w \in Worker, NEW u \in Upload, Take(w, u)
    PROVE  Known'
<1> USE DEF Uploads, Database, Buffer, Registers, Goto
<1>1. message' = [message EXCEPT ![u] = "hidden"] /\ message[u] = "visible"
  BY DEF Take
<1>2. pc' = [pc EXCEPT ![w] = First(u)] /\ cur' = [cur EXCEPT ![w] = u]
      /\ UNCHANGED <<view, log, mine, copy>>
  BY DEF Take
<1>3. First(u) \notin {"saveNumber", "saveState"}
  BY DEF First
<1>4. \A v \in Upload : message'[v] = "none" <=> message[v] = "none"
  BY <1>1 DEF TypeOK
<1>5. ASSUME NEW x \in Worker, pc'[x] # "idle" PROVE message'[cur'[x]] # "none"
  <2>1. CASE x = w
    BY <1>1, <1>2, <1>4, <2>1 DEF TypeOK
  <2>2. CASE x # w
    BY <1>2, <1>4, <1>5, <2>2 DEF TypeOK, Known
  <2> QED BY <2>1, <2>2
<1>6. ASSUME NEW x \in Worker, pc'[x] \in {"saveNumber", "saveState"} PROVE pc'[x] = pc[x]
  BY <1>2, <1>3, <1>6 DEF TypeOK
<1> QED BY <1>2, <1>4, <1>5, <1>6 DEF Known

----------------------------------------------------------------------------
(* Booked: what SAP has accepted is in the database or in a transaction.   *)
LEMMA HoldingFinite ==
    ASSUME NEW u
    PROVE  IsFiniteSet(Holding(u)) /\ Cardinality(Holding(u)) \in Nat
<1>1. Holding(u) \in SUBSET Worker
  BY DEF Holding
<1> QED BY <1>1, WorkerAssumption, FS_Subset, FS_CardinalityType

LEMMA HoldingAdd ==
    ASSUME NEW u, NEW w, Holding(u)' = Holding(u) \cup {w}, w \notin Holding(u)
    PROVE  Cardinality(Holding(u)') = Cardinality(Holding(u)) + 1
BY HoldingFinite, FS_AddElement

LEMMA HoldingRemove ==
    ASSUME NEW u, NEW w, Holding(u)' = Holding(u) \ {w}, w \in Holding(u)
    PROVE  Cardinality(Holding(u)') = Cardinality(Holding(u)) - 1
BY HoldingFinite, FS_RemoveElement

LEMMA NobodyHolds == Cardinality({}) = 0
BY FS_EmptySet

(* A step of a task changes who holds rows for nobody but its own upload.  *)
LEMMA HoldingOthers ==
    ASSUME TypeOK, NEW w \in Worker, Framed(w), NEW u \in Upload, u # cur[w]
    PROVE  Holding(u)' = Holding(u)
<1>1. \A x \in Worker : (pc'[x] # "idle" /\ cur'[x] = u /\ made'[x]) <=> (pc[x] # "idle" /\ cur[x] = u /\ made[x])
  BY DEF Framed
<1> QED BY <1>1 DEF Holding

LEMMA HoldingOwn ==
    ASSUME TypeOK, NEW w \in Worker, Framed(w), NEW u \in Upload, u = cur[w]
    PROVE  Holding(u)' = IF pc'[w] # "idle" /\ made'[w] THEN Holding(u) \cup {w}
                                                        ELSE Holding(u) \ {w}
<1>1. \A x \in Worker \ {w} : (pc'[x] # "idle" /\ cur'[x] = u /\ made'[x]) <=> (pc[x] # "idle" /\ cur[x] = u /\ made[x])
  BY DEF Framed
<1>2. pc'[w] # "idle" => cur'[w] = u
  BY DEF Framed
<1> QED BY <1>1, <1>2 DEF Holding

(* What a step of a task does to the balance of its upload.                *)
Kept(w, u)  == sap'[u] = sap[u] /\ kept'[u] = kept[u] /\ ((pc'[w] # "idle" /\ made'[w]) <=> made[w])
Made(w, u)  == sap'[u] = sap[u] + 1 /\ kept'[u] = kept[u] /\ ~made[w] /\ made'[w] /\ pc'[w] # "idle"
Saved(w, u) == sap'[u] = sap[u] /\ kept'[u] = kept[u] + 1 /\ made[w] /\ pc'[w] = "idle"

LEMMA StepBalance ==
    ASSUME TypeOK, Fresh, NEW w \in Worker, TaskStep(w), NEW u \in Upload, u = cur[w], u \notin torn'
    PROVE  Kept(w, u) \/ Made(w, u) \/ Saved(w, u)
<1> USE DEF Goto, Uploads, Database, Buffer, Registers
<1>1. CASE WriteOrder(w)
  BY <1>1 DEF WriteOrder, TypeOK, AfterWrite, Kept
<1>2. CASE AskChange(w)
  <2>1. ~made[w]
    BY <1>2 DEF AskChange, Fresh
  <2>2. PICK yes \in BOOLEAN : IF kind[u] = "header"
             THEN /\ sap' = [sap EXCEPT ![u] = @ + IF yes THEN 1 ELSE 0]
                  /\ made' = [made EXCEPT ![w] = yes]
                  /\ pc' = [pc EXCEPT ![w] = "state"]
             ELSE /\ pc' = [pc EXCEPT ![w] = "create"]
                  /\ UNCHANGED <<sap, made>>
    BY <1>2 DEF AskChange
  <2>3. kept' = kept
    BY <1>2 DEF AskChange
  <2>4. CASE kind[u] = "header" /\ yes
    BY <2>1, <2>2, <2>3, <2>4 DEF Made, TypeOK
  <2>5. CASE kind[u] = "header" /\ ~yes
    BY <2>1, <2>2, <2>3, <2>5 DEF Kept, TypeOK
  <2>6. CASE kind[u] # "header"
    BY <2>1, <2>2, <2>3, <2>6 DEF Kept, TypeOK
  <2> QED BY <2>4, <2>5, <2>6
<1>3. CASE AskCreate(w)
  <2>1. ~made[w]
    BY <1>3 DEF AskCreate, Fresh
  <2>2. PICK yes \in BOOLEAN :
             /\ sap' = [sap EXCEPT ![u] = @ + IF yes THEN 1 ELSE 0]
             /\ made' = [made EXCEPT ![w] = yes]
    BY <1>3 DEF AskCreate
  <2>3. kept' = kept /\ pc'[w] # "idle"
    BY <1>3 DEF AskCreate, TypeOK
  <2>4. CASE yes
    BY <2>1, <2>2, <2>3, <2>4 DEF Made, TypeOK
  <2>5. CASE ~yes
    BY <2>1, <2>2, <2>3, <2>5 DEF Kept, TypeOK
  <2> QED BY <2>4, <2>5
<1>4. CASE Raise(w)
  <2>1. PICK carried \in BOOLEAN :
          /\ sap' = [sap EXCEPT ![u] = @ + IF carried /\ pc[w] # "finish" THEN 1 ELSE 0]
          /\ torn' = torn \cup IF carried \/ pc[w] = "finish" THEN {u} ELSE {}
    BY <1>4 DEF Raise
  <2>2. ~carried /\ pc[w] # "finish"
    BY <2>1
  <2>3. ~made[w]
    BY <1>4, <2>2 DEF Raise, Fresh
  <2>4. kept' = kept /\ pc'[w] # "idle"
    BY <1>4 DEF Raise, TypeOK
  <2>5. ~made'[w]
    BY <1>4, <2>3 DEF Raise, TypeOK
  <2> QED BY <2>1, <2>2, <2>3, <2>4, <2>5 DEF Kept, TypeOK
<1>5. CASE ReadLog(w)
  BY <1>5 DEF ReadLog, TypeOK, Kept
<1>6. CASE SaveLog(w)
  BY <1>6 DEF SaveLog, TypeOK, AfterSave, Kept
<1>7. CASE SaveFails(w)
  BY <1>7 DEF SaveFails, TypeOK, AfterSave, Kept
<1>8. CASE Finish(w)
  BY <1>8 DEF Finish, TypeOK, Kept
<1>9. CASE Delete(w)
  BY <1>9 DEF Delete, TypeOK, Kept
<1>10. CASE Commit(w)
  <2>1. kept' = [kept EXCEPT ![u] = @ + IF made[w] THEN 1 ELSE 0] /\ sap' = sap
    BY <1>10 DEF Commit, Survives
  <2>2. pc'[w] = "idle"
    BY <1>10, DropIsFramed DEF Commit
  <2> QED BY <2>1, <2>2 DEF Kept, Saved, TypeOK
<1>11. CASE Die(w)
  <2>1. ~made[w]
    BY <1>11 DEF Die
  <2>2. pc'[w] = "idle" /\ sap' = sap /\ kept' = kept
    BY <1>11, DropIsFramed DEF Die, Database
  <2> QED BY <2>1, <2>2 DEF Kept
<1> QED BY <1>1, <1>2, <1>3, <1>4, <1>5, <1>6, <1>7, <1>8, <1>9, <1>10, <1>11
        DEF TaskStep, Work

LEMMA TaskBooked ==
    ASSUME TypeOK, Fresh, Booked, NEW w \in Worker, TaskStep(w)
    PROVE  Booked'
<1>1. Framed(w)
  BY StepIsFramed
<1>2. SUFFICES ASSUME NEW u \in Upload, u \notin torn'
               PROVE  sap'[u] = kept'[u] + Cardinality(Holding(u)')
  BY DEF Booked
<1>3. sap[u] = kept[u] + Cardinality(Holding(u)) /\ sap[u] \in Nat /\ kept[u] \in Nat
  <2>1. u \notin torn
    BY <1>1, <1>2 DEF Framed
  <2> QED BY <2>1 DEF Booked, TypeOK
<1>4. CASE u # cur[w]
  BY <1>1, <1>3, <1>4, HoldingOthers DEF Framed
<1>5. CASE u = cur[w]
  <2>1. Holding(u)' = IF pc'[w] # "idle" /\ made'[w] THEN Holding(u) \cup {w} ELSE Holding(u) \ {w}
    BY <1>1, <1>5, HoldingOwn
  <2>2. w \in Holding(u) <=> made[w]
    BY <1>1, <1>5 DEF Holding, Framed
  <2>3. CASE Kept(w, u)
    <3>1. Holding(u)' = Holding(u)
      BY <2>1, <2>2, <2>3 DEF Kept
    <3> QED BY <1>3, <2>3, <3>1 DEF Kept
  <2>4. CASE Made(w, u)
    <3>1. Cardinality(Holding(u)') = Cardinality(Holding(u)) + 1
      BY <2>1, <2>2, <2>4, HoldingAdd DEF Made
    <3> QED BY <1>3, <2>4, <3>1, HoldingFinite DEF Made
  <2>5. CASE Saved(w, u)
    <3>1. Cardinality(Holding(u)') = Cardinality(Holding(u)) - 1
      BY <2>1, <2>2, <2>5, HoldingRemove DEF Saved
    <3> QED BY <1>3, <2>5, <3>1, HoldingFinite DEF Saved
  <2> QED BY <1>2, <1>5, <2>3, <2>4, <2>5, StepBalance
<1> QED BY <1>4, <1>5

LEMMA OtherBooked ==
    ASSUME TypeOK, Fresh, Booked, UNCHANGED <<sap, kept, torn>>,
           \A u \in Upload : Holding(u)' = Holding(u)
    PROVE  Booked'
BY DEF Booked

LEMMA TakeHolding ==
    ASSUME TypeOK, Fresh, NEW w \in Worker, NEW v \in Upload, Take(w, v), NEW u \in Upload
    PROVE  Holding(u)' = Holding(u)
<1>1. made' = made /\ ~made[w]
  BY DEF Take, Fresh, Buffer
<1>2. \A x \in Worker \ {w} : pc'[x] = pc[x] /\ cur'[x] = cur[x]
  BY DEF Take, Goto, TypeOK
<1> QED BY <1>1, <1>2 DEF Holding

LEMMA TakeFresh ==
    ASSUME TypeOK, Fresh, NEW w \in Worker, NEW v \in Upload, Take(w, v)
    PROVE  Fresh'
<1>1. UNCHANGED <<made, mine, wrote, result>> /\ pc[w] = "idle" /\ pc' = [pc EXCEPT ![w] = First(v)]
  BY DEF Take, Buffer, Registers, Goto
<1>2. First(v) # "idle"
  BY DEF First
<1>3. \A x \in Worker : pc'[x] = IF x = w THEN First(v) ELSE pc[x]
  BY <1>1 DEF TypeOK
<1> QED BY <1>1, <1>2, <1>3 DEF Fresh, NoLogs

LEMMA TaskFresh ==
    ASSUME TypeOK, Fresh, NEW w \in Worker, TaskStep(w)
    PROVE  Fresh'
<1>1. Framed(w)
  BY StepIsFramed
<1> DEFINE Good == /\ pc'[w] \in {"idle", "write", "change", "create"} => ~made'[w] /\ mine'[w] = NoLogs
                   /\ pc'[w] = "idle" => ~wrote'[w] /\ result'[w] = "error"
<1>2. Good
  <2> USE DEF Goto, Uploads, Database, Buffer, Registers
  <2>1. CASE WriteOrder(w)
    BY <2>1 DEF WriteOrder, AfterWrite, TypeOK, Fresh
  <2>2. CASE AskChange(w)
    <3>1. pc'[w] = "state" \/ (pc'[w] = "create" /\ made' = made)
      BY <2>2 DEF AskChange, TypeOK
    <3> QED BY <2>2, <3>1 DEF AskChange, Fresh
  <2>3. CASE AskCreate(w)
    BY <2>3 DEF AskCreate, TypeOK
  <2>4. CASE Raise(w)
    BY <2>4 DEF Raise, TypeOK
  <2>5. CASE ReadLog(w)
    BY <2>5 DEF ReadLog, TypeOK
  <2>6. CASE SaveLog(w)
    BY <2>6 DEF SaveLog, AfterSave, TypeOK
  <2>7. CASE SaveFails(w)
    BY <2>7 DEF SaveFails, AfterSave, TypeOK
  <2>8. CASE Finish(w)
    BY <2>8 DEF Finish, TypeOK
  <2>9. CASE Delete(w)
    BY <2>9 DEF Delete, TypeOK
  <2>10. CASE Commit(w)
    BY <2>10, DropIsFramed DEF Commit
  <2>11. CASE Die(w)
    BY <2>11, DropIsFramed DEF Die
  <2> QED BY <2>1, <2>2, <2>3, <2>4, <2>5, <2>6, <2>7, <2>8, <2>9, <2>10, <2>11 DEF TaskStep, Work
<1>3. \A x \in Worker : Fresh =>
        (/\ pc'[x] \in {"idle", "write", "change", "create"} => ~made'[x]
         /\ pc'[x] \in {"idle", "write", "change", "create"} => mine'[x] = NoLogs
         /\ pc'[x] = "idle" => ~wrote'[x] /\ result'[x] = "error")
  <2> TAKE x \in Worker
  <2>1. CASE x = w
    BY <1>2, <2>1
  <2>2. CASE x # w
    BY <1>1, <2>2 DEF Framed, Fresh
  <2> QED BY <2>1, <2>2
<1> QED BY <1>3 DEF Fresh, NoLogs

----------------------------------------------------------------------------
(* Exceptions and paths.                                                   *)
LEMMA TaskOwnLog ==
    ASSUME TypeOK, OwnLog, NEW w \in Worker, TaskStep(w)
    PROVE  OwnLog'
<1>1. Framed(w)
  BY StepIsFramed
<1>2. SUFFICES ASSUME NEW x \in Worker, NEW u \in Upload, u \notin misled', pc'[x] # "idle", mine'[x][u] # NoLog
               PROVE  u = cur'[x]
  BY DEF OwnLog
<1>3. u \notin misled
  BY <1>1, <1>2 DEF Framed
<1>4. CASE x # w
  BY <1>1, <1>2, <1>3, <1>4 DEF Framed, OwnLog
<1>5. CASE x = w
  <2>1. cur'[w] = cur[w] /\ pc[w] # "idle"
    BY <1>1, <1>2, <1>5 DEF Framed
  <2>2. CASE SaveLog(w)
    <3>1. copy[w].of \in Upload
      BY DEF TypeOK
    <3>2. u # copy[w].of => mine'[w][u] = mine[w][u]
      BY <2>2, <3>1 DEF SaveLog, TypeOK
    <3>3. u = copy[w].of => u = cur[w]
      BY <1>2, <2>2 DEF SaveLog, Mislead
    <3> QED BY <1>2, <1>3, <1>5, <2>1, <3>2, <3>3 DEF OwnLog
  <2>3. CASE mine'[w] = mine[w]
    BY <1>2, <1>3, <1>5, <2>1, <2>3 DEF OwnLog
  <2>4. CASE mine'[w] = NoLogs
    BY <1>2, <1>5, <2>4 DEF NoLogs
  <2> QED BY <2>2, <2>3, <2>4, WritesLog
<1> QED BY <1>4, <1>5

LEMMA TakeOwnLog ==
    ASSUME TypeOK, Fresh, OwnLog, NEW w \in Worker, NEW v \in Upload, Take(w, v)
    PROVE  OwnLog'
<1>1. \A x \in Worker \ {w} : pc'[x] = pc[x] /\ cur'[x] = cur[x]
  BY DEF Take, Goto, TypeOK
<1>2. UNCHANGED <<mine, misled>> /\ mine[w] = NoLogs
  BY DEF Take, Buffer, Fresh
<1> QED BY <1>1, <1>2 DEF OwnLog, NoLogs

LEMMA TaskAlone ==
    ASSUME TypeOK, Alone, NEW w \in Worker, TaskStep(w)
    PROVE  Alone'
<1>1. Framed(w)
  BY StepIsFramed
<1>2. \A x \in Worker : pc'[x] # "idle" => pc[x] # "idle" /\ cur'[x] = cur[x]
  BY <1>1 DEF Framed
<1>3. doubled' = doubled
  BY <1>1 DEF Framed
<1> QED BY <1>2, <1>3 DEF Alone, Running

LEMMA TakeAlone ==
    ASSUME TypeOK, Alone, NEW w \in Worker, NEW v \in Upload, Take(w, v)
    PROVE  Alone'
<1>1. \A x \in Worker \ {w} : pc'[x] = pc[x] /\ cur'[x] = cur[x]
  BY DEF Take, Goto, TypeOK
<1>2. cur'[w] = v
  BY DEF Take, TypeOK
<1>3. doubled' = doubled \cup IF Running(v) # {} THEN {v} ELSE {}
  BY DEF Take
<1>4. ASSUME NEW u \in Upload, u \notin doubled', NEW x \in Running(u)', NEW y \in Running(u)'
      PROVE  x = y
  <2>1. x \in Worker /\ y \in Worker /\ pc'[x] # "idle" /\ pc'[y] # "idle" /\ cur'[x] = u /\ cur'[y] = u
    BY <1>4 DEF Running
  <2>2. \A z \in Worker \ {w} : pc'[z] # "idle" /\ cur'[z] = u => z \in Running(u)
    BY <1>1 DEF Running
  <2>3. CASE u = v
    BY <1>3, <1>4, <2>1, <2>2, <2>3
  <2>4. CASE u # v
    BY <1>2, <1>3, <1>4, <2>1, <2>2, <2>4 DEF Alone
  <2> QED BY <2>3, <2>4
<1> QED BY <1>4 DEF Alone

LEMMA TakePath ==
    ASSUME TypeOK, Fresh, Path, NEW w \in Worker, NEW v \in Upload, Take(w, v)
    PROVE  Path'
<1>1. UNCHANGED <<kind, key, made, wrote, result>> /\ result[w] = "error"
  BY DEF Take, Uploads, Buffer, Registers, Fresh
<1>2. \A x \in Worker \ {w} : pc'[x] = pc[x] /\ cur'[x] = cur[x]
  BY DEF Take, Goto, TypeOK
<1>3. pc'[w] = First(v) /\ cur'[w] = v
  BY DEF Take, Goto, TypeOK
<1>4. /\ First(v) = "write"  => kind[v] \notin {"new", "carve"}
      /\ First(v) = "change" => kind[v] = "carve"
      /\ First(v) = "create" => kind[v] = "new"
      /\ First(v) \notin {"number", "saveNumber"}
  BY DEF First
<1>5. ASSUME NEW x \in Worker
      PROVE  /\ pc'[x] = "write"  => kind[cur'[x]] \notin {"new", "carve"} /\ result[x] = "error"
             /\ pc'[x] = "change" => kind[cur'[x]] = "carve" \/ (kind[cur'[x]] = "header" /\ wrote[x] /\ result[x] = "error")
             /\ pc'[x] = "create" => kind[cur'[x]] = "carve" \/ (kind[cur'[x]] = "new" /\ result[x] = "error")
             /\ pc'[x] \in {"number", "saveNumber"} => kind[cur'[x]] = "new" /\ made[x] /\ result[x] = "received"
  <2>1. CASE x = w
    BY <1>1, <1>3, <1>4, <2>1
  <2>2. CASE x # w
    BY <1>2, <2>2 DEF Path
  <2> QED BY <2>1, <2>2
<1> QED BY <1>1, <1>5 DEF Path

(* Path for one task.                                                      *)
Way(w) ==
    LET u == cur[w] IN
       /\ pc[w] = "write"  => kind[u] \notin {"new", "carve"} /\ result[w] = "error"
       /\ pc[w] = "change" => kind[u] = "carve" \/ (kind[u] = "header" /\ wrote[w] /\ result[w] = "error")
       /\ pc[w] = "create" => kind[u] = "carve" \/ (kind[u] = "new" /\ result[w] = "error")
       /\ pc[w] \in {"number", "saveNumber"} => kind[u] = "new" /\ made[w] /\ result[w] = "received"

LEMMA TaskPath ==
    ASSUME TypeOK, Path, NEW w \in Worker, TaskStep(w)
    PROVE  Path'
<1>1. Framed(w)
  BY StepIsFramed
<1>2. \A x \in Worker : Way(x)
  BY DEF Path, Way
<1>3. Way(w)'
  <2> USE DEF Goto, Uploads, Database, Buffer, Registers
  <2>1. CASE WriteOrder(w)
    BY <1>2, <2>1 DEF WriteOrder, AfterWrite, TypeOK, Way
  <2>2. CASE AskChange(w)
    <3>1. pc[w] = "change" /\ UNCHANGED <<cur, kind>>
      BY <2>2 DEF AskChange
    <3>2. pc'[w] = "state" \/ (pc'[w] = "create" /\ kind[cur[w]] # "header")
      BY <2>2 DEF AskChange, TypeOK
    <3> QED BY <1>2, <3>1, <3>2 DEF Way
  <2>3. CASE AskCreate(w)
    <3>1. PICK yes \in BOOLEAN :
          /\ made' = [made EXCEPT ![w] = yes]
          /\ result' = [result EXCEPT ![w] = IF kind[cur[w]] = "new" \/ ~yes THEN Verdict(yes) ELSE @]
          /\ pc' = [pc EXCEPT ![w] = IF kind[cur[w]] = "new" /\ yes THEN "number" ELSE "state"]
      BY <2>3 DEF AskCreate
    <3>2. UNCHANGED <<cur, kind>>
      BY <2>3 DEF AskCreate
    <3> QED BY <3>1, <3>2 DEF Way, Verdict, TypeOK
  <2>4. CASE Raise(w)
    BY <2>4 DEF Raise, TypeOK, Way
  <2>5. CASE ReadLog(w)
    BY <1>2, <2>5 DEF ReadLog, TypeOK, Way
  <2>6. CASE SaveLog(w)
    BY <2>6 DEF SaveLog, AfterSave, TypeOK, Way
  <2>7. CASE SaveFails(w)
    BY <2>7 DEF SaveFails, AfterSave, TypeOK, Way
  <2>8. CASE Finish(w)
    BY <2>8 DEF Finish, TypeOK, Way
  <2>9. CASE Delete(w)
    BY <2>9 DEF Delete, TypeOK, Way
  <2>10. CASE Commit(w)
    BY <2>10, DropIsFramed DEF Commit, Way
  <2>11. CASE Die(w)
    BY <2>11, DropIsFramed DEF Die, Way
  <2> QED BY <2>1, <2>2, <2>3, <2>4, <2>5, <2>6, <2>7, <2>8, <2>9, <2>10, <2>11 DEF TaskStep, Work
<1>4. ASSUME NEW x \in Worker, x # w PROVE Way(x)'
  BY <1>1, <1>2, <1>4 DEF Framed, Way
<1>5. \A x \in Worker : Way(x)'
  BY <1>3, <1>4
<1> QED BY <1>5 DEF Path, Way

----------------------------------------------------------------------------
(* The upload a task works on.                                             *)
LEMMA OwnWriteOrder ==
    ASSUME TypeOK, Path, NEW w \in Worker, NEW u \in Upload, u = cur[w], Stage(w, u), WriteOrder(w)
    PROVE  Stage(w, u)' /\ pc'[w] # "idle"
<1>1. UNCHANGED <<kind, key, view, log, kept, altered, sap, cur, mine, made, result, copy>>
  BY DEF WriteOrder, Uploads, Database, Registers
<1>2. pc'[w] \in {"change", "state"}
  BY DEF WriteOrder, Goto, AfterWrite, TypeOK
<1>3. Truth(u) /\ log[u].state # "received" /\ result[w] = "error" /\ kind[u] # "carve"
  BY DEF WriteOrder, Stage, Path
<1>4. Truth(u)'
  BY <1>1, <1>3 DEF Truth
<1>5. Outcome(w, u)' /\ Numbered(w, u)'
  BY <1>1, <1>3 DEF Truth, Outcome, Numbered
<1> QED BY <1>1, <1>2, <1>3, <1>4, <1>5 DEF Stage

LEMMA OwnAskChange ==
    ASSUME TypeOK, Fresh, Path, NEW w \in Worker, NEW u \in Upload, u = cur[w], Stage(w, u), AskChange(w)
    PROVE  Stage(w, u)' /\ pc'[w] # "idle" /\ (kind[u] = "new" => sap'[u] = sap[u])
<1>1. PICK yes \in BOOLEAN :
          /\ result' = [result EXCEPT ![w] = Verdict(yes)]
          /\ IF kind[u] = "header"
             THEN /\ sap' = [sap EXCEPT ![u] = @ + IF yes THEN 1 ELSE 0]
                  /\ made' = [made EXCEPT ![w] = yes]
                  /\ pc' = [pc EXCEPT ![w] = "state"]
             ELSE /\ pc' = [pc EXCEPT ![w] = "create"]
                  /\ UNCHANGED <<sap, made>>
  BY DEF AskChange, Goto
<1>2. UNCHANGED <<kind, key, view, log, kept, altered, cur, mine, wrote, copy>>
  BY DEF AskChange, Uploads, Database
<1>3. Truth(u) /\ log[u].state # "received"
  BY DEF AskChange, Stage
<1>4. kind[u] = "carve" \/ (kind[u] = "header" /\ wrote[w] /\ result[w] = "error")
  BY DEF AskChange, Path
<1>5. CASE kind[u] = "carve"
  <2>1. sap' = sap /\ made' = made /\ pc'[w] = "create"
    BY <1>1, <1>5 DEF TypeOK
  <2>2. Truth(u)'
    BY <1>2, <1>3, <2>1 DEF Truth
  <2> QED BY <1>2, <1>3, <1>5, <2>1, <2>2 DEF Stage
<1>6. CASE kind[u] = "header" /\ wrote[w]
  <2>1. /\ sap'[u] = sap[u] + IF yes THEN 1 ELSE 0
        /\ made'[w] = yes /\ pc'[w] = "state" /\ result'[w] = Verdict(yes)
    BY <1>1, <1>6 DEF TypeOK
  <2>2. sap[u] = 0
    BY <1>3, <1>6 DEF Truth
  <2>3. Outcome(w, u)'
    BY <1>2, <1>3, <1>6, <2>1, <2>2 DEF Outcome, Verdict
  <2>4. Numbered(w, u)'
    BY <1>2, <1>6 DEF Numbered
  <2> QED BY <1>2, <1>6, <2>1, <2>3, <2>4 DEF Stage
<1> QED BY <1>4, <1>5, <1>6

LEMMA OwnAskCreate ==
    ASSUME TypeOK, Fresh, Path, NEW w \in Worker, NEW u \in Upload, u = cur[w], Stage(w, u), AskCreate(w)
    PROVE  Stage(w, u)' /\ pc'[w] # "idle" /\ (kind[u] = "new" => sap'[u] <= 1)
<1>1. PICK yes \in BOOLEAN :
          /\ sap' = [sap EXCEPT ![u] = @ + IF yes THEN 1 ELSE 0]
          /\ made' = [made EXCEPT ![w] = yes]
          /\ result' = [result EXCEPT ![w] = IF kind[u] = "new" \/ ~yes THEN Verdict(yes) ELSE @]
          /\ pc' = [pc EXCEPT ![w] = IF kind[u] = "new" /\ yes THEN "number" ELSE "state"]
  BY DEF AskCreate, Goto
<1>2. UNCHANGED <<kind, key, view, log, kept, altered, cur, mine, wrote, copy>>
  BY DEF AskCreate, Uploads, Database
<1>3. Truth(u) /\ log[u].state # "received"
  BY DEF AskCreate, Stage
<1>4. kind[u] = "carve" \/ kind[u] = "new"
  BY DEF AskCreate, Path
<1>5. /\ sap'[u] = sap[u] + IF yes THEN 1 ELSE 0
      /\ made'[w] = yes
      /\ result'[w] = IF kind[u] = "new" \/ ~yes THEN Verdict(yes) ELSE result[w]
      /\ pc'[w] = IF kind[u] = "new" /\ yes THEN "number" ELSE "state"
      /\ sap[u] \in Nat
  BY <1>1 DEF TypeOK
<1>6. kind[u] = "new" => sap[u] = 0
  BY <1>3 DEF Truth
<1>7. Outcome(w, u)'
  BY <1>2, <1>3, <1>4, <1>5, <1>6 DEF Outcome, Verdict
<1>8. pc'[w] = "state" => Numbered(w, u)'
  BY <1>2, <1>5 DEF Numbered, Verdict
<1> QED BY <1>5, <1>6, <1>7, <1>8 DEF Stage

LEMMA OwnRaise ==
    ASSUME TypeOK, Fresh, Path, NEW w \in Worker, NEW u \in Upload, u = cur[w], Stage(w, u), Raise(w),
           u \notin torn'
    PROVE  Stage(w, u)' /\ pc'[w] # "idle" /\ sap'[u] = sap[u]
<1>1. PICK carried \in BOOLEAN :
          /\ sap' = [sap EXCEPT ![u] = @ + IF carried /\ pc[w] # "finish" THEN 1 ELSE 0]
          /\ torn' = torn \cup IF carried \/ pc[w] = "finish" THEN {u} ELSE {}
  BY DEF Raise
<1>2. ~carried /\ pc[w] \in {"change", "create"}
  BY <1>1 DEF Raise
<1>3. sap'[u] = sap[u]
  BY <1>1, <1>2 DEF TypeOK
<1>4. UNCHANGED <<kind, key, view, log, kept, altered, cur, wrote, copy>>
  BY DEF Raise, Uploads, Database
<1>5. pc'[w] = "state" /\ result'[w] = "error"
  BY DEF Raise, Goto, TypeOK
<1>6. Truth(u) /\ log[u].state # "received"
  BY <1>2 DEF Stage
<1>7. Outcome(w, u)'
  BY <1>3, <1>4, <1>5, <1>6 DEF Outcome, Truth
<1>8. Numbered(w, u)'
  BY <1>5 DEF Numbered
<1> QED BY <1>3, <1>5, <1>7, <1>8 DEF Stage

LEMMA OwnRead ==
    ASSUME TypeOK, Known, Path, NEW w \in Worker, NEW u \in Upload, u = cur[w], Stage(w, u), ReadLog(w)
    PROVE  Stage(w, u)' /\ pc'[w] # "idle"
<1>1. UNCHANGED <<kind, key, view, log, kept, altered, sap, cur, mine, made, wrote, result>>
  BY DEF ReadLog, Uploads, Database, Buffer
<1>2. pc'[w] = IF pc[w] = "number" THEN "saveNumber" ELSE "saveState"
  BY DEF ReadLog, Goto, TypeOK
<1>3. Outcome(w, u) /\ (pc[w] = "state" => Numbered(w, u)) /\ pc[w] \in {"number", "state"}
  BY DEF ReadLog, Stage
<1>4. Outcome(w, u)' /\ (pc[w] = "state" => Numbered(w, u)')
  BY <1>1, <1>3 DEF Outcome, Numbered
<1>5. copy'[w].was = Seen(w)[copy'[w].of]
  BY DEF ReadLog, TypeOK
<1>6. ASSUME pc'[w] = "saveState", copy'[w].of = u, kind[u] = "new", result[w] = "received"
      PROVE  copy'[w].was.number = u
  <2>1. mine[w][u].number = u
    BY <1>2, <1>3, <1>6 DEF Numbered
  <2>2. mine[w][u] # NoLog
    BY <2>1, ConstType DEF NoLog, Upload
  <2>3. Seen(w)[u] = mine[w][u]
    BY <2>2, SeenType
  <2> QED BY <1>5, <1>6, <2>1, <2>3
<1> QED BY <1>1, <1>2, <1>3, <1>4, <1>6 DEF Stage

LEMMA OwnSave ==
    ASSUME TypeOK, Path, NEW w \in Worker, NEW u \in Upload, u = cur[w], Stage(w, u), SaveLog(w),
           u \notin misled'
    PROVE  Stage(w, u)' /\ pc'[w] # "idle"
<1>1. UNCHANGED <<kind, key, view, log, kept, altered, sap, cur, made, wrote, result>>
  BY DEF SaveLog, Uploads, Database
<1>2. copy[w].of = u
  BY DEF SaveLog, Mislead
<1>3. copy[w].was \in Log
  BY DEF TypeOK
<1>4. mine'[w][u] = IF pc[w] = "saveNumber" THEN [copy[w].was EXCEPT !.number = u]
                                            ELSE [copy[w].was EXCEPT !.state = result[w]]
  BY <1>2 DEF SaveLog, TypeOK
<1>5. pc'[w] = AfterSave(w) /\ pc[w] \in {"saveNumber", "saveState"}
  BY DEF SaveLog, Goto, TypeOK
<1>6. Outcome(w, u)
  BY <1>5 DEF Stage
<1>7. Outcome(w, u)'
  BY <1>1, <1>6 DEF Outcome
<1>8. CASE pc[w] = "saveNumber"
  <2>1. mine'[w][u].number = u
    BY <1>3, <1>4, <1>8 DEF Log
  <2>2. pc'[w] = "state"
    BY <1>5, <1>8 DEF AfterSave
  <2> QED BY <1>7, <2>1, <2>2 DEF Stage, Numbered
<1>9. CASE pc[w] = "saveState"
  <2>1. mine'[w][u].state = result[w] /\ mine'[w][u].number = copy[w].was.number
    BY <1>3, <1>4, <1>9 DEF Log
  <2>2. kind[u] = "new" /\ result[w] = "received" => copy[w].was.number = u
    BY <1>2, <1>9 DEF Stage
  <2>3. pc'[w] \in {"finish", "delete"}
    BY <1>5, <1>9 DEF AfterSave
  <2>4. Numbered(w, u)'
    BY <1>1, <2>1, <2>2 DEF Numbered
  <2> QED BY <1>1, <1>7, <2>1, <2>3, <2>4 DEF Stage
<1> QED BY <1>5, <1>8, <1>9

LEMMA OwnLast ==
    ASSUME TypeOK, NEW w \in Worker, NEW u \in Upload, u = cur[w], Stage(w, u), Finish(w) \/ Delete(w)
    PROVE  Stage(w, u)' /\ pc'[w] # "idle" /\ sap' = sap
<1>1. UNCHANGED <<kind, key, view, log, kept, altered, sap, cur, mine, made, wrote, result, copy>>
  BY DEF Finish, Delete, Uploads, Database, Buffer, Registers
<1>2. pc'[w] \in {"delete", "commit"} /\ pc[w] \in {"finish", "delete"}
  BY DEF Finish, Delete, Goto, TypeOK
<1>3. Idle(w, u) \/ (Outcome(w, u) /\ Numbered(w, u) /\ mine[w][u].state = result[w])
  BY <1>2 DEF Stage
<1>4. Idle(w, u)' \/ (Outcome(w, u) /\ Numbered(w, u) /\ mine[w][u].state = result[w])'
  BY <1>1, <1>3 DEF Idle, Truth, Outcome, Numbered
<1> QED BY <1>1, <1>2, <1>4 DEF Stage

LEMMA OwnCommit ==
    ASSUME TypeOK, Known, NEW w \in Worker, NEW u \in Upload, u = cur[w], Stage(w, u), Commit(w)
    PROVE  Truth(u)' /\ pc'[w] = "idle" /\ sap' = sap
<1>1. UNCHANGED <<kind, key, view, sap>> /\ log' = Seen(w)
  BY DEF Commit, Uploads
<1>2. pc'[w] = "idle"
  BY DropIsFramed DEF Commit
<1>3. kept'[u] = kept[u] + IF made[w] THEN 1 ELSE 0
  BY DEF Commit, Survives, TypeOK
<1>4. wrote[w] => u \in altered'
  BY DEF Commit
<1>5. u \in altered => u \in altered'
  BY DEF Commit
<1>6. log'[u] = IF mine[w][u] = NoLog THEN log[u] ELSE mine[w][u]
  BY <1>1, SeenType
<1>7. kept[u] \in Nat /\ sap[u] \in Nat /\ result[w] \in {"received", "error"}
  BY DEF TypeOK
<1>8. pc[w] = "commit"
  BY DEF Commit
<1>9. CASE Idle(w, u)
  <2>1. log'[u] = log[u] /\ kept'[u] = kept[u]
    BY <1>3, <1>6, <1>7, <1>9 DEF Idle
  <2> QED BY <1>1, <1>2, <1>5, <1>9, <2>1 DEF Idle, Truth
<1>10. CASE Outcome(w, u) /\ Numbered(w, u) /\ mine[w][u].state = result[w]
  <2>1. mine[w][u] # NoLog
    BY <1>7, <1>10 DEF NoLog
  <2>2. log'[u] = mine[w][u]
    BY <1>6, <2>1
  <2>3. view[u] = "done"
    BY <1>8, WorkedOn
  <2>4. CASE result[w] = "received"
    <3>1. sap[u] > 0 /\ kept'[u] > 0 /\ (kind[u] = "header" => u \in altered')
          /\ (kind[u] = "new" => log'[u].number = u) /\ log'[u].state = "received"
      BY <1>3, <1>4, <1>7, <1>10, <2>2, <2>4 DEF Outcome, Numbered
    <3> QED BY <1>1, <1>2, <2>3, <3>1 DEF Truth
  <2>5. CASE result[w] = "error"
    <3>1. log'[u].state = "error" /\ (kind[u] # "carve" => sap[u] = 0)
      BY <1>10, <2>2, <2>5 DEF Outcome
    <3> QED BY <1>1, <1>2, <3>1 DEF Truth
  <2> QED BY <1>7, <2>4, <2>5
<1> QED BY <1>8, <1>9, <1>10 DEF Stage

LEMMA OwnDie ==
    ASSUME TypeOK, NEW w \in Worker, NEW u \in Upload, u = cur[w], Stage(w, u), Die(w), u \notin torn'
    PROVE  Truth(u)' /\ pc'[w] = "idle" /\ sap' = sap
<1>1. UNCHANGED <<kind, key, view, log, kept, altered, sap>> /\ ~made[w]
  BY DEF Die, Uploads, Database
<1>2. pc'[w] = "idle"
  BY DropIsFramed DEF Die
<1>3. Truth(u)
  <2>1. pc[w] \in {"write", "change", "create", "number", "saveNumber", "state", "saveState",
                   "finish", "delete", "commit"} /\ result[w] \in {"received", "error"}
    BY DEF Die, TypeOK
  <2>2. CASE Outcome(w, u)
    BY <1>1, <2>1, <2>2 DEF Outcome, Truth
  <2>3. CASE Idle(w, u)
    BY <2>3 DEF Idle
  <2> QED BY <2>1, <2>2, <2>3 DEF Stage
<1> QED BY <1>1, <1>2, <1>3 DEF Truth

LEMMA OwnStep ==
    ASSUME TypeOK, Known, Fresh, Path, NEW w \in Worker, NEW u \in Upload, u = cur[w], Stage(w, u),
           TaskStep(w), u \notin misled', u \notin torn', kind[u] = "new" => sap[u] <= 1
    PROVE  /\ pc'[w] = "idle" => Truth(u)'
           /\ pc'[w] # "idle" => Stage(w, u)'
           /\ kind[u] = "new" => sap'[u] <= 1
<1>1. CASE WriteOrder(w)
  <2>1. sap' = sap
    BY <1>1 DEF WriteOrder
  <2> QED BY <1>1, <2>1, OwnWriteOrder
<1>2. CASE AskChange(w)
  BY <1>2, OwnAskChange
<1>3. CASE AskCreate(w)
  BY <1>3, OwnAskCreate
<1>4. CASE Raise(w)
  BY <1>4, OwnRaise
<1>5. CASE ReadLog(w)
  <2>1. sap' = sap
    BY <1>5 DEF ReadLog
  <2> QED BY <1>5, <2>1, OwnRead
<1>6. CASE SaveLog(w)
  <2>1. sap' = sap
    BY <1>6 DEF SaveLog
  <2> QED BY <1>6, <2>1, OwnSave
<1>7. CASE SaveFails(w)
  BY <1>7 DEF SaveFails
<1>8. CASE Finish(w) \/ Delete(w)
  BY <1>8, OwnLast
<1>9. CASE Commit(w)
  BY <1>9, OwnCommit
<1>10. CASE Die(w)
  BY <1>10, OwnDie
<1> QED BY <1>1, <1>2, <1>3, <1>4, <1>5, <1>6, <1>7, <1>8, <1>9, <1>10 DEF TaskStep, Work

----------------------------------------------------------------------------
(* All uploads.                                                            *)
(* An upload about which nothing is said by a step keeps what was true.    *)
LEMMA StageStays ==
    ASSUME NEW u, NEW x,
           UNCHANGED <<kind[u], view[u], log[u], sap[u], kept[u]>>, u \in altered <=> u \in altered',
           UNCHANGED <<pc[x], mine[x], made[x], wrote[x], result[x], copy[x]>>, Stage(x, u)
    PROVE  Stage(x, u)'
<1>1. Truth(u)' <=> Truth(u)
  BY DEF Truth
<1>2. (Outcome(x, u)' <=> Outcome(x, u)) /\ (Numbered(x, u)' <=> Numbered(x, u)) /\ (Idle(x, u)' <=> Idle(x, u))
  BY <1>1 DEF Outcome, Numbered, Idle
<1> QED BY <1>1, <1>2 DEF Stage

LEMMA TaskStaged ==
    ASSUME TypeOK, Known, Fresh, OwnLog, Alone, Path, Staged, NEW w \in Worker, TaskStep(w)
    PROVE  Staged'
<1>1. Framed(w)
  BY StepIsFramed
<1>2. SUFFICES ASSUME NEW u \in Upload, u \notin Excepted'
               PROVE  /\ Running(u)' = {} => Truth(u)'
                      /\ \A x \in Running(u)' : Stage(x, u)'
                      /\ kind'[u] = "new" => sap'[u] <= 1
  BY DEF Staged
<1>3. u \notin Excepted /\ u \notin misled' /\ u \notin torn' /\ u \notin doubled /\ u \notin misled
  BY <1>1, <1>2 DEF Framed, Excepted
<1>4. CASE u = cur[w]
  <2>1. w \in Running(u)
    BY <1>1, <1>4 DEF Framed, Running
  <2>2. \A x \in Running(u) : x = w
    BY <1>3, <2>1 DEF Alone
  <2>3. Stage(w, u) /\ (kind[u] = "new" => sap[u] <= 1)
    BY <1>3, <2>1 DEF Staged
  <2>4. /\ pc'[w] = "idle" => Truth(u)'
        /\ pc'[w] # "idle" => Stage(w, u)'
        /\ kind[u] = "new" => sap'[u] <= 1
    BY <1>3, <1>4, <2>3, OwnStep
  <2>5. \A x \in Running(u)' : x = w
    BY <1>1, <2>2 DEF Framed, Running
  <2>6. Running(u)' = {} => pc'[w] = "idle"
    BY <1>1, <1>4 DEF Framed, Running
  <2>7. \A x \in Running(u)' : pc'[x] # "idle"
    BY DEF Running
  <2> QED BY <1>1, <2>4, <2>5, <2>6, <2>7 DEF Framed
<1>5. CASE u # cur[w]
  <2>1. Running(u)' = Running(u)
    BY <1>1, <1>5 DEF Framed, Running
  <2>2. w \notin Running(u)
    BY <1>5 DEF Running
  <2>3. mine[w][u] = NoLog
    BY <1>1, <1>3, <1>5 DEF OwnLog, Framed
  <2>4. log'[u] = log[u]
    BY <1>1, <2>3, SeenType DEF Framed
  <2>5. UNCHANGED <<kind[u], view[u], log[u], sap[u], kept[u]>> /\ (u \in altered <=> u \in altered')
    BY <1>1, <1>5, <2>4 DEF Framed
  <2>6. ASSUME NEW x \in Running(u) PROVE Stage(x, u)'
    <3>1. UNCHANGED <<pc[x], mine[x], made[x], wrote[x], result[x], copy[x]>>
      BY <1>1, <2>2, <2>6 DEF Framed, Running
    <3>2. Stage(x, u)
      BY <1>3, <2>6 DEF Staged
    <3> QED BY <2>5, <3>1, <3>2, StageStays
  <2>7. Running(u) = {} => Truth(u)'
    BY <1>3, <2>5 DEF Staged, Truth
  <2> QED BY <1>3, <2>1, <2>5, <2>6, <2>7 DEF Staged
<1> QED BY <1>4, <1>5

LEMMA TakeStaged ==
    ASSUME TypeOK, Known, Fresh, Staged, NEW w \in Worker, NEW v \in Upload, Take(w, v)
    PROVE  Staged'
<1>1. UNCHANGED <<kind, key, view, log, kept, altered, sap, mine, made, wrote, result, copy, misled, torn>>
  BY DEF Take, Uploads, Database, Buffer, Registers
<1>2. /\ \A x \in Worker \ {w} : pc'[x] = pc[x] /\ cur'[x] = cur[x]
      /\ pc'[w] = First(v) /\ cur'[w] = v /\ pc[w] = "idle"
  BY DEF Take, Goto, TypeOK
<1>3. doubled' = doubled \cup IF Running(v) # {} THEN {v} ELSE {}
  BY DEF Take
<1>4. mine[w] = NoLogs /\ ~made[w]
  BY DEF Take, Fresh
<1>5. \A u \in Upload : Truth(u)' <=> Truth(u)
  BY <1>1 DEF Truth
<1>6. SUFFICES ASSUME NEW u \in Upload, u \notin Excepted'
               PROVE  /\ Running(u)' = {} => Truth(u)'
                      /\ \A x \in Running(u)' : Stage(x, u)'
                      /\ kind'[u] = "new" => sap'[u] <= 1
  BY DEF Staged
<1>7. u \notin Excepted
  BY <1>1, <1>3, <1>6 DEF Excepted
<1>8. First(v) \in {"delete", "create", "change", "write"}
  BY DEF First
<1>9. CASE u = v
  <2>1. Running(u) = {}
    BY <1>3, <1>6, <1>9 DEF Excepted
  <2>2. Truth(u) /\ (kind[u] = "new" => sap[u] <= 1)
    BY <1>7, <2>1 DEF Staged
  <2>3. \A x \in Running(u)' : x = w
    BY <1>2, <2>1 DEF Running
  <2>4. w \in Running(u)'
    BY <1>2, <1>8, <1>9 DEF Running
  <2>5. First(u) # "delete" => log[u].state # "received"
    BY DEF First
  <2>6. Idle(w, u)'
    BY <1>1, <1>4, <1>5, <2>2 DEF Idle, NoLogs
  <2>7. Stage(w, u)'
    BY <1>1, <1>2, <1>5, <1>8, <1>9, <2>2, <2>5, <2>6 DEF Stage
  <2> QED BY <1>1, <2>2, <2>3, <2>4, <2>7
<1>10. CASE u # v
  <2>1. Running(u)' = Running(u) /\ w \notin Running(u)
    BY <1>2, <1>10 DEF Running
  <2>2. ASSUME NEW x \in Running(u) PROVE Stage(x, u)'
    <3>1. UNCHANGED <<pc[x], mine[x], made[x], wrote[x], result[x], copy[x]>>
      BY <1>1, <1>2, <2>1, <2>2 DEF Running
    <3>2. Stage(x, u)
      BY <1>7, <2>2 DEF Staged
    <3>3. UNCHANGED <<kind[u], view[u], log[u], sap[u], kept[u]>> /\ (u \in altered <=> u \in altered')
      BY <1>1
    <3> QED BY <3>1, <3>2, <3>3, StageStays
  <2> QED BY <1>1, <1>5, <1>7, <2>1, <2>2 DEF Staged
<1> QED BY <1>9, <1>10

LEMMA ViewLeaves ==
    ASSUME NEW v \in Upload, Receive(v) \/ Refuse(v) \/ Publish(v) \/ Reappear(v) \/ Expire(v)
    PROVE  /\ UNCHANGED <<kind, key, sap, kept, altered, pc, cur, mine, made, wrote, result, copy, doubled, torn>>
           /\ misled \subseteq misled'
<1> USE DEF Uploads, Database, Buffer, Registers
<1>1. CASE Receive(v)
  BY <1>1 DEF Receive
<1>2. CASE Refuse(v)
  BY <1>2 DEF Refuse, Mislead
<1>3. CASE Publish(v)
  BY <1>3 DEF Publish
<1>4. CASE Reappear(v)
  BY <1>4 DEF Reappear
<1>5. CASE Expire(v)
  BY <1>5 DEF Expire
<1> QED BY <1>1, <1>2, <1>3, <1>4, <1>5

(* The view does not touch the log of an upload somebody works on, and     *)
(* leaves a true one true.                                                 *)
LEMMA ViewOthers ==
    ASSUME TypeOK, Known, NEW v \in Upload, Receive(v) \/ Refuse(v) \/ Publish(v) \/ Reappear(v) \/ Expire(v),
           NEW u \in Upload, u \notin misled', u # v \/ Reappear(v) \/ Expire(v)
    PROVE  log'[u] = log[u] /\ view'[u] = view[u]
<1> USE DEF Uploads, Database, Buffer, Registers
<1>1. CASE Reappear(v) \/ Expire(v)
  BY <1>1 DEF Reappear, Expire
<1>2. CASE Publish(v) /\ u # v
  BY <1>2 DEF Publish, TypeOK
<1>3. CASE Receive(v) /\ u # v
  BY <1>3 DEF Receive, TypeOK
<1>4. CASE Refuse(v) /\ u # v
  <2>1. LastLog(key[v]) \in Upload
    BY <1>4, LastOf DEF Refuse, Known
  <2>2. u # LastLog(key[v])
    BY <1>4 DEF Refuse, Mislead
  <2> QED BY <1>4, <2>1, <2>2 DEF Refuse, TypeOK
<1> QED BY <1>1, <1>2, <1>3, <1>4

LEMMA ViewRunning ==
    ASSUME TypeOK, Known, NEW v \in Upload, Receive(v) \/ Refuse(v) \/ Publish(v) \/ Reappear(v) \/ Expire(v),
           NEW u \in Upload, u \notin misled', NEW x \in Running(u)
    PROVE  log'[u] = log[u] /\ view'[u] = view[u]
<1>1. view[u] = "done"
  BY WorkedOn DEF Running
<1>2. u # v \/ Reappear(v) \/ Expire(v)
  BY <1>1 DEF Receive, Refuse, Publish
<1> QED BY <1>2, ViewOthers

LEMMA ViewLog ==
    ASSUME TypeOK, Known, NEW v \in Upload, Receive(v) \/ Refuse(v) \/ Publish(v) \/ Reappear(v) \/ Expire(v),
           NEW u \in Upload, u \notin misled', Truth(u)
    PROVE  Truth(u)'
<1>1. UNCHANGED <<kind, sap, kept, altered>>
  BY ViewLeaves
<1>2. CASE u # v \/ Reappear(v) \/ Expire(v)
  BY <1>1, <1>2, ViewOthers DEF Truth
<1>3. CASE u = v /\ Receive(v)
  <2>1. log[u].state = "absent" /\ view[u] = "none"
    BY <1>3 DEF Receive, Known
  <2>2. log'[u].state = "progress"
    BY <1>3 DEF Receive, TypeOK, Log
  <2> QED BY <1>1, <2>1, <2>2 DEF Truth
<1>4. CASE u = v /\ Refuse(v)
  <2>1. view[u] = "logged" /\ u = LastLog(key[v])
    BY <1>4 DEF Refuse, Mislead
  <2>2. log'[u].state = "error"
    BY <1>4, <2>1 DEF Refuse, TypeOK, Log
  <2> QED BY <1>1, <2>1, <2>2 DEF Truth
<1>5. CASE u = v /\ Publish(v)
  <2>1. view[u] = "logged" /\ log' = log
    BY <1>5 DEF Publish, Database
  <2> QED BY <1>1, <2>1 DEF Truth
<1> QED BY <1>2, <1>3, <1>4, <1>5

LEMMA ViewStaged ==
    ASSUME TypeOK, Known, Staged, NEW v \in Upload, Receive(v) \/ Refuse(v) \/ Publish(v) \/ Reappear(v) \/ Expire(v)
    PROVE  Staged'
<1>1. UNCHANGED <<kind, key, sap, kept, altered, pc, cur, mine, made, wrote, result, copy, doubled, torn>>
      /\ misled \subseteq misled'
  BY ViewLeaves
<1>2. SUFFICES ASSUME NEW u \in Upload, u \notin Excepted'
               PROVE  /\ Running(u)' = {} => Truth(u)'
                      /\ \A x \in Running(u)' : Stage(x, u)'
                      /\ kind'[u] = "new" => sap'[u] <= 1
  BY DEF Staged
<1>3. u \notin Excepted /\ u \notin misled'
  BY <1>1, <1>2 DEF Excepted
<1>4. Running(u)' = Running(u)
  BY <1>1 DEF Running
<1>5. Running(u) = {} => Truth(u)'
  BY <1>3, ViewLog DEF Staged
<1>6. ASSUME NEW x \in Running(u) PROVE Stage(x, u)'
  <2>1. Stage(x, u)
    BY <1>3, <1>6 DEF Staged
  <2>2. view'[u] = view[u] /\ log'[u] = log[u]
    BY <1>3, <1>6, ViewRunning
  <2> QED BY <1>1, <2>1, <2>2, StageStays
<1> QED BY <1>1, <1>3, <1>4, <1>5, <1>6 DEF Staged

LEMMA ViewRest ==
    ASSUME TypeOK, Fresh, Booked, OwnLog, Alone, Path, NEW v \in Upload,
           Receive(v) \/ Refuse(v) \/ Publish(v) \/ Reappear(v) \/ Expire(v)
    PROVE  Fresh' /\ Booked' /\ OwnLog' /\ Alone' /\ Path'
<1>1. UNCHANGED <<kind, key, sap, kept, altered, pc, cur, mine, made, wrote, result, copy, doubled, torn>>
      /\ misled \subseteq misled'
  BY ViewLeaves
<1>2. Fresh' /\ Path'
  BY <1>1 DEF Fresh, NoLogs, Path
<1>3. \A u \in Upload : Holding(u)' = Holding(u)
  BY <1>1 DEF Holding
<1>4. Booked'
  BY <1>1, <1>3, OtherBooked
<1>5. OwnLog' /\ Alone'
  BY <1>1 DEF OwnLog, Alone, Running
<1> QED BY <1>2, <1>4, <1>5

----------------------------------------------------------------------------
LEMMA InitInvariant == Init => IInv
<1> SUFFICES ASSUME Init PROVE IInv
  OBVIOUS
<1>1. \A u \in Upload : log[u].state = "absent" /\ view[u] = "none" /\ message[u] = "none" /\ sap[u] = 0 /\ kept[u] = 0
  BY DEF Init, NoLog
<1>2. \A w \in Worker : pc[w] = "idle" /\ ~made[w] /\ mine[w] = NoLogs /\ ~wrote[w] /\ result[w] = "error"
  BY DEF Init
<1>3. Known
  BY <1>1, <1>2 DEF Known, NoLogs
<1>4. Fresh /\ OwnLog /\ Path
  BY <1>2 DEF Fresh, OwnLog, Path
<1>5. \A u : Holding(u) = {} /\ Running(u) = {}
  BY <1>2 DEF Holding, Running
<1>6. Booked
  BY <1>1, <1>5, NobodyHolds DEF Booked
<1>7. Alone
  BY <1>5 DEF Alone
<1>8. Staged
  BY <1>1, <1>5 DEF Staged, Truth
<1> QED BY <1>3, <1>4, <1>6, <1>7, <1>8, InitType DEF IInv

LEMMA NextInvariant == IInv /\ [Next]_vars => IInv'
<1> SUFFICES ASSUME IInv, [Next]_vars PROVE IInv'
  OBVIOUS
<1> USE DEF IInv
<1>1. ASSUME NEW u \in Upload, Receive(u) \/ Refuse(u) \/ Publish(u) \/ Reappear(u) \/ Expire(u) PROVE IInv'
  BY <1>1, ViewType, ViewKnown, ViewRest, ViewStaged
<1>2. ASSUME NEW w \in Worker, NEW u \in Upload, Take(w, u) PROVE IInv'
  <2>1. UNCHANGED <<sap, kept, torn>>
    BY <1>2 DEF Take, Database
  <2>2. \A v \in Upload : Holding(v)' = Holding(v)
    BY <1>2, TakeHolding
  <2>3. Booked'
    BY <2>1, <2>2, OtherBooked
  <2> QED BY <1>2, <2>3, TakeType, TakeKnown, TakeFresh, TakeOwnLog, TakeAlone, TakePath, TakeStaged
<1>3. ASSUME NEW w \in Worker, TaskStep(w) PROVE IInv'
  BY <1>3, TaskType, TaskKnown, TaskFresh, TaskBooked, TaskOwnLog, TaskAlone, TaskPath, TaskStaged
<1>4. CASE UNCHANGED vars
  <2>1. UNCHANGED <<kind, key, view, log, message, sap, kept, altered, pc, cur, mine, made,
                    wrote, result, copy, misled, doubled, torn, faults>>
    BY <1>4 DEF vars
  <2>2. TypeOK'
    BY <2>1 DEF TypeOK
  <2>3. Known' /\ Fresh' /\ OwnLog' /\ Path'
    BY <2>1 DEF Known, Fresh, NoLogs, OwnLog, Path
  <2>4. \A u : Holding(u)' = Holding(u) /\ Running(u)' = Running(u)
    BY <2>1 DEF Holding, Running
  <2>5. Booked' /\ Alone'
    BY <2>1, <2>4 DEF Booked, Alone
  <2>6. \A u : Truth(u)' <=> Truth(u)
    BY <2>1 DEF Truth
  <2>7. \A u, x : Stage(x, u) => Stage(x, u)'
    BY <2>1, StageStays
  <2>8. Staged'
    BY <2>1, <2>4, <2>6, <2>7 DEF Staged, Excepted
  <2> QED BY <2>2, <2>3, <2>5, <2>8
<1> QED BY <1>1, <1>2, <1>3, <1>4 DEF Next, TaskStep

LEMMA Invariance == Spec => []IInv
BY InitInvariant, NextInvariant, PTL DEF Spec

(* Type correctness, which here says also that two tasks never have        *)
(* written the same row of a log or the rows of the old order.             *)
THEOREM TypeCorrect == Spec => []TypeOK
<1>1. IInv => TypeOK
  BY DEF IInv
<1> QED BY <1>1, Invariance, PTL

(* However many tasks and uploads there are: an upload that is received    *)
(* has its order in SAP and in the database, and one that failed has none. *)
THEOREM LogsAreTrue == Spec => []LogTellsTruth
<1>1. IInv => LogTellsTruth
  BY DEF IInv, Staged, LogTellsTruth, Truth
<1> QED BY <1>1, Invariance, PTL

(* SAP gets one order for an upload that asks for a new one.               *)
THEOREM OneOrderEach == Spec => []OneOrder
<1>1. IInv => OneOrder
  BY DEF IInv, Staged, OneOrder
<1> QED BY <1>1, Invariance, PTL

(* No order of SAP lacks its rows, whatever the tasks do to one another.   *)
THEOREM NothingOrphaned == Spec => []NoOrphan
<1>1. ASSUME IInv, NEW u \in Upload \ torn, Running(u) = {}
      PROVE  sap[u] = kept[u]
  <2>1. Holding(u) = {}
    BY <1>1 DEF Holding, Running
  <2>2. sap[u] = kept[u] + Cardinality(Holding(u)) /\ kept[u] \in Nat
    BY <1>1 DEF IInv, Booked, TypeOK
  <2> QED BY <2>1, <2>2, NobodyHolds
<1>2. IInv => NoOrphan
  BY <1>1 DEF NoOrphan
<1> QED BY <1>2, Invariance, PTL
=============================================================================
