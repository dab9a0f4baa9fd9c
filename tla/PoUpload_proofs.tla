-------------------------- MODULE PoUpload_proofs --------------------------
(***************************************************************************)
(* Theorems of PoUpload, for any number of files, purchase orders, tasks   *)
(* and faults.  The invariants build on one another:                       *)
(*   Shaped     types; the order in hand is the only one of its number     *)
(*   Kempt      what a task knows of each order it has written             *)
(*   Truth      one task decides a file that was not sent again            *)
(*   Books      each number is of one order, each SAP order has its row    *)
(*   Exclusive  who is inside knows of nobody with the same number         *)
(***************************************************************************)
EXTENDS PoUpload, FiniteSetTheorems, TLAPS

USE BoundAssumption

FileStep(f) == Check(f) \/ Publish(f) \/ Store(f) \/ Withdraw(f) \/ Retry(f) \/ SaveRetry(f)

TaskStep(t) == Begin(t) \/ Work(t) \/ SapRaises(t) \/ CommitRaises(t) \/ RollbackRaises(t)
               \/ Stumble(t) \/ Die(t)

(* Nothing but the tasks touches SAP and the orders.                       *)
Orders == <<content, staff, sales, rows, pc, cur, at, mine, number, answer, result,
            doubled, ruined, torn, faults>>

LEMMA NextSteps ==
    Next <=> (\E f \in File : FileStep(f)) \/ (\E t \in Task : TaskStep(t))
  BY DEF Next, FileStep, TaskStep

LEMMA FileStepKeeps ==
    ASSUME NEW f \in File, FileStep(f), ~Withdraw(f)
    PROVE  UNCHANGED Orders
  BY DEF FileStep, Check, Publish, Store, Retry, SaveRetry, Orders, Uploads, Registers, Marks

LEMMA WithdrawKeeps ==
    ASSUME NEW f \in File, Withdraw(f)
    PROVE  /\ UNCHANGED <<content, staff, sales, rows, pc, cur, at, mine, number, answer, result,
                          doubled, ruined, torn>>
           /\ Fault
  BY DEF Withdraw, Uploads, Registers, Marks

(* A task changes only its own state.                                      *)
LEMMA OthersKeep ==
    ASSUME TypeOK, NEW t \in Task, TaskStep(t), NEW x \in Task, x # t
    PROVE  /\ pc'[x] = pc[x] /\ cur'[x] = cur[x] /\ at'[x] = at[x] /\ mine'[x] = mine[x]
           /\ number'[x] = number[x] /\ answer'[x] = answer[x] /\ result'[x] = result[x]
<1>0. /\ pc \in [Task -> Inside \cup {"idle", "receive", "start", "final"}] /\ cur \in [Task -> File]
      /\ at \in [Task -> Nat] /\ mine \in [Task -> SUBSET Order] /\ number \in [Task -> 0..Len(sales)]
      /\ answer \in [Task -> {"accepted", "part", "refused", "being"}]
      /\ result \in [Task -> {"success", "fail", "being"}]
  BY DEF TypeOK
<1> USE <1>0 DEF Goto, Ended, Save, Forget, Registers
<1>1. CASE Begin(t) \/ Leave(t) \/ Validate(t) \/ (\E f \in File : Receive(t, f)) \/ Finish(t)
  BY <1>1 DEF Begin, Leave, Validate, Receive, Finish
<1>2. CASE Prepare(t) \/ Stumble(t)
  BY <1>2 DEF Prepare, Stumble
<1>3. CASE CallSap(t)
  BY <1>3 DEF CallSap
<1>4. CASE SapRaises(t)
  BY <1>4 DEF SapRaises
<1>5. CASE Commit(t) \/ CommitRaises(t) \/ Rollback(t)
  BY <1>5 DEF Commit, CommitRaises, Rollback
<1>6. CASE RollbackRaises(t)
  BY <1>6 DEF RollbackRaises
<1>7. CASE CommitFile(t) \/ Die(t)
  BY <1>7 DEF CommitFile, Die
<1> QED BY <1>1, <1>2, <1>3, <1>4, <1>5, <1>6, <1>7 DEF TaskStep, Work

----------------------------------------------------------------------------
(* The order a task works on is the only one of its purchase order.        *)
InHand(t) == pc[t] \in {"sap", "commit", "rollback"}

Shape(t) ==
    /\ pc[t] \notin Inside => mine[t] = {} /\ at[t] = 1 /\ number[t] = 0
    /\ at[t] \in Nat \ {0}
    /\ InHand(t) => at[t] <= Len(content[cur[t]]) /\ \E r \in mine[t] : r.po = Current(t)
    /\ \A r \in mine[t] : \E i \in 1..Len(content[cur[t]]) :
          r.po = content[cur[t]][i] /\ (i < at[t] \/ (InHand(t) /\ i = at[t]))
    /\ \A r, s \in mine[t] : r.po = s.po => r = s

Distinct == \A f \in File : \A i, j \in 1..Len(content[f]) : i # j => content[f][i] # content[f][j]

Shaped == TypeOK /\ Distinct /\ \A t \in Task : Shape(t)

LEMMA AtWork ==
    ASSUME TypeOK, NEW t \in Task, Shape(t), InHand(t)
    PROVE  /\ Mine(t) \in mine[t] /\ Mine(t) \in Order
           /\ Mine(t).po = Current(t) /\ Mine(t).file = cur[t]
           /\ Current(t) \in PO /\ at[t] \in 1..Len(content[cur[t]]) /\ Current(t) \in POs(cur[t])
           /\ \A r \in mine[t] : r.po = Current(t) => r = Mine(t)
<1>1. PICK r \in mine[t] : r.po = Current(t)
  BY DEF Shape
<1>2. Mine(t) \in mine[t] /\ Mine(t).po = Current(t)
  BY <1>1 DEF Mine
<1>3. content[cur[t]] \in Seq(PO) /\ at[t] \in 1..Len(content[cur[t]])
  BY DEF TypeOK, Shape
<1>4. Current(t) \in PO /\ Current(t) \in POs(cur[t])
  BY <1>3 DEF Current, POs
<1>5. mine[t] \subseteq Order /\ Mine(t).file = cur[t]
  BY <1>2 DEF TypeOK
<1> QED BY <1>2, <1>3, <1>4, <1>5 DEF Shape

(* What the handlers make of an order is an order of the same number.      *)
LEMMA OrderKept ==
    ASSUME NEW r \in Order, NEW n \in Nat, NEW b \in BOOLEAN
    PROVE  /\ [r EXCEPT !.success = FALSE, !.being = b] \in Order
           /\ [r EXCEPT !.success = FALSE, !.silent = TRUE] \in Order
           /\ Acknowledged(r, b) \in Order /\ [Acknowledged(r, b) EXCEPT !.number = n] \in Order
           /\ Marked(r, n) \in Order /\ [Marked(r, n) EXCEPT !.lines = b] \in Order
           /\ Acknowledged(r, b).po = r.po /\ Acknowledged(r, b).file = r.file
           /\ Marked(r, n).po = r.po /\ Marked(r, n).file = r.file
  BY DEF Order, Number, Acknowledged, Marked

(* The orders of a task after it has saved one.                            *)
LEMMA Saved ==
    ASSUME TypeOK, NEW t \in Task, NEW r, Save(t, r)
    PROVE  \E others \in SUBSET {o \in mine[t] : o.po # r.po} :
              mine' = [mine EXCEPT ![t] = others \cup {r}]
  BY DEF TypeOK, Save

LEMMA Bounds == 1 \in File /\ 1 \in Task /\ File \subseteq Nat /\ Task \subseteq Nat
  BY DEF File, Task

(* The order a task has in hand is saved in a new form, while others may   *)
(* be dropped; and either it goes on with it or the order is over.         *)
LEMMA ShapeSaved ==
    ASSUME Shaped, NEW t \in Task, InHand(t), NEW r \in Order, r.po = Current(t), r.file = cur[t],
           NEW others \in SUBSET {o \in mine[t] : o.po # r.po}, mine' = [mine EXCEPT ![t] = others \cup {r}],
           UNCHANGED <<content, cur>>,
           \/ Ended(t)
           \/ \E p \in {"sap", "commit", "rollback"} : Goto(t, p) /\ UNCHANGED at,
           UNCHANGED number \/ \E n \in Nat : number' = [number EXCEPT ![t] = n]
    PROVE  /\ mine' \in [Task -> SUBSET Order] /\ \A o \in mine'[t] : o.file = cur'[t]
           /\ pc'[t] \in Inside /\ Shape(t)'
<1>0. /\ pc \in [Task -> Inside \cup {"idle", "receive", "start", "final"}]
      /\ at \in [Task -> Nat] /\ mine \in [Task -> SUBSET Order] /\ Shape(t) /\ at[t] \in Nat \ {0}
  BY DEF TypeOK, Shaped, Shape
<1>1. mine'[t] = others \cup {r}
  BY <1>0
<1>2. mine' \in [Task -> SUBSET Order]
  BY <1>0
<1>3. \A o \in mine'[t] : o.file = cur'[t]
  BY <1>1 DEF Shaped, TypeOK
<1>4. \/ pc'[t] = "order" /\ at'[t] = at[t] + 1
      \/ pc'[t] \in {"sap", "commit", "rollback"} /\ at'[t] = at[t]
  BY <1>0 DEF Ended, Goto
<1>5. at[t] \in 1..Len(content[cur[t]]) /\ content[cur[t]] \in Seq(PO)
  BY AtWork DEF Shaped, TypeOK
<1>6. ASSUME NEW o \in mine'[t]
      PROVE  \E i \in 1..Len(content[cur[t]]) : o.po = content[cur[t]][i] /\ (i < at'[t] \/ (InHand(t)' /\ i = at'[t]))
  <2>1. CASE o = r
    <3>1. o.po = content[cur[t]][at[t]] /\ (at[t] < at'[t] \/ (InHand(t)' /\ at[t] = at'[t]))
      BY <1>0, <1>4, <2>1 DEF InHand, Current
    <3> QED BY <1>5, <3>1
  <2>2. CASE o # r
    <3>1. o \in mine[t] /\ o.po # Current(t)
      BY <1>1, <1>6, <2>2
    <3>2. PICK i \in 1..Len(content[cur[t]]) : o.po = content[cur[t]][i] /\ i < at[t]
      BY <1>0, <3>1 DEF Shape, Current
    <3>3. i < at'[t]
      BY <1>0, <1>4, <1>5, <3>2
    <3> QED BY <3>2, <3>3
  <2> QED BY <2>1, <2>2
<1>7. \A o, q \in mine'[t] : o.po = q.po => o = q
  BY <1>0, <1>1 DEF Shape
<1>8. InHand(t)' => at'[t] <= Len(content[cur[t]]) /\ \E o \in mine'[t] : o.po = Current(t)'
  BY <1>0, <1>1, <1>4, <1>5 DEF InHand, Current
<1> QED BY <1>0, <1>2, <1>3, <1>4, <1>6, <1>7, <1>8 DEF Shape, Inside

(* A task with no order in hand takes one, or leaves it out.               *)
LEMMA ShapeTaken ==
    ASSUME Shaped, NEW t \in Task, Prepare(t)
    PROVE  /\ mine' \in [Task -> SUBSET Order] /\ \A o \in mine'[t] : o.file = cur'[t]
           /\ pc'[t] \in Inside /\ Shape(t)'
<1>0. /\ pc \in [Task -> Inside \cup {"idle", "receive", "start", "final"}]
      /\ at \in [Task -> Nat] /\ mine \in [Task -> SUBSET Order] /\ Shape(t) /\ at[t] \in Nat \ {0}
      /\ cur[t] \in File /\ content[cur[t]] \in Seq(PO)
      /\ UNCHANGED <<content, cur, number>>
      /\ pc[t] = "order" /\ at[t] \in 1..Len(content[cur[t]]) /\ at[t] <= Len(content[cur[t]])
  BY DEF TypeOK, Shaped, Shape, Prepare, Uploads
<1>1. ~InHand(t)
  BY <1>0 DEF InHand
<1>2. CASE Ended(t) /\ mine' = mine
  <2>1. pc'[t] = "order" /\ at'[t] = at[t] + 1 /\ ~InHand(t)'
    BY <1>0, <1>2 DEF Ended, Goto, InHand
  <2>2. ASSUME NEW o \in mine[t]
        PROVE  \E i \in 1..Len(content[cur[t]]) : o.po = content[cur[t]][i] /\ i < at'[t]
    <3>1. PICK i \in 1..Len(content[cur[t]]) : o.po = content[cur[t]][i] /\ i < at[t]
      BY <1>0, <1>1 DEF Shape
    <3>2. i < at'[t]
      BY <1>0, <2>1, <3>1
    <3> QED BY <3>1, <3>2
  <2> QED BY <1>0, <1>2, <2>1, <2>2 DEF Shape, Inside, Shaped, TypeOK
<1>3. CASE mine' = [mine EXCEPT ![t] = @ \cup {Reserved(t)}] /\ Goto(t, "sap") /\ at' = at
  <2>1. /\ pc'[t] = "sap" /\ InHand(t)' /\ Current(t)' = Current(t) /\ Current(t) \in PO
        /\ mine'[t] = mine[t] \cup {Reserved(t)}
    BY <1>0, <1>3 DEF Goto, InHand, Current
  <2>2. Reserved(t) \in Order /\ Reserved(t).po = Current(t) /\ Reserved(t).file = cur[t]
    BY <1>0, <2>1 DEF Reserved, Order, Number
  <2>3. mine' \in [Task -> SUBSET Order]
    BY <1>0, <1>3, <2>2
  <2>4. \A o \in mine'[t] : o.file = cur'[t]
    BY <1>0, <2>1, <2>2 DEF Shaped, TypeOK
  <2>5. ASSUME NEW o \in mine[t] PROVE o.po # Current(t)
    <3>1. PICK i \in 1..Len(content[cur[t]]) : o.po = content[cur[t]][i] /\ i < at[t]
      BY <1>0, <1>1 DEF Shape
    <3> QED BY <1>0, <3>1 DEF Shaped, Distinct, Current
  <2>6. \A o, q \in mine'[t] : o.po = q.po => o = q
    BY <1>0, <2>1, <2>2, <2>5 DEF Shape
  <2>7. ASSUME NEW o \in mine'[t]
        PROVE  \E i \in 1..Len(content[cur[t]]) : o.po = content[cur[t]][i] /\ (i < at[t] \/ i = at[t])
    BY <1>0, <1>1, <2>1, <2>2 DEF Shape, Current
  <2> QED BY <1>0, <1>3, <2>1, <2>2, <2>3, <2>4, <2>6, <2>7 DEF Shape, Inside
<1> QED BY <1>2, <1>3 DEF Prepare

(* The steps with an order in hand, by what they have in common.           *)
HandStep(t) == CallSap(t) \/ SapRaises(t) \/ Commit(t) \/ CommitRaises(t) \/ Rollback(t)
               \/ RollbackRaises(t) \/ Stumble(t)

Rewrites(t, r, others) ==
    /\ r.po = Current(t) /\ r.file = cur[t]
    /\ mine' = [mine EXCEPT ![t] = others \cup {r}]

LEMMA HandFrame ==
    ASSUME Shaped, NEW t \in Task, HandStep(t)
    PROVE  /\ InHand(t)
           /\ Ended(t) \/ \E p \in {"sap", "commit", "rollback"} : Goto(t, p) /\ UNCHANGED at
           /\ UNCHANGED number \/ (number' = [number EXCEPT ![t] = Len(sales) + 1] /\ sales' # sales)
           /\ sales' = sales \/ sales' = Append(sales, [file |-> cur[t], po |-> Current(t)])
           /\ UNCHANGED <<content, staff, view, retrying, retries, message, log, rows, cur, result, missed,
                          undone, doubled>>
           /\ torn' = torn \/ torn' = torn \cup {cur[t]}
           /\ ruined' = ruined \/ ruined' = ruined \cup {number[t]}
           /\ UNCHANGED faults \/ Fault
           /\ answer' \in [Task -> {"accepted", "part", "refused", "being"}]
<1>1. InHand(t)
  BY DEF HandStep, CallSap, SapRaises, Commit, CommitRaises, Rollback, RollbackRaises, Stumble, InHand
<1>2. Mine(t).po = Current(t)
  BY <1>1, AtWork DEF Shaped
<1>3. /\ answer \in [Task -> {"accepted", "part", "refused", "being"}]
      /\ sales \in Seq([file : File, po : PO])
  BY DEF Shaped, TypeOK
<1>4. Ended(t) => answer' \in [Task -> {"accepted", "part", "refused", "being"}]
  BY <1>3 DEF Ended
<1>5. Append(sales, [file |-> cur[t], po |-> Current(t)]) # sales
  BY <1>3
<1> USE DEF Uploads, Views, Marks
<1>6. CASE CallSap(t)
  <2>1. answer' \in [Task -> {"accepted", "part", "refused", "being"}]
    BY <1>3, <1>6 DEF CallSap
  <2> QED BY <1>1, <1>2, <1>5, <1>6, <2>1 DEF CallSap
<1>7. CASE SapRaises(t)
  BY <1>1, <1>2, <1>4, <1>7 DEF SapRaises
<1>8. CASE Commit(t)
  BY <1>1, <1>3, <1>4, <1>8 DEF Commit
<1>9. CASE CommitRaises(t)
  BY <1>1, <1>4, <1>9 DEF CommitRaises
<1>10. CASE Rollback(t)
  BY <1>1, <1>4, <1>10 DEF Rollback
<1>11. CASE RollbackRaises(t)
  <2>1. ruined' = ruined \/ ruined' = ruined \cup {number[t]}
    BY <1>11 DEF RollbackRaises
  <2> QED BY <1>1, <1>4, <1>11, <2>1 DEF RollbackRaises
<1>12. CASE Stumble(t)
  BY <1>1, <1>4, <1>12 DEF Stumble
<1> QED BY <1>6, <1>7, <1>8, <1>9, <1>10, <1>11, <1>12 DEF HandStep

LEMMA HandRewrites ==
    ASSUME Shaped, NEW t \in Task, HandStep(t)
    PROVE  \E r \in Order : \E others \in SUBSET {o \in mine[t] : o.po # r.po} : Rewrites(t, r, others)
<1>1. InHand(t)
  BY DEF HandStep, CallSap, SapRaises, Commit, CommitRaises, Rollback, RollbackRaises, Stumble, InHand
<1>2. /\ Mine(t) \in mine[t] /\ Mine(t) \in Order /\ Mine(t).po = Current(t) /\ Mine(t).file = cur[t]
      /\ \A r \in mine[t] : r.po = Current(t) => r = Mine(t)
  BY <1>1, AtWork DEF Shaped
<1>3. /\ mine \in [Task -> SUBSET Order] /\ number[t] \in Nat /\ TypeOK
      /\ answer \in [Task -> {"accepted", "part", "refused", "being"}]
  BY DEF Shaped, TypeOK
<1>4. ASSUME NEW r \in Order, r.po = Current(t), r.file = cur[t], Save(t, r)
      PROVE  \E others \in SUBSET {o \in mine[t] : o.po # r.po} : Rewrites(t, r, others)
  BY <1>3, <1>4, Saved DEF Rewrites
<1>5. ASSUME UNCHANGED mine
      PROVE  \E others \in SUBSET {o \in mine[t] : o.po # Mine(t).po} : Rewrites(t, Mine(t), others)
  <2>1. mine[t] = (mine[t] \ {Mine(t)}) \cup {Mine(t)}
    BY <1>2
  <2>2. mine' = [mine EXCEPT ![t] = (mine[t] \ {Mine(t)}) \cup {Mine(t)}]
    BY <1>3, <1>5, <2>1
  <2>3. mine[t] \ {Mine(t)} \in SUBSET {o \in mine[t] : o.po # Mine(t).po}
    BY <1>2
  <2> QED BY <1>2, <2>2, <2>3 DEF Rewrites
<1>6. CASE CallSap(t)
  <2>1. PICK a \in {"accepted", "part", "refused", "being"} :
          /\ answer' = [answer EXCEPT ![t] = a]
          /\ IF a \in {"accepted", "part"}
             THEN /\ sales' = Append(sales, [file |-> cur[t], po |-> Mine(t).po])
                  /\ number' = [number EXCEPT ![t] = Len(sales) + 1]
                  /\ Goto(t, "commit")
                  /\ UNCHANGED mine
             ELSE /\ Save(t, [Mine(t) EXCEPT !.success = FALSE, !.being = (a = "being")])
                  /\ Goto(t, "rollback")
                  /\ UNCHANGED <<sales, number>>
    BY <1>6 DEF CallSap
  <2>2. /\ [Mine(t) EXCEPT !.success = FALSE, !.being = (a = "being")] \in Order
        /\ [Mine(t) EXCEPT !.success = FALSE, !.being = (a = "being")].po = Current(t)
        /\ [Mine(t) EXCEPT !.success = FALSE, !.being = (a = "being")].file = cur[t]
    BY <1>2 DEF Order
  <2>3. \E r \in Order : \E others \in SUBSET {o \in mine[t] : o.po # r.po} : Rewrites(t, r, others)
    <3>1. CASE a \in {"accepted", "part"}
      BY <1>2, <1>5, <2>1, <3>1
    <3>2. CASE a \notin {"accepted", "part"}
      BY <1>4, <2>1, <2>2, <3>2
    <3> QED BY <3>1, <3>2
  <2> QED BY <2>3
<1>7. CASE SapRaises(t)
  <2>1. /\ [Mine(t) EXCEPT !.success = FALSE, !.silent = TRUE] \in Order
        /\ [Mine(t) EXCEPT !.success = FALSE, !.silent = TRUE].po = Current(t)
        /\ [Mine(t) EXCEPT !.success = FALSE, !.silent = TRUE].file = cur[t]
    BY <1>2 DEF Order
  <2> QED BY <1>4, <1>7, <2>1 DEF SapRaises
<1>8. CASE Commit(t)
  <2>1. PICK yes \in BOOLEAN : Save(t, [Acknowledged(Mine(t), yes) EXCEPT !.number = number[t]])
    BY <1>8 DEF Commit
  <2>2. /\ Acknowledged(Mine(t), yes) \in Order
        /\ Acknowledged(Mine(t), yes).po = Current(t) /\ Acknowledged(Mine(t), yes).file = cur[t]
    BY <1>2, OrderKept, <1>3
  <2>3. /\ [Acknowledged(Mine(t), yes) EXCEPT !.number = number[t]] \in Order
        /\ [Acknowledged(Mine(t), yes) EXCEPT !.number = number[t]].po = Current(t)
        /\ [Acknowledged(Mine(t), yes) EXCEPT !.number = number[t]].file = cur[t]
    BY <1>3, <2>2 DEF Order, Number
  <2> QED BY <1>4, <2>1, <2>3
<1>9. CASE CommitRaises(t)
  <2>1. /\ Marked(Mine(t), number[t]) \in Order /\ Marked(Mine(t), number[t]).po = Current(t)
        /\ Marked(Mine(t), number[t]).file = cur[t]
    BY <1>2, <1>3, OrderKept
  <2> QED BY <1>4, <1>9, <2>1 DEF CommitRaises
<1>10. CASE Rollback(t)
  <2>1. PICK yes \in BOOLEAN :
          Save(t, IF answer[t] = "part" /\ yes THEN Mine(t) ELSE Acknowledged(Mine(t), yes))
    BY <1>10 DEF Rollback
  <2>2. /\ Acknowledged(Mine(t), yes) \in Order
        /\ Acknowledged(Mine(t), yes).po = Current(t) /\ Acknowledged(Mine(t), yes).file = cur[t]
    BY <1>2, OrderKept, <1>3
  <2> QED BY <1>2, <1>4, <2>1, <2>2
<1>11. CASE RollbackRaises(t)
  <2> DEFINE n     == number[t]
             own   == n # 0 /\ Mine(t).number = n
             after == [Marked(Mine(t), n) EXCEPT !.lines = @ /\ ~own]
             others == {r \in mine[t] : r.po # after.po /\ (n = 0 \/ r.number # n)}
  <2>1. mine' = [mine EXCEPT ![t] = others \cup {after}]
    BY <1>11 DEF RollbackRaises
  <2>2. /\ Marked(Mine(t), n) \in Order /\ Marked(Mine(t), n).po = Current(t)
        /\ Marked(Mine(t), n).file = cur[t]
    BY <1>2, <1>3, OrderKept
  <2>3. after \in Order /\ after.po = Current(t) /\ after.file = cur[t]
    BY <2>2 DEF Order
  <2>4. others \in SUBSET {o \in mine[t] : o.po # after.po}
    OBVIOUS
  <2> HIDE DEF after, others
  <2> QED BY <2>1, <2>3, <2>4 DEF Rewrites
<1>12. CASE Stumble(t)
  BY <1>2, <1>5, <1>12 DEF Stumble
<1> QED BY <1>6, <1>7, <1>8, <1>9, <1>10, <1>11, <1>12 DEF HandStep

(* The steps outside the orders of a file.                                 *)
OuterStep(t) == Begin(t) \/ Leave(t) \/ (\E f \in File : Receive(t, f)) \/ Finish(t)
                \/ (Validate(t) /\ Repeated(cur[t]))

TaskPc == Inside \cup {"idle", "receive", "start", "final"}

LEMMA TaskSteps ==
    ASSUME NEW t \in Task
    PROVE  TaskStep(t) <=> \/ OuterStep(t) \/ (Validate(t) /\ ~Repeated(cur[t]))
                           \/ Prepare(t) \/ HandStep(t) \/ CommitFile(t) \/ Die(t)
  BY DEF TaskStep, Work, OuterStep, HandStep

LEMMA OuterFrame ==
    ASSUME TypeOK, NEW t \in Task, OuterStep(t)
    PROVE  /\ pc[t] \notin Inside /\ pc'[t] \notin Inside
           /\ pc' \in [Task -> TaskPc] /\ cur' \in [Task -> File]
           /\ result' \in [Task -> {"success", "fail", "being"}]
           /\ UNCHANGED <<content, staff, sales, rows, view, retrying, retries, at, mine, number, answer,
                          undone, doubled, ruined, torn, faults>>
<1>0. pc \in [Task -> TaskPc] /\ cur \in [Task -> File] /\ result \in [Task -> {"success", "fail", "being"}]
  BY DEF TypeOK, TaskPc
<1> USE <1>0, Bounds DEF Inside, TaskPc, Goto, Uploads, Views, Registers, Marks
<1>1. CASE Begin(t)
  BY <1>1 DEF Begin, First
<1>2. CASE Leave(t)
  BY <1>2 DEF Leave
<1>3. ASSUME NEW f \in File, Receive(t, f)
      PROVE  /\ pc[t] \notin Inside /\ pc'[t] \notin Inside
             /\ pc' \in [Task -> TaskPc] /\ cur' \in [Task -> File]
             /\ result' \in [Task -> {"success", "fail", "being"}]
             /\ UNCHANGED <<content, staff, sales, rows, view, retrying, retries, at, mine, number, answer,
                            undone, doubled, ruined, torn, faults>>
  BY <1>3 DEF Receive, First
<1>4. CASE Finish(t)
  BY <1>4 DEF Finish
<1>5. CASE Validate(t) /\ Repeated(cur[t])
  BY <1>5 DEF Validate
<1> QED BY <1>1, <1>2, <1>3, <1>4, <1>5 DEF OuterStep

(* A task enters a file whose log nobody has locked.                       *)
LEMMA EnterFrame ==
    ASSUME TypeOK, NEW t \in Task, Validate(t), ~Repeated(cur[t])
    PROVE  /\ pc[t] = "start" /\ pc' = [pc EXCEPT ![t] = "order"] /\ pc'[t] = "order" /\ ~Locked(cur[t])
           /\ UNCHANGED <<content, staff, sales, rows, view, message, log, cur, retrying, retries, at, mine, number,
                          answer, result, missed, undone, ruined, torn, faults>>
           /\ doubled' = doubled \cup
                UNION {POs(cur[t]) \cap POs(cur[x]) : x \in {y \in Task \ {t} : pc[y] \in Inside}}
  BY DEF TypeOK, Validate, Goto, Uploads, Views, Registers

(* A task leaves a file and forgets its orders.                            *)
LEMMA LeaveFrame ==
    ASSUME TypeOK, NEW t \in Task, CommitFile(t) \/ Die(t)
    PROVE  /\ pc'[t] \notin Inside /\ mine'[t] = {} /\ at'[t] = 1 /\ number'[t] = 0
           /\ pc' \in [Task -> TaskPc] /\ cur' \in [Task -> File]
           /\ result' \in [Task -> {"success", "fail", "being"}]
           /\ answer' \in [Task -> {"accepted", "part", "refused", "being"}]
           /\ mine' \in [Task -> SUBSET Order] /\ at' \in [Task -> Nat]
           /\ number' \in [Task -> 0..Len(sales)]
           /\ UNCHANGED <<content, staff, sales, view, message, retrying, retries, missed, undone, doubled, ruined>>
<1>0. /\ pc \in [Task -> TaskPc] /\ cur \in [Task -> File] /\ result \in [Task -> {"success", "fail", "being"}]
      /\ at \in [Task -> Nat] /\ mine \in [Task -> SUBSET Order] /\ number \in [Task -> 0..Len(sales)]
      /\ answer \in [Task -> {"accepted", "part", "refused", "being"}] /\ Len(sales) \in Nat
  BY DEF TypeOK, TaskPc
<1> USE <1>0, Bounds DEF Inside, TaskPc, Goto, Uploads, Views, Forget
<1>1. CASE CommitFile(t)
  <2>1. Outcome(t) \in {"success", "fail", "being"}
    BY DEF Outcome
  <2> QED BY <1>1, <2>1 DEF CommitFile, Marks
<1>2. CASE Die(t)
  BY <1>2 DEF Die
<1> QED BY <1>1, <1>2

(* No two tasks are inside one file.                                       *)
Separate == \A t, x \in Task : t # x /\ pc[t] \in Inside /\ pc[x] \in Inside => cur[t] # cur[x]

LEMMA SeparateStep ==
    ASSUME Shaped, NEW t \in Task, TaskStep(t)
    PROVE  Separate'
<1>0. Separate /\ \A x \in Task : x # t => pc'[x] = pc[x] /\ cur'[x] = cur[x]
  BY OthersKeep DEF Separate, Shaped, TypeOK
<1>1. CASE OuterStep(t) \/ CommitFile(t) \/ Die(t)
  BY <1>0, <1>1, OuterFrame, LeaveFrame DEF Separate, Shaped
<1>2. CASE Validate(t) /\ ~Repeated(cur[t])
  BY <1>0, <1>2, EnterFrame DEF Separate, Shaped, Locked
<1>3. CASE Prepare(t)
  BY <1>0, <1>3 DEF Separate, Prepare, Inside
<1>4. CASE HandStep(t)
  <2>1. pc[t] \in Inside /\ cur' = cur
    BY <1>4, HandFrame DEF InHand, Inside
  <2> QED BY <1>0, <2>1 DEF Separate
<1> QED BY <1>1, <1>2, <1>3, <1>4, TaskSteps

LogState == {"absent", "queued", "running", "success", "fail", "being"}

(* The part of the types that uploads, messages and logs are in.           *)
FileTypes ==
    /\ view \in [File -> {"none", "checked", "published", "done", "refused"}]
    /\ message \in [File -> Nat] /\ retrying \in [File -> Nat]
    /\ retries \in 0..MaxTrouble /\ log \in [File -> LogState]
    /\ missed \subseteq File /\ undone \subseteq File /\ faults \in 0..MaxTrouble

LEMMA FileStepTypes ==
    ASSUME TypeOK, NEW f \in File, FileStep(f)
    PROVE  FileTypes'
<1>0. FileTypes
  BY DEF TypeOK, FileTypes, LogState
<1>1. CASE Check(f) \/ Publish(f) \/ Store(f)
  BY <1>0, <1>1 DEF FileTypes, LogState, Check, Publish, Store, Marks
<1>2. CASE Withdraw(f)
  BY <1>0, <1>2 DEF FileTypes, Withdraw, Marks, Fault
<1>3. CASE Retry(f)
  BY <1>0, <1>3 DEF FileTypes, Retry, Marks
<1>4. CASE SaveRetry(f)
  BY <1>0, <1>4 DEF FileTypes, LogState, SaveRetry
<1> QED BY <1>1, <1>2, <1>3, <1>4 DEF FileStep

LEMMA TaskFileTypes ==
    ASSUME Shaped, NEW t \in Task, TaskStep(t)
    PROVE  FileTypes'
<1>0. /\ FileTypes /\ cur[t] \in File /\ result[t] \in {"success", "fail", "being"}
  BY DEF Shaped, TypeOK, FileTypes, LogState
<1>1. CASE OuterStep(t)
  <2>1. CASE Begin(t) \/ Leave(t)
    BY <1>0, <2>1 DEF FileTypes, Begin, Leave, Views, Marks
  <2>2. ASSUME NEW f \in File, Receive(t, f) PROVE FileTypes'
    BY <1>0, <2>2 DEF FileTypes, Receive, Views
  <2>3. CASE Finish(t) \/ Validate(t)
    BY <1>0, <2>3 DEF FileTypes, LogState, Finish, Validate, Views, Marks
  <2> QED BY <1>1, <2>1, <2>2, <2>3 DEF OuterStep
<1>2. CASE Validate(t) /\ ~Repeated(cur[t])
  BY <1>0, <1>2, EnterFrame DEF FileTypes, Shaped
<1>3. CASE Prepare(t)
  BY <1>0, <1>3 DEF FileTypes, Prepare, Views, Marks
<1>4. CASE HandStep(t)
  <2>0. UNCHANGED faults \/ Fault
    BY <1>4, HandFrame
  <2>1. faults' \in 0..MaxTrouble
    BY <1>0, <2>0 DEF FileTypes, Fault
  <2> QED BY <1>0, <1>4, <2>1, HandFrame DEF FileTypes
<1>5. CASE CommitFile(t)
  BY <1>0, <1>5 DEF FileTypes, LogState, CommitFile, Views, Marks
<1>6. CASE Die(t)
  BY <1>0, <1>6 DEF FileTypes, Die, Views, Fault
<1> QED BY <1>1, <1>2, <1>3, <1>4, <1>5, <1>6, TaskSteps

(* Every step keeps the types and the shape of what tasks have in hand.    *)
LEMMA ShapedTask ==
    ASSUME Shaped, NEW t \in Task, TaskStep(t)
    PROVE  Shaped'
<1>0. /\ TypeOK /\ Shape(t) /\ cur[t] \in File /\ number[t] \in Nat
      /\ \A x \in Task : Shape(x)
  BY DEF Shaped, TypeOK
<1>1. FileTypes' /\ Separate'
  BY TaskFileTypes, SeparateStep
<1>2. UNCHANGED <<content, staff>>
  BY <1>0, TaskSteps, OuterFrame, EnterFrame, HandFrame, LeaveFrame DEF Prepare, Uploads
<1>3. ASSUME NEW x \in Task, x # t
      PROVE  Shape(x)' /\ \A r \in mine'[x] : r.file = cur'[x]
  <2>1. Shape(x) /\ \A r \in mine[x] : r.file = cur[x]
    BY <1>0 DEF TypeOK
  <2>2. Current(x)' = Current(x) /\ InHand(x)' = InHand(x)
    BY <1>0, <1>2, <1>3, OthersKeep DEF Current, InHand
  <2> QED BY <1>0, <1>2, <1>3, <2>1, <2>2, OthersKeep DEF Shape
<1>4. SUFFICES
         /\ sales' \in Seq([file : File, po : PO]) /\ rows' \subseteq Order
         /\ pc' \in [Task -> TaskPc] /\ cur' \in [Task -> File] /\ at' \in [Task -> Nat]
         /\ mine' \in [Task -> SUBSET Order] /\ number' \in [Task -> 0..Len(sales')]
         /\ answer' \in [Task -> {"accepted", "part", "refused", "being"}]
         /\ result' \in [Task -> {"success", "fail", "being"}]
         /\ doubled' \subseteq PO /\ ruined' \subseteq Nat /\ torn' \subseteq File
         /\ Shape(t)' /\ \A r \in mine'[t] : r.file = cur'[t]
  <2>1. \A x \in Task : Shape(x)' /\ \A r \in mine'[x] : r.file = cur'[x]
    BY <1>3, <1>4
  <2>2. TypeOK'
    BY <1>0, <1>1, <1>2, <1>4, <2>1 DEF TypeOK, FileTypes, LogState, TaskPc, Separate
  <2> QED BY <1>2, <2>1, <2>2 DEF Shaped, Distinct
<1>5. /\ sales \in Seq([file : File, po : PO]) /\ rows \subseteq Order
      /\ pc \in [Task -> TaskPc] /\ cur \in [Task -> File] /\ at \in [Task -> Nat]
      /\ mine \in [Task -> SUBSET Order] /\ number \in [Task -> 0..Len(sales)]
      /\ answer \in [Task -> {"accepted", "part", "refused", "being"}]
      /\ result \in [Task -> {"success", "fail", "being"}]
      /\ doubled \subseteq PO /\ ruined \subseteq Nat /\ torn \subseteq File
      /\ \A r \in mine[t] : r.file = cur[t]
  BY <1>0 DEF TypeOK, TaskPc
<1>6. CASE OuterStep(t)
  <2>1. mine[t] = {} /\ at[t] = 1 /\ number[t] = 0
    BY <1>0, <1>6, OuterFrame DEF Shape
  <2>2. Shape(t)' /\ \A r \in mine'[t] : r.file = cur'[t]
    BY <1>0, <1>6, <2>1, OuterFrame DEF Shape, InHand, Inside
  <2> QED BY <1>0, <1>5, <1>6, <2>2, OuterFrame
<1>7. CASE Validate(t) /\ ~Repeated(cur[t])
  <2>1. mine[t] = {} /\ at[t] = 1 /\ number[t] = 0
    BY <1>0, <1>7, EnterFrame DEF Shape, Inside
  <2>2. Shape(t)' /\ \A r \in mine'[t] : r.file = cur'[t]
    BY <1>0, <1>7, <2>1, EnterFrame DEF Shape, InHand, Inside
  <2>3. pc' \in [Task -> TaskPc]
    BY <1>0, <1>5, <1>7, EnterFrame DEF TaskPc, Inside
  <2>4. doubled' \subseteq PO
    <3>1. POs(cur[t]) \subseteq PO
      <4>1. content[cur[t]] \in Seq(PO)
        BY <1>0 DEF TypeOK
      <4> QED BY <4>1 DEF POs
    <3> QED BY <1>0, <1>5, <1>7, <3>1, EnterFrame
  <2> QED BY <1>0, <1>5, <1>7, <2>2, <2>3, <2>4, EnterFrame
<1>8. CASE Prepare(t)
  <2>1. /\ mine' \in [Task -> SUBSET Order] /\ \A o \in mine'[t] : o.file = cur'[t]
        /\ Shape(t)'
    BY <1>8, ShapeTaken
  <2>2. /\ pc' \in [Task -> TaskPc] /\ at' \in [Task -> Nat]
        /\ answer' \in [Task -> {"accepted", "part", "refused", "being"}]
    <3>1. "order" \in TaskPc /\ "sap" \in TaskPc
      BY DEF TaskPc, Inside
    <3>2. CASE Ended(t)
      BY <1>5, <3>1, <3>2 DEF Ended, Goto
    <3>3. CASE Goto(t, "sap") /\ UNCHANGED <<at, answer>>
      BY <1>5, <3>1, <3>3 DEF Goto
    <3> QED BY <1>8, <3>2, <3>3 DEF Prepare
  <2>3. UNCHANGED <<sales, rows, cur, number, result, doubled, ruined, torn>>
    BY <1>8 DEF Prepare, Marks
  <2> QED BY <1>5, <2>1, <2>2, <2>3
<1>9. CASE HandStep(t)
  <2>0. /\ InHand(t)
        /\ UNCHANGED number \/ (number' = [number EXCEPT ![t] = Len(sales) + 1] /\ sales' # sales)
        /\ sales' = sales \/ sales' = Append(sales, [file |-> cur[t], po |-> Current(t)])
        /\ UNCHANGED <<rows, cur, result, doubled>>
        /\ torn' = torn \/ torn' = torn \cup {cur[t]}
        /\ ruined' = ruined \/ ruined' = ruined \cup {number[t]}
        /\ answer' \in [Task -> {"accepted", "part", "refused", "being"}]
    BY <1>9, HandFrame
  <2>1. PICK r \in Order : \E others \in SUBSET {o \in mine[t] : o.po # r.po} : Rewrites(t, r, others)
    BY <1>9, HandRewrites
  <2>2. PICK others \in SUBSET {o \in mine[t] : o.po # r.po} : Rewrites(t, r, others)
    BY <2>1
  <2>3. /\ Len(sales) \in Nat /\ Len(sales) + 1 \in Nat
        /\ UNCHANGED number \/ \E n \in Nat : number' = [number EXCEPT ![t] = n]
    <3>1. Len(sales) \in Nat
      BY <1>5
    <3> QED BY <2>0, <3>1
  <2>4. Ended(t) \/ \E p \in {"sap", "commit", "rollback"} : Goto(t, p) /\ UNCHANGED at
    BY <1>9, HandFrame
  <2>5. /\ mine' \in [Task -> SUBSET Order] /\ \A o \in mine'[t] : o.file = cur'[t]
        /\ Shape(t)'
    BY <1>2, <2>0, <2>2, <2>3, <2>4, ShapeSaved DEF Rewrites
  <2>6. pc' \in [Task -> TaskPc] /\ at' \in [Task -> Nat]
    <3>1. {"order", "sap", "commit", "rollback"} \subseteq TaskPc
      BY DEF TaskPc, Inside
    <3>2. CASE Ended(t)
      BY <1>5, <3>1, <3>2 DEF Ended, Goto
    <3>3. ASSUME NEW p \in {"sap", "commit", "rollback"}, Goto(t, p), UNCHANGED at
          PROVE  pc' \in [Task -> TaskPc] /\ at' \in [Task -> Nat]
      BY <1>5, <3>1, <3>3 DEF Goto
    <3> QED BY <2>4, <3>2, <3>3
  <2>7. Current(t) \in PO
    BY <1>0, <2>0, AtWork
  <2>8. /\ sales' \in Seq([file : File, po : PO])
        /\ number' \in [Task -> 0..Len(sales')]
    <3>1. CASE UNCHANGED sales
      BY <1>5, <2>0, <3>1
    <3>2. CASE sales' = Append(sales, [file |-> cur[t], po |-> Current(t)])
      <4>1. sales' \in Seq([file : File, po : PO]) /\ Len(sales') = Len(sales) + 1
        BY <1>0, <1>5, <2>7, <3>2
      <4>2. \A x \in Task : number[x] \in 0..Len(sales')
        BY <1>5, <2>3, <4>1
      <4>3. Len(sales) + 1 \in 0..Len(sales') /\ number \in [Task -> 0..Len(sales')]
        BY <1>5, <2>3, <4>1, <4>2
      <4>4. number' \in [Task -> 0..Len(sales')]
        BY <2>0, <4>3
      <4> QED BY <4>1, <4>4
    <3> QED BY <2>0, <3>1, <3>2
  <2>9. torn' \subseteq File /\ ruined' \subseteq Nat
    BY <1>0, <1>5, <2>0
  <2> QED BY <1>5, <2>0, <2>5, <2>6, <2>8, <2>9
<1>10. CASE CommitFile(t) \/ Die(t)
  <2>1. Shape(t)' /\ \A r \in mine'[t] : r.file = cur'[t]
    BY <1>0, <1>10, LeaveFrame DEF Shape, InHand, Inside
  <2>2. rows' \subseteq Order /\ torn' \subseteq File
    BY <1>0, <1>5, <1>10 DEF CommitFile, Die, Kept, Marks
  <2> QED BY <1>0, <1>5, <1>10, <2>1, <2>2, LeaveFrame
<1> QED BY <1>6, <1>7, <1>8, <1>9, <1>10, TaskSteps

LEMMA ShapedStep == Shaped /\ [Next]_vars => Shaped'
<1> SUFFICES ASSUME Shaped, [Next]_vars PROVE Shaped'
  OBVIOUS
<1>1. CASE UNCHANGED vars
  BY <1>1 DEF vars, Shaped, TypeOK, Distinct, Shape, InHand, Current
<1>2. ASSUME NEW f \in File, FileStep(f) PROVE Shaped'
  <2>1. UNCHANGED <<content, staff, sales, rows, pc, cur, at, mine, number, answer, result,
                    doubled, ruined, torn>>
    BY <1>2, FileStepKeeps, WithdrawKeeps DEF Orders
  <2>2. FileTypes'
    BY <1>2, FileStepTypes DEF Shaped
  <2>3. TypeOK'
    BY <2>1, <2>2 DEF Shaped, TypeOK, FileTypes, LogState
  <2>4. \A t \in Task : Shape(t)'
    BY <2>1 DEF Shaped, Shape, InHand, Current
  <2> QED BY <2>1, <2>3, <2>4 DEF Shaped, Distinct
<1> QED BY <1>1, <1>2, ShapedTask, NextSteps

LEMMA ShapedInit == Init => Shaped
<1> SUFFICES ASSUME Init PROVE Shaped
  OBVIOUS
<1>1. ASSUME NEW f \in File
      PROVE  content[f] \in Seq(PO) /\ \A i, j \in 1..Len(content[f]) : i # j => content[f][i] # content[f][j]
  <2>1. content[f] \in Contents
    BY DEF Init
  <2>2. PICK n \in 1..MaxLength : content[f] \in [1..n -> PO]
    BY <2>1 DEF Contents
  <2>3. content[f] \in Seq(PO) /\ DOMAIN content[f] = 1..Len(content[f])
    BY <2>2
  <2> QED BY <2>1, <2>3 DEF Contents
<1>2. content \in [File -> Seq(PO)]
  BY <1>1 DEF Init
<1> QED BY <1>1, <1>2, Bounds DEF Init, Shaped, TypeOK, Distinct, Shape, InHand, Inside

(* Uploads, logs, orders and the progress of tasks keep their types, and   *)
(* no two tasks are inside one file, whose log is locked.                  *)
THEOREM TypeCorrect == Spec => []TypeOK
<1>1. Shaped => TypeOK
  BY DEF Shaped
<1> QED BY <1>1, ShapedInit, ShapedStep, PTL DEF Spec

----------------------------------------------------------------------------
(* What is true of the orders a task has written: the reservation of each  *)
(* but the one in hand is settled, flagged or lost with SAP's answer; one  *)
(* that counts as a success is in SAP; and a number comes with one or the  *)
(* other.                                                                  *)
Asking(t)   == pc[t] \in {"sap", "commit"} \/ (pc[t] = "rollback" /\ answer[t] # "part")
Covered(r)  == r.stock = "reserved" => r.flag \/ r.silent \/ r.file \in torn
SoldFile(f) == \E n \in 1..Len(sales) : sales[n].file = f

Sound(t, r) ==
    /\ r.number # 0 => r.success \/ r.flag
    /\ r.number # 0 /\ r.being => r.number \in ruined
    /\ Covered(r) \/ (r.po = Current(t) /\ Asking(t))
    /\ r.success => \/ cur[t] \in torn \/ SoldFile(cur[t])
                    \/ pc[t] = "sap" /\ r.po = Current(t)

(* What is true of the order in hand: it has its number from the commit    *)
(* on.                                                                     *)
Fit(t, r) ==
    /\ r.lines
    /\ Asking(t) => r.number = 0
    /\ pc[t] \in {"sap", "commit"} => r.success /\ ~r.being
    /\ pc[t] = "rollback" => r.number \in {0, number[t]}
    /\ pc[t] = "commit" => /\ number[t] \in 1..Len(sales)
                           /\ sales[number[t]] = [file |-> cur[t], po |-> Current(t)]

Orderly(t) == /\ \A r \in mine[t] : Sound(t, r)
              /\ InHand(t) => Fit(t, Mine(t))

(* SAP's orders are never taken back.                                      *)
Grows == /\ Len(sales) \in Nat /\ Len(sales') \in Nat /\ Len(sales) <= Len(sales')
         /\ \A n \in 1..Len(sales) : sales'[n] = sales[n]
         /\ torn \subseteq torn' /\ ruined \subseteq ruined' /\ doubled \subseteq doubled'
         /\ UNCHANGED <<content, staff>>

LEMMA Growing == Shaped /\ [Next]_vars => Grows
<1> SUFFICES ASSUME Shaped, [Next]_vars PROVE Grows
  OBVIOUS
<1>1. sales \in Seq([file : File, po : PO]) /\ Len(sales) \in Nat
  BY DEF Shaped, TypeOK
<1>2. CASE UNCHANGED <<sales, torn, ruined, doubled, content, staff>>
  BY <1>1, <1>2 DEF Grows
<1>3. ASSUME NEW f \in File, FileStep(f) PROVE Grows
  BY <1>2, <1>3, FileStepKeeps, WithdrawKeeps DEF Orders
<1>4. ASSUME NEW t \in Task, TaskStep(t) PROVE Grows
  <2>1. CASE OuterStep(t)
    BY <1>2, <2>1, OuterFrame DEF Shaped
  <2>2. CASE Validate(t) /\ ~Repeated(cur[t])
    BY <1>1, <2>2, EnterFrame DEF Shaped, Grows
  <2>3. CASE Prepare(t)
    BY <1>2, <2>3 DEF Prepare, Uploads, Marks
  <2>4. CASE HandStep(t)
    <3>1. /\ sales' = sales \/ sales' = Append(sales, [file |-> cur[t], po |-> Current(t)])
          /\ UNCHANGED <<content, staff, doubled>>
          /\ torn \subseteq torn' /\ ruined \subseteq ruined'
      BY <2>4, HandFrame
    <3>2. cur[t] \in File /\ Current(t) \in PO
      BY <2>4, HandFrame, AtWork DEF Shaped, TypeOK
    <3>3. CASE sales' = Append(sales, [file |-> cur[t], po |-> Current(t)])
      <4>1. /\ Len(sales') = Len(sales) + 1
            /\ \A n \in 1..Len(sales) : sales'[n] = sales[n]
        BY <1>1, <3>2, <3>3
      <4> QED BY <1>1, <3>1, <4>1 DEF Grows
    <3> QED BY <1>1, <3>1, <3>3 DEF Grows
  <2>5. CASE CommitFile(t) \/ Die(t)
    <3>1. UNCHANGED <<content, staff, sales, doubled, ruined>>
      BY <2>5, LeaveFrame DEF Shaped
    <3>2. torn \subseteq torn'
      BY <2>5 DEF CommitFile, Die, Marks
    <3> QED BY <1>1, <3>1, <3>2 DEF Grows
  <2> QED BY <1>4, <2>1, <2>2, <2>3, <2>4, <2>5, TaskSteps
<1> QED BY <1>2, <1>3, <1>4, NextSteps DEF vars

(* What holds of an order that is over goes on to hold.                    *)
LEMMA SoundStays ==
    ASSUME Grows, NEW t \in Task, NEW r, Sound(t, r), cur'[t] = cur[t],
           ~(Asking(t) /\ r.po = Current(t))
    PROVE  Sound(t, r)'
<1>1. SoldFile(cur[t]) => SoldFile(cur[t])'
  BY DEF Grows, SoldFile
<1> QED BY <1>1 DEF Grows, Sound, Covered, Asking, SoldFile

LEMMA OrderlySaved ==
    ASSUME Shaped, Shaped', Grows, NEW t \in Task, InHand(t), Orderly(t), NEW r \in Order,
           r.po = Current(t), NEW others \in SUBSET {o \in mine[t] : o.po # r.po},
           mine' = [mine EXCEPT ![t] = others \cup {r}], cur' = cur,
           Ended(t) \/ \E p \in {"sap", "commit", "rollback"} : Goto(t, p) /\ UNCHANGED at,
           Sound(t, r)', InHand(t)' => Fit(t, r)'
    PROVE  Orderly(t)'
<1>1. mine'[t] = others \cup {r}
  BY DEF Shaped, TypeOK
<1>2. \A o \in others : Sound(t, o)'
  BY SoundStays DEF Orderly
<1>3. InHand(t)' => Mine(t)' = r
  <2> SUFFICES ASSUME InHand(t)' PROVE Mine(t)' = r
    OBVIOUS
  <2>1. at' = at /\ content' = content
    <3>1. ~Ended(t)
      BY DEF Ended, Goto, InHand, Shaped, TypeOK
    <3> QED BY <3>1 DEF Grows
  <2>2. Current(t)' = r.po
    BY <2>1 DEF Current
  <2>3. \A o \in mine'[t] : o.po = r.po <=> o = r
    BY <1>1
  <2> QED BY <1>1, <2>2, <2>3 DEF Mine
<1> QED BY <1>1, <1>2, <1>3 DEF Orderly

(* The steps with an order in hand keep that: what they save of it, and    *)
(* what they leave in hand.                                                *)
LEMMA OrderlyHand ==
    ASSUME Shaped, Shaped', Grows, NEW t \in Task, HandStep(t), Orderly(t)
    PROVE  Orderly(t)'
<1>0. /\ InHand(t) /\ cur' = cur /\ content' = content
      /\ Ended(t) \/ \E p \in {"sap", "commit", "rollback"} : Goto(t, p) /\ UNCHANGED at
      /\ UNCHANGED number \/ (number' = [number EXCEPT ![t] = Len(sales) + 1] /\ sales' # sales)
  BY HandFrame
<1>m. PICK m \in Order : m = Mine(t)
  BY <1>0, AtWork DEF Shaped
<1>1. /\ m \in mine[t] /\ m \in Order /\ m.po = Current(t) /\ m.file = cur[t]
      /\ \A r \in mine[t] : r.po = Current(t) => r = m
      /\ Fit(t, m) /\ Sound(t, m)
  BY <1>0, <1>m, AtWork DEF Shaped, Orderly
<1>2. /\ pc \in [Task -> TaskPc] /\ cur[t] \in File /\ mine \in [Task -> SUBSET Order] /\ TypeOK
      /\ number \in [Task -> 0..Len(sales)] /\ number[t] \in Nat
      /\ answer \in [Task -> {"accepted", "part", "refused", "being"}]
      /\ at \in [Task -> Nat] /\ at[t] \in Nat
      /\ sales \in Seq([file : File, po : PO]) /\ Len(sales) \in Nat
  <2>1. TypeOK
    BY DEF Shaped
  <2>2. /\ number \in [Task -> 0..Len(sales)] /\ sales \in Seq([file : File, po : PO])
        /\ at \in [Task -> Nat] /\ cur \in [Task -> File]
        /\ answer \in [Task -> {"accepted", "part", "refused", "being"}]
        /\ pc \in [Task -> TaskPc] /\ mine \in [Task -> SUBSET Order]
    BY <2>1 DEF TypeOK, TaskPc
  <2> QED BY <2>1, <2>2
<1>3. Ended(t) => pc'[t] = "order" /\ ~InHand(t)' /\ ~Asking(t)'
  BY <1>2 DEF Ended, Goto, InHand, Asking
<1>4. ASSUME NEW r \in Order, r.po = m.po, Save(t, r), Sound(t, r)', InHand(t)' => Fit(t, r)'
      PROVE  Orderly(t)'
  <2>1. PICK others \in SUBSET {o \in mine[t] : o.po # r.po} : mine' = [mine EXCEPT ![t] = others \cup {r}]
    BY <1>2, <1>4, Saved
  <2> QED BY <1>0, <1>1, <1>4, <2>1, OrderlySaved
<1>5. ASSUME UNCHANGED mine, Sound(t, m)', InHand(t)' => Fit(t, m)'
      PROVE  Orderly(t)'
  <2>1. mine[t] = (mine[t] \ {m}) \cup {m}
    BY <1>1
  <2>2. mine' = [mine EXCEPT ![t] = (mine[t] \ {m}) \cup {m}]
    BY <1>2, <1>5, <2>1
  <2>3. mine[t] \ {m} \in SUBSET {o \in mine[t] : o.po # m.po}
    BY <1>1
  <2> QED BY <1>0, <1>1, <1>5, <2>2, <2>3, OrderlySaved
<1>6. SoldFile(cur[t]) => SoldFile(cur[t])'
  BY <1>0 DEF Grows, SoldFile
<1>7. CASE CallSap(t)
  <2>0. pc[t] = "sap" /\ m.number = 0 /\ m.success /\ ~m.being /\ m.lines
    BY <1>1, <1>7 DEF CallSap, Fit, Asking
  <2>1. PICK a \in {"accepted", "part", "refused", "being"} :
          /\ answer' = [answer EXCEPT ![t] = a]
          /\ IF a \in {"accepted", "part"}
             THEN /\ sales' = Append(sales, [file |-> cur[t], po |-> m.po])
                  /\ number' = [number EXCEPT ![t] = Len(sales) + 1]
                  /\ Goto(t, "commit")
                  /\ UNCHANGED mine
             ELSE /\ Save(t, [m EXCEPT !.success = FALSE, !.being = (a = "being")])
                  /\ Goto(t, "rollback")
                  /\ UNCHANGED <<sales, number>>
    BY <1>7, <1>m DEF CallSap
  <2>2. CASE a \in {"accepted", "part"}
    <3>1. pc'[t] = "commit" /\ number'[t] = Len(sales) + 1 /\ at' = at
      BY <1>2, <1>3, <1>0, <2>1, <2>2 DEF Goto
    <3>2. /\ Len(sales') = Len(sales) + 1
          /\ sales'[Len(sales) + 1] = [file |-> cur[t], po |-> m.po]
      BY <1>1, <1>2, <2>1, <2>2, AtWork DEF Order
    <3>3. SoldFile(cur[t])' /\ Current(t)' = Current(t)
      <4>1. Len(sales) + 1 \in 1..Len(sales') /\ sales'[Len(sales) + 1].file = cur'[t]
        BY <1>0, <1>2, <3>2
      <4>2. SoldFile(cur[t])'
        BY <4>1 DEF SoldFile
      <4> QED BY <1>0, <3>1, <4>2 DEF Current
    <3>4. Sound(t, m)'
      BY <1>1, <2>0, <3>1, <3>3 DEF Sound, Asking
    <3>5. Fit(t, m)'
      BY <1>0, <1>1, <1>2, <2>0, <3>1, <3>2, <3>3 DEF Fit
    <3> QED BY <1>5, <2>1, <2>2, <3>4, <3>5
  <2>3. CASE a \notin {"accepted", "part"}
    <3> DEFINE saved == [m EXCEPT !.success = FALSE, !.being = (a = "being")]
    <3>0. /\ saved \in Order /\ saved.po = m.po /\ saved.number = 0 /\ ~saved.success /\ saved.lines
          /\ Save(t, saved)
      BY <1>1, <2>0, <2>1, <2>3 DEF Order
    <3> HIDE DEF saved
    <3>1. PICK r \in Order : r.po = m.po /\ r.number = 0 /\ ~r.success /\ r.lines /\ Save(t, r)
      BY <3>0
    <3>2. pc'[t] = "rollback" /\ answer'[t] # "part" /\ at' = at /\ number' = number
      BY <1>0, <1>2, <1>3, <2>1, <2>3 DEF Goto
    <3>3. Current(t)' = Current(t)
      BY <1>0, <3>2 DEF Current
    <3>4. Sound(t, r)' /\ Fit(t, r)'
      BY <1>1, <3>1, <3>2, <3>3 DEF Sound, Fit, Asking
    <3> QED BY <1>4, <3>1, <3>2, <3>4
  <2> QED BY <2>2, <2>3
<1>8. CASE SapRaises(t)
  <2> DEFINE saved == [m EXCEPT !.success = FALSE, !.silent = TRUE]
  <2>0. pc[t] = "sap" /\ m.number = 0
    BY <1>1, <1>8 DEF SapRaises, Fit, Asking
  <2>1. saved \in Order /\ saved.po = m.po /\ saved.number = 0 /\ ~saved.success /\ saved.silent
    BY <1>1, <2>0 DEF Order
  <2>2. Save(t, saved) /\ Ended(t)
    BY <1>8, <1>m DEF SapRaises
  <2> HIDE DEF saved
  <2>3. PICK r \in Order : r.po = m.po /\ r.number = 0 /\ ~r.success /\ r.silent /\ Save(t, r)
    BY <2>1, <2>2
  <2>4. Sound(t, r)'
    BY <2>3 DEF Sound, Covered
  <2> QED BY <1>3, <1>4, <2>2, <2>3, <2>4
<1>9. CASE Commit(t)
  <2>0. /\ pc[t] = "commit" /\ m.number = 0 /\ m.success /\ ~m.being /\ m.lines
        /\ cur[t] \in torn \/ SoldFile(cur[t])
    BY <1>1, <1>9 DEF Commit, Fit, Asking, Sound
  <2>1. PICK yes \in BOOLEAN : Save(t, [Acknowledged(m, yes) EXCEPT !.number = number[t]])
    BY <1>9, <1>m DEF Commit
  <2> DEFINE saved == [Acknowledged(m, yes) EXCEPT !.number = number[t]]
  <2>2. /\ saved \in Order /\ saved.po = m.po /\ saved.number = number[t] /\ saved.success
        /\ ~saved.being /\ saved.lines
        /\ saved.stock = "reserved" => saved.flag
    <3>1. CASE yes
      BY <1>1, <1>2, <2>0, <3>1 DEF Order, Number, Acknowledged
    <3>2. CASE ~yes
      BY <1>1, <1>2, <2>0, <3>2 DEF Order, Number, Acknowledged
    <3> QED BY <3>1, <3>2
  <2> HIDE DEF saved
  <2>3. PICK r \in Order :
          /\ r.po = m.po /\ r.number = number[t] /\ r.success /\ ~r.being /\ r.lines
          /\ r.stock = "reserved" => r.flag
          /\ Save(t, r)
    BY <2>1, <2>2 DEF saved
  <2>4. Sound(t, r)'
    BY <1>0, <1>6, <2>0, <2>3 DEF Sound, Covered, Grows
  <2>5. InHand(t)' => Fit(t, r)'
    <3>1. CASE Ended(t)
      BY <1>3, <3>1
    <3>2. CASE answer[t] = "part" /\ Goto(t, "rollback") /\ UNCHANGED <<at, answer>>
      <4>1. pc'[t] = "rollback" /\ answer'[t] = "part" /\ number' = number
        BY <1>2, <1>9, <3>2 DEF Goto, Commit
      <4> QED BY <2>3, <4>1 DEF Fit, Asking
    <3> QED BY <1>9, <3>1, <3>2 DEF Commit
  <2> QED BY <1>4, <2>3, <2>4, <2>5
<1>10. CASE CommitRaises(t)
  <2> DEFINE saved == Marked(m, number[t])
  <2>1. saved \in Order /\ saved.po = m.po /\ saved.flag /\ ~saved.success /\ saved.being = m.being
    BY <1>1, <1>2 DEF Order, Number, Marked
  <2>2. Save(t, saved) /\ Ended(t) /\ ~m.being
    BY <1>1, <1>10, <1>m DEF CommitRaises, Fit
  <2> HIDE DEF saved
  <2>3. PICK r \in Order : r.po = m.po /\ r.flag /\ ~r.success /\ ~r.being /\ Save(t, r)
    BY <2>1, <2>2
  <2>4. Sound(t, r)'
    BY <2>3 DEF Sound, Covered
  <2> QED BY <1>3, <1>4, <2>2, <2>3, <2>4
<1>11. CASE Rollback(t)
  <2>0. /\ pc[t] = "rollback" /\ Ended(t)
        /\ m.number # 0 => m.success \/ m.flag
        /\ m.number # 0 /\ m.being => m.number \in ruined
        /\ m.success => cur[t] \in torn \/ SoldFile(cur[t])
        /\ answer[t] = "part" => Covered(m)
    BY <1>1, <1>11 DEF Rollback, Sound, Asking
  <2>1. PICK yes \in BOOLEAN : Save(t, IF answer[t] = "part" /\ yes THEN m ELSE Acknowledged(m, yes))
    BY <1>11, <1>m DEF Rollback
  <2>2. CASE answer[t] = "part" /\ yes
    <3>1. Sound(t, m)'
      BY <1>0, <1>6, <2>0, <2>2 DEF Sound, Covered, Grows
    <3> QED BY <1>1, <1>3, <1>4, <2>0, <2>1, <2>2, <3>1
  <2>3. CASE ~(answer[t] = "part" /\ yes)
    <3> DEFINE saved == Acknowledged(m, yes)
    <3>1. /\ saved \in Order /\ saved.po = m.po /\ saved.number = m.number /\ saved.success = m.success
          /\ saved.being = m.being
          /\ saved.stock = "reserved" => saved.flag
          /\ m.flag => saved.flag
      <4>1. CASE yes
        BY <1>1, <4>1 DEF Order, Acknowledged
      <4>2. CASE ~yes
        BY <1>1, <4>2 DEF Order, Acknowledged
      <4> QED BY <4>1, <4>2
    <3>2. Save(t, saved)
      BY <2>1, <2>3
    <3> HIDE DEF saved
    <3>3. PICK r \in Order :
            /\ r.po = m.po /\ r.number = m.number /\ r.success = m.success /\ r.being = m.being
            /\ r.stock = "reserved" => r.flag
            /\ m.flag => r.flag
            /\ Save(t, r)
      BY <3>1, <3>2
    <3>4. Sound(t, r)'
      BY <1>0, <1>6, <2>0, <3>3 DEF Sound, Covered, Grows
    <3> QED BY <1>3, <1>4, <2>0, <3>3, <3>4
  <2> QED BY <2>2, <2>3
<1>12. CASE RollbackRaises(t)
  <2> DEFINE n      == number[t]
             own    == n # 0 /\ m.number = n
             after  == [Marked(m, n) EXCEPT !.lines = @ /\ ~own]
             others == {r \in mine[t] : r.po # after.po /\ (n = 0 \/ r.number # n)}
  <2>1. /\ mine' = [mine EXCEPT ![t] = others \cup {after}]
        /\ ruined' = ruined \cup IF n # 0 THEN {n} ELSE {}
        /\ Ended(t)
    BY <1>12, <1>m DEF RollbackRaises
  <2>2. Marked(m, n) \in Order /\ Marked(m, n).po = m.po /\ Marked(m, n).number = n /\ Marked(m, n).flag
        /\ ~Marked(m, n).success
    BY <1>1, <1>2 DEF Order, Number, Marked
  <2>3. after \in Order /\ after.po = m.po /\ after.number = n /\ after.flag /\ ~after.success
    BY <2>2 DEF Order
  <2>4. others \in SUBSET {o \in mine[t] : o.po # after.po}
    OBVIOUS
  <2> HIDE DEF after, others
  <2>5. number[t] # 0 => number[t] \in ruined'
    BY <2>1
  <2>6. PICK r \in Order : /\ r.po = m.po /\ r.number = number[t] /\ r.flag /\ ~r.success
                          /\ \E rest \in SUBSET {o \in mine[t] : o.po # r.po} :
                                mine' = [mine EXCEPT ![t] = rest \cup {r}]
    BY <2>1, <2>3, <2>4
  <2>7. PICK rest \in SUBSET {o \in mine[t] : o.po # r.po} : mine' = [mine EXCEPT ![t] = rest \cup {r}]
    BY <2>6
  <2>8. Sound(t, r)'
    BY <2>5, <2>6 DEF Sound, Covered
  <2> QED BY <1>0, <1>1, <1>3, <2>1, <2>6, <2>7, <2>8, OrderlySaved
<1>13. CASE Stumble(t)
  <2>1. UNCHANGED <<mine, ruined, sales>> /\ cur[t] \in torn' /\ Ended(t)
    BY <1>13 DEF Stumble
  <2>2. Sound(t, m)'
    BY <1>0, <1>1, <2>1 DEF Sound, Covered
  <2> QED BY <1>3, <1>5, <2>1, <2>2
<1> QED BY <1>7, <1>8, <1>9, <1>10, <1>11, <1>12, <1>13 DEF HandStep

(* A step that leaves a task's registers alone leaves its orders as sound. *)
LEMMA OrderlyStays ==
    ASSUME Shaped, Grows, NEW x \in Task, Orderly(x),
           pc'[x] = pc[x], cur'[x] = cur[x], at'[x] = at[x], mine'[x] = mine[x],
           number'[x] = number[x], answer'[x] = answer[x]
    PROVE  Orderly(x)'
<1>1. /\ InHand(x)' = InHand(x) /\ Asking(x)' = Asking(x) /\ Current(x)' = Current(x)
      /\ SoldFile(cur[x]) => SoldFile(cur[x])'
  BY DEF Grows, InHand, Asking, Current, SoldFile
<1>2. \A r \in mine'[x] : Sound(x, r)'
  BY <1>1 DEF Orderly, Sound, Covered, Grows
<1>3. ASSUME InHand(x)' PROVE Fit(x, Mine(x))'
  <2>1. PICK m \in Order : m = Mine(x)
    BY <1>1, <1>3, AtWork DEF Shaped
  <2>2. /\ m \in mine[x] /\ m.po = Current(x) /\ Fit(x, m)
        /\ \A r \in mine[x] : r.po = Current(x) => r = m
    BY <1>1, <1>3, <2>1, AtWork DEF Shaped, Orderly
  <2>3. Mine(x)' = m
    <3>1. \A r \in mine'[x] : r.po = Current(x)' <=> r = m
      BY <1>1, <2>2
    <3>2. m \in mine'[x]
      BY <2>2
    <3> QED BY <3>1, <3>2 DEF Mine
  <2>4. Fit(x, m)'
    BY <1>1, <2>2 DEF Fit, Grows
  <2> QED BY <2>3, <2>4
<1> QED BY <1>2, <1>3 DEF Orderly

(* An order that is taken up has no number, and is a success until SAP     *)
(* says otherwise.                                                         *)
LEMMA OrderlyTaken ==
    ASSUME Shaped, Grows, NEW t \in Task, Prepare(t), Orderly(t)
    PROVE  Orderly(t)'
<1>0. /\ pc \in [Task -> TaskPc] /\ at \in [Task -> Nat] /\ mine \in [Task -> SUBSET Order]
      /\ UNCHANGED <<content, cur, number>> /\ pc[t] = "order" /\ ~InHand(t) /\ ~Asking(t)
  BY DEF Shaped, TypeOK, TaskPc, Prepare, Uploads, InHand, Asking
<1>1. \A r \in mine[t] : Sound(t, r)'
  BY <1>0, SoundStays DEF Orderly
<1>2. CASE Ended(t) /\ UNCHANGED mine
  <2>1. ~InHand(t)'
    BY <1>0, <1>2 DEF Ended, Goto, InHand
  <2> QED BY <1>1, <1>2, <2>1 DEF Orderly
<1>3. CASE mine' = [mine EXCEPT ![t] = @ \cup {Reserved(t)}] /\ Goto(t, "sap") /\ at' = at
  <2>1. PICK m : m = Reserved(t)
    OBVIOUS
  <2>2. /\ m.po = Current(t) /\ m.number = 0 /\ m.lines /\ m.success /\ ~m.being
    BY <2>1 DEF Reserved
  <2>3. /\ pc'[t] = "sap" /\ Current(t)' = Current(t) /\ Asking(t)'
        /\ mine'[t] = mine[t] \cup {m}
    BY <1>0, <1>3, <2>1 DEF Goto, Asking, Current
  <2>4. Sound(t, m)' /\ Fit(t, m)'
    BY <2>2, <2>3 DEF Sound, Fit
  <2>5. Mine(t)' = m
    <3>1. ASSUME NEW o \in mine[t] PROVE o.po # Current(t)
      <4>1. PICK i \in 1..Len(content[cur[t]]) : o.po = content[cur[t]][i] /\ i < at[t]
        BY <1>0 DEF Shaped, Shape
      <4>2. at[t] \in 1..Len(content[cur[t]]) /\ i # at[t] /\ cur[t] \in File
        BY <4>1 DEF Prepare, Shaped, TypeOK, Shape
      <4> QED BY <4>1, <4>2 DEF Shaped, Distinct, Current
    <3>2. \A o \in mine'[t] : o.po = Current(t)' <=> o = m
      BY <2>2, <2>3, <3>1
    <3>3. m \in mine'[t]
      BY <2>3
    <3> QED BY <3>2, <3>3 DEF Mine
  <2> QED BY <1>1, <2>3, <2>4, <2>5 DEF Orderly
<1> QED BY <1>2, <1>3 DEF Prepare

LEMMA OrderlyStep ==
    ASSUME Shaped, Shaped', [Next]_vars, \A t \in Task : Orderly(t)
    PROVE  \A t \in Task : Orderly(t)'
<1>1. Grows
  BY Growing
<1>2. CASE UNCHANGED vars
  BY <1>1, <1>2, OrderlyStays DEF vars
<1>3. ASSUME NEW f \in File, FileStep(f) PROVE \A t \in Task : Orderly(t)'
  <2>1. UNCHANGED <<pc, cur, at, mine, number, answer>>
    BY <1>3, FileStepKeeps, WithdrawKeeps DEF Orders
  <2> QED BY <1>1, <2>1, OrderlyStays
<1>4. ASSUME NEW t \in Task, TaskStep(t) PROVE \A x \in Task : Orderly(x)'
  <2>1. \A x \in Task : x # t => Orderly(x)'
    BY <1>1, <1>4, OthersKeep, OrderlyStays DEF Shaped
  <2>2. CASE OuterStep(t) \/ CommitFile(t) \/ Die(t) \/ (Validate(t) /\ ~Repeated(cur[t]))
    <3>1. mine'[t] = {} /\ ~InHand(t)'
      <4>1. CASE CommitFile(t) \/ Die(t)
        BY <4>1, LeaveFrame DEF Shaped, InHand, Inside
      <4>2. CASE OuterStep(t)
        BY <4>2, OuterFrame DEF Shaped, Shape, InHand, Inside
      <4>3. CASE Validate(t) /\ ~Repeated(cur[t])
        BY <4>3, EnterFrame DEF Shaped, Shape, InHand, Inside
      <4> QED BY <2>2, <4>1, <4>2, <4>3
    <3>2. Orderly(t)'
      BY <3>1 DEF Orderly
    <3> QED BY <2>1, <3>2
  <2>3. CASE HandStep(t)
    BY <1>1, <2>1, <2>3, OrderlyHand
  <2>4. CASE Prepare(t)
    BY <1>1, <2>1, <2>4, OrderlyTaken
  <2> QED BY <1>4, <2>2, <2>3, <2>4, TaskSteps
<1> QED BY <1>2, <1>3, <1>4, NextSteps

(* A kept order is one its task was done with: its reservation is settled. *)
Kempt == /\ \A t \in Task : Orderly(t)
         /\ \A r \in rows : Covered(r)

LEMMA KemptStep == Shaped /\ Shaped' /\ Kempt /\ [Next]_vars => Kempt'
<1> SUFFICES ASSUME Shaped, Shaped', Kempt, [Next]_vars PROVE Kempt'
  OBVIOUS
<1>1. Grows /\ \A t \in Task : Orderly(t)'
  BY Growing, OrderlyStep DEF Kempt
<1>2. CASE UNCHANGED rows
  BY <1>1, <1>2 DEF Kempt, Covered, Grows
<1>3. ASSUME NEW t \in Task, CommitFile(t) PROVE Kempt'
  <2>1. \A r \in mine[t] : Covered(r)
    BY <1>3 DEF Kempt, Orderly, Sound, Asking, CommitFile
  <2>2. rows' \subseteq rows \cup mine[t]
    BY <1>3 DEF CommitFile, Kept
  <2> QED BY <1>1, <2>1, <2>2 DEF Kempt, Covered, Grows
<1>4. ASSUME NEW f \in File, FileStep(f) PROVE UNCHANGED rows
  BY <1>4, FileStepKeeps, WithdrawKeeps DEF Orders
<1>5. ASSUME NEW t \in Task, TaskStep(t), ~CommitFile(t) PROVE UNCHANGED rows
  <2>1. CASE Prepare(t) \/ Die(t)
    BY <2>1 DEF Prepare, Die
  <2> QED BY <1>5, <2>1, TaskSteps, OuterFrame, EnterFrame, HandFrame DEF Shaped
<1> QED BY <1>2, <1>3, <1>4, <1>5, NextSteps DEF vars

LEMMA KemptInit == Init => Kempt
  BY DEF Init, Kempt, Orderly, InHand

(* What iPlan has reserved for an order that is kept is committed or       *)
(* released, or its lines are flagged, unless SAP's answer was lost        *)
(* (check_acknowledge and the handlers of save_po_order).                  *)
THEOREM StockIsSettled == Spec => []StockSettled
<1>1. Kempt => StockSettled
  BY DEF Kempt, Covered, StockSettled
<1> QED BY <1>1, ShapedInit, ShapedStep, KemptInit, KemptStep, PTL DEF Spec

----------------------------------------------------------------------------
(* A file that succeeded has an order in SAP.                              *)
Succeeded(f) ==
    /\ log[f] = "success" => f \in torn \/ SoldFile(f)
    /\ \A t \in Task : pc[t] = "final" /\ cur[t] = f /\ result[t] = "success" =>
          f \in torn \/ SoldFile(f)

(* A file that was not sent again has one message, taken by one task when  *)
(* its log is committed; and no task has it once it is decided.            *)
Busy(t, f) == cur[t] = f /\ pc[t] \in Inside \cup {"start", "final"}

Solo(f) ==
    /\ retrying[f] = 0
    /\ message[f] <= 1
    /\ view[f] \in {"none", "checked"} => message[f] = 0
    /\ view[f] # "done" => log[f] = "absent"
    /\ log[f] \in {"success", "fail", "being"} => message[f] = 0
    /\ \A t \in Task : Busy(t, f) => view[f] = "done" /\ message[f] = 0 /\ log[f] \in {"queued", "running"}
    /\ \A t, x \in Task : Busy(t, f) /\ Busy(x, f) => t = x

(* Its orders come with the one commit, and all in SAP have flags when it  *)
(* failed.                                                                 *)
Flagged(f) == f \in torn \/ \A r \in rows : r.file = f /\ r.number # 0 => r.flag

Told(f) ==
    /\ (\E r \in rows : r.file = f) =>
           /\ view[f] = "done" /\ message[f] = 0
           /\ \A t \in Task : Busy(t, f) => pc[t] = "final"
    /\ \A t \in Task : pc[t] = "final" /\ cur[t] = f /\ result[t] = "fail" => Flagged(f)
    /\ log[f] = "fail" => Flagged(f)

Truth == /\ \A f \in File : Succeeded(f)
         /\ retries = 0 => \A f \in File : Solo(f) /\ Told(f)

(* The steps that leave the logs alone and enter no file.                  *)
Quiet(t) == Begin(t) \/ Leave(t) \/ Prepare(t) \/ HandStep(t) \/ Die(t) \/ (Validate(t) /\ ~Repeated(cur[t]))

LEMMA QuietFrame ==
    ASSUME Shaped, NEW t \in Task, Quiet(t)
    PROVE  /\ UNCHANGED <<rows, view, message, retrying, log>>
           /\ pc'[t] # "final"
           /\ pc[t] # "final" \/ Die(t)
           /\ \A f \in File : Busy(t, f)' => Busy(t, f)
<1>0. pc \in [Task -> TaskPc] /\ cur \in [Task -> File]
  BY DEF Shaped, TypeOK, TaskPc
<1>1. CASE Begin(t) \/ Leave(t)
  BY <1>0, <1>1 DEF Begin, First, Leave, Goto, Busy, Inside, Views
<1>2. CASE Prepare(t)
  BY <1>0, <1>2 DEF Prepare, Ended, Goto, Busy, Inside, Views
<1>3. CASE HandStep(t)
  BY <1>0, <1>3, HandFrame DEF Ended, Goto, Busy, Inside, InHand
<1>4. CASE Die(t)
  BY <1>0, <1>4 DEF Die, Goto, Busy, Inside, Views
<1>5. CASE Validate(t) /\ ~Repeated(cur[t])
  BY <1>0, <1>5, EnterFrame DEF Busy, Inside, Shaped
<1> QED BY <1>1, <1>2, <1>3, <1>4, <1>5 DEF Quiet

LEMMA TaskByLog ==
    ASSUME NEW t \in Task, TaskStep(t)
    PROVE  Quiet(t) \/ (\E f \in File : Receive(t, f)) \/ Finish(t) \/ (Validate(t) /\ Repeated(cur[t]))
           \/ CommitFile(t)
  BY TaskSteps DEF OuterStep, Quiet

LEMMA SucceededStep ==
    ASSUME Shaped, Kempt, [Next]_vars, NEW f \in File, Succeeded(f)
    PROVE  Succeeded(f)'
<1>0. /\ pc \in [Task -> TaskPc] /\ cur \in [Task -> File] /\ log \in [File -> LogState]
      /\ result \in [Task -> {"success", "fail", "being"}]
  BY DEF Shaped, TypeOK, TaskPc, LogState
<1>1. Grows /\ (f \in torn \/ SoldFile(f) => f \in torn' \/ SoldFile(f)')
  BY Growing DEF Grows, SoldFile
<1>2. CASE UNCHANGED vars
  BY <1>1, <1>2 DEF vars, Succeeded
<1>3. ASSUME NEW g \in File, FileStep(g) PROVE Succeeded(f)'
  <2>1. UNCHANGED <<pc, cur, result>>
    BY <1>3, FileStepKeeps, WithdrawKeeps DEF Orders
  <2>2. log'[f] = "success" => log[f] = "success"
    BY <1>0, <1>3 DEF FileStep, Check, Publish, Store, Withdraw, Retry, SaveRetry
  <2> QED BY <1>1, <2>1, <2>2 DEF Succeeded
<1>4. ASSUME NEW t \in Task, TaskStep(t) PROVE Succeeded(f)'
  <2>0. \A x \in Task : x # t => pc'[x] = pc[x] /\ cur'[x] = cur[x] /\ result'[x] = result[x]
    BY <1>4, OthersKeep DEF Shaped
  <2>1. CASE Quiet(t)
    BY <1>1, <2>0, <2>1, QuietFrame DEF Succeeded
  <2>2. ASSUME NEW g \in File, Receive(t, g) PROVE Succeeded(f)'
    <3>1. pc'[t] # "final" /\ log' = log
      BY <1>0, <2>2 DEF Receive, Goto
    <3> QED BY <1>1, <2>0, <3>1 DEF Succeeded
  <2>3. CASE Finish(t)
    <3>1. pc[t] = "final" /\ pc'[t] # "final" /\ log' = [log EXCEPT ![cur[t]] = result[t]]
      BY <1>0, <2>3 DEF Finish, Goto
    <3>2. log'[f] = "success" => log[f] = "success" \/ (cur[t] = f /\ result[t] = "success")
      BY <1>0, <3>1
    <3> QED BY <1>1, <2>0, <3>1, <3>2 DEF Succeeded
  <2>4. CASE Validate(t) /\ Repeated(cur[t])
    <3>1. result'[t] = "fail" /\ (log'[f] = "success" => log[f] = "success")
      BY <1>0, <2>4 DEF Validate
    <3> QED BY <1>1, <2>0, <3>1 DEF Succeeded
  <2>5. CASE CommitFile(t)
    <3>1. /\ log'[f] = "success" => log[f] = "success"
          /\ result'[t] = Outcome(t) /\ cur' = cur /\ pc[t] = "order"
      BY <1>0, <2>5 DEF CommitFile
    <3>2. Outcome(t) = "success" => \E r \in mine[t] : r.success
      BY DEF Outcome
    <3>3. Outcome(t) = "success" => cur[t] \in torn \/ SoldFile(cur[t])
      BY <3>1, <3>2 DEF Kempt, Orderly, Sound
    <3> QED BY <1>1, <2>0, <3>1, <3>3 DEF Succeeded
  <2> QED BY <1>4, <2>1, <2>2, <2>3, <2>4, <2>5, TaskByLog
<1> QED BY <1>2, <1>3, <1>4, NextSteps

LEMMA SoloStep ==
    ASSUME Shaped, [Next]_vars, retries' = 0, NEW f \in File, Solo(f)
    PROVE  Solo(f)'
<1>0. /\ pc \in [Task -> TaskPc] /\ cur \in [Task -> File] /\ log \in [File -> LogState]
      /\ message \in [File -> Nat] /\ retrying \in [File -> Nat] /\ retries \in Nat
      /\ view \in [File -> {"none", "checked", "published", "done", "refused"}]
      /\ result \in [Task -> {"success", "fail", "being"}]
  BY DEF Shaped, TypeOK, TaskPc, LogState
<1>1. ASSUME view'[f] = view[f], message'[f] = message[f], log'[f] = log[f], retrying'[f] = retrying[f],
             \A x \in Task : Busy(x, f)' => Busy(x, f)
      PROVE  Solo(f)'
  BY <1>1 DEF Solo
<1>2. CASE UNCHANGED vars
  BY <1>1, <1>2 DEF vars, Busy
<1>3. ASSUME NEW g \in File, FileStep(g) PROVE Solo(f)'
  <2>0. \A x \in Task : Busy(x, f)' <=> Busy(x, f)
    BY <1>3, FileStepKeeps, WithdrawKeeps DEF Orders, Busy
  <2>1. CASE g # f
    BY <1>0, <1>1, <1>3, <2>0, <2>1
       DEF FileStep, Check, Publish, Store, Withdraw, Retry, SaveRetry, Views
  <2>2. CASE g = f
    <3> USE <1>0, <1>3, <2>0, <2>2 DEF Solo
    <3>1. CASE Check(g) \/ Withdraw(g)
      BY <3>1 DEF Check, Withdraw
    <3>2. CASE Publish(g)
      BY <3>2 DEF Publish
    <3>3. CASE Store(g)
      BY <3>3 DEF Store
    <3>4. CASE Retry(g) \/ SaveRetry(g)
      BY <3>4 DEF Retry, SaveRetry
    <3> QED BY <3>1, <3>2, <3>3, <3>4 DEF FileStep
  <2> QED BY <2>1, <2>2
<1>4. ASSUME NEW t \in Task, TaskStep(t) PROVE Solo(f)'
  <2>0. \A x \in Task : x # t => (Busy(x, f)' <=> Busy(x, f))
    BY <1>4, OthersKeep DEF Shaped, Busy
  <2>1. CASE Quiet(t)
    BY <1>1, <2>0, <2>1, QuietFrame
  <2>2. ASSUME NEW g \in File, Receive(t, g) PROVE Solo(f)'
    <3>0. UNCHANGED <<view, log, retrying>> /\ message[g] > 0 /\ message' = [message EXCEPT ![g] = @ - 1]
          /\ pc[t] = "receive"
      BY <2>2 DEF Receive, First, Views
    <3>1. Busy(t, f)' => g = f /\ log[g] # "absent"
      BY <1>0, <2>2 DEF Receive, First, Goto, Busy, Inside
    <3>2. CASE g # f
      BY <1>0, <1>1, <2>0, <3>0, <3>1, <3>2
    <3>3. CASE g = f
      <4>1. message[f] = 1 /\ message'[f] = 0
        BY <1>0, <3>0, <3>3 DEF Solo
      <4>2. \A x \in Task : ~Busy(x, f)
        BY <4>1 DEF Solo
      <4>3. log[f] \notin {"success", "fail", "being"}
        BY <4>1 DEF Solo
      <4>4. Busy(t, f)' => view[f] = "done" /\ log[f] \in {"queued", "running"}
        BY <1>0, <3>1, <4>3 DEF Solo, LogState
      <4> QED BY <2>0, <3>0, <4>1, <4>2, <4>4 DEF Solo
    <3> QED BY <3>2, <3>3
  <2>3. CASE Finish(t)
    <3>0. /\ UNCHANGED <<view, retrying, message>> /\ log' = [log EXCEPT ![cur[t]] = result[t]]
          /\ Busy(t, cur[t]) /\ ~Busy(t, f)'
      BY <1>0, <2>3 DEF Finish, Views, Busy, Goto, Inside
    <3>1. CASE f # cur[t]
      BY <1>0, <1>1, <2>0, <3>0, <3>1
    <3>2. CASE f = cur[t]
      <4>1. view[f] = "done" /\ message[f] = 0 /\ \A x \in Task : ~Busy(x, f)'
        BY <2>0, <3>0, <3>2 DEF Solo
      <4> QED BY <3>0, <4>1 DEF Solo
    <3> QED BY <3>1, <3>2
  <2>4. CASE (Validate(t) /\ Repeated(cur[t])) \/ CommitFile(t)
    <3>0. /\ UNCHANGED <<view, retrying, message>> /\ log' = [log EXCEPT ![cur[t]] = "running"]
          /\ Busy(t, cur[t]) /\ (Busy(t, f)' => Busy(t, f))
      BY <1>0, <2>4 DEF Validate, CommitFile, Views, Busy, Goto, Inside
    <3>1. CASE f # cur[t]
      BY <1>0, <1>1, <2>0, <3>0, <3>1
    <3>2. CASE f = cur[t]
      <4>1. view[f] = "done" /\ message[f] = 0 /\ log'[f] = "running"
        BY <1>0, <3>0, <3>2 DEF Solo
      <4>2. \A x \in Task : Busy(x, f)' => Busy(x, f)
        BY <2>0, <3>0
      <4> QED BY <3>0, <4>1, <4>2 DEF Solo
    <3> QED BY <3>1, <3>2
  <2> QED BY <1>4, <2>1, <2>2, <2>3, <2>4, TaskByLog
<1> QED BY <1>2, <1>3, <1>4, NextSteps

LEMMA ToldStep ==
    ASSUME Shaped, Kempt, [Next]_vars, retries' = 0, NEW f \in File, Solo(f), Told(f)
    PROVE  Told(f)'
<1>0. /\ pc \in [Task -> TaskPc] /\ cur \in [Task -> File] /\ log \in [File -> LogState]
      /\ message \in [File -> Nat] /\ retrying \in [File -> Nat] /\ retries \in Nat
      /\ view \in [File -> {"none", "checked", "published", "done", "refused"}]
      /\ result \in [Task -> {"success", "fail", "being"}]
  BY DEF Shaped, TypeOK, TaskPc, LogState
<1>1. torn \subseteq torn'
  BY Growing DEF Grows
<1>2. CASE UNCHANGED vars
  BY <1>2 DEF vars, Told, Busy, Flagged
<1>3. ASSUME NEW g \in File, FileStep(g) PROVE Told(f)'
  <2>0. UNCHANGED <<rows, pc, cur, result, torn>>
    BY <1>3, FileStepKeeps, WithdrawKeeps DEF Orders
  <2>1. \A x \in Task : Busy(x, f)' <=> Busy(x, f)
    BY <2>0 DEF Busy
  <2>2. view[f] = "done" /\ message[f] = 0 => view'[f] = "done" /\ message'[f] = 0
    BY <1>0, <1>3 DEF Solo, FileStep, Check, Publish, Store, Withdraw, Retry, SaveRetry, Views
  <2>3. log'[f] = "fail" => log[f] = "fail"
    BY <1>0, <1>3 DEF FileStep, Check, Publish, Store, Withdraw, Retry, SaveRetry
  <2> QED BY <2>0, <2>1, <2>2, <2>3 DEF Told, Flagged
<1>4. ASSUME NEW t \in Task, TaskStep(t) PROVE Told(f)'
  <2>0. \A x \in Task : x # t => /\ Busy(x, f)' <=> Busy(x, f)
                                 /\ pc'[x] = pc[x] /\ cur'[x] = cur[x] /\ result'[x] = result[x]
    BY <1>4, OthersKeep DEF Shaped, Busy
  <2>1. CASE Quiet(t)
    <3>1. UNCHANGED <<rows, view, message, log>> /\ pc'[t] # "final" /\ (Busy(t, f)' => Busy(t, f))
      BY <2>1, QuietFrame
    <3>2. Busy(t, f)' => pc[t] # "final"
      <4>1. CASE Die(t)
        BY <1>0, <4>1 DEF Die, Busy, Goto, Inside
      <4> QED BY <2>1, <4>1, QuietFrame
    <3> QED BY <1>1, <2>0, <3>1, <3>2 DEF Told, Flagged
  <2>2. ASSUME NEW g \in File, Receive(t, g) PROVE Told(f)'
    <3>0. /\ UNCHANGED <<view, log, rows, torn>> /\ message[g] > 0 /\ message' = [message EXCEPT ![g] = @ - 1]
          /\ pc'[t] # "final"
      BY <1>0, <2>2 DEF Receive, Views, Goto
    <3>1. Busy(t, f)' => g = f
      BY <1>0, <2>2 DEF Receive, First, Goto, Busy, Inside
    <3>2. CASE g # f
      BY <1>0, <2>0, <3>0, <3>1, <3>2 DEF Told, Flagged
    <3>3. CASE g = f
      <4>1. \A r \in rows : r.file # f
        BY <1>0, <3>0, <3>3 DEF Told
      <4> QED BY <2>0, <3>0, <4>1 DEF Told, Flagged
    <3> QED BY <3>2, <3>3
  <2>3. CASE Finish(t)
    <3>0. /\ UNCHANGED <<view, rows, message, torn>> /\ log' = [log EXCEPT ![cur[t]] = result[t]]
          /\ ~Busy(t, f)' /\ pc[t] = "final" /\ pc'[t] # "final"
      BY <1>0, <2>3 DEF Finish, Views, Marks, Busy, Goto, Inside
    <3>1. log'[f] = "fail" => log[f] = "fail" \/ (cur[t] = f /\ result[t] = "fail")
      BY <1>0, <3>0
    <3> QED BY <2>0, <3>0, <3>1 DEF Told, Flagged
  <2>4. CASE Validate(t) /\ Repeated(cur[t])
    <3>0. /\ UNCHANGED <<view, rows, message, torn, cur>> /\ pc[t] = "start" /\ pc'[t] = "final"
          /\ log'[f] = "fail" => log[f] = "fail"
      BY <1>0, <2>4 DEF Validate, Views, Goto
    <3>1. cur[t] = f => Busy(t, f) /\ \A r \in rows : r.file # f
      BY <3>0 DEF Busy, Told
    <3> QED BY <2>0, <3>0, <3>1 DEF Told, Flagged, Busy
  <2>5. CASE CommitFile(t)
    <3>0. /\ UNCHANGED <<view, message, torn, cur>> /\ pc[t] = "order" /\ pc'[t] = "final"
          /\ log'[f] = "fail" => log[f] = "fail" /\ cur[t] # f
          /\ rows \subseteq rows' /\ rows' \subseteq rows \cup mine[t]
          /\ result'[t] = Outcome(t)
      BY <1>0, <2>5 DEF CommitFile, Views, Goto, Marks, Kept
    <3>1. \A r \in mine[t] : r.file = cur[t]
      BY DEF Shaped, TypeOK
    <3>2. CASE cur[t] # f
      <4>1. \A r \in rows' : r.file = f => r \in rows
        BY <3>0, <3>1, <3>2
      <4>2. ~Busy(t, f)'
        BY <3>0, <3>2 DEF Busy
      <4> QED BY <2>0, <3>0, <3>2, <4>1, <4>2 DEF Told, Flagged
    <3>3. CASE cur[t] = f
      <4>1. /\ Busy(t, f) /\ view[f] = "done" /\ message[f] = 0
            /\ \A x \in Task : Busy(x, f) => x = t
        BY <3>0, <3>3 DEF Busy, Inside, Solo
      <4>2. \A r \in rows : r.file # f
        BY <3>0, <4>1 DEF Told
      <4>3. result'[t] = "fail" => \A r \in mine[t] : ~r.being /\ ~r.success
        BY <3>0 DEF Outcome
      <4>4. result'[t] = "fail" => \A r \in mine[t] : r.number # 0 => r.flag
        BY <4>3 DEF Kempt, Orderly, Sound
      <4>5. \A x \in Task : x # t => ~Busy(x, f)' /\ ~(pc'[x] = "final" /\ cur'[x] = f)
        BY <2>0, <4>1 DEF Busy
      <4>6. log'[f] # "fail"
        BY <3>0, <3>3
      <4> QED BY <3>0, <4>1, <4>2, <4>4, <4>5, <4>6 DEF Told, Flagged
    <3> QED BY <3>2, <3>3
  <2> QED BY <1>4, <2>1, <2>2, <2>3, <2>4, <2>5, TaskByLog
<1> QED BY <1>2, <1>3, <1>4, NextSteps

LEMMA RetriesGrow == Shaped /\ [Next]_vars /\ retries' = 0 => retries = 0
<1> SUFFICES ASSUME Shaped, [Next]_vars, retries' = 0 PROVE retries = 0
  OBVIOUS
<1>0. retries \in Nat
  BY DEF Shaped, TypeOK
<1>1. ASSUME NEW f \in File, FileStep(f) PROVE retries = 0
  BY <1>0, <1>1 DEF FileStep, Check, Publish, Store, Withdraw, Retry, SaveRetry, Views
<1>2. ASSUME NEW t \in Task, TaskStep(t) PROVE retries = 0
  BY <1>2, TaskSteps, OuterFrame, EnterFrame, HandFrame, LeaveFrame DEF Prepare, Views, Shaped
<1> QED BY <1>1, <1>2, NextSteps DEF vars

LEMMA TruthStep == Shaped /\ Kempt /\ Truth /\ [Next]_vars => Truth'
<1> SUFFICES ASSUME Shaped, Kempt, Truth, [Next]_vars PROVE Truth'
  OBVIOUS
<1>1. \A f \in File : Succeeded(f)'
  BY SucceededStep DEF Truth
<1>2. ASSUME retries' = 0 PROVE \A f \in File : Solo(f)' /\ Told(f)'
  <2>1. \A f \in File : Solo(f) /\ Told(f)
    BY <1>2, RetriesGrow DEF Truth
  <2> QED BY <1>2, <2>1, SoloStep, ToldStep
<1> QED BY <1>1, <1>2 DEF Truth

LEMMA TruthInit == Init => Truth
  BY DEF Init, Truth, Succeeded, Solo, Told, Busy, Inside

(* What the user is told of a file that was not sent again: it succeeded   *)
(* only with an order in SAP, and when it failed all there is in SAP are   *)
(* orders with flags (the last state of save_po_order, written to the log  *)
(* after the transaction of the rows).                                     *)
THEOREM FileTellsTheTruth == Spec => []FileTellsTruth
<1>1. Truth => FileTellsTruth
  BY DEF Truth, Succeeded, Told, Flagged, SoldFile, FileTellsTruth
<1> QED BY <1>1, ShapedInit, ShapedStep, KemptInit, KemptStep, TruthInit, TruthStep, PTL DEF Spec

----------------------------------------------------------------------------
(* The places an order can be in: the committed rows, or a task's own.     *)
Place   == {0} \cup Task
Held(p) == IF p = 0 THEN rows ELSE mine[p]

(* A number is one SAP has given, for this purchase order; no other order  *)
(* has it; and nobody has the number that a task is about to save.         *)
Genuine(r) == r.number # 0 =>
    /\ r.number \in 1..Len(sales)
    /\ r.number \in ruined \/ r.po = sales[r.number].po

Listed(n) == sales[n].po \in POs(sales[n].file)

Apart(r, s) == r.number = s.number /\ r.number # 0 => r.number \in ruined

Numbers ==
    /\ \A n \in 1..Len(sales) : Listed(n)
    /\ \A p \in Place : \A r \in Held(p) : Genuine(r)
    /\ \A p, q \in Place : \A r \in Held(p), s \in Held(q) : p # q \/ r # s => Apart(r, s)
    /\ \A t, x \in Task : t # x /\ number[t] = number[x] => number[t] = 0
    /\ \A t \in Task : pc[t] = "commit" => \A p \in Place : \A r \in Held(p) : r.number # number[t]

(* What a step with an order in hand does to numbers: of the others it     *)
(* drops only those whose number is ruined.                                *)
Renumbers(t, m, r, others) ==
    /\ mine' = [mine EXCEPT ![t] = others \cup {r}]
    /\ r.po = m.po
    /\ \A o \in mine[t] : o.po # m.po => o \in others \/ o.number \in ruined'
    /\ \/ r.number = m.number
       \/ r.number = number[t] /\ (pc[t] = "commit" \/ number[t] = 0 \/ number[t] \in ruined')
    /\ r.lines \/ r.number \in ruined'
    /\ pc[t] = "commit" => r.number = number[t] \/ cur[t] \in torn'
    /\ m.number # 0 => r.number = m.number

LEMMA HandNumbers ==
    ASSUME Shaped, NEW t \in Task, HandStep(t), Orderly(t), NEW m \in Order, m = Mine(t)
    PROVE  \E r \in Order : \E others \in SUBSET {o \in mine[t] : o.po # m.po} : Renumbers(t, m, r, others)
<1>0. /\ InHand(t) /\ m \in mine[t] /\ m.lines
      /\ \A r \in mine[t] : r.po = m.po => r = m
      /\ pc[t] \in {"sap", "commit"} => m.number = 0
      /\ pc[t] = "rollback" => m.number \in {0, number[t]}
  <2>1. InHand(t)
    BY HandFrame
  <2> QED BY <2>1, AtWork DEF Shaped, Orderly, Fit, Asking
<1>1. /\ mine \in [Task -> SUBSET Order] /\ number[t] \in Nat /\ cur[t] \in File /\ TypeOK
  <2>1. TypeOK
    BY DEF Shaped
  <2>2. number \in [Task -> 0..Len(sales)] /\ sales \in Seq([file : File, po : PO])
    BY <2>1 DEF TypeOK
  <2>3. mine \in [Task -> SUBSET Order] /\ cur \in [Task -> File]
    BY <2>1 DEF TypeOK
  <2> QED BY <2>1, <2>2, <2>3
<1>2. ASSUME NEW r \in Order, r.po = m.po, Save(t, r), r.lines,
             \/ r.number = m.number
             \/ r.number = number[t] /\ pc[t] = "commit",
             pc[t] = "commit" => r.number = number[t],
             m.number # 0 => r.number = m.number
      PROVE  \E others \in SUBSET {o \in mine[t] : o.po # m.po} : Renumbers(t, m, r, others)
  <2>1. mine' = [mine EXCEPT ![t] = {o \in mine[t] : o.po # m.po} \cup {r}]
    BY <1>1, <1>2 DEF Save
  <2>2. PICK others \in SUBSET {o \in mine[t] : o.po # m.po} : others = {o \in mine[t] : o.po # m.po}
    OBVIOUS
  <2>3. Renumbers(t, m, r, others)
    BY <1>2, <2>1, <2>2 DEF Renumbers
  <2> QED BY <2>3
<1>3. ASSUME UNCHANGED mine, pc[t] = "commit" => cur[t] \in torn'
      PROVE  \E others \in SUBSET {o \in mine[t] : o.po # m.po} : Renumbers(t, m, m, others)
  <2>1. PICK others \in SUBSET {o \in mine[t] : o.po # m.po} : others = mine[t] \ {m}
    BY <1>0
  <2>2. mine[t] = others \cup {m}
    BY <1>0, <2>1
  <2>3. mine' = [mine EXCEPT ![t] = others \cup {m}]
    BY <1>1, <1>3, <2>2
  <2>4. Renumbers(t, m, m, others)
    BY <1>0, <1>3, <2>1, <2>3 DEF Renumbers
  <2> QED BY <2>4
<1>4. CASE CallSap(t)
  <2>1. pc[t] = "sap"
    BY <1>4 DEF CallSap
  <2>2. PICK a \in {"accepted", "part", "refused", "being"} :
           \/ UNCHANGED mine
           \/ Save(t, [m EXCEPT !.success = FALSE, !.being = (a = "being")])
    BY <1>4 DEF CallSap
  <2>3. CASE UNCHANGED mine
    BY <1>3, <2>1, <2>3
  <2>4. CASE Save(t, [m EXCEPT !.success = FALSE, !.being = (a = "being")])
    <3>1. PICK r \in Order : r = [m EXCEPT !.success = FALSE, !.being = (a = "being")]
      BY DEF Order
    <3>2. r.po = m.po /\ r.lines /\ r.number = m.number /\ Save(t, r)
      BY <1>0, <2>4, <3>1 DEF Order
    <3> QED BY <1>2, <2>1, <3>2
  <2> QED BY <2>2, <2>3, <2>4
<1>5. CASE SapRaises(t)
  <2>1. PICK r \in Order : r = [m EXCEPT !.success = FALSE, !.silent = TRUE]
    BY DEF Order
  <2>2. r.po = m.po /\ r.lines /\ r.number = m.number /\ Save(t, r) /\ pc[t] = "sap"
    BY <1>0, <1>5, <2>1 DEF Order, SapRaises
  <2> QED BY <1>2, <2>2
<1>6. CASE Commit(t)
  <2>1. PICK yes \in BOOLEAN : Save(t, [Acknowledged(m, yes) EXCEPT !.number = number[t]])
    BY <1>6 DEF Commit
  <2>2. PICK r \in Order : r = [Acknowledged(m, yes) EXCEPT !.number = number[t]]
    BY <1>1, OrderKept
  <2>3. r.po = m.po /\ r.lines /\ r.number = number[t] /\ Save(t, r) /\ pc[t] = "commit"
    <3>1. r.po = m.po /\ r.lines /\ r.number = number[t]
      BY <1>0, <2>2 DEF Order, Acknowledged
    <3> QED BY <1>6, <2>1, <2>2, <3>1 DEF Commit
  <2> QED BY <1>0, <1>2, <2>3
<1>7. CASE CommitRaises(t)
  <2>1. PICK r \in Order : r = Marked(m, number[t])
    BY <1>1, OrderKept
  <2>2. r.po = m.po /\ r.lines /\ r.number = number[t] /\ Save(t, r) /\ pc[t] = "commit"
    BY <1>0, <1>7, <2>1 DEF Order, CommitRaises, Marked
  <2> QED BY <1>0, <1>2, <2>2
<1>8. CASE Rollback(t)
  <2>1. PICK yes \in BOOLEAN : Save(t, IF answer[t] = "part" /\ yes THEN m ELSE Acknowledged(m, yes))
    BY <1>8 DEF Rollback
  <2>2. PICK r \in Order : r = IF answer[t] = "part" /\ yes THEN m ELSE Acknowledged(m, yes)
    BY OrderKept
  <2>3. r.po = m.po /\ r.lines /\ r.number = m.number
    BY <1>0, <2>2 DEF Order, Acknowledged
  <2>4. Save(t, r) /\ pc[t] = "rollback"
    BY <1>8, <2>1, <2>2 DEF Rollback
  <2> QED BY <1>2, <2>3, <2>4
<1>9. CASE RollbackRaises(t)
  <2>1. PICK r \in Order : r = [Marked(m, number[t]) EXCEPT !.lines = @ /\ ~(number[t] # 0 /\ m.number = number[t])]
    <3>1. Marked(m, number[t]) \in Order
      BY <1>1, OrderKept
    <3> QED BY <3>1 DEF Order
  <2>2. /\ r.po = m.po /\ r.number = number[t]
        /\ r.lines \/ number[t] # 0
    BY <1>0, <2>1 DEF Order, Marked
  <2>3. PICK others \in SUBSET {o \in mine[t] : o.po # m.po} :
          others = {o \in mine[t] : o.po # m.po /\ (number[t] = 0 \/ o.number # number[t])}
    OBVIOUS
  <2>4. /\ mine' = [mine EXCEPT ![t] = others \cup {r}] /\ pc[t] = "rollback"
        /\ number[t] # 0 => number[t] \in ruined'
    <3>1. mine' = [mine EXCEPT ![t] =
                     {o \in mine[t] : o.po # r.po /\ (number[t] = 0 \/ o.number # number[t])} \cup {r}]
      BY <1>9, <2>1 DEF RollbackRaises
    <3>2. others = {o \in mine[t] : o.po # r.po /\ (number[t] = 0 \/ o.number # number[t])}
      BY <2>2, <2>3
    <3>3. pc[t] = "rollback" /\ (number[t] # 0 => number[t] \in ruined')
      BY <1>9 DEF RollbackRaises
    <3> QED BY <3>1, <3>2, <3>3
  <2>5. Renumbers(t, m, r, others)
    BY <1>0, <2>2, <2>3, <2>4 DEF Renumbers
  <2> QED BY <2>5
<1>10. CASE Stumble(t)
  <2>1. UNCHANGED mine /\ cur[t] \in torn'
    BY <1>10 DEF Stumble
  <2> QED BY <1>3, <2>1
<1> QED BY <1>4, <1>5, <1>6, <1>7, <1>8, <1>9, <1>10 DEF HandStep

(* SAP takes an order with a number for the commit, or its answer is lost. *)
LEMMA HandSells ==
    ASSUME Shaped, NEW t \in Task, HandStep(t)
    PROVE  \/ UNCHANGED <<sales, number>> /\ pc'[t] # "commit"
           \/ /\ pc[t] = "sap" /\ sales' = Append(sales, [file |-> cur[t], po |-> Current(t)])
              /\ \/ pc'[t] # "commit" /\ UNCHANGED number /\ cur[t] \in torn'
                 \/ /\ pc'[t] = "commit" /\ UNCHANGED mine
                    /\ number' = [number EXCEPT ![t] = Len(sales) + 1]
<1>0. /\ pc \in [Task -> TaskPc] /\ InHand(t) /\ Mine(t).po = Current(t)
  <2>1. InHand(t)
    BY HandFrame
  <2> QED BY <2>1, AtWork DEF Shaped, TypeOK, TaskPc
<1>1. CASE CallSap(t)
  BY <1>0, <1>1 DEF CallSap, Goto
<1>2. CASE SapRaises(t)
  BY <1>0, <1>2 DEF SapRaises, Goto, Ended
<1>3. CASE Commit(t)
  BY <1>0, <1>3 DEF Commit, Goto, Ended
<1>4. CASE CommitRaises(t) \/ Rollback(t)
  BY <1>0, <1>4 DEF CommitRaises, Rollback, Goto, Ended
<1>5. CASE RollbackRaises(t)
  BY <1>0, <1>5 DEF RollbackRaises, Goto, Ended
<1>6. CASE Stumble(t)
  BY <1>0, <1>6 DEF Stumble, Goto, Ended
<1> QED BY <1>1, <1>2, <1>3, <1>4, <1>5, <1>6 DEF HandStep

LEMMA NumbersKept ==
    ASSUME Shaped, Grows, Numbers, UNCHANGED sales,
           \A p, q \in Place : \A r \in Held(p)', s \in Held(q)' :
              /\ Genuine(r)
              /\ p # q \/ r # s => Apart(r, s),
           \A t \in Task : number'[t] = number[t] \/ number'[t] = 0,
           \A t \in Task : pc'[t] = "commit" =>
              pc[t] = "commit" /\ number'[t] = number[t] /\ \A p \in Place : \A r \in Held(p)' : r.number # number[t]
    PROVE  Numbers'
<1>1. \A n \in 1..Len(sales') : Listed(n)'
  BY DEF Numbers, Grows, Listed, POs
<1>2. \A r : Genuine(r) => Genuine(r)'
  BY DEF Genuine, Grows
<1>3. \A r, s : Apart(r, s) => Apart(r, s)'
  BY DEF Apart, Grows
<1>4. \A t, x \in Task : t # x /\ number'[t] = number'[x] => number'[t] = 0
  BY DEF Numbers
<1> QED BY <1>1, <1>2, <1>3, <1>4 DEF Numbers

LEMMA NumbersHand ==
    ASSUME Shaped, Shaped', Grows, Numbers, \A x \in Task : Orderly(x), NEW t \in Task, HandStep(t)
    PROVE  Numbers'
<1>0. /\ InHand(t) /\ UNCHANGED <<cur, rows, content>> /\ 0 \notin Task /\ Len(sales) \in Nat
      /\ sales \in Seq([file : File, po : PO])
      /\ mine \in [Task -> SUBSET Order] /\ number \in [Task -> 0..Len(sales)]
      /\ \A x \in Task : x # t => pc'[x] = pc[x] /\ mine'[x] = mine[x] /\ number'[x] = number[x]
      /\ cur[t] \in File /\ Current(t) \in PO
  <2>1. InHand(t) /\ UNCHANGED <<cur, rows, content>>
    BY HandFrame
  <2>2. \A x \in Task : x # t => pc'[x] = pc[x] /\ mine'[x] = mine[x] /\ number'[x] = number[x]
    BY OthersKeep, TaskSteps DEF Shaped
  <2>3. sales \in Seq([file : File, po : PO]) /\ number \in [Task -> 0..Len(sales)]
        /\ mine \in [Task -> SUBSET Order] /\ cur[t] \in File
    BY DEF Shaped, TypeOK
  <2>4. Len(sales) \in Nat /\ 0 \notin Task
    BY <2>3 DEF Task
  <2>5. Current(t) \in PO
    BY <2>1, AtWork DEF Shaped
  <2> QED BY <2>1, <2>2, <2>3, <2>4, <2>5
<1>m. PICK m \in Order : m = Mine(t)
  BY <1>0, AtWork DEF Shaped
<1>1. PICK r \in Order : \E others \in SUBSET {o \in mine[t] : o.po # m.po} : Renumbers(t, m, r, others)
  BY <1>m, HandNumbers
<1>2. PICK others \in SUBSET {o \in mine[t] : o.po # m.po} : Renumbers(t, m, r, others)
  BY <1>1
<1>3. /\ m \in mine[t] /\ m.po = Current(t) /\ Current(t) \in POs(cur[t])
      /\ pc[t] = "commit" => number[t] \in 1..Len(sales) /\ sales[number[t]].po = m.po
  <2>1. /\ m \in mine[t] /\ m.po = Current(t) /\ Current(t) \in POs(cur[t])
    BY <1>0, <1>m, AtWork DEF Shaped
  <2>2. Fit(t, m)
    BY <1>0, <1>m DEF Orderly
  <2> QED BY <2>1, <2>2 DEF Fit
<1>4. \A x \in Task : pc[x] = "commit" => number[x] \in 1..Len(sales)
  BY DEF Orderly, Fit, InHand
<1>5. /\ \A p \in Place : p # t => Held(p)' = Held(p)
      /\ Held(t)' = others \cup {r} /\ Held(t) = mine[t]
  BY <1>0, <1>2 DEF Place, Held, Renumbers
<1>6. ASSUME NEW p \in Place, NEW o \in Held(p)' PROVE Genuine(o)'
  <2>1. CASE o \in Held(p)
    BY <2>1 DEF Numbers, Genuine, Grows
  <2>2. CASE p = t /\ o = r
    <3>1. r.po = m.po /\ Genuine(m)
      BY <1>2, <1>3, <1>5, <2>2 DEF Renumbers, Numbers
    <3>2. CASE r.number = m.number
      BY <2>2, <3>1, <3>2 DEF Genuine, Grows
    <3>3. CASE r.number = number[t] /\ pc[t] = "commit"
      BY <1>3, <2>2, <3>1, <3>3 DEF Genuine, Grows
    <3>4. CASE r.number = number[t] /\ (number[t] = 0 \/ number[t] \in ruined')
      <4>1. number[t] \in 0..Len(sales)
        BY <1>0
      <4> QED BY <2>2, <3>4, <4>1 DEF Genuine, Grows
    <3> QED BY <1>2, <3>2, <3>3, <3>4 DEF Renumbers
  <2> QED BY <1>5, <1>6, <2>1, <2>2
<1>7. ASSUME NEW q \in Place, NEW b \in Held(q), q # t \/ b # m PROVE Apart(r, b)'
  <2>1. Apart(m, b)
    <3>1. t \in Place /\ m \in Held(t)
      BY <1>3, <1>5 DEF Place
    <3>2. t # q \/ m # b
      BY <1>7
    <3> QED BY <3>1, <3>2 DEF Numbers
  <2>2. CASE r.number = m.number
    BY <2>1, <2>2 DEF Apart, Grows
  <2>3. CASE r.number = number[t] /\ pc[t] = "commit"
    BY <2>3 DEF Numbers, Apart
  <2>4. CASE r.number = number[t] /\ (number[t] = 0 \/ number[t] \in ruined')
    BY <2>4 DEF Apart
  <2> QED BY <1>2, <2>2, <2>3, <2>4 DEF Renumbers
<1>8. ASSUME NEW p \in Place, NEW q \in Place, NEW a \in Held(p)', NEW b \in Held(q)', p # q \/ a # b
      PROVE  Apart(a, b)'
  <2>1. CASE a \in Held(p) /\ b \in Held(q)
    BY <1>8, <2>1 DEF Numbers, Apart, Grows
  <2>2. CASE p = t /\ a = r /\ ~(q = t /\ b = r)
    <3>1. b \in Held(q) /\ (q # t \/ b # m)
      BY <1>5, <2>2
    <3> QED BY <1>7, <2>2, <3>1
  <2>3. CASE q = t /\ b = r /\ ~(p = t /\ a = r)
    <3>1. a \in Held(p) /\ (p # t \/ a # m)
      BY <1>5, <2>3
    <3>2. Apart(b, a)'
      BY <1>7, <2>3, <3>1
    <3> QED BY <3>2 DEF Apart
  <2> QED BY <1>5, <1>8, <2>1, <2>2, <2>3
<1>9. ASSUME NEW x \in Task, pc[x] = "commit", x # t, NEW p \in Place, NEW o \in Held(p)'
      PROVE  o.number # number[x]
  <2>1. CASE o \in Held(p)
    BY <1>9, <2>1 DEF Numbers
  <2>2. CASE p = t /\ o = r
    <3>1. m.number # number[x]
      BY <1>3, <1>5, <1>9, <2>2 DEF Numbers
    <3>2. number[t] # number[x]
      BY <1>4, <1>9 DEF Numbers
    <3> QED BY <1>2, <2>2, <3>1, <3>2 DEF Renumbers
  <2> QED BY <1>5, <1>9, <2>1, <2>2
<1>10. \A x \in Task : x # t /\ pc'[x] = "commit" => \A p \in Place : \A o \in Held(p)' : o.number # number'[x]
  BY <1>0, <1>9
<1>11. CASE UNCHANGED <<sales, number>> /\ pc'[t] # "commit"
  <2>1. \A n \in 1..Len(sales') : Listed(n)'
    BY <1>0, <1>11 DEF Numbers, Listed, POs
  <2>2. \A x, y \in Task : x # y /\ number'[x] = number'[y] => number'[x] = 0
    BY <1>11 DEF Numbers
  <2> QED BY <1>6, <1>8, <1>10, <1>11, <2>1, <2>2 DEF Numbers
<1>12. CASE sales' = Append(sales, [file |-> cur[t], po |-> Current(t)])
  <2>1. /\ Len(sales') = Len(sales) + 1
        /\ sales'[Len(sales) + 1] = [file |-> cur[t], po |-> Current(t)]
        /\ \A n \in 1..Len(sales) : sales'[n] = sales[n]
    BY <1>0, <1>12
  <2>2. \A n \in 1..Len(sales') : Listed(n)'
    <3>1. ASSUME NEW n \in 1..Len(sales') PROVE sales'[n].po \in POs(sales'[n].file)
      <4>1. CASE n \in 1..Len(sales)
        BY <2>1, <4>1 DEF Numbers, Listed
      <4>2. CASE n = Len(sales) + 1
        BY <1>3, <2>1, <4>2
      <4> QED BY <1>0, <2>1, <4>1, <4>2
    <3> QED BY <1>0, <3>1 DEF Listed, POs
  <2>3. CASE pc'[t] # "commit" /\ UNCHANGED number
    <3>1. \A x, y \in Task : x # y /\ number'[x] = number'[y] => number'[x] = 0
      BY <2>3 DEF Numbers
    <3> QED BY <1>6, <1>8, <1>10, <2>2, <2>3, <3>1 DEF Numbers
  <2>4. CASE UNCHANGED mine /\ number' = [number EXCEPT ![t] = Len(sales) + 1]
    <3>1. number'[t] = Len(sales) + 1 /\ \A x \in Task : number[x] \in 0..Len(sales)
      BY <1>0, <2>4
    <3>2. \A x, y \in Task : x # y /\ number'[x] = number'[y] => number'[x] = 0
      BY <1>0, <3>1 DEF Numbers
    <3>3. ASSUME NEW p \in Place, NEW o \in Held(p)' PROVE o.number # number'[t]
      <4>1. o \in Held(p)
        BY <1>0, <2>4, <3>3 DEF Held
      <4>2. o.number \in 0..Len(sales)
        BY <4>1 DEF Numbers, Genuine
      <4> QED BY <1>0, <3>1, <4>2
    <3> QED BY <1>6, <1>8, <1>10, <2>2, <3>2, <3>3 DEF Numbers
  <2> QED BY <1>12, <2>3, <2>4, <1>11, HandSells
<1> QED BY <1>11, <1>12, HandSells

LEMMA NumbersStep ==
    ASSUME Shaped, Shaped', [Next]_vars, \A t \in Task : Orderly(t), Numbers
    PROVE  Numbers'
<1>0. Grows /\ 0 \notin Task
  BY Growing DEF Task
<1>1. ASSUME UNCHANGED <<sales, rows, mine, number>>, \A t \in Task : pc'[t] = "commit" => pc[t] = "commit"
      PROVE  Numbers'
  <2>1. \A p \in Place : Held(p)' = Held(p)
    BY <1>1 DEF Held
  <2> QED BY <1>0, <1>1, <2>1, NumbersKept DEF Numbers
<1>2. ASSUME NEW f \in File, FileStep(f) PROVE Numbers'
  BY <1>1, <1>2, FileStepKeeps, WithdrawKeeps DEF Orders
<1>3. ASSUME NEW t \in Task, TaskStep(t) PROVE Numbers'
  <2>0. \A x \in Task : x # t => pc'[x] = pc[x] /\ mine'[x] = mine[x] /\ number'[x] = number[x]
    BY <1>3, OthersKeep DEF Shaped
  <2>1. CASE OuterStep(t)
    BY <1>1, <2>0, <2>1, OuterFrame DEF Shaped, Inside
  <2>2. CASE Validate(t) /\ ~Repeated(cur[t])
    BY <1>1, <2>0, <2>2, EnterFrame DEF Shaped
  <2>3. CASE HandStep(t)
    BY <1>0, <2>3, NumbersHand
  <2>4. CASE Prepare(t)
    <3>1. /\ UNCHANGED <<sales, rows, number>> /\ pc'[t] # "commit"
          /\ \A o \in mine'[t] : o \in mine[t] \/ o = Reserved(t)
      BY <2>4 DEF Prepare, Ended, Goto, Shaped, TypeOK
    <3>2. PICK new \in {Reserved(t)} : new.number = 0
      BY DEF Reserved
    <3>3. \A p \in Place : \A o \in Held(p)' : o \in Held(p) \/ (p = t /\ o = new)
      BY <2>0, <3>1, <3>2 DEF Held, Place
    <3>4. \A o : Genuine(new) /\ Apart(new, o) /\ Apart(o, new)
      BY <3>2 DEF Genuine, Apart
    <3>5. \A p, q \in Place : \A r \in Held(p)', s \in Held(q)' : Genuine(r) /\ (p # q \/ r # s => Apart(r, s))
      BY <3>3, <3>4 DEF Numbers
    <3>6. ASSUME NEW x \in Task, pc'[x] = "commit", NEW p \in Place, NEW o \in Held(p)'
          PROVE  o.number # number[x]
      <4>1. x # t /\ pc[x] = "commit"
        BY <2>0, <3>1, <3>6
      <4>2. number[x] \in 1..Len(sales)
        BY <4>1 DEF Orderly, Fit, InHand
      <4> QED BY <3>2, <3>3, <3>6, <4>1, <4>2 DEF Numbers
    <3> QED BY <1>0, <2>0, <3>1, <3>5, <3>6, NumbersKept
  <2>5. CASE CommitFile(t) \/ Die(t)
    <3>1. /\ UNCHANGED sales /\ pc'[t] # "commit" /\ mine'[t] = {} /\ number'[t] = 0
          /\ rows' \subseteq rows \cup mine[t]
      <4>1. rows' \subseteq rows \cup mine[t]
        BY <2>5 DEF CommitFile, Kept, Die
      <4> QED BY <2>5, <4>1, LeaveFrame DEF Shaped, Inside
    <3>2. \A p \in Place : \A o \in Held(p)' : (p # t /\ o \in Held(p)) \/ (p = 0 /\ o \in Held(t))
      BY <1>0, <2>0, <3>1 DEF Held, Place
    <3>3. t \in Place
      BY DEF Place
    <3>4. \A p, q \in Place : \A r \in Held(p)', s \in Held(q)' : Genuine(r) /\ (p # q \/ r # s => Apart(r, s))
      BY <3>2, <3>3 DEF Numbers
    <3>5. \A x \in Task : pc'[x] = "commit" =>
             pc[x] = "commit" /\ number'[x] = number[x] /\ \A p \in Place : \A r \in Held(p)' : r.number # number[x]
      BY <2>0, <3>1, <3>2, <3>3 DEF Numbers
    <3> QED BY <1>0, <2>0, <3>1, <3>4, <3>5, NumbersKept
  <2> QED BY <1>3, <2>1, <2>2, <2>3, <2>4, <2>5, TaskSteps
<1> QED BY <1>1, <1>2, <1>3, NextSteps DEF vars

LEMMA NumbersInit == Init => Numbers
<1> SUFFICES ASSUME Init PROVE Numbers
  OBVIOUS
<1>1. sales = << >> /\ \A p \in Place : Held(p) = {}
  BY DEF Init, Held, Place
<1>2. \A t \in Task : pc[t] = "idle" /\ number[t] = 0
  BY DEF Init
<1> QED BY <1>1, <1>2 DEF Numbers

----------------------------------------------------------------------------
(* Where the order of a number SAP has given is: committed, or with the    *)
(* task that works on its file.                                            *)
Records(r, n)    == r.number = n /\ r.po = sales[n].po /\ r.lines
RecordedBy(t, n) == /\ pc[t] \in Inside /\ cur[t] = sales[n].file
                    /\ \/ \E r \in mine[t] : Records(r, n)
                       \/ pc[t] = "commit" /\ number[t] = n

Recorded(n) == \/ sales[n].file \in torn
               \/ \E r \in rows : Records(r, n)
               \/ \E t \in Task : RecordedBy(t, n)

Ledger == \A n \in 1..Len(sales) : n \in ruined \/ Recorded(n)

LEMMA RecordedHand ==
    ASSUME Shaped, Grows, NEW t \in Task, HandStep(t), Orderly(t),
           NEW n \in 1..Len(sales), n \notin ruined', RecordedBy(t, n), Genuine(Mine(t))
    PROVE  RecordedBy(t, n)' \/ sales'[n].file \in torn'
<1>0. /\ InHand(t) /\ cur' = cur /\ pc'[t] \in Inside /\ pc \in [Task -> TaskPc]
      /\ mine \in [Task -> SUBSET Order]
  <2>1. /\ InHand(t) /\ cur' = cur
        /\ Ended(t) \/ \E p \in {"sap", "commit", "rollback"} : Goto(t, p)
    BY HandFrame
  <2>2. pc \in [Task -> TaskPc] /\ mine \in [Task -> SUBSET Order]
    BY DEF Shaped, TypeOK, TaskPc
  <2> QED BY <2>1, <2>2 DEF Ended, Goto, Inside
<1>m. PICK m \in Order : m = Mine(t)
  BY <1>0, AtWork DEF Shaped
<1>1. PICK r \in Order : \E others \in SUBSET {o \in mine[t] : o.po # m.po} : Renumbers(t, m, r, others)
  BY <1>m, HandNumbers
<1>2. PICK others \in SUBSET {o \in mine[t] : o.po # m.po} : Renumbers(t, m, r, others)
  BY <1>1
<1>3. /\ m.po = Current(t) /\ Fit(t, m)
      /\ \A o \in mine[t] : o.po = Current(t) => o = m
  BY <1>0, <1>m, AtWork DEF Shaped, Orderly
<1>4. mine'[t] = others \cup {r} /\ sales'[n] = sales[n] /\ n # 0
  BY <1>0, <1>2 DEF Renumbers, Grows
<1>5. CASE \E o \in mine[t] : Records(o, n)
  <2>1. PICK o \in mine[t] : Records(o, n)
    BY <1>5
  <2>2. CASE o = m
    <3>1. r.number = n /\ r.po = sales[n].po /\ r.lines
      BY <1>2, <1>4, <2>1, <2>2 DEF Renumbers, Records
    <3>2. Records(r, n)' /\ r \in mine'[t]
      BY <1>4, <3>1 DEF Records
    <3> QED BY <1>0, <1>4, <3>2 DEF RecordedBy
  <2>3. CASE o # m
    <3>1. o \in others
      BY <1>2, <1>3, <2>1, <2>3 DEF Renumbers, Records
    <3>2. Records(o, n)' /\ o \in mine'[t]
      BY <1>4, <2>1, <3>1 DEF Records
    <3> QED BY <1>0, <1>4, <3>2 DEF RecordedBy
  <2> QED BY <2>2, <2>3
<1>6. CASE pc[t] = "commit" /\ number[t] = n
  <2>1. CASE cur[t] \in torn'
    BY <1>4, <2>1 DEF RecordedBy
  <2>2. CASE r.number = number[t]
    <3>1. r.po = sales[n].po /\ r.lines
      BY <1>2, <1>3, <1>6, <2>2 DEF Renumbers, Fit
    <3>2. Records(r, n)' /\ r \in mine'[t]
      BY <1>4, <1>6, <2>2, <3>1 DEF Records
    <3> QED BY <1>0, <1>4, <3>2 DEF RecordedBy
  <2> QED BY <1>2, <1>6, <2>1, <2>2 DEF Renumbers
<1> QED BY <1>5, <1>6 DEF RecordedBy

LEMMA LedgerTask ==
    ASSUME Shaped, Shaped', Grows, \A x \in Task : Orderly(x), Numbers, Ledger,
           NEW t \in Task, TaskStep(t)
    PROVE  Ledger'
<1>0. /\ pc \in [Task -> TaskPc] /\ cur \in [Task -> File] /\ mine \in [Task -> SUBSET Order]
      /\ sales \in Seq([file : File, po : PO]) /\ Len(sales) \in Nat
  <2>1. TypeOK
    BY DEF Shaped
  <2>2. pc \in [Task -> TaskPc] /\ cur \in [Task -> File] /\ mine \in [Task -> SUBSET Order]
    BY <2>1 DEF TypeOK, TaskPc
  <2>3. sales \in Seq([file : File, po : PO])
    BY <2>1 DEF TypeOK
  <2> QED BY <2>2, <2>3
<1>1. \A x \in Task : x # t => /\ pc'[x] = pc[x] /\ cur'[x] = cur[x] /\ mine'[x] = mine[x]
                               /\ number'[x] = number[x]
  BY OthersKeep DEF Shaped
<1>2. rows \subseteq rows'
  <2>1. CASE CommitFile(t) \/ Die(t)
    BY <2>1 DEF CommitFile, Die
  <2>2. CASE Prepare(t)
    BY <2>2 DEF Prepare
  <2> QED BY <2>1, <2>2, TaskSteps, OuterFrame, EnterFrame, HandFrame DEF Shaped
<1>3. ASSUME NEW n \in 1..Len(sales), n \notin ruined',
             RecordedBy(t, n) => Recorded(n)'
      PROVE  Recorded(n)'
  <2>1. n \notin ruined /\ sales'[n] = sales[n] /\ torn \subseteq torn'
    BY <1>3 DEF Grows
  <2>2. CASE sales[n].file \in torn
    BY <2>1, <2>2 DEF Recorded
  <2>3. CASE \E r \in rows : Records(r, n)
    BY <1>2, <2>1, <2>3 DEF Recorded, Records
  <2>4. ASSUME NEW x \in Task, x # t, RecordedBy(x, n) PROVE Recorded(n)'
    <3>1. RecordedBy(x, n)'
      BY <1>1, <2>1, <2>4 DEF RecordedBy, Records
    <3> QED BY <3>1 DEF Recorded
  <2> QED BY <1>3, <2>1, <2>2, <2>3, <2>4 DEF Ledger, Recorded
<1>4. ASSUME UNCHANGED sales, \A n \in 1..Len(sales) : n \notin ruined' /\ RecordedBy(t, n) => Recorded(n)'
      PROVE  Ledger'
  BY <1>3, <1>4 DEF Ledger
<1>5. CASE OuterStep(t)
  BY <1>4, <1>5, OuterFrame DEF Shaped, RecordedBy
<1>6. CASE Validate(t) /\ ~Repeated(cur[t])
  BY <1>4, <1>6, EnterFrame DEF Shaped, RecordedBy, Inside
<1>7. CASE Prepare(t)
  <2>1. /\ UNCHANGED <<sales, cur>> /\ pc[t] = "order" /\ pc'[t] \in Inside /\ mine[t] \subseteq mine'[t]
    BY <1>0, <1>7 DEF Prepare, Ended, Goto, Inside
  <2>2. ASSUME NEW n \in 1..Len(sales), RecordedBy(t, n) PROVE RecordedBy(t, n)'
    BY <2>1, <2>2 DEF RecordedBy, Records
  <2> QED BY <1>4, <2>1, <2>2 DEF Recorded
<1>8. CASE HandStep(t)
  <2>1. Mine(t) \in Held(t) /\ t \in Place
    <3>1. InHand(t)
      BY <1>8, HandFrame
    <3>2. t # 0
      BY DEF Task
    <3> QED BY <3>1, <3>2, AtWork DEF Shaped, Held, Place
  <2>2. Genuine(Mine(t))
    BY <2>1 DEF Numbers
  <2>3. ASSUME NEW n \in 1..Len(sales), n \notin ruined' PROVE Recorded(n)'
    <3>1. RecordedBy(t, n) => Recorded(n)'
      BY <1>8, <2>2, <2>3, RecordedHand DEF Recorded
    <3> QED BY <1>3, <2>3, <3>1
  <2>4. CASE UNCHANGED sales
    BY <2>3, <2>4 DEF Ledger
  <2>5. CASE sales' = Append(sales, [file |-> cur[t], po |-> Current(t)])
    <3>1. /\ Len(sales') = Len(sales) + 1 /\ cur' = cur
          /\ sales'[Len(sales) + 1].file = cur[t]
      <4>1. cur[t] \in File /\ Current(t) \in PO
        BY <1>0, <1>8, HandFrame, AtWork DEF Shaped
      <4> QED BY <1>0, <1>8, <2>5, <4>1, HandFrame
    <3>2. ASSUME NEW k \in Nat, k = Len(sales) + 1 PROVE Recorded(k)'
      <4>1. CASE cur[t] \in torn'
        BY <3>1, <3>2, <4>1 DEF Recorded
      <4>2. CASE pc'[t] = "commit" /\ number' = [number EXCEPT ![t] = Len(sales) + 1]
        <5>1. number'[t] = k
          BY <3>2, <4>2 DEF Shaped, TypeOK
        <5>2. RecordedBy(t, k)'
          BY <3>1, <3>2, <4>2, <5>1 DEF RecordedBy, Inside
        <5> QED BY <5>2 DEF Recorded
      <4>3. sales' # sales
        BY <1>0, <3>1
      <4> QED BY <1>8, <4>1, <4>2, <4>3, HandSells
    <3>3. ASSUME NEW n \in 1..Len(sales'), n \notin ruined' PROVE Recorded(n)'
      <4>1. n \in 1..Len(sales) \/ (n \in Nat /\ n = Len(sales) + 1)
        BY <1>0, <3>1
      <4> QED BY <2>3, <3>2, <3>3, <4>1
    <3> QED BY <3>3 DEF Ledger
  <2> QED BY <1>8, <2>4, <2>5, HandFrame
<1>9. CASE CommitFile(t)
  <2>1. UNCHANGED <<sales, ruined>> /\ rows' = rows \cup {r \in Kept(t) : Known(r)} /\ pc[t] = "order"
    BY <1>9 DEF CommitFile, Marks
  <2>2. ASSUME NEW n \in 1..Len(sales), n \notin ruined', RecordedBy(t, n) PROVE Recorded(n)'
    <3>1. PICK r \in mine[t] : Records(r, n)
      BY <2>1, <2>2 DEF RecordedBy
    <3>2. r.number # 0 /\ r.number \notin ruined
      BY <2>1, <2>2, <3>1 DEF Records
    <3>3. ~r.being
      BY <3>2 DEF Orderly, Sound
    <3>4. r \in rows'
      BY <2>1, <3>2, <3>3 DEF Kept, Known
    <3> QED BY <2>1, <3>1, <3>4 DEF Recorded, Records
  <2> QED BY <1>4, <2>1, <2>2
<1>10. CASE Die(t)
  <2>1. UNCHANGED sales /\ torn' = torn \cup {cur[t]}
    BY <1>10 DEF Die
  <2>2. ASSUME NEW n \in 1..Len(sales), RecordedBy(t, n) PROVE Recorded(n)'
    BY <2>1, <2>2 DEF Recorded, RecordedBy
  <2> QED BY <1>4, <2>1, <2>2
<1> QED BY <1>5, <1>6, <1>7, <1>8, <1>9, <1>10, TaskSteps

(* All that relates numbers, SAP's orders and the rows.                    *)
Books == Numbers /\ Ledger

LEMMA BooksStep == Shaped /\ Shaped' /\ Kempt /\ Books /\ [Next]_vars => Books'
<1> SUFFICES ASSUME Shaped, Shaped', Kempt, Books, [Next]_vars PROVE Books'
  OBVIOUS
<1>1. Grows /\ Numbers'
  BY Growing, NumbersStep DEF Kempt, Books
<1>2. CASE UNCHANGED <<sales, rows, pc, cur, mine, number, torn, ruined>>
  BY <1>1, <1>2 DEF Books, Ledger, Recorded, RecordedBy, Records
<1>3. ASSUME NEW f \in File, FileStep(f) PROVE Books'
  BY <1>2, <1>3, FileStepKeeps, WithdrawKeeps DEF Orders
<1>4. ASSUME NEW t \in Task, TaskStep(t) PROVE Books'
  BY <1>1, <1>4, LedgerTask DEF Books, Kempt
<1> QED BY <1>2, <1>3, <1>4, NextSteps DEF vars

LEMMA BooksInit == Init => Books
<1> SUFFICES ASSUME Init PROVE Books
  OBVIOUS
<1>1. sales = << >>
  BY DEF Init
<1> QED BY <1>1, NumbersInit DEF Books, Ledger

(* Every SAP order has its order in the database, for the purchase order   *)
(* it was made for and with its lines, and every number there is one of    *)
(* SAP; apart from lost answers and what failed rollbacks do to numbers    *)
(* (save_po_order, whose handlers work with the last sap_order_number).    *)
THEOREM RowsAgreeWithSap == Spec => []RowsFollowSap
<1>1. ASSUME Shaped, Books PROVE RowsFollowSap
  <2>1. ASSUME NEW n \in 1..Len(sales) \ ruined
        PROVE  sales[n].file \in torn \/ Working(sales[n].file)
               \/ \E r \in Numbered(n) : r.po = sales[n].po /\ r.lines
    BY <1>1, <2>1 DEF Books, Ledger, Recorded, RecordedBy, Records, Working, Numbered
  <2>2. ASSUME NEW r \in rows, r.number # 0, r.number \notin ruined
        PROVE  r.number <= Len(sales) /\ r.po = sales[r.number].po /\ Numbered(r.number) = {r}
    <3>1. 0 \in Place /\ Held(0) = rows
      BY DEF Place, Held
    <3>2. Genuine(r) /\ \A s \in rows : r # s => Apart(r, s)
      BY <1>1, <3>1 DEF Books, Numbers
    <3>3. sales \in Seq([file : File, po : PO])
      BY <1>1 DEF Shaped, TypeOK
    <3>4. r.number <= Len(sales) /\ r.po = sales[r.number].po
      BY <2>2, <3>2, <3>3 DEF Genuine
    <3>5. Numbered(r.number) = {r}
      BY <2>2, <3>2 DEF Apart, Numbered
    <3> QED BY <3>4, <3>5
  <2> QED BY <2>1, <2>2 DEF RowsFollowSap
<1> QED BY <1>1, ShapedInit, ShapedStep, KemptInit, KemptStep, BooksInit, BooksStep, PTL DEF Spec

----------------------------------------------------------------------------
(* A purchase order two tasks work on at once is marked; and no other has  *)
(* been ordered when a task whose user may not repeat it is inside.        *)
Exclusive ==
    /\ \A t, x \in Task : t # x /\ pc[t] \in Inside /\ pc[x] \in Inside =>
          POs(cur[t]) \cap POs(cur[x]) \subseteq doubled
    /\ \A t \in Task : pc[t] \in Inside /\ cur[t] \notin staff =>
          \A r \in rows : r.number # 0 /\ r.po \in POs(cur[t]) => r.po \in doubled

Excepted(po) == \/ po \in doubled
                \/ \E f \in staff \cup torn : po \in POs(f)
                \/ \E n \in Sold(po) : n \in ruined

SoldOnce == \A po \in PO : Excepted(po) \/ \A n, m \in Sold(po) : n = m

LEMMA ExclusiveStep == Shaped /\ Exclusive /\ [Next]_vars => Exclusive'
<1> SUFFICES ASSUME Shaped, Exclusive, [Next]_vars PROVE Exclusive'
  OBVIOUS
<1>0. Grows /\ \A f : POs(f)' = POs(f)
  BY Growing DEF Grows, POs
<1>1. ASSUME UNCHANGED rows, \A x \in Task : pc'[x] \in Inside => pc[x] \in Inside /\ cur'[x] = cur[x]
      PROVE  Exclusive'
  BY <1>0, <1>1 DEF Exclusive, Grows
<1>2. ASSUME NEW f \in File, FileStep(f) PROVE Exclusive'
  BY <1>1, <1>2, FileStepKeeps, WithdrawKeeps DEF Orders
<1>3. ASSUME NEW t \in Task, TaskStep(t) PROVE Exclusive'
  <2>0. \A x \in Task : x # t => pc'[x] = pc[x] /\ cur'[x] = cur[x]
    BY <1>3, OthersKeep DEF Shaped
  <2>1. CASE OuterStep(t)
    BY <1>1, <2>0, <2>1, OuterFrame DEF Shaped
  <2>2. CASE Prepare(t)
    BY <1>1, <2>0, <2>2 DEF Prepare, Inside
  <2>3. CASE HandStep(t)
    BY <1>1, <2>0, <2>3, HandFrame DEF InHand, Inside
  <2>4. CASE Die(t)
    <3>1. UNCHANGED rows
      BY <2>4 DEF Die
    <3> QED BY <1>1, <2>0, <2>4, <3>1, LeaveFrame DEF Shaped
  <2>5. CASE Validate(t) /\ ~Repeated(cur[t])
    <3>1. /\ UNCHANGED <<rows, cur, staff>> /\ pc'[t] \in Inside
          /\ doubled' = doubled \cup
                UNION {POs(cur[t]) \cap POs(cur[x]) : x \in {y \in Task \ {t} : pc[y] \in Inside}}
      BY <2>5, EnterFrame DEF Shaped, Inside
    <3>2. ASSUME NEW x \in Task, x # t, pc[x] \in Inside
          PROVE  POs(cur[t]) \cap POs(cur[x]) \subseteq doubled'
      BY <3>1, <3>2
    <3>3. cur[t] \notin staff => \A r \in rows : ~(r.number # 0 /\ r.po \in POs(cur[t]))
      BY <2>5 DEF Repeated
    <3>4. ASSUME NEW y \in Task, NEW x \in Task, y # x, pc'[y] \in Inside, pc'[x] \in Inside
          PROVE  POs(cur[y]) \cap POs(cur[x]) \subseteq doubled'
      <4>1. CASE y # t /\ x # t
        BY <1>0, <2>0, <3>4, <4>1 DEF Exclusive, Grows
      <4>2. CASE y = t
        BY <2>0, <3>2, <3>4, <4>2
      <4>3. CASE x = t
        BY <2>0, <3>2, <3>4, <4>3
      <4> QED BY <4>1, <4>2, <4>3
    <3>5. ASSUME NEW x \in Task, pc'[x] \in Inside, cur[x] \notin staff, NEW r \in rows,
                 r.number # 0, r.po \in POs(cur[x])
          PROVE  r.po \in doubled'
      BY <1>0, <2>0, <3>3, <3>5 DEF Exclusive, Grows
    <3> QED BY <1>0, <3>1, <3>4, <3>5 DEF Exclusive
  <2>6. CASE CommitFile(t)
    <3>1. /\ UNCHANGED <<cur, staff, doubled>> /\ pc[t] \in Inside /\ pc'[t] \notin Inside
          /\ rows' \subseteq rows \cup mine[t]
      <4>1. UNCHANGED <<cur, staff, doubled>> /\ pc[t] \in Inside /\ rows' \subseteq rows \cup mine[t]
        BY <2>6 DEF CommitFile, Uploads, Marks, Kept, Inside
      <4> QED BY <2>6, <4>1, LeaveFrame DEF Shaped
    <3>2. \A r \in mine[t] : r.po \in POs(cur[t])
      BY DEF Shaped, Shape, POs
    <3>3. ASSUME NEW x \in Task, pc'[x] \in Inside, cur[x] \notin staff, NEW r \in rows',
                 r.number # 0, r.po \in POs(cur[x])
          PROVE  r.po \in doubled
      <4>1. x # t /\ pc[x] \in Inside
        BY <2>0, <3>1, <3>3
      <4>2. CASE r \in rows
        BY <3>3, <4>1, <4>2 DEF Exclusive
      <4>3. CASE r \in mine[t]
        BY <3>1, <3>2, <3>3, <4>1, <4>3 DEF Exclusive
      <4> QED BY <3>1, <4>2, <4>3
    <3>4. \A y, x \in Task : y # x /\ pc'[y] \in Inside /\ pc'[x] \in Inside =>
             POs(cur[y]) \cap POs(cur[x]) \subseteq doubled
      BY <2>0, <3>1 DEF Exclusive
    <3> QED BY <1>0, <3>1, <3>3, <3>4 DEF Exclusive
  <2> QED BY <1>3, <2>1, <2>2, <2>3, <2>4, <2>5, <2>6, TaskSteps
<1> QED BY <1>1, <1>2, <1>3, NextSteps DEF vars

LEMMA SoldOnceStep ==
    ASSUME Shaped, Shaped', [Next]_vars, Kempt, Books, Exclusive, SoldOnce
    PROVE  SoldOnce'
<1>0. Grows /\ sales \in Seq([file : File, po : PO]) /\ Len(sales) \in Nat
  BY Growing DEF Shaped, TypeOK
<1>1. ASSUME NEW po \in PO, Excepted(po) PROVE Excepted(po)'
  <2>1. Sold(po) \subseteq Sold(po)'
    BY <1>0 DEF Sold, Grows
  <2>2. \A f : POs(f)' = POs(f)
    BY <1>0 DEF POs, Grows
  <2> QED BY <1>0, <1>1, <2>1, <2>2 DEF Excepted, Grows
<1>2. CASE UNCHANGED sales
  BY <1>1, <1>2 DEF SoldOnce, Sold
<1>3. ASSUME NEW t \in Task, HandStep(t), sales' # sales PROVE SoldOnce'
  <2>1. /\ pc[t] = "sap" /\ InHand(t) /\ UNCHANGED <<rows, content, staff>>
        /\ sales' = Append(sales, [file |-> cur[t], po |-> Current(t)])
        /\ cur[t] \in torn' \/ UNCHANGED torn
    BY <1>3, HandSells, HandFrame
  <2>2. PICK m \in mine[t] : m = Mine(t)
    BY <2>1, AtWork DEF Shaped
  <2>3. /\ m.po = Current(t) /\ m.number = 0 /\ Current(t) \in POs(cur[t]) /\ Current(t) \in PO
        /\ \A r \in mine[t] : r.po = Current(t) => r = m
        /\ cur[t] \in File
    <3>1. Fit(t, m)
      BY <2>1, <2>2 DEF Kempt, Orderly
    <3>2. m.number = 0
      BY <2>1, <3>1 DEF Fit, Asking
    <3> QED BY <2>1, <2>2, <3>2, AtWork DEF Shaped, TypeOK
  <2>4. \A n \in 1..Len(sales') : \/ n \in 1..Len(sales) /\ sales'[n] = sales[n]
                                  \/ n = Len(sales) + 1 /\ sales'[n].po = Current(t)
    <3>1. Len(sales') = Len(sales) + 1 /\ \A n \in 1..Len(sales) : sales'[n] = sales[n]
      BY <1>0, <2>1, <2>3
    <3>2. sales'[Len(sales) + 1].po = Current(t)
      BY <1>0, <2>1, <2>3
    <3>3. \A n \in 1..Len(sales') : n \in 1..Len(sales) \/ n = Len(sales) + 1
      BY <1>0, <3>1
    <3> QED BY <3>1, <3>2, <3>3
  <2>5. ASSUME NEW po \in PO, po # Current(t) PROVE Excepted(po)' \/ \A n, k \in Sold(po)' : n = k
    <3>1. Sold(po)' \subseteq Sold(po)
      BY <2>4, <2>5 DEF Sold
    <3> QED BY <1>1, <3>1 DEF SoldOnce
  <2>6. ASSUME NEW po \in PO, po = Current(t), NEW k \in Sold(po) PROVE Excepted(po)'
    <3>1. k \in 1..Len(sales) /\ sales[k].po = po
      BY <2>6 DEF Sold
    <3>2. po \in POs(sales[k].file)
      BY <3>1 DEF Books, Numbers, Listed
    <3>3. CASE k \in ruined
      BY <1>1, <2>6, <3>3 DEF Excepted
    <3>4. CASE sales[k].file \in torn
      BY <1>1, <3>2, <3>4 DEF Excepted
    <3>5. ASSUME NEW r \in rows, Records(r, k) PROVE Excepted(po)'
      <4>1. r.number # 0 /\ r.po \in POs(cur[t])
        BY <2>3, <2>6, <3>1, <3>5 DEF Records
      <4>2. cur[t] \in staff \/ r.po \in doubled
        BY <2>1, <4>1 DEF Exclusive, Inside
      <4>3. Excepted(po)
        BY <2>3, <2>6, <3>1, <3>5, <4>2 DEF Excepted, Records
      <4> QED BY <1>1, <4>3
    <3>6. ASSUME NEW x \in Task, RecordedBy(x, k) PROVE Excepted(po)'
      <4>1. CASE x # t
        <5>1. po \in doubled
          BY <2>1, <2>3, <2>6, <3>2, <3>6, <4>1 DEF Exclusive, RecordedBy, Inside
        <5> QED BY <1>1, <5>1 DEF Excepted
      <4>2. CASE x = t
        <5>1. PICK r \in mine[t] : Records(r, k)
          BY <2>1, <3>6, <4>2 DEF RecordedBy
        <5>2. r = m /\ r.number # 0
          BY <2>3, <2>6, <3>1, <5>1 DEF Records
        <5> QED BY <2>3, <5>2
      <4> QED BY <4>1, <4>2
    <3> QED BY <3>1, <3>3, <3>4, <3>5, <3>6 DEF Books, Ledger, Recorded
  <2>7. ASSUME NEW po \in PO, po = Current(t) PROVE Excepted(po)' \/ \A n, k \in Sold(po)' : n = k
    <3>1. CASE \E k \in 1..Len(sales) : sales[k].po = po
      BY <2>6, <2>7, <3>1 DEF Sold
    <3>2. CASE \A k \in 1..Len(sales) : sales[k].po # po
      <4>1. \A n \in Sold(po)' : n = Len(sales) + 1
        BY <2>4, <3>2 DEF Sold
      <4> QED BY <4>1
    <3> QED BY <3>1, <3>2
  <2> QED BY <2>5, <2>7 DEF SoldOnce
<1>4. ASSUME NEW f \in File, FileStep(f) PROVE UNCHANGED sales
  BY <1>4, FileStepKeeps, WithdrawKeeps DEF Orders
<1>5. ASSUME NEW t \in Task, TaskStep(t), ~HandStep(t) PROVE UNCHANGED sales
  BY <1>5, TaskSteps, OuterFrame, EnterFrame, LeaveFrame DEF Prepare, Shaped
<1> QED BY <1>2, <1>3, <1>4, <1>5, NextSteps DEF vars

(* A customer gets at most one order for a purchase order number, whatever *)
(* is uploaded or sent again, unless two tasks had the number at once, an  *)
(* answer or a task was lost, or a failed rollback took the row            *)
(* (validate_duplicate_po_for_customer_user and save_po_order).            *)
THEOREM OneOrderForEachPo == Spec => []OneOrderPerPo
<1>1. ASSUME SoldOnce PROVE OneOrderPerPo
  <2>1. ASSUME NEW po \in PO, \A n, m \in Sold(po) : n = m PROVE Cardinality(Sold(po)) <= 1
    <3>1. CASE Sold(po) = {}
      BY <3>1, FS_EmptySet
    <3>2. ASSUME NEW n \in Sold(po) PROVE Cardinality(Sold(po)) <= 1
      <4>1. Sold(po) = {n}
        BY <2>1, <3>2
      <4>2. Cardinality({n}) = 1
        BY FS_Singleton
      <4> QED BY <4>1, <4>2
    <3> QED BY <3>1, <3>2
  <2> QED BY <1>1, <2>1 DEF SoldOnce, Excepted, OneOrderPerPo
<1>2. Init => Exclusive /\ SoldOnce
  BY DEF Init, Exclusive, SoldOnce, Sold, Inside
<1>3. Shaped /\ Shaped' /\ Kempt /\ Books /\ Exclusive /\ SoldOnce /\ [Next]_vars => Exclusive' /\ SoldOnce'
  BY ExclusiveStep, SoldOnceStep
<1> QED BY <1>1, <1>2, <1>3, ShapedInit, ShapedStep, KemptInit, KemptStep, BooksInit, BooksStep, PTL DEF Spec
=============================================================================
