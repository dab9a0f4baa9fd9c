--------------------------- MODULE JobLock_proofs ---------------------------
(***************************************************************************)
(* Theorems of JobLock, for every set of workers and every bound: type     *)
(* correctness, and that only a killed worker can leave an orphan lock.    *)
(***************************************************************************)
EXTENDS JobLock, TLAPS

USE DEF Row, NoRow, Goto, SetInfo, End

(* complete() is reached with a row in self.job_information, by a worker   *)
(* that executed the job and by a refused one.                             *)
HasRow == \A w \in Worker : pc[w] \in {"run", "find", "write"} => info[w] \in Row

(* The type invariant is inductive together with HasRow: complete() saves  *)
(* the row of self.job_information, which must be one.                     *)
Typed == TypeOK /\ HasRow

(* Every step of the lock protocol keeps the types, the rows in            *)
(* self.job_information and the locked rows among the rows of the table.   *)
LEMMA TypedStep == Typed /\ [Next]_vars => Typed'
<1> SUFFICES ASSUME Typed, [Next]_vars PROVE Typed'
  OBVIOUS
<1> USE BoundAssumption DEF Typed, TypeOK, HasRow
<1>1. CASE UNCHANGED vars
  BY <1>1 DEF vars
<1>2. ASSUME NEW w \in Worker, Filter(w) PROVE Typed'
  BY <1>2 DEF Filter, FirstLocked
<1>3. ASSUME NEW w \in Worker, GetRow(w) PROVE Typed'
  BY <1>3 DEF GetRow
<1>4. ASSUME NEW w \in Worker, CreateRow(w) PROVE Typed'
  BY <1>4 DEF CreateRow
<1>5. ASSUME NEW w \in Worker, Run(w) PROVE Typed'
  BY <1>5 DEF Run
<1>6. ASSUME NEW w \in Worker, FindRow(w) PROVE Typed'
  BY <1>6 DEF FindRow
<1>7. ASSUME NEW w \in Worker, WriteRow(w) PROVE Typed'
  BY <1>7 DEF WriteRow
<1>8. ASSUME NEW w \in Worker, Crash(w) PROVE Typed'
  BY <1>8 DEF Crash
<1> QED BY <1>1, <1>2, <1>3, <1>4, <1>5, <1>6, <1>7, <1>8 DEF Next, Step

(* The job table, the program counters and self.job_information keep their *)
(* types, whatever the number of workers.                                  *)
THEOREM TypeCorrect == Spec => []TypeOK
<1>1. Init => Typed
  BY BoundAssumption DEF Init, Typed, TypeOK, HasRow
<1>2. Typed => TypeOK
  BY DEF Typed
<1> QED BY <1>1, <1>2, TypedStep, PTL DEF Spec

(* A step that leaves the holder of each locked row where it is keeps      *)
(* NoOrphanLock; a kill makes it vacuous, as its premise says.             *)
LEMMA OwnerStep == Typed /\ NoOrphanLock /\ [Next]_vars => NoOrphanLock'
<1> SUFFICES ASSUME Typed, NoOrphanLock, [Next]_vars,
                    crashes' = 0, NEW r \in locked'
             PROVE  \E w \in Worker : Holder(w)' /\ info'[w] = r
  BY DEF NoOrphanLock
<1> USE BoundAssumption DEF Typed, TypeOK
<1>1. CASE UNCHANGED vars
  BY <1>1 DEF vars, NoOrphanLock, Holder
<1>2. ASSUME NEW w \in Worker, Filter(w)
      PROVE  \E v \in Worker : Holder(v)' /\ info'[v] = r
  <2>1. PICK v \in Worker : Holder(v) /\ info[v] = r
    BY <1>2 DEF Filter, NoOrphanLock
  <2>2. v # w
    BY <1>2, <2>1 DEF Filter, Holder
  <2> QED BY <1>2, <2>1, <2>2 DEF Filter, Holder
<1>3. ASSUME NEW w \in Worker, GetRow(w)
      PROVE  \E v \in Worker : Holder(v)' /\ info'[v] = r
  <2>1. PICK v \in Worker : Holder(v) /\ info[v] = r
    BY <1>3 DEF GetRow, NoOrphanLock
  <2>2. v # w
    BY <1>3, <2>1 DEF GetRow, Holder
  <2> QED BY <1>3, <2>1, <2>2 DEF GetRow, Holder
<1>4. ASSUME NEW w \in Worker, CreateRow(w)
      PROVE  \E v \in Worker : Holder(v)' /\ info'[v] = r
  <2>1. CASE r \in locked
    <3>1. PICK v \in Worker : Holder(v) /\ info[v] = r
      BY <1>4, <2>1 DEF CreateRow, NoOrphanLock
    <3>2. v # w
      BY <1>4, <3>1 DEF CreateRow, Holder
    <3> QED BY <1>4, <3>1, <3>2 DEF CreateRow, Holder
  <2>2. CASE r \notin locked
    BY <1>4, <2>2 DEF CreateRow, Holder
  <2> QED BY <2>1, <2>2
<1>5. ASSUME NEW w \in Worker, Run(w)
      PROVE  \E v \in Worker : Holder(v)' /\ info'[v] = r
  <2>1. PICK v \in Worker : Holder(v) /\ info[v] = r
    BY <1>5 DEF Run, NoOrphanLock
  <2>2. Holder(v)'
    BY <1>5, <2>1 DEF Run, Holder
  <2> QED BY <1>5, <2>1, <2>2 DEF Run
<1>6. ASSUME NEW w \in Worker, FindRow(w)
      PROVE  \E v \in Worker : Holder(v)' /\ info'[v] = r
  <2>1. PICK v \in Worker : Holder(v) /\ info[v] = r
    BY <1>6 DEF FindRow, NoOrphanLock
  <2>2. r \in rows
    BY <1>6 DEF FindRow
  <2> QED BY <1>6, <2>1, <2>2 DEF FindRow, Holder
<1>7. ASSUME NEW w \in Worker, WriteRow(w)
      PROVE  \E v \in Worker : Holder(v)' /\ info'[v] = r
  <2>1. r \in locked /\ r # info[w]
    BY <1>7 DEF WriteRow
  <2>2. PICK v \in Worker : Holder(v) /\ info[v] = r
    BY <1>7, <2>1 DEF WriteRow, NoOrphanLock
  <2> QED BY <1>7, <2>1, <2>2 DEF WriteRow, Holder
<1>8. ASSUME NEW w \in Worker, Crash(w) PROVE FALSE
  BY <1>8 DEF Crash
<1> QED BY <1>1, <1>2, <1>3, <1>4, <1>5, <1>6, <1>7, <1>8 DEF Next, Step

(* As long as no worker is killed, every locked row of the job table has a *)
(* live worker that will unlock or delete it.                              *)
THEOREM NoOrphan == Spec => []NoOrphanLock
<1>1. Init => Typed /\ NoOrphanLock
  BY BoundAssumption DEF Init, Typed, TypeOK, HasRow, NoOrphanLock
<1> QED BY <1>1, TypedStep, OwnerStep, PTL DEF Spec
============================================================================
