---------------------------- MODULE ImportProofs ----------------------------
(***************************************************************************)
(* The lease of the importer: for every number of jobs, pods and requests, *)
(* every range of days and every Lease >= 3 + MaxFaults, the row of a live *)
(* run never looks abandoned, and no sweep fails it.                       *)
(*                                                                         *)
(* LiveRunsAreFresh is not inductive: how old a row may be depends on      *)
(* where its run is.  Within bounds the age by what the run has spent      *)
(* since the last write of updated_at: the ticks of its current request,   *)
(* the two look-ups before the first day, and one day for every progress   *)
(* write that failed.                                                      *)
(***************************************************************************)
EXTENDS ImportJob, TLAPS

CoreTypes ==
  /\ job \in [Jobs -> ImportRow]
  /\ task \in [Jobs -> Task]
  /\ req \in [Requests -> Request]
  /\ key \in [Owners -> KeyRow]
  /\ edit \in [Owners -> KeyRow]
  /\ used \in Bound

Within(t, age, faults) ==
  /\ t.pc = "mark" => age = 0
  /\ t.pc = "lookup" => t.ticks <= 2 /\ age <= t.ticks
  /\ t.pc = "day" => t.ticks <= 1 /\ age <= 2 + t.ticks + faults
  /\ t.pc \in {"failing", "progress", "finish", "cancelling", "key"} => age <= 3 + faults

RunsFresh == \A j \in Jobs : Within(task[j], job[j].age, used.faults)

\* A row is started in the tick in which it was inserted.
StartFresh ==
  \A r \in Requests : req[r].pc = "start" =>
    req[r].job \in Jobs /\ job[req[r].job].age = 0

LeaseInv == CoreTypes /\ RunsFresh /\ StartFresh

-----------------------------------------------------------------------------
(* What the statements of importjobs.go do to a row.                       *)

\* Every statement either stamps updated_at or leaves the row alone, and none
\* takes a row out of its type.
LEMMA StatementFacts ==
  ASSUME NEW r \in ImportRow
  PROVE  /\ MarkJobRunning(r) \in ImportRow /\ MarkJobRunning(r).age = 0
         /\ UpdateJobProgress(r) \in ImportRow /\ UpdateJobProgress(r).age = 0
         /\ \A s \in {"completed", "failed"} :
              FinishImportJob(r, s) \in ImportRow /\ FinishImportJob(r, s).age = 0
         /\ CancelJob(r) \in ImportRow /\ CancelJob(r).age \in {0, r.age}
         /\ MarkStaleFailed(r) \in ImportRow /\ MarkStaleFailed(r).age \in {0, r.age}
<1>1. MarkJobRunning(r) \in ImportRow /\ MarkJobRunning(r).age = 0
  BY DEF MarkJobRunning, ImportRow, ActiveStates, TerminalStates
<1>2. UpdateJobProgress(r) \in ImportRow /\ UpdateJobProgress(r).age = 0
  BY DEF UpdateJobProgress, ImportRow
<1>3. ASSUME NEW s \in {"completed", "failed"}
      PROVE  FinishImportJob(r, s) \in ImportRow /\ FinishImportJob(r, s).age = 0
  BY <1>3 DEF FinishImportJob, ImportRow, ActiveStates, TerminalStates
<1>4. CancelJob(r) \in ImportRow /\ CancelJob(r).age \in {0, r.age}
  BY DEF CancelJob, ImportRow, ActiveStates, TerminalStates
<1>5. MarkStaleFailed(r) \in ImportRow /\ MarkStaleFailed(r).age \in {0, r.age}
  BY DEF MarkStaleFailed, ImportRow, ActiveStates, TerminalStates
<1> QED BY <1>1, <1>2, <1>3, <1>4, <1>5

\* A failing statement uses up one of the faults.
LEMMA FaultFacts ==
  ASSUME used \in Bound, Fault
  PROVE  used' \in Bound /\ used'.faults = used.faults + 1
<1> DEFINE n == used.faults + 1
<1>1. n \in 0..MaxFaults
  BY ImportAssumption DEF Bound, Fault
<1>2. used' = [used EXCEPT !.faults = n]
  BY DEF Fault
<1> HIDE DEF n
<1>3. used' \in Bound /\ used'.faults = n
  BY <1>1, <1>2 DEF Bound
<1> QED BY <1>3 DEF n

\* Younger rows and more faults keep a run within its bound.
LEMMA WithinMono ==
  ASSUME NEW t \in Task, NEW a \in Nat, NEW b \in {0, a}, NEW f \in Nat, NEW g \in Nat,
         f <= g, Within(t, a, f)
  PROVE  Within(t, b, g)
  BY DEF Within, Task

-----------------------------------------------------------------------------
(* The steps.                                                              *)

\* A step of one run: its task becomes t, its row r, and everything else it
\* could disturb stays.
LEMMA RunStepKeeps ==
  ASSUME LeaseInv, NEW j \in Jobs, NEW t \in Task, NEW r \in ImportRow,
         task' = [task EXCEPT ![j] = t], job' = [job EXCEPT ![j] = r], req' = req,
         key' \in [Owners -> KeyRow], edit' = edit,
         used' \in Bound, used'.faults >= used.faults,
         r.age \in {0, job[j].age}, Within(t, r.age, used'.faults)
  PROVE  LeaseInv'
<1> USE DEF LeaseInv
<1>1. CoreTypes'
  BY DEF CoreTypes
<1>2. RunsFresh'
  <2> SUFFICES ASSUME NEW i \in Jobs
               PROVE  Within(task'[i], job'[i].age, used'.faults)
    BY DEF RunsFresh
  <2>1. CASE i = j
    BY <2>1 DEF CoreTypes
  <2>2. CASE i # j
    <3>1. task'[i] = task[i] /\ job'[i] = job[i]
      BY <2>2 DEF CoreTypes
    <3>2. task[i] \in Task /\ job[i].age \in Nat
          /\ used.faults \in Nat /\ used'.faults \in Nat
      BY ImportAssumption DEF CoreTypes, ImportRow, Bound
    <3>3. Within(task[i], job[i].age, used.faults)
      BY DEF RunsFresh
    <3> QED BY <3>1, <3>2, <3>3, WithinMono
  <2> QED BY <2>1, <2>2
<1>3. StartFresh'
  BY DEF StartFresh, CoreTypes
<1> QED BY <1>1, <1>2, <1>3

\* A step that changes rows only by statements, and no run.
LEMMA RowStepKeeps ==
  ASSUME LeaseInv, task' = task, job' \in [Jobs -> ImportRow],
         \A j \in Jobs : job'[j].age \in {0, job[j].age},
         req' \in [Requests -> Request],
         \A r \in Requests : req'[r].pc = "start" =>
           req'[r].job \in Jobs /\ job'[req'[r].job].age = 0,
         key' \in [Owners -> KeyRow], edit' \in [Owners -> KeyRow],
         used' \in Bound, used'.faults >= used.faults
  PROVE  LeaseInv'
<1> USE DEF LeaseInv
<1>1. CoreTypes'
  BY DEF CoreTypes
<1>2. RunsFresh'
  <2> SUFFICES ASSUME NEW i \in Jobs
               PROVE  Within(task[i], job'[i].age, used'.faults)
    BY DEF RunsFresh
  <2>1. task[i] \in Task /\ job[i].age \in Nat
        /\ used.faults \in Nat /\ used'.faults \in Nat
    BY ImportAssumption DEF CoreTypes, ImportRow, Bound
  <2>2. Within(task[i], job[i].age, used.faults)
    BY DEF RunsFresh
  <2>3. job'[i].age \in {0, job[i].age}
    OBVIOUS
  <2> QED BY <2>1, <2>2, <2>3, WithinMono
<1>3. StartFresh'
  BY DEF StartFresh
<1> QED BY <1>1, <1>2, <1>3

\* What the run steps need of the types.
LEMMA RunFacts ==
  ASSUME LeaseInv, NEW j \in Jobs
  PROVE  /\ job[j] \in ImportRow /\ task[j] \in Task
         /\ job[j].age \in Nat /\ task[j].ticks \in Nat
         /\ used.faults \in Nat /\ used \in Bound
         /\ job = [job EXCEPT ![j] = job[j]]
         /\ key \in [Owners -> KeyRow] /\ job[j].owner \in Owners
         /\ Within(task[j], job[j].age, used.faults)
  BY ImportAssumption DEF LeaseInv, CoreTypes, RunsFresh, ImportRow, Task, Bound

\* A failing statement of a run: the context's doing, or a fault.
LEMMA StatementFailsFacts ==
  ASSUME used \in Bound, NEW j \in Jobs, StatementFails(j)
  PROVE  /\ used' \in Bound
         /\ \/ CtxDone(j) /\ used' = used
            \/ ~ CtxDone(j) /\ used'.faults = used.faults + 1
  BY FaultFacts DEF StatementFails

\* resolveToken yields a key or nothing.
LEMMA ResolveTokenType ==
  ASSUME LeaseInv, NEW j \in Jobs, NEW k \in ResolveToken(j)
  PROVE  k \in Keys \cup {NoKey}
<1>0. /\ task[j] \in Task /\ key \in [Owners -> KeyRow] /\ job[j].owner \in Owners
  BY RunFacts
<1>1. task[j].source \in {"typed", "saved", "server"} /\ task[j].token \in Keys \cup {NoKey}
  BY <1>0 DEF Task
<1>2. key[job[j].owner].saved \in Keys \cup {NoKey}
  BY <1>0 DEF KeyRow
<1>3. CASE task[j].source = "typed"
  <2>1. ResolveToken(j) = {task[j].token}
    BY <1>3, Zenon DEF ResolveToken
  <2> QED BY <2>1, <1>1
<1>4. CASE task[j].source = "saved"
  <2>1. ResolveToken(j) = {ServerKey} \cup ({key[job[j].owner].saved} \ {NoKey})
    BY <1>4 DEF ResolveToken
  <2> QED BY <2>1, <1>2, ImportAssumption
<1>5. CASE task[j].source = "server"
  <2>1. ResolveToken(j) = {ServerKey}
    BY <1>5 DEF ResolveToken
  <2> QED BY <2>1, ImportAssumption
<1> QED BY <1>1, <1>3, <1>4, <1>5

\* A run that ends leaves a dead task.
LEMMA DeadTask ==
  ASSUME NEW j \in Jobs, task[j] \in Task,
         task' = [task EXCEPT ![j] = [@ EXCEPT !.pc = "dead"]]
  PROVE  \E t \in Task : t.pc = "dead" /\ task' = [task EXCEPT ![j] = t]
<1>1. /\ [task[j] EXCEPT !.pc = "dead"] \in Task
      /\ [task[j] EXCEPT !.pc = "dead"].pc = "dead"
  BY DEF Task
<1> QED BY <1>1

\* MarkJobRunning stamps the row, so the look-ups start with a full lease.
LEMMA RunStartsKeeps ==
  ASSUME LeaseInv, NEW j \in Jobs, RunStarts(j)
  PROVE  LeaseInv'
<1>0. /\ job[j] \in ImportRow /\ task[j] \in Task /\ used \in Bound
      /\ job[j].age \in Nat /\ used.faults \in Nat
      /\ job = [job EXCEPT ![j] = job[j]] /\ key \in [Owners -> KeyRow]
  BY RunFacts
<1>1. MarkJobRunning(job[j]) \in ImportRow /\ MarkJobRunning(job[j]).age = 0
  BY <1>0, StatementFacts
<1>2. req' = req /\ key' = key /\ edit' = edit
  BY DEF RunStarts
<1>3. CASE StatementFails(j) /\ task' = [task EXCEPT ![j] = [@ EXCEPT !.pc = "dead"]]
           /\ job' \in {job, [job EXCEPT ![j] = MarkJobRunning(@)]}
  <2>1. PICK t \in Task : t.pc = "dead" /\ task' = [task EXCEPT ![j] = t]
    BY <1>0, <1>3, DeadTask
  <2>2. PICK r \in ImportRow : job' = [job EXCEPT ![j] = r] /\ r.age \in {0, job[j].age}
    BY <1>0, <1>1, <1>3
  <2>3. used' \in Bound /\ used'.faults >= used.faults
    BY <1>0, <1>3, StatementFailsFacts
  <2>4. Within(t, r.age, used'.faults)
    BY <2>1 DEF Within
  <2> QED BY <1>0, <1>2, <2>1, <2>2, <2>3, <2>4, RunStepKeeps
<1>4. CASE /\ job' = [job EXCEPT ![j] = MarkJobRunning(@)]
           /\ \E k \in ResolveToken(j) :
                task' = [task EXCEPT ![j] = [@ EXCEPT !.pc = "lookup", !.ticks = 0, !.token = k]]
           /\ UNCHANGED used
  <2>1. PICK k \in ResolveToken(j) :
          task' = [task EXCEPT ![j] = [@ EXCEPT !.pc = "lookup", !.ticks = 0, !.token = k]]
    BY <1>4
  <2>2. k \in Keys \cup {NoKey}
    BY ResolveTokenType
  <2>3. PICK t \in Task : /\ t.pc = "lookup" /\ t.ticks = 0
                          /\ task' = [task EXCEPT ![j] = t]
    <3>1. [task[j] EXCEPT !.pc = "lookup", !.ticks = 0, !.token = k] \in Task
      BY <1>0, <2>2 DEF Task
    <3> QED BY <3>1, <2>1, <1>0 DEF Task
  <2>4. Within(t, MarkJobRunning(job[j]).age, used'.faults)
    BY <1>1, <2>3 DEF Within
  <2>5. used' \in Bound /\ used'.faults >= used.faults
    BY <1>0, <1>4
  <2> QED BY <1>0, <1>1, <1>2, <1>4, <2>3, <2>4, <2>5, RunStepKeeps
<1> QED BY <1>3, <1>4 DEF RunStarts

\* The look-ups took two ticks at most; the first day starts from there.
LEMMA FetchLookupsKeeps ==
  ASSUME LeaseInv, NEW j \in Jobs, FetchLookups(j)
  PROVE  LeaseInv'
<1>0. /\ job[j] \in ImportRow /\ task[j] \in Task /\ used \in Bound
      /\ job[j].age \in Nat /\ task[j].ticks \in Nat /\ used.faults \in Nat
      /\ job = [job EXCEPT ![j] = job[j]] /\ key \in [Owners -> KeyRow]
      /\ Within(task[j], job[j].age, used.faults)
  BY RunFacts
<1>1. task[j].pc = "lookup" /\ task[j].ticks <= 2 /\ job[j].age <= task[j].ticks
  BY <1>0 DEF FetchLookups, Within
<1>2. job' = job /\ req' = req /\ key' = key /\ edit' = edit /\ used' = used
  BY DEF FetchLookups
<1>3. PICK t \in Task : /\ task' = [task EXCEPT ![j] = t]
                        /\ \/ t.pc \in {"day", "finish"} /\ t.ticks = 0
                           \/ t.pc \in {"cancelling", "failing"}
  <2>1. CASE task' = [task EXCEPT ![j] = [@ EXCEPT !.pc = AfterDay(j, 0), !.ticks = 0]]
    <3>1. AfterDay(j, 0) \in {"day", "finish"}
      BY DEF AfterDay
    <3>2. /\ [task[j] EXCEPT !.pc = AfterDay(j, 0), !.ticks = 0] \in Task
          /\ [task[j] EXCEPT !.pc = AfterDay(j, 0), !.ticks = 0].pc = AfterDay(j, 0)
          /\ [task[j] EXCEPT !.pc = AfterDay(j, 0), !.ticks = 0].ticks = 0
      BY <1>0, <3>1 DEF Task
    <3> QED BY <2>1, <3>1, <3>2
  <2>2. CASE task' = [task EXCEPT ![j] = [@ EXCEPT !.pc = "cancelling"]]
    <3>1. /\ [task[j] EXCEPT !.pc = "cancelling"] \in Task
          /\ [task[j] EXCEPT !.pc = "cancelling"].pc = "cancelling"
      BY <1>0 DEF Task
    <3> QED BY <2>2, <3>1
  <2>3. CASE \E x \in BOOLEAN :
               task' = [task EXCEPT ![j] = [@ EXCEPT !.pc = "failing", !.saw401 = x]]
    <3>1. PICK x \in BOOLEAN :
            task' = [task EXCEPT ![j] = [@ EXCEPT !.pc = "failing", !.saw401 = x]]
      BY <2>3
    <3>2. /\ [task[j] EXCEPT !.pc = "failing", !.saw401 = x] \in Task
          /\ [task[j] EXCEPT !.pc = "failing", !.saw401 = x].pc = "failing"
      BY <1>0 DEF Task
    <3> QED BY <3>1, <3>2
  <2> QED BY <2>1, <2>2, <2>3 DEF FetchLookups
<1>4. Within(t, job[j].age, used'.faults)
  BY <1>0, <1>1, <1>2, <1>3 DEF Within
<1>5. used' \in Bound /\ used'.faults >= used.faults /\ job' = [job EXCEPT ![j] = job[j]]
  BY <1>0, <1>2
<1> QED BY <1>0, <1>2, <1>3, <1>4, <1>5, RunStepKeeps

\* The failed write of a failed run costs no time.
LEMMA FailLookupsKeeps ==
  ASSUME LeaseInv, NEW j \in Jobs, FailLookups(j)
  PROVE  LeaseInv'
<1>0. /\ job[j] \in ImportRow /\ task[j] \in Task /\ used \in Bound
      /\ job[j].age \in Nat /\ task[j].ticks \in Nat /\ used.faults \in Nat
      /\ job = [job EXCEPT ![j] = job[j]] /\ key \in [Owners -> KeyRow]
      /\ Within(task[j], job[j].age, used.faults)
  BY RunFacts
<1>1. job[j].age <= 3 + used.faults
  BY <1>0 DEF FailLookups, Within
<1>2. req' = req /\ key' = key /\ edit' = edit
  BY DEF FailLookups
<1>3. PICK t \in Task : t.pc = "key" /\ task' = [task EXCEPT ![j] = t]
  <2>1. /\ [task[j] EXCEPT !.pc = "key", !.verdict = "failed"] \in Task
        /\ [task[j] EXCEPT !.pc = "key", !.verdict = "failed"].pc = "key"
    BY <1>0 DEF Task
  <2>2. task' = [task EXCEPT ![j] = [task[j] EXCEPT !.pc = "key", !.verdict = "failed"]]
    BY DEF FailLookups
  <2> QED BY <2>1, <2>2
<1>4. FinishImportJob(job[j], "failed") \in ImportRow /\ FinishImportJob(job[j], "failed").age = 0
  BY <1>0, StatementFacts
<1>5. PICK r \in ImportRow : job' = [job EXCEPT ![j] = r] /\ r.age \in {0, job[j].age}
  BY <1>0, <1>4 DEF FailLookups
<1>6. used' \in Bound /\ used'.faults >= used.faults
  <2>1. CASE StatementFails(j)
    BY <1>0, <2>1, StatementFailsFacts
  <2>2. CASE UNCHANGED used
    BY <1>0, <2>2
  <2> QED BY <2>1, <2>2 DEF FailLookups
<1>7. used'.faults \in Nat
  BY <1>6, ImportAssumption DEF Bound
<1>8. Within(t, r.age, used'.faults)
  BY <1>0, <1>1, <1>3, <1>5, <1>6, <1>7 DEF Within
<1> QED BY <1>0, <1>2, <1>3, <1>5, <1>6, <1>8, RunStepKeeps

\* A day takes one tick at most.
LEMMA ImportDayKeeps ==
  ASSUME LeaseInv, NEW j \in Jobs, ImportDay(j)
  PROVE  LeaseInv'
<1>0. /\ job[j] \in ImportRow /\ task[j] \in Task /\ used \in Bound
      /\ job[j].age \in Nat /\ task[j].ticks \in Nat /\ used.faults \in Nat
      /\ job = [job EXCEPT ![j] = job[j]] /\ key \in [Owners -> KeyRow]
      /\ Within(task[j], job[j].age, used.faults)
  BY RunFacts
<1>1. job[j].age <= 3 + used.faults
  <2>1. task[j].pc = "day"
    BY DEF ImportDay
  <2> QED BY <1>0, <2>1 DEF Within
<1>2. job' = job /\ req' = req /\ key' = key /\ edit' = edit /\ used' = used
  BY DEF ImportDay
<1>3. PICK t \in Task : /\ task' = [task EXCEPT ![j] = t]
                        /\ t.pc \in {"cancelling", "progress"}
  <2>a. task[j].day + 1 \in Nat /\ task[j].failedDays + 1 \in Nat
    BY <1>0 DEF Task
  <2>0. PICK d \in Nat, n \in Nat : d = task[j].day + 1 /\ n = task[j].failedDays + 1
    BY <2>a, Zenon
  <2>1. CASE task' = [task EXCEPT ![j] = [@ EXCEPT !.pc = "cancelling"]]
    <3>1. /\ [task[j] EXCEPT !.pc = "cancelling"] \in Task
          /\ [task[j] EXCEPT !.pc = "cancelling"].pc = "cancelling"
      BY <1>0 DEF Task
    <3> QED BY <2>1, <3>1
  <2>2. CASE task' = [task EXCEPT ![j] = [task[j] EXCEPT !.pc = "progress", !.day = @ + 1]]
    <3>1. task' = [task EXCEPT ![j] = [task[j] EXCEPT !.pc = "progress", !.day = d]]
      BY <2>0, <2>2, Zenon
    <3>2. /\ [task[j] EXCEPT !.pc = "progress", !.day = d] \in Task
          /\ [task[j] EXCEPT !.pc = "progress", !.day = d].pc = "progress"
      BY <1>0 DEF Task
    <3> QED BY <3>1, <3>2
  <2>3. CASE \E x \in BOOLEAN :
               task' = [task EXCEPT ![j] =
                 [task[j] EXCEPT !.pc = "progress", !.day = @ + 1, !.failedDays = @ + 1,
                                 !.saw401 = @ \/ x]]
    <3>1. PICK x \in BOOLEAN :
            task' = [task EXCEPT ![j] =
              [task[j] EXCEPT !.pc = "progress", !.day = @ + 1, !.failedDays = @ + 1,
                              !.saw401 = @ \/ x]]
      BY <2>3
    <3>2. PICK y \in BOOLEAN : y = (task[j].saw401 \/ x)
      BY Zenon
    <3>3. task' = [task EXCEPT ![j] =
            [task[j] EXCEPT !.pc = "progress", !.day = d, !.failedDays = n, !.saw401 = y]]
      BY <2>0, <3>1, <3>2, Zenon
    <3>4. /\ [task[j] EXCEPT !.pc = "progress", !.day = d, !.failedDays = n, !.saw401 = y] \in Task
          /\ [task[j] EXCEPT !.pc = "progress", !.day = d, !.failedDays = n, !.saw401 = y].pc
               = "progress"
      BY <1>0 DEF Task
    <3> QED BY <3>3, <3>4
  <2> QED BY <2>1, <2>2, <2>3 DEF ImportDay
<1>4. Within(t, job[j].age, used'.faults)
  BY <1>0, <1>1, <1>2, <1>3 DEF Within
<1>5. used' \in Bound /\ used'.faults >= used.faults /\ job' = [job EXCEPT ![j] = job[j]]
  BY <1>0, <1>2
<1> QED BY <1>0, <1>2, <1>3, <1>4, <1>5, RunStepKeeps

\* A progress write renews the lease; one that fails costs one of the faults,
\* and the next day may be spent on top.
LEMMA WriteProgressKeeps ==
  ASSUME LeaseInv, NEW j \in Jobs, WriteProgress(j)
  PROVE  LeaseInv'
<1>0. /\ job[j] \in ImportRow /\ task[j] \in Task /\ used \in Bound
      /\ job[j].age \in Nat /\ task[j].ticks \in Nat /\ used.faults \in Nat
      /\ job = [job EXCEPT ![j] = job[j]] /\ key \in [Owners -> KeyRow]
      /\ Within(task[j], job[j].age, used.faults)
  BY RunFacts
<1>1. job[j].age <= 3 + used.faults
  BY <1>0 DEF WriteProgress, Within
<1>2. req' = req /\ key' = key /\ edit' = edit
  BY DEF WriteProgress
<1>3. UpdateJobProgress(job[j]) \in ImportRow /\ UpdateJobProgress(job[j]).age = 0
  BY <1>0, StatementFacts
<1>4. AfterDay(j, task[j].day) \in {"day", "finish"}
  BY DEF AfterDay
<1>5. ASSUME NEW pc \in {"day", "finish", "cancelling"}
      PROVE  /\ [task[j] EXCEPT !.ticks = 0, !.pc = pc] \in Task
             /\ [task[j] EXCEPT !.ticks = 0, !.pc = pc].pc = pc
             /\ [task[j] EXCEPT !.ticks = 0, !.pc = pc].ticks = 0
  BY <1>0, <1>5 DEF Task
<1>6. CASE /\ ~ CtxDone(j)
           /\ job' = [job EXCEPT ![j] = UpdateJobProgress(@)]
           /\ task' = [task EXCEPT ![j] = [@ EXCEPT !.pc = AfterDay(j, task[j].day), !.ticks = 0]]
           /\ UNCHANGED used
  <2>1. PICK t \in Task : /\ task' = [task EXCEPT ![j] = t]
                          /\ t.pc \in {"day", "finish"} /\ t.ticks = 0
    <3>1. /\ [task[j] EXCEPT !.pc = AfterDay(j, task[j].day), !.ticks = 0] \in Task
          /\ [task[j] EXCEPT !.pc = AfterDay(j, task[j].day), !.ticks = 0].pc
               = AfterDay(j, task[j].day)
          /\ [task[j] EXCEPT !.pc = AfterDay(j, task[j].day), !.ticks = 0].ticks = 0
      BY <1>0, <1>4 DEF Task
    <3> QED BY <1>4, <1>6, <3>1
  <2>2. used' \in Bound /\ used'.faults >= used.faults /\ used'.faults \in Nat
    BY <1>0, <1>6
  <2>3. Within(t, UpdateJobProgress(job[j]).age, used'.faults)
    BY <1>3, <2>1, <2>2 DEF Within
  <2> QED BY <1>0, <1>2, <1>3, <1>6, <2>1, <2>2, <2>3, RunStepKeeps
<1>7. CASE /\ StatementFails(j)
           /\ job' \in {job, [job EXCEPT ![j] = UpdateJobProgress(@)]}
           /\ task' = [task EXCEPT ![j] =
                [@ EXCEPT !.ticks = 0, !.pc = IF CtxDone(j) THEN "cancelling"
                                              ELSE AfterDay(j, task[j].day)]]
  <2>1. PICK r \in ImportRow : job' = [job EXCEPT ![j] = r] /\ r.age \in {0, job[j].age}
    BY <1>0, <1>3, <1>7
  <2>2. used' \in Bound /\ used'.faults >= used.faults /\ used'.faults \in Nat
    <3>1. used' \in Bound /\ used'.faults >= used.faults
      BY <1>0, <1>7, StatementFailsFacts
    <3> QED BY <3>1, ImportAssumption DEF Bound
  <2>3. PICK t \in Task : /\ task' = [task EXCEPT ![j] = t] /\ t.ticks = 0
                          /\ t.pc = IF CtxDone(j) THEN "cancelling"
                                    ELSE AfterDay(j, task[j].day)
    <3>1. (IF CtxDone(j) THEN "cancelling" ELSE AfterDay(j, task[j].day))
            \in {"day", "finish", "cancelling"}
      BY <1>4
    <3> QED BY <1>5, <1>7, <3>1
  <2>4. Within(t, r.age, used'.faults)
    <3>1. CASE CtxDone(j)
      BY <1>0, <1>1, <2>1, <2>2, <2>3, <3>1 DEF Within
    <3>2. CASE ~ CtxDone(j)
      <4>1. used'.faults = used.faults + 1
        BY <1>0, <1>7, <3>2, StatementFailsFacts
      <4> QED BY <1>0, <1>1, <1>4, <2>1, <2>2, <2>3, <3>2, <4>1 DEF Within
    <3> QED BY <3>1, <3>2
  <2> QED BY <1>0, <1>2, <2>1, <2>2, <2>3, <2>4, RunStepKeeps
<1> QED BY <1>6, <1>7 DEF WriteProgress

\* The verdict of a run is one of two.
LEMMA FinishRunKeeps ==
  ASSUME LeaseInv, NEW j \in Jobs, FinishRun(j)
  PROVE  LeaseInv'
<1>0. /\ job[j] \in ImportRow /\ task[j] \in Task /\ used \in Bound
      /\ job[j].age \in Nat /\ used.faults \in Nat
      /\ job = [job EXCEPT ![j] = job[j]] /\ key \in [Owners -> KeyRow]
  BY RunFacts
<1>1. Verdict(j) \in {"completed", "failed"}
  BY DEF Verdict
<1>2. req' = req /\ key' = key /\ edit' = edit
  BY DEF FinishRun
<1>3. /\ FinishImportJob(job[j], Verdict(j)) \in ImportRow
      /\ FinishImportJob(job[j], Verdict(j)).age = 0
  BY <1>0, <1>1, StatementFacts
<1>4. CASE /\ job' = [job EXCEPT ![j] = FinishImportJob(@, Verdict(j))]
           /\ task' = [task EXCEPT ![j] = [@ EXCEPT !.pc = "key", !.verdict = Verdict(j)]]
           /\ UNCHANGED used
  <2>1. PICK v \in {"completed", "failed"} : v = Verdict(j)
    BY <1>1
  <2>2. /\ [task[j] EXCEPT !.pc = "key", !.verdict = v] \in Task
        /\ [task[j] EXCEPT !.pc = "key", !.verdict = v].pc = "key"
    BY <1>0 DEF Task
  <2>3. PICK t \in Task : t.pc = "key" /\ task' = [task EXCEPT ![j] = t]
    BY <1>4, <2>1, <2>2
  <2>4. Within(t, FinishImportJob(job[j], Verdict(j)).age, used'.faults)
    BY <1>0, <1>3, <1>4, <2>3 DEF Within
  <2>5. used' \in Bound /\ used'.faults >= used.faults
    BY <1>0, <1>4
  <2> QED BY <1>0, <1>2, <1>3, <1>4, <2>3, <2>4, <2>5, RunStepKeeps
<1>5. CASE /\ StatementFails(j)
           /\ job' \in {job, [job EXCEPT ![j] = FinishImportJob(@, Verdict(j))]}
           /\ task' = [task EXCEPT ![j] = [@ EXCEPT !.pc = "dead"]]
  <2>1. PICK t \in Task : t.pc = "dead" /\ task' = [task EXCEPT ![j] = t]
    BY <1>0, <1>5, DeadTask
  <2>2. PICK r \in ImportRow : job' = [job EXCEPT ![j] = r] /\ r.age \in {0, job[j].age}
    BY <1>0, <1>3, <1>5
  <2>3. used' \in Bound /\ used'.faults >= used.faults
    BY <1>0, <1>5, StatementFailsFacts
  <2>4. Within(t, r.age, used'.faults)
    BY <2>1 DEF Within
  <2> QED BY <1>0, <1>2, <2>1, <2>2, <2>3, <2>4, RunStepKeeps
<1> QED BY <1>4, <1>5 DEF FinishRun

\* finishCancelled ends the run whatever becomes of its statement.
LEMMA FinishCancelledKeeps ==
  ASSUME LeaseInv, NEW j \in Jobs, FinishCancelled(j)
  PROVE  LeaseInv'
<1>0. /\ job[j] \in ImportRow /\ task[j] \in Task /\ used \in Bound
      /\ job[j].age \in Nat /\ used.faults \in Nat
      /\ job = [job EXCEPT ![j] = job[j]] /\ key \in [Owners -> KeyRow]
  BY RunFacts
<1>1. CancelJob(job[j]) \in ImportRow /\ CancelJob(job[j]).age \in {0, job[j].age}
  BY <1>0, StatementFacts
<1>2. req' = req /\ key' = key /\ edit' = edit
  BY DEF FinishCancelled
<1>3. PICK t \in Task : t.pc = "dead" /\ task' = [task EXCEPT ![j] = t]
  <2>1. task' = [task EXCEPT ![j] = [@ EXCEPT !.pc = "dead"]]
    BY DEF FinishCancelled
  <2> QED BY <1>0, <2>1, DeadTask
<1>4. PICK r \in ImportRow : job' = [job EXCEPT ![j] = r] /\ r.age \in {0, job[j].age}
  <2>1. job' \in {job, [job EXCEPT ![j] = CancelJob(@)]}
    BY DEF FinishCancelled
  <2> QED BY <1>0, <1>1, <2>1
<1>5. used' \in Bound /\ used'.faults >= used.faults
  <2>1. CASE Fault
    BY <1>0, <2>1, FaultFacts
  <2>2. CASE UNCHANGED used
    BY <1>0, <2>2
  <2> QED BY <2>1, <2>2 DEF FinishCancelled
<1>6. Within(t, r.age, used'.faults)
  BY <1>3 DEF Within
<1> QED BY <1>0, <1>2, <1>3, <1>4, <1>5, <1>6, RunStepKeeps

\* The judgement of the key leaves a key row behind.
LEMMA KeyOutcomeType ==
  ASSUME LeaseInv, NEW j \in Jobs
  PROVE  KeyOutcome(j) \in KeyRow
<1>1. task[j] \in Task /\ key[job[j].owner] \in KeyRow
  BY RunFacts
<1>2. task[j].token \in Keys \cup {NoKey}
  BY <1>1 DEF Task
<1>3. ASSUME NEW r \in KeyRow, NEW s \in {"valid", "invalid"}
      PROVE  UpdateWakatimeKeyStatus(r, s) \in KeyRow
  BY <1>3 DEF UpdateWakatimeKeyStatus, KeyRow
<1>4. SetEncryptedWakatimeKey(task[j].token, "valid") \in KeyRow
  BY <1>2 DEF SetEncryptedWakatimeKey, KeyRow
<1> QED BY <1>1, <1>3, <1>4, Zenon DEF KeyOutcome

\* applyKeyOutcome changes a key and ends the run.
LEMMA ApplyKeyOutcomeKeeps ==
  ASSUME LeaseInv, NEW j \in Jobs, ApplyKeyOutcome(j)
  PROVE  LeaseInv'
<1>0. /\ job[j] \in ImportRow /\ task[j] \in Task /\ used \in Bound
      /\ job[j].age \in Nat /\ used.faults \in Nat
      /\ job = [job EXCEPT ![j] = job[j]] /\ key \in [Owners -> KeyRow]
  BY RunFacts
<1>1. req' = req /\ edit' = edit /\ job' = [job EXCEPT ![j] = job[j]]
  BY <1>0 DEF ApplyKeyOutcome
<1>2. key' \in [Owners -> KeyRow]
  BY <1>0, KeyOutcomeType DEF ApplyKeyOutcome
<1>3. PICK t \in Task : t.pc = "dead" /\ task' = [task EXCEPT ![j] = t]
  <2>1. task' = [task EXCEPT ![j] = [@ EXCEPT !.pc = "dead"]]
    BY DEF ApplyKeyOutcome
  <2> QED BY <1>0, <2>1, DeadTask
<1>4. used' \in Bound /\ used'.faults >= used.faults
  <2>1. CASE Fault
    BY <1>0, <2>1, FaultFacts
  <2>2. CASE UNCHANGED used
    BY <1>0, <2>2
  <2> QED BY <2>1, <2>2 DEF ApplyKeyOutcome
<1>5. Within(t, job[j].age, used'.faults)
  BY <1>3 DEF Within
<1> QED BY <1>0, <1>1, <1>2, <1>3, <1>4, <1>5, RunStepKeeps

\* Nothing that the lease is about changes: users' keys, streams, bounds.
LEMMA OtherStepKeeps ==
  ASSUME LeaseInv, task' = task, job' = job, req' = req,
         key' \in [Owners -> KeyRow], edit' \in [Owners -> KeyRow],
         used' \in Bound, used'.faults >= used.faults
  PROVE  LeaseInv'
<1>1. job' \in [Jobs -> ImportRow] /\ req' \in [Requests -> Request]
  BY DEF LeaseInv, CoreTypes
<1>2. \A j \in Jobs : job'[j].age \in {0, job[j].age}
  OBVIOUS
<1>3. \A r \in Requests : req'[r].pc = "start" =>
        req'[r].job \in Jobs /\ job'[req'[r].job].age = 0
  BY DEF LeaseInv, StartFresh
<1> QED BY <1>1, <1>2, <1>3, RowStepKeeps

\* The request that waits to start its job is in the tick of the INSERT.
LEMMA SubmitSweepKeeps ==
  ASSUME LeaseInv, NEW r \in Requests, NEW p \in Pods, NEW o \in Owners, SubmitSweep(r, p, o)
  PROVE  LeaseInv'
<1>0. /\ job \in [Jobs -> ImportRow] /\ req \in [Requests -> Request] /\ used \in Bound
      /\ key \in [Owners -> KeyRow] /\ edit \in [Owners -> KeyRow] /\ used.faults \in Nat
  BY ImportAssumption DEF LeaseInv, CoreTypes, Bound
<1>1. task' = task /\ key' = key /\ edit' = edit
  BY DEF SubmitSweep
<1>2. /\ job' \in [Jobs -> ImportRow]
      /\ \A j \in Jobs : job'[j].age \in {0, job[j].age}
  <2>1. CASE UNCHANGED job
    BY <1>0, <2>1
  <2>2. CASE job' = [j \in Jobs |-> IF job[j].owner = o THEN MarkStaleFailed(job[j]) ELSE job[j]]
    BY <1>0, <2>2, StatementFacts
  <2> QED BY <2>1, <2>2 DEF SubmitSweep
<1>3. PICK q \in Request : q.pc = "check" /\ req' = [req EXCEPT ![r] = q]
  <2>1. PICK k \in TypedKeys :
          req' = [req EXCEPT ![r] =
                [pc |-> "check", pod |-> p, owner |-> o, token |-> k, job |-> NoJob,
                 source |-> IF k # NoKey THEN "typed"
                            ELSE IF key[o].saved # NoKey THEN "saved" ELSE "server"]]
    BY DEF SubmitSweep
  <2>2. PICK w \in {"typed", "saved", "server"} :
          w = IF k # NoKey THEN "typed"
              ELSE IF key[o].saved # NoKey THEN "saved" ELSE "server"
    OBVIOUS
  <2>3. [pc |-> "check", pod |-> p, owner |-> o, token |-> k, job |-> NoJob, source |-> w]
          \in Request
    BY ImportAssumption DEF Request
  <2> QED BY <2>1, <2>2, <2>3
<1>4. /\ req' \in [Requests -> Request]
      /\ \A x \in Requests : req'[x].pc = "start" =>
           req'[x].job \in Jobs /\ job'[req'[x].job].age = 0
  <2>1. req' \in [Requests -> Request]
    BY <1>0, <1>3
  <2>2. ASSUME NEW x \in Requests, req'[x].pc = "start"
        PROVE  req'[x].job \in Jobs /\ job'[req'[x].job].age = 0
    <3>1. req'[x] = req[x]
      BY <1>0, <1>3, <2>2
    <3>2. req[x].job \in Jobs /\ job[req[x].job].age = 0
      BY <2>2, <3>1 DEF LeaseInv, StartFresh
    <3> QED BY <1>2, <3>1, <3>2
  <2> QED BY <2>1, <2>2
<1>5. used' \in Bound /\ used'.faults >= used.faults
  <2>1. CASE Fault
    BY <1>0, <2>1, FaultFacts
  <2>2. CASE UNCHANGED used
    BY <1>0, <2>2
  <2> QED BY <2>1, <2>2 DEF SubmitSweep
<1> QED BY <1>0, <1>1, <1>2, <1>4, <1>5, RowStepKeeps

\* A request record as good as the one it replaces, and no statement on a row.
LEMMA RequestMoveKeeps ==
  ASSUME LeaseInv, NEW r \in Requests, NEW q \in Request, q.pc # "start",
         req' = [req EXCEPT ![r] = q], task' = task, job' = job,
         key' = key, edit' = edit, used' \in Bound, used'.faults >= used.faults
  PROVE  LeaseInv'
<1>0. /\ job \in [Jobs -> ImportRow] /\ req \in [Requests -> Request]
      /\ key \in [Owners -> KeyRow] /\ edit \in [Owners -> KeyRow]
  BY DEF LeaseInv, CoreTypes
<1>1. req' \in [Requests -> Request]
  BY <1>0
<1>2. \A x \in Requests : req'[x].pc = "start" =>
        req'[x].job \in Jobs /\ job'[req'[x].job].age = 0
  BY <1>0 DEF LeaseInv, StartFresh
<1> QED BY <1>0, <1>1, <1>2, RowStepKeeps

\* The idle values are of their types.
LEMMA IdleTypes ==
  /\ NoRequest \in Request /\ NoRequest.pc = "idle"
  /\ NoTask \in Task /\ NoTask.pc = "none"
<1>1. AnyPod \in Pods /\ AnyOwner \in Owners
  BY ImportAssumption DEF AnyPod, AnyOwner
<1>2. NoRequest \in Request /\ NoRequest.pc = "idle"
  BY <1>1 DEF NoRequest, Request
<1>3. NoTask \in Task /\ NoTask.pc = "none"
  BY <1>1 DEF NoTask, Task
<1> QED BY <1>2, <1>3

\* A request that found an active job, or failed, is over.
LEMMA SubmitCheckKeeps ==
  ASSUME LeaseInv, NEW r \in Requests, SubmitCheck(r)
  PROVE  LeaseInv'
<1>0. req \in [Requests -> Request] /\ used \in Bound /\ used.faults \in Nat
  BY ImportAssumption DEF LeaseInv, CoreTypes, Bound
<1>1. task' = task /\ job' = job /\ key' = key /\ edit' = edit
  BY DEF SubmitCheck
<1>2. PICK q \in Request : q.pc # "start" /\ req' = [req EXCEPT ![r] = q]
  <2>1. /\ [req[r] EXCEPT !.pc = "create"] \in Request
        /\ [req[r] EXCEPT !.pc = "create"].pc = "create"
    BY <1>0 DEF Request
  <2>2. \/ req' = [req EXCEPT ![r] = NoRequest]
        \/ req' = [req EXCEPT ![r] = [req[r] EXCEPT !.pc = "create"]]
    BY DEF SubmitCheck
  <2> QED BY <2>1, <2>2, IdleTypes
<1>3. used' \in Bound /\ used'.faults >= used.faults
  <2>1. CASE Fault
    BY <1>0, <2>1, FaultFacts
  <2>2. CASE UNCHANGED used
    BY <1>0, <2>2
  <2> QED BY <2>1, <2>2 DEF SubmitCheck
<1> QED BY <1>1, <1>2, <1>3, RequestMoveKeeps

\* A request that is given up leaves no trace.
LEMMA SubmitRefusedKeeps ==
  ASSUME LeaseInv, NEW r \in Requests, SubmitRefused(r)
  PROVE  LeaseInv'
<1>1. used \in Bound /\ used.faults \in Nat
  BY ImportAssumption DEF LeaseInv, CoreTypes, Bound
<1>2. /\ task' = task /\ job' = job /\ key' = key /\ edit' = edit /\ used' = used
      /\ req' = [req EXCEPT ![r] = NoRequest]
  BY DEF SubmitRefused
<1>3. used' \in Bound /\ used'.faults >= used.faults
  BY <1>1, <1>2
<1> QED BY <1>2, <1>3, IdleTypes, RequestMoveKeeps

\* The INSERT stamps the row.
LEMMA SubmitCreateKeeps ==
  ASSUME LeaseInv, NEW r \in Requests, NEW j \in Jobs, SubmitCreate(r, j)
  PROVE  LeaseInv'
<1>0. /\ job \in [Jobs -> ImportRow] /\ req \in [Requests -> Request] /\ used \in Bound
      /\ key \in [Owners -> KeyRow] /\ edit \in [Owners -> KeyRow] /\ used.faults \in Nat
      /\ job[j].age \in Nat
  BY ImportAssumption DEF LeaseInv, CoreTypes, Bound, ImportRow
<1>1. task' = task /\ key' = key /\ edit' = edit
  BY DEF SubmitCreate
<1>2. PICK d \in DayInputs :
        \/ /\ job' = [job EXCEPT ![j] = CreateImportJob(req[r].owner, d)]
           /\ req' = [req EXCEPT ![r].pc = "start", ![r].job = j]
           /\ UNCHANGED used
        \/ /\ Fault
           /\ job' \in {job, [job EXCEPT ![j] = CreateImportJob(req[r].owner, d)]}
           /\ req' = [req EXCEPT ![r] = NoRequest]
  BY DEF SubmitCreate
<1>3. PICK n \in ImportRow : n = CreateImportJob(req[r].owner, d) /\ n.age = 0
  <2>1. req[r].owner \in Owners /\ d \in Nat
    BY <1>0, ImportAssumption DEF Request
  <2>2. /\ CreateImportJob(req[r].owner, d) \in ImportRow
        /\ CreateImportJob(req[r].owner, d).age = 0
    BY <2>1 DEF CreateImportJob, ImportRow, ActiveStates
  <2> QED BY <2>2
<1>4. job' \in {job, [job EXCEPT ![j] = n]}
  BY <1>2, <1>3
<1>5. /\ job' \in [Jobs -> ImportRow]
      /\ \A i \in Jobs : job'[i].age \in {0, job[i].age}
  BY <1>0, <1>3, <1>4
<1>6. PICK q \in Request :
        /\ req' = [req EXCEPT ![r] = q]
        /\ q.pc = "start" => q.job = j /\ job' = [job EXCEPT ![j] = n]
  <2>1. CASE /\ job' = [job EXCEPT ![j] = CreateImportJob(req[r].owner, d)]
             /\ req' = [req EXCEPT ![r].pc = "start", ![r].job = j]
    <3>1. /\ [req[r] EXCEPT !.pc = "start", !.job = j] \in Request
          /\ [req[r] EXCEPT !.pc = "start", !.job = j].job = j
      BY <1>0 DEF Request
    <3>2. req' = [req EXCEPT ![r] = [req[r] EXCEPT !.pc = "start", !.job = j]]
      BY <1>0, <2>1
    <3> QED BY <1>3, <2>1, <3>1, <3>2
  <2>2. CASE req' = [req EXCEPT ![r] = NoRequest]
    BY <2>2, IdleTypes
  <2> QED BY <1>2, <2>1, <2>2
<1>7. /\ req' \in [Requests -> Request]
      /\ \A x \in Requests : req'[x].pc = "start" =>
           req'[x].job \in Jobs /\ job'[req'[x].job].age = 0
  <2>1. req' \in [Requests -> Request]
    BY <1>0, <1>6
  <2>2. ASSUME NEW x \in Requests, req'[x].pc = "start"
        PROVE  req'[x].job \in Jobs /\ job'[req'[x].job].age = 0
    <3>1. CASE x = r
      <4>1. req'[x] = q
        BY <1>0, <1>6, <3>1
      <4>2. q.job = j /\ job' = [job EXCEPT ![j] = n]
        BY <1>6, <2>2, <4>1
      <4> QED BY <1>0, <1>3, <4>1, <4>2
    <3>2. CASE x # r
      <4>1. req'[x] = req[x]
        BY <1>0, <1>6, <3>2
      <4>2. req[x].job \in Jobs /\ job[req[x].job].age = 0
        BY <2>2, <4>1 DEF LeaseInv, StartFresh
      <4> QED BY <1>5, <4>1, <4>2
    <3> QED BY <3>1, <3>2
  <2> QED BY <2>1, <2>2
<1>8. used' \in Bound /\ used'.faults >= used.faults
  <2>1. CASE Fault
    BY <1>0, <2>1, FaultFacts
  <2>2. CASE UNCHANGED used
    BY <1>0, <2>2
  <2> QED BY <1>2, <2>1, <2>2
<1> QED BY <1>0, <1>1, <1>5, <1>7, <1>8, RowStepKeeps

\* The goroutine starts with the lease of the INSERT.
LEMMA StartJobKeeps ==
  ASSUME LeaseInv, NEW r \in Requests, StartJob(r)
  PROVE  LeaseInv'
<1>0. /\ job \in [Jobs -> ImportRow] /\ task \in [Jobs -> Task] /\ req \in [Requests -> Request]
      /\ key \in [Owners -> KeyRow] /\ edit \in [Owners -> KeyRow] /\ used \in Bound
  BY DEF LeaseInv, CoreTypes
<1>1. req[r].job \in Jobs /\ job[req[r].job].age = 0
  BY DEF LeaseInv, StartFresh, StartJob
<1>2. PICK t \in Task : t.pc = "mark" /\ task' = [task EXCEPT ![req[r].job] = t]
  <2>1. /\ req[r].pod \in Pods /\ req[r].source \in {"typed", "saved", "server"}
        /\ req[r].token \in Keys \cup {NoKey}
    BY <1>0 DEF Request
  <2>2. ASSUME NEW p \in Pods, NEW w \in {"typed", "saved", "server"}, NEW k \in Keys \cup {NoKey}
        PROVE  /\ [NoTask EXCEPT !.pc = "mark", !.pod = p, !.source = w, !.token = k] \in Task
               /\ [NoTask EXCEPT !.pc = "mark", !.pod = p, !.source = w, !.token = k].pc = "mark"
    BY IdleTypes DEF Task
  <2>3. task' = [task EXCEPT ![req[r].job] =
          [NoTask EXCEPT !.pc = "mark", !.pod = req[r].pod, !.source = req[r].source,
                         !.token = req[r].token]]
    BY DEF StartJob
  <2>4. PICK p \in Pods, w \in {"typed", "saved", "server"}, k \in Keys \cup {NoKey} :
          p = req[r].pod /\ w = req[r].source /\ k = req[r].token
    BY <2>1
  <2>5. task' = [task EXCEPT ![req[r].job] =
          [NoTask EXCEPT !.pc = "mark", !.pod = p, !.source = w, !.token = k]]
    BY <2>3, <2>4, Zenon
  <2> QED BY <2>2, <2>5
<1>3. /\ job' = job /\ key' = key /\ edit' = edit /\ used' = used
      /\ req' = [req EXCEPT ![r] = NoRequest]
  BY DEF StartJob
<1>4. CoreTypes'
  BY <1>0, <1>1, <1>2, <1>3, IdleTypes DEF CoreTypes
<1>5. RunsFresh'
  <2> SUFFICES ASSUME NEW i \in Jobs PROVE Within(task'[i], job[i].age, used.faults)
    BY <1>3 DEF RunsFresh
  <2>1. CASE i = req[r].job
    <3>1. task'[i].pc = "mark" /\ job[i].age = 0
      BY <1>0, <1>1, <1>2, <2>1
    <3> QED BY <3>1 DEF Within
  <2>2. CASE i # req[r].job
    <3>1. task'[i] = task[i]
      BY <1>0, <1>2, <2>2
    <3> QED BY <3>1 DEF LeaseInv, RunsFresh
  <2> QED BY <2>1, <2>2
<1>6. StartFresh'
  BY <1>0, <1>3, IdleTypes DEF LeaseInv, StartFresh
<1> QED BY <1>4, <1>5, <1>6 DEF LeaseInv

\* Cancelling a run leaves it where it is.
LEMMA ImportJobCancelKeeps ==
  ASSUME LeaseInv, NEW p \in Pods, NEW j \in Jobs, ImportJobCancel(p, j)
  PROVE  LeaseInv'
<1>0. /\ job[j] \in ImportRow /\ task[j] \in Task /\ used \in Bound
      /\ job[j].age \in Nat /\ used.faults \in Nat
      /\ job = [job EXCEPT ![j] = job[j]] /\ key \in [Owners -> KeyRow]
      /\ Within(task[j], job[j].age, used.faults)
  BY RunFacts
<1>1. req' = req /\ key' = key /\ edit' = edit /\ job' = job
  BY DEF ImportJobCancel
<1>2. used' \in Bound /\ used'.faults = used.faults
  <2>1. used.cancels + 1 \in 0..MaxCancels
    BY <1>0, ImportAssumption DEF ImportJobCancel, Bound
  <2>2. PICK n \in 0..MaxCancels : n = used.cancels + 1
    BY <2>1
  <2>3. used' = [used EXCEPT !.cancels = n]
    BY <2>2 DEF ImportJobCancel
  <2> QED BY <1>0, <2>3 DEF Bound
<1>3. CASE task' = task
  <2>1. edit \in [Owners -> KeyRow]
    BY DEF LeaseInv, CoreTypes
  <2> QED BY <1>0, <1>1, <1>2, <1>3, <2>1, OtherStepKeeps
<1>4. CASE task' = [task EXCEPT ![j] = [@ EXCEPT !.cancelled = TRUE]]
  <2>1. PICK t \in Task : /\ task' = [task EXCEPT ![j] = t]
                          /\ t.pc = task[j].pc /\ t.ticks = task[j].ticks
    <3>1. /\ [task[j] EXCEPT !.cancelled = TRUE] \in Task
          /\ [task[j] EXCEPT !.cancelled = TRUE].pc = task[j].pc
          /\ [task[j] EXCEPT !.cancelled = TRUE].ticks = task[j].ticks
      BY <1>0 DEF Task
    <3> QED BY <1>4, <3>1
  <2>2. Within(t, job[j].age, used'.faults)
    BY <1>0, <1>2, <2>1 DEF Within
  <2>3. job' = [job EXCEPT ![j] = job[j]] /\ used'.faults >= used.faults
    BY <1>0, <1>1, <1>2
  <2>4. key' \in [Owners -> KeyRow]
    BY <1>0, <1>1
  <2> QED BY <1>0, <1>1, <1>2, <2>1, <2>2, <2>3, <2>4, RunStepKeeps
<1> QED BY <1>3, <1>4 DEF ImportJobCancel

\* The cancel of importjobs.go stamps an active row and no other.
LEMMA CancelDurablyKeeps ==
  ASSUME LeaseInv, NEW p \in Pods, NEW j \in Jobs, CancelDurably(p, j)
  PROVE  LeaseInv'
<1>0. /\ job[j] \in ImportRow /\ task[j] \in Task /\ used \in Bound
      /\ job[j].age \in Nat /\ used.faults \in Nat
      /\ job = [job EXCEPT ![j] = job[j]] /\ key \in [Owners -> KeyRow]
      /\ Within(task[j], job[j].age, used.faults)
  BY RunFacts
<1>1. CancelJob(job[j]) \in ImportRow /\ CancelJob(job[j]).age \in {0, job[j].age}
  BY <1>0, StatementFacts
<1>2. req' = req /\ key' = key /\ edit' = edit /\ task' = [task EXCEPT ![j] = task[j]]
  BY DEF CancelDurably, LeaseInv, CoreTypes
<1>3. PICK r \in ImportRow : job' = [job EXCEPT ![j] = r] /\ r.age \in {0, job[j].age}
  <2>1. job' \in {job, [job EXCEPT ![j] = CancelJob(@)]}
    BY DEF CancelDurably
  <2> QED BY <1>0, <1>1, <2>1
<1>4. used' \in Bound /\ used'.faults >= used.faults /\ used'.faults \in Nat
  <2>1. CASE Fault
    BY <1>0, <2>1, FaultFacts
  <2>2. CASE UNCHANGED used
    BY <1>0, <2>2
  <2> QED BY <2>1, <2>2 DEF CancelDurably
<1>5. Within(task[j], r.age, used'.faults)
  BY <1>0, <1>3, <1>4, WithinMono
<1>6. key' \in [Owners -> KeyRow]
  BY <1>0, <1>2
<1> QED BY <1>0, <1>2, <1>3, <1>4, <1>5, <1>6, RunStepKeeps

\* An edit of a saved key uses up one of the edits.
LEMMA EditFacts ==
  ASSUME used \in Bound, used.edits < MaxEdits, used' = [used EXCEPT !.edits = @ + 1]
  PROVE  used' \in Bound /\ used'.faults = used.faults
<1>1. used.edits + 1 \in 0..MaxEdits
  BY ImportAssumption DEF Bound
<1>2. PICK n \in 0..MaxEdits : n = used.edits + 1
  BY <1>1
<1>3. used' = [used EXCEPT !.edits = n]
  BY <1>2
<1> QED BY <1>3 DEF Bound

\* Edits of the saved key touch no row of import_jobs.
LEMMA KeyStepKeeps ==
  ASSUME LeaseInv, NEW o \in Owners, KeyStep(o)
  PROVE  LeaseInv'
<1>0. /\ key \in [Owners -> KeyRow] /\ edit \in [Owners -> KeyRow]
      /\ used \in Bound /\ used.faults \in Nat
  BY ImportAssumption DEF LeaseInv, CoreTypes, Bound
<1>1. ASSUME NEW k \in Keys, ProbeKey(o, k) PROVE LeaseInv'
  <2>1. [saved |-> k, status |-> "valid"] \in KeyRow /\ [saved |-> k, status |-> "unknown"] \in KeyRow
    BY DEF KeyRow
  <2>2. edit' \in [Owners -> KeyRow]
    BY <1>0, <1>1, <2>1 DEF ProbeKey
  <2>3. task' = task /\ job' = job /\ req' = req /\ key' = key
    BY <1>1 DEF ProbeKey
  <2>4. used' \in Bound /\ used'.faults = used.faults
    BY <1>0, <1>1, EditFacts DEF ProbeKey
  <2> QED BY <1>0, <2>2, <2>3, <2>4, OtherStepKeeps
<1>2. ASSUME SaveWakatimeKey(o) PROVE LeaseInv'
  <2>1. SetEncryptedWakatimeKey(edit[o].saved, edit[o].status) \in KeyRow /\ NoEdit \in KeyRow
    BY <1>0 DEF SetEncryptedWakatimeKey, NoEdit, KeyRow
  <2>2. key' \in [Owners -> KeyRow] /\ edit' \in [Owners -> KeyRow]
    BY <1>0, <1>2, <2>1 DEF SaveWakatimeKey
  <2>3. task' = task /\ job' = job /\ req' = req
    BY <1>2 DEF SaveWakatimeKey
  <2>4. used' \in Bound /\ used'.faults >= used.faults
    <3>1. CASE Fault
      BY <1>0, <3>1, FaultFacts
    <3>2. CASE UNCHANGED used
      BY <1>0, <3>2
    <3> QED BY <1>2, <3>1, <3>2 DEF SaveWakatimeKey
  <2> QED BY <2>2, <2>3, <2>4, OtherStepKeeps
<1>3. ASSUME DeleteWakatimeKey(o) PROVE LeaseInv'
  <2>1. ClearEncryptedWakatimeKey \in KeyRow
    BY DEF ClearEncryptedWakatimeKey, KeyRow
  <2>2. key' \in [Owners -> KeyRow]
    BY <1>0, <1>3, <2>1 DEF DeleteWakatimeKey
  <2>3. task' = task /\ job' = job /\ req' = req /\ edit' = edit
    BY <1>3 DEF DeleteWakatimeKey
  <2>4. used' \in Bound /\ used'.faults = used.faults
    BY <1>0, <1>3, EditFacts DEF DeleteWakatimeKey
  <2> QED BY <1>0, <2>2, <2>3, <2>4, OtherStepKeeps
<1> QED BY <1>1, <1>2, <1>3 DEF KeyStep

\* Streams only read.
LEMMA StreamStepKeeps ==
  ASSUME LeaseInv, NEW c \in Streams, StreamStep(c)
  PROVE  LeaseInv'
<1>1. /\ key \in [Owners -> KeyRow] /\ edit \in [Owners -> KeyRow]
      /\ used \in Bound /\ used.faults \in Nat
  BY ImportAssumption DEF LeaseInv, CoreTypes, Bound
<1>2. /\ task' = task /\ job' = job /\ req' = req /\ key' = key /\ edit' = edit /\ used' = used
  BY DEF StreamStep, StreamLoad, StreamSubscribe, StreamSnapshot, StreamDeliver, StreamLeave
<1>3. used' \in Bound /\ used'.faults >= used.faults
  BY <1>1, <1>2
<1> QED BY <1>1, <1>2, <1>3, OtherStepKeeps

\* A row ages by a tick at a time.
LEMMA OlderFacts ==
  ASSUME NEW r \in ImportRow
  PROVE  Older(r) \in ImportRow /\ Older(r).age \in Nat /\ Older(r).age <= r.age + 1
<1>1. r.age \in Nat /\ r.age + 1 \in Nat
  BY DEF ImportRow
<1>2. PICK n \in Nat : n = r.age + 1
  BY <1>1
<1>3. [r EXCEPT !.age = n] \in ImportRow /\ [r EXCEPT !.age = n].age = n
  BY DEF ImportRow
<1>4. Older(r) = r \/ Older(r) = [r EXCEPT !.age = n]
  BY <1>2 DEF Older
<1>5. CASE Older(r) = r
  BY <1>1, <1>5
<1>6. CASE Older(r) = [r EXCEPT !.age = n]
  BY <1>1, <1>2, <1>3, <1>6
<1> QED BY <1>4, <1>5, <1>6

\* Time passes only while every live run waits for a request of its own, and
\* then the run's clock advances with the age of its row.
LEMMA TickKeeps ==
  ASSUME LeaseInv, Tick
  PROVE  LeaseInv'
<1>0. /\ job \in [Jobs -> ImportRow] /\ task \in [Jobs -> Task] /\ req \in [Requests -> Request]
      /\ key \in [Owners -> KeyRow] /\ edit \in [Owners -> KeyRow]
      /\ used \in Bound /\ used.faults \in Nat
  BY ImportAssumption DEF LeaseInv, CoreTypes, Bound
<1>1. /\ req' = req /\ key' = key /\ edit' = edit /\ used' = used
      /\ \A r \in Requests : req[r].pc # "start"
      /\ job' = [j \in Jobs |-> Older(job[j])]
      /\ task' = [j \in Jobs |-> IF Live(j) THEN [task[j] EXCEPT !.ticks = @ + 1] ELSE task[j]]
      /\ \A j \in Jobs : CanWait(j)
  BY DEF Tick
<1>2. ASSUME NEW j \in Jobs
      PROVE  /\ task'[j] \in Task /\ job'[j] \in ImportRow
             /\ Within(task'[j], job'[j].age, used'.faults)
  <2>0. /\ task[j] \in Task /\ job[j] \in ImportRow /\ job[j].age \in Nat
        /\ task[j].ticks \in Nat /\ task[j].ticks + 1 \in Nat
        /\ Within(task[j], job[j].age, used.faults)
    BY <1>0 DEF Task, ImportRow, LeaseInv, RunsFresh
  <2>1. job'[j] \in ImportRow /\ job'[j].age \in Nat /\ job'[j].age <= job[j].age + 1
    BY <1>1, <2>0, OlderFacts
  <2>2. CASE ~ Live(j)
    <3>1. task'[j] = task[j] /\ task[j].pc \in {"none", "dead"}
      BY <1>1, <2>2 DEF Live
    <3> QED BY <2>0, <2>1, <3>1 DEF Within
  <2>3. CASE Live(j)
    <3>1. PICK n \in Nat : n = task[j].ticks + 1
      BY <2>0
    <3>2. task'[j] = [task[j] EXCEPT !.ticks = n]
      BY <1>1, <2>3, <3>1
    <3>3. task'[j] \in Task /\ task'[j].pc = task[j].pc /\ task'[j].ticks = n
      BY <2>0, <3>2 DEF Task
    <3>4. \/ task[j].pc = "lookup" /\ task[j].ticks < 2
          \/ task[j].pc = "day" /\ task[j].ticks < 1
      BY <1>1, <2>3 DEF CanWait
    <3>5. Within(task'[j], job'[j].age, used.faults)
      BY <1>0, <2>0, <2>1, <3>1, <3>3, <3>4 DEF Within
    <3> QED BY <1>1, <2>1, <3>3, <3>5
  <2> QED BY <2>2, <2>3
<1>3. CoreTypes'
  <2>1. job' \in [Jobs -> ImportRow]
    BY <1>1, <1>2
  <2>2. task' \in [Jobs -> Task]
    BY <1>1, <1>2
  <2> QED BY <1>0, <1>1, <2>1, <2>2 DEF CoreTypes
<1>4. RunsFresh'
  BY <1>2 DEF RunsFresh
<1>5. StartFresh'
  BY <1>1 DEF StartFresh
<1> QED BY <1>3, <1>4, <1>5 DEF LeaseInv

\* A pod that stops uses up one of the stops.
LEMMA StopFacts ==
  ASSUME used \in Bound, used.stops < MaxStops, used' = [used EXCEPT !.stops = @ + 1]
  PROVE  used' \in Bound /\ used'.faults = used.faults
<1>1. used.stops + 1 \in 0..MaxStops
  BY ImportAssumption DEF Bound
<1>2. PICK n \in 0..MaxStops : n = used.stops + 1
  BY <1>1
<1>3. used' = [used EXCEPT !.stops = n]
  BY <1>2
<1> QED BY <1>3 DEF Bound

\* A process that ends takes its runs and its requests with it; those of other
\* pods stay within their bounds.
LEMMA VanishKeeps ==
  ASSUME LeaseInv, NEW p \in Pods, Vanish(p), used' \in Bound, used'.faults = used.faults
  PROVE  LeaseInv'
<1>0. /\ job \in [Jobs -> ImportRow] /\ task \in [Jobs -> Task] /\ req \in [Requests -> Request]
      /\ key \in [Owners -> KeyRow] /\ edit \in [Owners -> KeyRow]
  BY DEF LeaseInv, CoreTypes
<1>1. /\ job' = job /\ key' = key /\ edit' = edit
      /\ task' = [j \in Jobs |-> IF task[j].pod = p THEN NoTask ELSE task[j]]
      /\ req' = [r \in Requests |-> IF req[r].pod = p THEN NoRequest ELSE req[r]]
  BY DEF Vanish
<1>2. CoreTypes'
  <2>1. task' \in [Jobs -> Task]
    BY <1>0, <1>1, IdleTypes
  <2>2. req' \in [Requests -> Request]
    BY <1>0, <1>1, IdleTypes
  <2> QED BY <1>0, <1>1, <2>1, <2>2 DEF CoreTypes
<1>3. RunsFresh'
  <2> SUFFICES ASSUME NEW j \in Jobs PROVE Within(task'[j], job[j].age, used.faults)
    BY <1>1 DEF RunsFresh
  <2>1. CASE task'[j] = NoTask
    BY <2>1, IdleTypes DEF Within
  <2>2. CASE task'[j] = task[j]
    BY <2>2 DEF LeaseInv, RunsFresh
  <2> QED BY <1>1, <2>1, <2>2
<1>4. StartFresh'
  <2> SUFFICES ASSUME NEW r \in Requests, req'[r].pc = "start"
               PROVE  req'[r].job \in Jobs /\ job[req'[r].job].age = 0
    BY <1>1 DEF StartFresh
  <2>1. req'[r] = req[r]
    BY <1>1, IdleTypes
  <2> QED BY <2>1 DEF LeaseInv, StartFresh
<1> QED BY <1>2, <1>3, <1>4 DEF LeaseInv

\* Pods that stop, die and boot; the sweep of a boot may fail.
LEMMA PodStepKeeps ==
  ASSUME LeaseInv, NEW p \in Pods, PodStep(p)
  PROVE  LeaseInv'
<1>0. /\ job \in [Jobs -> ImportRow] /\ req \in [Requests -> Request]
      /\ key \in [Owners -> KeyRow] /\ edit \in [Owners -> KeyRow]
      /\ used \in Bound /\ used.faults \in Nat
  BY ImportAssumption DEF LeaseInv, CoreTypes, Bound
<1>1. ASSUME Shutdown(p) PROVE LeaseInv'
  <2>1. task' = task /\ job' = job /\ req' = req /\ key' = key /\ edit' = edit
    BY <1>1 DEF Shutdown
  <2>2. used' \in Bound /\ used'.faults = used.faults
    BY <1>0, <1>1, StopFacts DEF Shutdown
  <2> QED BY <1>0, <2>1, <2>2, OtherStepKeeps
<1>2. ASSUME Exit(p) PROVE LeaseInv'
  <2>1. used' \in Bound /\ used'.faults = used.faults
    BY <1>0, <1>2 DEF Exit
  <2> QED BY <1>2, <2>1, VanishKeeps DEF Exit
<1>3. ASSUME Crash(p) PROVE LeaseInv'
  <2>1. used' \in Bound /\ used'.faults = used.faults
    BY <1>0, <1>3, StopFacts DEF Crash
  <2> QED BY <1>3, <2>1, VanishKeeps DEF Crash
<1>4. ASSUME Restart(p) PROVE LeaseInv'
  <2>1. task' = task /\ req' = req /\ key' = key /\ edit' = edit
    BY <1>4 DEF Restart
  <2>2. /\ job' \in [Jobs -> ImportRow]
        /\ \A j \in Jobs : job'[j].age \in {0, job[j].age}
    <3>1. CASE job' = job
      BY <1>0, <3>1
    <3>2. CASE job' = [j \in Jobs |-> MarkStaleFailed(job[j])]
      BY <1>0, <3>2, StatementFacts
    <3> QED BY <1>4, <3>1, <3>2 DEF Restart
  <2>3. used' \in Bound /\ used'.faults >= used.faults
    <3>1. CASE Fault
      BY <1>0, <3>1, FaultFacts
    <3>2. CASE UNCHANGED used
      BY <1>0, <3>2
    <3> QED BY <1>4, <3>1, <3>2 DEF Restart
  <2>4. \A r \in Requests : req'[r].pc = "start" =>
          req'[r].job \in Jobs /\ job'[req'[r].job].age = 0
    BY <2>1, <2>2 DEF LeaseInv, StartFresh
  <2> QED BY <1>0, <2>1, <2>2, <2>3, <2>4, RowStepKeeps
<1> QED BY <1>1, <1>2, <1>3, <1>4 DEF PodStep

-----------------------------------------------------------------------------
(* The theorems.                                                           *)

\* Nothing runs at first.
LEMMA InitLease == Init => LeaseInv
<1> SUFFICES ASSUME Init PROVE LeaseInv
  OBVIOUS
<1>1. AnyOwner \in Owners
  BY ImportAssumption DEF AnyOwner
<1>2. job \in [Jobs -> ImportRow] /\ \A j \in Jobs : job[j].age = 0
  BY <1>1 DEF Init, ImportRow
<1>3. task \in [Jobs -> Task] /\ \A j \in Jobs : task[j].pc = "none"
  BY IdleTypes DEF Init
<1>4. req \in [Requests -> Request] /\ \A r \in Requests : req[r].pc = "idle"
  BY IdleTypes DEF Init
<1>5. key \in [Owners -> KeyRow] /\ edit \in [Owners -> KeyRow]
  BY DEF Init, ClearEncryptedWakatimeKey, NoEdit, KeyRow
<1>6. used \in Bound
  BY ImportAssumption DEF Init, Bound
<1>7. RunsFresh
  BY <1>3 DEF RunsFresh, Within
<1>8. StartFresh
  BY <1>4 DEF StartFresh
<1> QED BY <1>2, <1>3, <1>4, <1>5, <1>6, <1>7, <1>8 DEF LeaseInv, CoreTypes

\* Every step keeps the lease invariant.
LEMMA NextLease == LeaseInv /\ [Next]_vars => LeaseInv'
<1> SUFFICES ASSUME LeaseInv, [Next]_vars PROVE LeaseInv'
  OBVIOUS
<1>1. CASE \E r \in Requests, p \in Pods, o \in Owners : SubmitSweep(r, p, o)
  BY <1>1, SubmitSweepKeeps
<1>2. CASE \E r \in Requests : RequestStep(r)
  BY <1>2, SubmitCheckKeeps, SubmitRefusedKeeps, StartJobKeeps, SubmitCreateKeeps
  DEF RequestStep
<1>3. CASE \E j \in Jobs : RunStep(j)
  BY <1>3, RunStartsKeeps, FetchLookupsKeeps, FailLookupsKeeps, ImportDayKeeps,
     WriteProgressKeeps, FinishRunKeeps, FinishCancelledKeeps, ApplyKeyOutcomeKeeps
  DEF RunStep
<1>4. CASE \E p \in Pods, j \in Jobs : CancelStep(p, j)
  BY <1>4, ImportJobCancelKeeps, CancelDurablyKeeps DEF CancelStep
<1>5. CASE \E o \in Owners : KeyStep(o)
  BY <1>5, KeyStepKeeps
<1>6. CASE \E c \in Streams : StreamStep(c)
  BY <1>6, StreamStepKeeps
<1>7. CASE \E p \in Pods : PodStep(p)
  BY <1>7, PodStepKeeps
<1>8. CASE Tick
  BY <1>8, TickKeeps
<1>9. CASE UNCHANGED vars
  <2>1. /\ key \in [Owners -> KeyRow] /\ edit \in [Owners -> KeyRow]
        /\ used \in Bound /\ used.faults \in Nat
    BY ImportAssumption DEF LeaseInv, CoreTypes, Bound
  <2>2. task' = task /\ job' = job /\ req' = req /\ key' = key /\ edit' = edit /\ used' = used
    BY <1>9 DEF vars
  <2>3. used' \in Bound /\ used'.faults >= used.faults
    BY <2>1, <2>2
  <2> QED BY <2>1, <2>2, <2>3, OtherStepKeeps
<1> QED BY <1>1, <1>2, <1>3, <1>4, <1>5, <1>6, <1>7, <1>8, <1>9 DEF Next

\* Three ticks and a tick per fault are within the lease.
LEMMA LeaseInvFresh == LeaseInv => LiveRunsAreFresh
<1> SUFFICES ASSUME LeaseInv, NEW j \in Jobs, Live(j) PROVE ~ Expired(job[j])
  BY DEF LiveRunsAreFresh
<1>1. /\ task[j] \in Task /\ job[j].age \in Nat /\ task[j].ticks \in Nat
      /\ used.faults \in Nat /\ Within(task[j], job[j].age, used.faults)
  BY RunFacts
<1>2. used.faults <= MaxFaults
  BY ImportAssumption DEF LeaseInv, CoreTypes, Bound
<1>3. task[j].pc \in {"mark", "lookup", "failing", "day", "progress", "finish",
                      "cancelling", "key"}
  BY <1>1 DEF Task, Live
<1>4. job[j].age <= 3 + used.faults
  BY <1>1, <1>3 DEF Within
<1>5. job[j].age <= Lease
  BY <1>1, <1>2, <1>4, LeaseAssumption, ImportAssumption, StoreAssumption
<1> QED BY <1>1, <1>5, StoreAssumption DEF Expired

\* The lease invariant itself: types, and the age of every row within what its
\* run has spent since the row was last written.
THEOREM LeaseCorrect == Spec => []LeaseInv
  BY InitLease, NextLease, PTL DEF Spec

\* ImportJobStaleAfter is long enough: the row of a live run never looks
\* abandoned (importjobs.go), for every number of jobs, pods and requests and
\* every Lease of at least 3 + MaxFaults client timeouts.
THEOREM LeaseHolds == Spec => []LiveRunsAreFresh
  BY LeaseCorrect, LeaseInvFresh, PTL

\* Every step of a run moves it on.
LEMMA RunStepMoves ==
  ASSUME LeaseInv, NEW j \in Jobs, RunStep(j)
  PROVE  task'[j].pc # task[j].pc
<1>0. task \in [Jobs -> Task] /\ task[j] \in Task
  BY DEF LeaseInv, CoreTypes
<1>3. ASSUME RunStarts(j) PROVE task'[j].pc # task[j].pc
  BY <1>0, <1>3 DEF RunStarts, Task
<1>4. ASSUME FetchLookups(j) PROVE task'[j].pc # task[j].pc
  <2>1. AfterDay(j, 0) \in {"day", "finish"} /\ task[j].pc = "lookup"
    BY <1>4 DEF AfterDay, FetchLookups
  <2>2. CASE task' = [task EXCEPT ![j] = [@ EXCEPT !.pc = AfterDay(j, 0), !.ticks = 0]]
    BY <1>0, <2>1, <2>2 DEF Task
  <2>3. CASE task' = [task EXCEPT ![j] = [@ EXCEPT !.pc = "cancelling"]]
    BY <1>0, <2>1, <2>3 DEF Task
  <2>4. CASE \E x \in BOOLEAN :
               task' = [task EXCEPT ![j] = [@ EXCEPT !.pc = "failing", !.saw401 = x]]
    BY <1>0, <2>1, <2>4 DEF Task
  <2> QED BY <1>4, <2>2, <2>3, <2>4 DEF FetchLookups
<1>5. ASSUME FailLookups(j) PROVE task'[j].pc # task[j].pc
  BY <1>0, <1>5 DEF FailLookups, Task
<1>6. ASSUME ImportDay(j) PROVE task'[j].pc # task[j].pc
  <2>1. task[j].pc = "day"
    BY <1>6 DEF ImportDay
  <2>2. CASE task' = [task EXCEPT ![j] = [@ EXCEPT !.pc = "cancelling"]]
    BY <1>0, <2>1, <2>2 DEF Task
  <2>3. CASE task' = [task EXCEPT ![j] = [task[j] EXCEPT !.pc = "progress", !.day = @ + 1]]
    BY <1>0, <2>1, <2>3 DEF Task
  <2>4. CASE \E x \in BOOLEAN :
               task' = [task EXCEPT ![j] =
                 [task[j] EXCEPT !.pc = "progress", !.day = @ + 1, !.failedDays = @ + 1,
                                 !.saw401 = @ \/ x]]
    <3>1. PICK y, d, n : task' = [task EXCEPT ![j] =
            [task[j] EXCEPT !.pc = "progress", !.day = d, !.failedDays = n, !.saw401 = y]]
      BY <2>4, Zenon
    <3> QED BY <1>0, <2>1, <3>1 DEF Task
  <2> QED BY <1>6, <2>2, <2>3, <2>4 DEF ImportDay
<1>7. ASSUME WriteProgress(j) PROVE task'[j].pc # task[j].pc
  <2>1. task[j].pc = "progress" /\ AfterDay(j, task[j].day) \in {"day", "finish"}
    BY <1>7 DEF WriteProgress, AfterDay
  <2>2. CASE task' = [task EXCEPT ![j] =
               [@ EXCEPT !.pc = AfterDay(j, task[j].day), !.ticks = 0]]
    BY <1>0, <2>1, <2>2 DEF Task
  <2>3. CASE task' = [task EXCEPT ![j] =
               [@ EXCEPT !.ticks = 0, !.pc = IF CtxDone(j) THEN "cancelling"
                                             ELSE AfterDay(j, task[j].day)]]
    BY <1>0, <2>1, <2>3 DEF Task
  <2> QED BY <1>7, <2>2, <2>3 DEF WriteProgress
<1>8. ASSUME FinishRun(j) PROVE task'[j].pc # task[j].pc
  BY <1>0, <1>8 DEF FinishRun, Task
<1>9. ASSUME FinishCancelled(j) PROVE task'[j].pc # task[j].pc
  BY <1>0, <1>9 DEF FinishCancelled, Task
<1>10. ASSUME ApplyKeyOutcome(j) PROVE task'[j].pc # task[j].pc
  BY <1>0, <1>10 DEF ApplyKeyOutcome, Task
<1> QED BY <1>3, <1>4, <1>5, <1>6, <1>7, <1>8, <1>9, <1>10 DEF RunStep

\* A row that is active and not expired is failed by a step of its run only.
LEMMA FailedByItsRun ==
  ASSUME LeaseInv, [Next]_vars, NEW j \in Jobs, IsActive(job[j]), ~ Expired(job[j]),
         job'[j].state = "failed"
  PROVE  RunStep(j)
<1>0. job \in [Jobs -> ImportRow] /\ job[j].state \in {"queued", "running"}
  BY DEF LeaseInv, CoreTypes, IsActive, ActiveStates
<1>1. job'[j] # job[j]
  BY <1>0
<1>2. MarkStaleFailed(job[j]) = job[j]
  BY DEF MarkStaleFailed
<1>3. CASE \E r \in Requests, p \in Pods, o \in Owners : SubmitSweep(r, p, o)
  BY <1>1, <1>2, <1>3 DEF SubmitSweep
<1>4. CASE \E r \in Requests : RequestStep(r)
  BY <1>0, <1>1, <1>4 DEF RequestStep, SubmitCheck, SubmitRefused, StartJob, SubmitCreate
<1>5. CASE \E i \in Jobs : RunStep(i)
  <2>1. PICK i \in Jobs : RunStep(i)
    BY <1>5
  <2>2. CASE i # j
    <3>1. job'[j] = job[j]
      BY <1>0, <2>1, <2>2
      DEF RunStep, RunStarts, FetchLookups, FailLookups, ImportDay, WriteProgress,
          FinishRun, FinishCancelled, ApplyKeyOutcome
    <3> QED BY <1>1, <3>1
  <2> QED BY <2>1, <2>2
<1>6. CASE \E p \in Pods, i \in Jobs : CancelStep(p, i)
  <2>1. CancelJob(job[j]).state = "cancelled"
    BY <1>0 DEF CancelJob, ImportRow
  <2> QED BY <1>0, <1>1, <1>6, <2>1 DEF CancelStep, ImportJobCancel, CancelDurably
<1>7. CASE \E o \in Owners : KeyStep(o)
  BY <1>1, <1>7 DEF KeyStep, ProbeKey, SaveWakatimeKey, DeleteWakatimeKey
<1>8. CASE \E c \in Streams : StreamStep(c)
  BY <1>1, <1>8
  DEF StreamStep, StreamLoad, StreamSubscribe, StreamSnapshot, StreamDeliver, StreamLeave
<1>9. CASE \E p \in Pods : PodStep(p)
  BY <1>1, <1>2, <1>9 DEF PodStep, Shutdown, Exit, Crash, Vanish, Restart
<1>10. CASE Tick
  <2>1. Older(job[j]).state = job[j].state
    BY <1>0 DEF Older, ImportRow
  <2> QED BY <1>0, <1>10, <2>1 DEF Tick
<1>11. CASE UNCHANGED vars
  BY <1>1, <1>11 DEF vars
<1> QED BY <1>3, <1>4, <1>5, <1>6, <1>7, <1>8, <1>9, <1>10, <1>11 DEF Next

\* No sweep - a boot of another pod, the next POST /import of the owner - fails
\* the row of a live run (importjobs.go, MarkStaleJobsFailed); only a step of
\* the run itself does.
THEOREM SweepsAreSafe == Spec => SweepsSpareLiveRuns
<1>1. ASSUME LeaseInv, [Next]_vars
      PROVE  \A j \in Jobs :
               Live(j) /\ IsActive(job[j]) /\ job'[j].state = "failed"
                 => task'[j].pc # task[j].pc
  <2> SUFFICES ASSUME NEW j \in Jobs, Live(j), IsActive(job[j]), job'[j].state = "failed"
               PROVE  task'[j].pc # task[j].pc
    OBVIOUS
  <2>1. ~ Expired(job[j])
    BY <1>1, LeaseInvFresh DEF LiveRunsAreFresh
  <2>2. RunStep(j)
    BY <1>1, <2>1, FailedByItsRun
  <2> QED BY <1>1, <2>2, RunStepMoves
<1> QED BY <1>1, LeaseCorrect, PTL DEF Spec, SweepsSpareLiveRuns

-----------------------------------------------------------------------------
(***************************************************************************)
(* What a run of the importer says of itself: for any number of jobs,      *)
(* pods, requests, streams and keys, any range of days and any faults,     *)
(* completed is said only of a run that stored a day, a key is saved and   *)
(* judged only by a run that earned it, and a terminal event is true and   *)
(* stays true.                                                             *)
(*                                                                         *)
(* Five invariants carry this.  RunsAddUp: the days a run has counted are  *)
(* stored or failed, and how far it is bounds what it has counted.         *)
(* RejectionsSeen: a run knows of every 401 it was answered.               *)
(* RefusalsTold: and of no other.                                          *)
(* StartedOnce: a row is handed to one request, whose goroutine is the     *)
(* first.  ToldInTheEnd: nobody can take a job of which a stream was told  *)
(* the end back to running.                                                *)
(***************************************************************************)

RunOK(j, t, r, n, acc) ==
  /\ t.pc # "none" => r.state # "absent"
  /\ t.pc \in {"mark", "lookup"} => t.day = 0 /\ t.failedDays = 0
  /\ t.pc = "day" => t.day < r.days
  /\ t.pc = "progress" => t.day <= r.days
  /\ t.pc = "finish" => t.day = r.days
  /\ t.failedDays <= t.day /\ t.day <= n + t.failedDays
  /\ (\/ t.pc \in {"day", "progress", "finish"}
      \/ t.pc = "key" /\ t.verdict = "completed") => <<j, t.token, TRUE>> \in acc
  /\ r.state = "completed" => r.days = 0 \/ n > 0

RunsAddUp == \A j \in Jobs : RunOK(j, task[j], job[j], stored[j], answers)

OtherTypes ==
  /\ asked \subseteq (Pods \X Jobs)
  /\ stream \in [Streams -> Stream]
  /\ power \in [Pods -> {"up", "stopping", "down"}]
  /\ answers \subseteq Answer
  /\ stored \in [Jobs -> Nat]

Typed == LeaseInv /\ OtherTypes

StartedOnce ==
  /\ \A r \in Requests : req[r].pc = "start" =>
       job[req[r].job].state # "absent" /\ task[req[r].job].pc = "none"
  /\ \A r, q \in Requests :
       req[r].pc = "start" /\ req[q].pc = "start" /\ req[r].job = req[q].job => r = q

\* A run knows of every 401 it was answered, and a job that has not started was
\* answered none.
RejectionsSeen ==
  \A j \in Jobs, t \in Keys \cup {NoKey} : <<j, t, FALSE>> \in answers =>
    /\ job[j].state # "absent"
    /\ \A r \in Requests : req[r].pc = "start" => req[r].job # j
    /\ Live(j) => task[j].saw401 /\ task[j].pc \notin {"mark", "lookup"}

Told(c) == \E i \in DOMAIN stream[c].chan : stream[c].chan[i] = "terminal"

\* A job that nobody can take back to running.
Over(j) ==
  /\ job[j].state \in TerminalStates /\ task[j].pc # "mark"
  /\ \A r \in Requests : req[r].pc = "start" => req[r].job # j

ToldInTheEnd == \A c \in Streams : Told(c) => stream[c].job \in Jobs /\ Over(stream[c].job)

\* A run that has seen a 401 was answered one.
RefusalsTold ==
  \A j \in Jobs : task[j].saw401 => \E t \in Keys \cup {NoKey} : <<j, t, FALSE>> \in answers

RunInv == Typed /\ RunsAddUp /\ StartedOnce /\ RejectionsSeen /\ RefusalsTold

-----------------------------------------------------------------------------
(* Rows.                                                                   *)

\* A statement that does not say completed, keeps the days, and brings a row
\* back neither to absent nor from its end.
RowOK(new, r) ==
  /\ new.days = r.days
  /\ r.state # "absent" => new.state # "absent"
  /\ new.state = "completed" => r.state = "completed"

\* Every statement but the one that says completed is a RowOK, and only
\* MarkJobRunning takes a row back from its end.
LEMMA StatementsRowOK ==
  ASSUME NEW r \in ImportRow
  PROVE  /\ RowOK(r, r)
         /\ RowOK(MarkJobRunning(r), r) /\ MarkJobRunning(r).state = "running"
         /\ RowOK(UpdateJobProgress(r), r) /\ UpdateJobProgress(r).state = r.state
         /\ RowOK(FinishImportJob(r, "failed"), r)
         /\ \A s \in {"completed", "failed"} :
              FinishImportJob(r, s).state = s /\ FinishImportJob(r, s).days = r.days
         /\ RowOK(CancelJob(r), r) /\ CancelJob(r).state \in {"cancelled", r.state}
         /\ IsActive(r) => CancelJob(r).state = "cancelled"
         /\ r.state \in TerminalStates =>
              CancelJob(r) = r /\ MarkStaleFailed(r) = r /\ Older(r) = r
         /\ r.state = "absent" => CancelJob(r) = r /\ MarkStaleFailed(r) = r /\ Older(r) = r
         /\ RowOK(MarkStaleFailed(r), r) /\ RowOK(Older(r), r)
<1>1. RowOK(MarkJobRunning(r), r) /\ MarkJobRunning(r).state = "running"
  BY DEF MarkJobRunning, RowOK, ImportRow
<1>2. RowOK(UpdateJobProgress(r), r) /\ UpdateJobProgress(r).state = r.state
  BY DEF UpdateJobProgress, RowOK, ImportRow
<1>3. /\ RowOK(FinishImportJob(r, "failed"), r)
      /\ \A s \in {"completed", "failed"} :
           FinishImportJob(r, s).state = s /\ FinishImportJob(r, s).days = r.days
  BY DEF FinishImportJob, RowOK, ImportRow
<1>4. /\ RowOK(CancelJob(r), r) /\ CancelJob(r).state \in {"cancelled", r.state}
      /\ IsActive(r) => CancelJob(r).state = "cancelled"
  BY DEF CancelJob, IsActive, ActiveStates, RowOK, ImportRow
<1>5. r.state \in TerminalStates \cup {"absent"} =>
        CancelJob(r) = r /\ MarkStaleFailed(r) = r /\ Older(r) = r
  BY DEF CancelJob, MarkStaleFailed, Expired, Older, IsActive, ActiveStates, TerminalStates
<1>6. RowOK(MarkStaleFailed(r), r)
  BY DEF MarkStaleFailed, Expired, IsActive, ActiveStates, RowOK, ImportRow
<1>7. RowOK(Older(r), r)
  BY DEF Older, IsActive, ActiveStates, RowOK, ImportRow
<1>8. RowOK(r, r)
  BY DEF RowOK
<1> QED BY <1>1, <1>2, <1>3, <1>4, <1>5, <1>6, <1>7, <1>8

\* What a run is made of.
LEMMA RunTypes ==
  ASSUME Typed, NEW j \in Jobs
  PROVE  /\ task[j] \in Task /\ job[j] \in ImportRow /\ stored[j] \in Nat
         /\ task[j].day \in Nat /\ task[j].failedDays \in Nat /\ job[j].days \in Nat
BY DEF Typed, OtherTypes, LeaseInv, CoreTypes, Task, ImportRow

\* A run that only gives up adds up as before.
LEMMA GivenUp ==
  ASSUME NEW j, NEW t, NEW u, NEW r, NEW s, NEW n, NEW acc,
         RunOK(j, t, r, n, acc), RowOK(s, r), t.pc # "none",
         u.pc \in {"dead", "cancelling", "failing"} \/ (u.pc = "key" /\ u.verdict = "failed"),
         u.day = t.day, u.failedDays = t.failedDays
  PROVE  RunOK(j, u, s, n, acc)
BY DEF RunOK, RowOK

\* A run that is left alone adds up as before when its row only grows older,
\* is cancelled or swept.
LEMMA LeftAlone ==
  ASSUME NEW j, NEW t, NEW u, NEW r, NEW s, NEW n, NEW acc, NEW more,
         RunOK(j, t, r, n, acc), RowOK(s, r), acc \subseteq more,
         u.pc = t.pc, u.day = t.day, u.failedDays = t.failedDays, u.verdict = t.verdict,
         u.token = t.token
  PROVE  RunOK(j, u, s, n, more)
BY DEF RunOK, RowOK

\* A step of one run.
LEMMA RunStepAddsUp ==
  ASSUME RunsAddUp, NEW j \in Jobs, answers \subseteq answers',
         \A i \in Jobs \ {j} : task'[i] = task[i] /\ job'[i] = job[i] /\ stored'[i] = stored[i],
         RunOK(j, task'[j], job'[j], stored'[j], answers')
  PROVE  RunsAddUp'
<1> SUFFICES ASSUME NEW i \in Jobs \ {j}
             PROVE  RunOK(i, task'[i], job'[i], stored'[i], answers')
  BY DEF RunsAddUp
<1>1. RunOK(i, task[i], job[i], stored[i], answers) /\ RowOK(job[i], job[i])
  BY DEF RunsAddUp, RowOK
<1> QED BY <1>1, LeftAlone

-----------------------------------------------------------------------------
(* The steps of a run.                                                     *)

\* The start of a run.
LEMMA RunStartsAddsUp ==
  ASSUME Typed, RunsAddUp, NEW j \in Jobs, RunStarts(j)
  PROVE  RunsAddUp'
<1>1. /\ task[j] \in Task /\ job[j] \in ImportRow /\ task \in [Jobs -> Task] /\ job \in [Jobs -> ImportRow]
      /\ RunOK(j, task[j], job[j], stored[j], answers)
  BY RunTypes DEF Typed, LeaseInv, CoreTypes, RunsAddUp
<1>2. /\ task[j].pc = "mark" /\ job' \in {job, [job EXCEPT ![j] = MarkJobRunning(job[j])]}
      /\ UNCHANGED <<answers, stored>>
  BY DEF RunStarts
<1>3. RowOK(job'[j], job[j]) /\ \A i \in Jobs \ {j} : job'[i] = job[i]
  BY <1>1, <1>2, StatementsRowOK
<1>4. CASE task' = [task EXCEPT ![j] = [@ EXCEPT !.pc = "dead"]]
  <2>1. /\ task'[j].pc = "dead" /\ task'[j].day = task[j].day
        /\ task'[j].failedDays = task[j].failedDays /\ \A i \in Jobs \ {j} : task'[i] = task[i]
    BY <1>1, <1>4 DEF Task
  <2>2. RunOK(j, task'[j], job'[j], stored'[j], answers')
    BY <1>1, <1>2, <1>3, <2>1, GivenUp
  <2> QED BY <1>2, <1>3, <2>1, <2>2, RunStepAddsUp
<1>5. CASE \E t \in ResolveToken(j) :
             task' = [task EXCEPT ![j] = [@ EXCEPT !.pc = "lookup", !.ticks = 0, !.token = t]]
  <2>1. /\ task'[j].pc = "lookup" /\ task'[j].day = task[j].day
        /\ task'[j].failedDays = task[j].failedDays /\ \A i \in Jobs \ {j} : task'[i] = task[i]
    BY <1>1, <1>5 DEF Task
  <2>2. RunOK(j, task'[j], job'[j], stored'[j], answers')
    BY <1>1, <1>2, <1>3, <2>1 DEF RunOK, RowOK
  <2> QED BY <1>2, <1>3, <2>1, <2>2, RunStepAddsUp
<1> QED BY <1>4, <1>5 DEF RunStarts

\* The look-ups: the first call that is answered accepts the key.
LEMMA FetchLookupsAddsUp ==
  ASSUME Typed, RunsAddUp, NEW j \in Jobs, FetchLookups(j)
  PROVE  RunsAddUp'
<1>1. /\ task[j] \in Task /\ job[j] \in ImportRow /\ task \in [Jobs -> Task]
      /\ job[j].days \in Nat /\ RunOK(j, task[j], job[j], stored[j], answers)
  BY RunTypes DEF Typed, LeaseInv, CoreTypes, RunsAddUp
<1>2. /\ task[j].pc = "lookup" /\ UNCHANGED <<job, stored>> /\ answers \subseteq answers'
  BY DEF FetchLookups
<1>3. CASE /\ task' = [task EXCEPT ![j] = [@ EXCEPT !.pc = AfterDay(j, 0), !.ticks = 0]]
           /\ answers' = answers \cup {<<j, task[j].token, TRUE>>}
  <2>1. /\ task'[j].pc = AfterDay(j, 0) /\ task'[j].day = task[j].day
        /\ task'[j].failedDays = task[j].failedDays /\ task'[j].token = task[j].token
        /\ \A i \in Jobs \ {j} : task'[i] = task[i]
    BY <1>1, <1>3 DEF Task, AfterDay
  <2>2. <<j, task'[j].token, TRUE>> \in answers'
    BY <1>3, <2>1
  <2>3. IF 0 < job[j].days THEN task'[j].pc = "day" ELSE task'[j].pc = "finish"
    BY <2>1 DEF AfterDay
  <2>4. RunOK(j, task'[j], job'[j], stored'[j], answers')
    BY <1>1, <1>2, <2>1, <2>2, <2>3 DEF RunOK
  <2> QED BY <1>2, <2>1, <2>4, RunStepAddsUp
<1>4. ASSUME NEW u \in Task, task' = [task EXCEPT ![j] = u], u.pc \in {"cancelling", "failing"},
             u.day = task[j].day, u.failedDays = task[j].failedDays
      PROVE  RunsAddUp'
  <2>1. RunOK(j, u, job[j], stored[j], answers)
    BY <1>1, <1>2, <1>4, GivenUp DEF RowOK
  <2>2. RunOK(j, u, job[j], stored[j], answers')
    BY <1>2, <2>1, LeftAlone DEF RowOK
  <2> QED BY <1>1, <1>2, <1>4, <2>2, RunStepAddsUp
<1>5. CASE task' = [task EXCEPT ![j] = [@ EXCEPT !.pc = "cancelling"]]
  <2> DEFINE u == [task[j] EXCEPT !.pc = "cancelling"]
  <2>1. u \in Task /\ u.pc = "cancelling" /\ u.day = task[j].day /\ u.failedDays = task[j].failedDays
    BY <1>1 DEF Task
  <2> QED BY <1>4, <1>5, <2>1
<1>6. CASE \E x \in BOOLEAN :
             task' = [task EXCEPT ![j] = [@ EXCEPT !.pc = "failing", !.saw401 = x]]
  <2>1. PICK x \in BOOLEAN : task' = [task EXCEPT ![j] = [@ EXCEPT !.pc = "failing", !.saw401 = x]]
    BY <1>6
  <2> DEFINE u == [task[j] EXCEPT !.pc = "failing", !.saw401 = x]
  <2>2. u \in Task /\ u.pc = "failing" /\ u.day = task[j].day /\ u.failedDays = task[j].failedDays
    BY <1>1 DEF Task
  <2> QED BY <1>4, <2>1, <2>2
<1> QED BY <1>3, <1>5, <1>6 DEF FetchLookups

\* A run whose look-ups failed says failed.
LEMMA FailLookupsAddsUp ==
  ASSUME Typed, RunsAddUp, NEW j \in Jobs, FailLookups(j)
  PROVE  RunsAddUp'
<1>1. /\ task[j] \in Task /\ job[j] \in ImportRow /\ task \in [Jobs -> Task] /\ job \in [Jobs -> ImportRow]
      /\ RunOK(j, task[j], job[j], stored[j], answers)
  BY RunTypes DEF Typed, LeaseInv, CoreTypes, RunsAddUp
<1>2. /\ task[j].pc = "failing" /\ UNCHANGED <<answers, stored>>
      /\ job' \in {job, [job EXCEPT ![j] = FinishImportJob(job[j], "failed")]}
      /\ task' = [task EXCEPT ![j] = [@ EXCEPT !.pc = "key", !.verdict = "failed"]]
  BY DEF FailLookups
<1>3. RowOK(job'[j], job[j]) /\ \A i \in Jobs \ {j} : job'[i] = job[i]
  BY <1>1, <1>2, StatementsRowOK
<1>4. /\ task'[j].pc = "key" /\ task'[j].verdict = "failed" /\ task'[j].day = task[j].day
      /\ task'[j].failedDays = task[j].failedDays /\ \A i \in Jobs \ {j} : task'[i] = task[i]
  BY <1>1, <1>2 DEF Task
<1>5. RunOK(j, task'[j], job'[j], stored'[j], answers')
  BY <1>1, <1>2, <1>3, <1>4, GivenUp
<1> QED BY <1>2, <1>3, <1>4, <1>5, RunStepAddsUp

\* A day is stored, with a key that is accepted, or counted as failed.
LEMMA ImportDayAddsUp ==
  ASSUME Typed, RunsAddUp, NEW j \in Jobs, ImportDay(j)
  PROVE  RunsAddUp'
<1>1. /\ task[j] \in Task /\ job[j] \in ImportRow /\ task \in [Jobs -> Task]
      /\ task[j].day \in Nat /\ task[j].failedDays \in Nat /\ job[j].days \in Nat
      /\ stored \in [Jobs -> Nat] /\ stored[j] \in Nat
      /\ RunOK(j, task[j], job[j], stored[j], answers)
  BY RunTypes DEF Typed, OtherTypes, LeaseInv, CoreTypes, RunsAddUp
<1>2. task[j].pc = "day" /\ UNCHANGED job
  BY DEF ImportDay
<1>3. CASE /\ task' = [task EXCEPT ![j] = [@ EXCEPT !.pc = "cancelling"]]
           /\ UNCHANGED <<answers, stored>>
  <2>1. /\ task'[j].pc = "cancelling" /\ task'[j].day = task[j].day
        /\ task'[j].failedDays = task[j].failedDays /\ \A i \in Jobs \ {j} : task'[i] = task[i]
    BY <1>1, <1>3 DEF Task
  <2>2. RunOK(j, task'[j], job'[j], stored'[j], answers')
    BY <1>1, <1>2, <1>3, <2>1, GivenUp DEF RowOK
  <2> QED BY <1>2, <1>3, <2>1, <2>2, RunStepAddsUp
<1>4. CASE /\ task' = [task EXCEPT ![j] = [task[j] EXCEPT !.pc = "progress", !.day = @ + 1]]
           /\ answers' = answers \cup {<<j, task[j].token, TRUE>>}
           /\ stored' = [stored EXCEPT ![j] = @ + 1]
  <2>1. /\ task'[j].pc = "progress" /\ task'[j].day = task[j].day + 1
        /\ task'[j].failedDays = task[j].failedDays /\ task'[j].token = task[j].token
        /\ \A i \in Jobs \ {j} : task'[i] = task[i]
    BY <1>1, <1>4 DEF Task
  <2>2. stored'[j] = stored[j] + 1 /\ \A i \in Jobs \ {j} : stored'[i] = stored[i]
    BY <1>1, <1>4
  <2>3. <<j, task'[j].token, TRUE>> \in answers' /\ answers \subseteq answers'
    <3>1. <<j, task[j].token, TRUE>> \in answers' /\ answers \subseteq answers'
      BY <1>4
    <3> QED BY <2>1, <3>1
  <2>4. RunOK(j, task'[j], job'[j], stored'[j], answers')
    BY <1>1, <1>2, <2>1, <2>2, <2>3 DEF RunOK
  <2> QED BY <1>2, <2>1, <2>2, <2>3, <2>4, RunStepAddsUp
<1>5. CASE /\ \E x \in BOOLEAN :
                task' = [task EXCEPT ![j] =
                  [task[j] EXCEPT !.pc = "progress", !.day = @ + 1, !.failedDays = @ + 1,
                                  !.saw401 = @ \/ x]]
           /\ UNCHANGED stored /\ answers \subseteq answers'
  <2>1. PICK y, d, n :
          /\ task' = [task EXCEPT ![j] =
               [task[j] EXCEPT !.pc = "progress", !.day = d, !.failedDays = n, !.saw401 = y]]
          /\ d = task[j].day + 1 /\ n = task[j].failedDays + 1
    BY <1>5, Zenon
  <2>2. /\ task'[j].pc = "progress" /\ task'[j].day = task[j].day + 1
        /\ task'[j].failedDays = task[j].failedDays + 1 /\ task'[j].token = task[j].token
        /\ \A i \in Jobs \ {j} : task'[i] = task[i]
    BY <1>1, <2>1 DEF Task
  <2>3. RunOK(j, task'[j], job'[j], stored'[j], answers')
    BY <1>1, <1>2, <1>5, <2>2 DEF RunOK
  <2> QED BY <1>2, <1>5, <2>2, <2>3, RunStepAddsUp
<1>6. answers \subseteq answers'
  BY DEF ImportDay
<1> QED BY <1>3, <1>4, <1>5, <1>6 DEF ImportDay

\* The progress write moves the run on to the next day or to its end.
LEMMA WriteProgressAddsUp ==
  ASSUME Typed, RunsAddUp, NEW j \in Jobs, WriteProgress(j)
  PROVE  RunsAddUp'
<1>1. /\ task[j] \in Task /\ job[j] \in ImportRow /\ task \in [Jobs -> Task] /\ job \in [Jobs -> ImportRow]
      /\ task[j].day \in Nat /\ job[j].days \in Nat
      /\ RunOK(j, task[j], job[j], stored[j], answers)
  BY RunTypes DEF Typed, LeaseInv, CoreTypes, RunsAddUp
<1>2. /\ task[j].pc = "progress" /\ UNCHANGED <<answers, stored>>
      /\ job' \in {job, [job EXCEPT ![j] = UpdateJobProgress(job[j])]}
  BY DEF WriteProgress
<1>3. RowOK(job'[j], job[j]) /\ \A i \in Jobs \ {j} : job'[i] = job[i]
  BY <1>1, <1>2, StatementsRowOK
<1>4. PICK q \in {"cancelling", AfterDay(j, task[j].day)} :
        task' = [task EXCEPT ![j] = [task[j] EXCEPT !.ticks = 0, !.pc = q]]
  BY DEF WriteProgress
<1>5. /\ task'[j].pc = q /\ task'[j].day = task[j].day /\ task'[j].token = task[j].token
      /\ task'[j].failedDays = task[j].failedDays /\ \A i \in Jobs \ {j} : task'[i] = task[i]
  BY <1>1, <1>4 DEF Task
<1>6. \/ q = "cancelling"
      \/ q = "day" /\ task[j].day < job[j].days
      \/ q = "finish" /\ ~(task[j].day < job[j].days)
  BY <1>4 DEF AfterDay
<1>7. RunOK(j, task'[j], job'[j], stored'[j], answers')
  BY <1>1, <1>2, <1>3, <1>5, <1>6 DEF RunOK, RowOK
<1> QED BY <1>2, <1>3, <1>5, <1>7, RunStepAddsUp

\* A run says completed only if not every day of it failed.
LEMMA FinishRunAddsUp ==
  ASSUME Typed, RunsAddUp, NEW j \in Jobs, FinishRun(j)
  PROVE  RunsAddUp'
<1>1. /\ task[j] \in Task /\ job[j] \in ImportRow /\ task \in [Jobs -> Task] /\ job \in [Jobs -> ImportRow]
      /\ task[j].day \in Nat /\ task[j].failedDays \in Nat /\ job[j].days \in Nat
      /\ stored[j] \in Nat /\ RunOK(j, task[j], job[j], stored[j], answers)
  BY RunTypes DEF Typed, LeaseInv, CoreTypes, RunsAddUp
<1> DEFINE v == Verdict(j)
<1>2. /\ task[j].pc = "finish" /\ UNCHANGED <<answers, stored>>
      /\ job' \in {job, [job EXCEPT ![j] = FinishImportJob(job[j], v)]}
      /\ \/ task' = [task EXCEPT ![j] = [@ EXCEPT !.pc = "key", !.verdict = v]]
         \/ task' = [task EXCEPT ![j] = [@ EXCEPT !.pc = "dead"]]
  BY DEF FinishRun
<1>3. /\ v \in {"completed", "failed"}
      /\ v = "completed" => job[j].days = 0 \/ task[j].failedDays # job[j].days
  BY <1>1 DEF Verdict
<1> HIDE DEF v
<1>4. /\ job'[j] = job[j] \/ (job'[j].state = v /\ job'[j].days = job[j].days)
      /\ \A i \in Jobs \ {j} : job'[i] = job[i]
  <2>1. FinishImportJob(job[j], v).state = v /\ FinishImportJob(job[j], v).days = job[j].days
    BY <1>1, <1>3, StatementsRowOK
  <2> QED BY <1>1, <1>2, <2>1
<1>5. /\ task'[j].pc \in {"key", "dead"} /\ task'[j].day = task[j].day /\ task'[j].token = task[j].token
      /\ task'[j].failedDays = task[j].failedDays /\ \A i \in Jobs \ {j} : task'[i] = task[i]
  <2>1. CASE task' = [task EXCEPT ![j] = [@ EXCEPT !.pc = "key", !.verdict = v]]
    BY <1>1, <2>1 DEF Task
  <2>2. CASE task' = [task EXCEPT ![j] = [@ EXCEPT !.pc = "dead"]]
    BY <1>1, <2>2 DEF Task
  <2> QED BY <1>2, <2>1, <2>2
<1>6. RunOK(j, task'[j], job'[j], stored'[j], answers')
  <2>1. v = "completed" => job[j].days = 0 \/ stored[j] > 0
    BY <1>1, <1>2, <1>3 DEF RunOK
  <2> QED BY <1>1, <1>2, <1>3, <1>4, <1>5, <2>1 DEF RunOK
<1> QED BY <1>2, <1>4, <1>5, <1>6, RunStepAddsUp

\* The end of a cancelled run and of a judged key.
LEMMA RunEndsAddsUp ==
  ASSUME Typed, RunsAddUp, NEW j \in Jobs, FinishCancelled(j) \/ ApplyKeyOutcome(j)
  PROVE  RunsAddUp'
<1>1. /\ task[j] \in Task /\ job[j] \in ImportRow /\ task \in [Jobs -> Task] /\ job \in [Jobs -> ImportRow]
      /\ RunOK(j, task[j], job[j], stored[j], answers)
  BY RunTypes DEF Typed, LeaseInv, CoreTypes, RunsAddUp
<1>2. /\ task[j].pc \in {"cancelling", "key"} /\ UNCHANGED <<answers, stored>>
      /\ job' \in {job, [job EXCEPT ![j] = CancelJob(job[j])]}
      /\ task' = [task EXCEPT ![j] = [@ EXCEPT !.pc = "dead"]]
  BY DEF FinishCancelled, ApplyKeyOutcome
<1>3. RowOK(job'[j], job[j]) /\ \A i \in Jobs \ {j} : job'[i] = job[i]
  BY <1>1, <1>2, StatementsRowOK
<1>4. /\ task'[j].pc = "dead" /\ task'[j].day = task[j].day
      /\ task'[j].failedDays = task[j].failedDays /\ \A i \in Jobs \ {j} : task'[i] = task[i]
  BY <1>1, <1>2 DEF Task
<1>5. RunOK(j, task'[j], job'[j], stored'[j], answers')
  BY <1>1, <1>2, <1>3, <1>4, GivenUp
<1> QED BY <1>2, <1>3, <1>4, <1>5, RunStepAddsUp

\* Every step of a run adds up.
LEMMA EveryRunStepAddsUp ==
  ASSUME Typed, RunsAddUp, NEW j \in Jobs, RunStep(j)
  PROVE  RunsAddUp'
BY RunStartsAddsUp, FetchLookupsAddsUp, FailLookupsAddsUp, ImportDayAddsUp,
   WriteProgressAddsUp, FinishRunAddsUp, RunEndsAddsUp DEF RunStep

-----------------------------------------------------------------------------
(* The steps of others.                                                    *)

\* A step that leaves the counts of every run alone, and changes rows by
\* statements that do not say completed.
LEMMA OthersAddUp ==
  ASSUME RunsAddUp, UNCHANGED stored, answers \subseteq answers',
         \A j \in Jobs : RowOK(job'[j], job[j]),
         \A j \in Jobs :
           /\ task'[j].pc = task[j].pc /\ task'[j].day = task[j].day
           /\ task'[j].failedDays = task[j].failedDays
           /\ task'[j].verdict = task[j].verdict /\ task'[j].token = task[j].token
  PROVE  RunsAddUp'
<1> SUFFICES ASSUME NEW j \in Jobs
             PROVE  RunOK(j, task'[j], job'[j], stored'[j], answers')
  BY DEF RunsAddUp
<1>1. RunOK(j, task[j], job[j], stored[j], answers)
  BY DEF RunsAddUp
<1> QED BY <1>1, LeftAlone

\* A run that has not begun adds up, whatever its row was.
LEMMA NotBegun ==
  ASSUME NEW j, NEW r, NEW n \in Nat, NEW acc, NEW t, t.pc \in {"none", "mark"},
         t.day = 0, t.failedDays = 0, t.pc = "mark" => r.state # "absent",
         r.state = "completed" => r.days = 0 \/ n > 0
  PROVE  RunOK(j, t, r, n, acc)
BY DEF RunOK

\* Requests: the sweep fails rows, the INSERT takes an absent one, and the run
\* of a started job begins at nothing.
LEMMA RequestAddsUp ==
  ASSUME Typed, RunsAddUp, StartedOnce, NEW r \in Requests,
         \/ \E p \in Pods, o \in Owners : SubmitSweep(r, p, o)
         \/ RequestStep(r)
  PROVE  RunsAddUp'
<1>0. /\ job \in [Jobs -> ImportRow] /\ task \in [Jobs -> Task] /\ stored \in [Jobs -> Nat]
      /\ req \in [Requests -> Request]
  BY DEF Typed, OtherTypes, LeaseInv, CoreTypes
<1>1. CASE \E p \in Pods, o \in Owners : SubmitSweep(r, p, o)
  <2>1. UNCHANGED <<task, stored, answers>>
    BY <1>1 DEF SubmitSweep
  <2>2. \A j \in Jobs : job'[j] \in {job[j], MarkStaleFailed(job[j])}
    BY <1>0, <1>1 DEF SubmitSweep
  <2>3. \A j \in Jobs : RowOK(job'[j], job[j])
    BY <1>0, <2>2, StatementsRowOK
  <2> QED BY <2>1, <2>3, OthersAddUp
<1>2. CASE SubmitCheck(r) \/ SubmitRefused(r)
  BY <1>2, OthersAddUp DEF SubmitCheck, SubmitRefused, RowOK
<1>3. ASSUME NEW j \in Jobs, SubmitCreate(r, j) PROVE RunsAddUp'
  <2>1. /\ job[j].state = "absent" /\ UNCHANGED <<task, answers, stored>>
        /\ job' = job \/ \E o, d : job' = [job EXCEPT ![j] = CreateImportJob(o, d)]
    BY <1>3 DEF SubmitCreate
  <2>2. CASE job' = job
    BY <2>1, <2>2, OthersAddUp DEF RowOK
  <2>3. ASSUME NEW o, NEW d, job' = [job EXCEPT ![j] = CreateImportJob(o, d)] PROVE RunsAddUp'
    <3>1. /\ job'[j].state = "queued" /\ \A i \in Jobs \ {j} : job'[i] = job[i]
      BY <1>0, <2>3 DEF CreateImportJob
    <3>2. RunOK(j, task[j], job[j], stored[j], answers) /\ task[j].pc = "none"
      BY <2>1 DEF RunsAddUp, RunOK
    <3>3. RunOK(j, task'[j], job'[j], stored'[j], answers')
      BY <2>1, <3>1, <3>2 DEF RunOK
    <3> QED BY <2>1, <3>1, <3>3, RunStepAddsUp
  <2> QED BY <2>1, <2>2, <2>3
<1>4. CASE StartJob(r)
  <2> DEFINE j == req[r].job
             u == [NoTask EXCEPT !.pc = "mark", !.pod = req[r].pod,
                                 !.source = req[r].source, !.token = req[r].token]
  <2>1. /\ req[r].pc = "start" /\ task' = [task EXCEPT ![j] = u]
        /\ UNCHANGED <<job, stored, answers>>
    BY <1>4 DEF StartJob
  <2>2. /\ u.pc = "mark" /\ u.day = 0 /\ u.failedDays = 0
    BY DEF NoTask
  <2>3. j \in Jobs /\ job[j].state # "absent"
    BY <2>1 DEF StartedOnce, Typed, LeaseInv, StartFresh
  <2> HIDE DEF u
  <2>4. RunOK(j, u, job[j], stored[j], answers)
    <3>1. job[j].state = "completed" => job[j].days = 0 \/ stored[j] > 0
      BY <2>3 DEF RunsAddUp, RunOK
    <3> QED BY <1>0, <2>2, <2>3, <3>1, NotBegun
  <2>5. task'[j] = u /\ \A i \in Jobs \ {j} : task'[i] = task[i]
    BY <1>0, <2>1, <2>3
  <2> QED BY <2>1, <2>3, <2>4, <2>5, RunStepAddsUp
<1> QED BY <1>1, <1>2, <1>3, <1>4 DEF RequestStep

\* Cancels, keys and streams leave the counts of every run alone.
LEMMA UserAddsUp ==
  ASSUME Typed, RunsAddUp,
         \/ \E p \in Pods, j \in Jobs : CancelStep(p, j)
         \/ \E o \in Owners : KeyStep(o)
         \/ \E c \in Streams : StreamStep(c)
  PROVE  RunsAddUp'
<1>0. job \in [Jobs -> ImportRow] /\ task \in [Jobs -> Task]
  BY DEF Typed, LeaseInv, CoreTypes
<1>1. ASSUME NEW p \in Pods, NEW j \in Jobs, ImportJobCancel(p, j) PROVE RunsAddUp'
  <2>1. /\ UNCHANGED <<job, stored, answers>>
        /\ task' \in {task, [task EXCEPT ![j] = [@ EXCEPT !.cancelled = TRUE]]}
    BY <1>1 DEF ImportJobCancel
  <2>2. \A i \in Jobs :
          /\ task'[i].pc = task[i].pc /\ task'[i].day = task[i].day
          /\ task'[i].failedDays = task[i].failedDays
          /\ task'[i].verdict = task[i].verdict /\ task'[i].token = task[i].token
    BY <1>0, <2>1 DEF Task
  <2> QED BY <2>1, <2>2, OthersAddUp DEF RowOK
<1>2. ASSUME NEW p \in Pods, NEW j \in Jobs, CancelDurably(p, j) PROVE RunsAddUp'
  <2>1. UNCHANGED <<task, stored, answers>>
    BY <1>2 DEF CancelDurably
  <2>2. \A i \in Jobs : job'[i] \in {job[i], CancelJob(job[i])}
    BY <1>0, <1>2 DEF CancelDurably
  <2>3. \A i \in Jobs : RowOK(job'[i], job[i])
    BY <1>0, <2>2, StatementsRowOK
  <2> QED BY <2>1, <2>3, OthersAddUp
<1>3. ASSUME NEW o \in Owners, KeyStep(o) PROVE RunsAddUp'
  <2>1. UNCHANGED <<job, task, stored>> /\ answers \subseteq answers'
    BY <1>3 DEF KeyStep, ProbeKey, SaveWakatimeKey, DeleteWakatimeKey
  <2> QED BY <2>1, OthersAddUp DEF RowOK
<1>4. ASSUME NEW c \in Streams, StreamStep(c) PROVE RunsAddUp'
  <2>1. UNCHANGED <<job, task, stored, answers>>
    BY <1>4
    DEF StreamStep, StreamLoad, StreamSubscribe, StreamSnapshot, StreamDeliver, StreamLeave
  <2> QED BY <2>1, OthersAddUp DEF RowOK
<1> QED BY <1>1, <1>2, <1>3, <1>4 DEF CancelStep

\* A pod that goes takes its runs with it; one that comes back sweeps; time
\* passes.
LEMMA PodAddsUp ==
  ASSUME Typed, RunsAddUp, (\E p \in Pods : PodStep(p)) \/ Tick
  PROVE  RunsAddUp'
<1>0. job \in [Jobs -> ImportRow] /\ task \in [Jobs -> Task] /\ stored \in [Jobs -> Nat]
  BY DEF Typed, OtherTypes, LeaseInv, CoreTypes
<1>1. ASSUME NEW p \in Pods, Vanish(p) PROVE RunsAddUp'
  <2>1. /\ UNCHANGED <<job, stored, answers>>
        /\ \A j \in Jobs : task'[j] \in {NoTask, task[j]}
    BY <1>1 DEF Vanish
  <2> SUFFICES ASSUME NEW j \in Jobs
               PROVE  RunOK(j, task'[j], job[j], stored[j], answers)
    BY <2>1 DEF RunsAddUp
  <2>2. RunOK(j, task[j], job[j], stored[j], answers)
    BY DEF RunsAddUp
  <2>3. CASE task'[j] = task[j]
    BY <2>2, <2>3
  <2>4. CASE task'[j] = NoTask
    <3>1. NoTask.pc = "none" /\ NoTask.day = 0 /\ NoTask.failedDays = 0
      BY DEF NoTask
    <3>2. job[j].state = "completed" => job[j].days = 0 \/ stored[j] > 0
      BY <2>2 DEF RunOK
    <3> QED BY <1>0, <2>4, <3>1, <3>2, NotBegun
  <2> QED BY <2>1, <2>3, <2>4
<1>2. ASSUME NEW p \in Pods, Restart(p) PROVE RunsAddUp'
  <2>1. UNCHANGED <<task, stored, answers>>
    BY <1>2 DEF Restart
  <2>2. \A i \in Jobs : job'[i] \in {job[i], MarkStaleFailed(job[i])}
    BY <1>0, <1>2 DEF Restart
  <2>3. \A i \in Jobs : RowOK(job'[i], job[i])
    BY <1>0, <2>2, StatementsRowOK
  <2> QED BY <2>1, <2>3, OthersAddUp
<1>3. ASSUME NEW p \in Pods, Shutdown(p) PROVE RunsAddUp'
  BY <1>3, OthersAddUp DEF Shutdown, RowOK
<1>4. CASE Tick
  <2>1. /\ UNCHANGED <<stored, answers>> /\ \A j \in Jobs : job'[j] = Older(job[j])
        /\ \A j \in Jobs : task'[j] \in {task[j], [task[j] EXCEPT !.ticks = task[j].ticks + 1]}
    BY <1>4 DEF Tick
  <2>2. \A i \in Jobs :
          /\ task'[i].pc = task[i].pc /\ task'[i].day = task[i].day
          /\ task'[i].failedDays = task[i].failedDays
          /\ task'[i].verdict = task[i].verdict /\ task'[i].token = task[i].token
    BY <1>0, <2>1 DEF Task
  <2>3. \A j \in Jobs : RowOK(job'[j], job[j])
    BY <1>0, <2>1, StatementsRowOK
  <2> QED BY <2>1, <2>2, <2>3, OthersAddUp
<1> QED BY <1>1, <1>2, <1>3, <1>4 DEF PodStep, Exit, Crash

-----------------------------------------------------------------------------
(* One request starts a job.                                               *)

\* Steps that start no run and bring no row back to absent.
LEMMA StartedOnceKept ==
  ASSUME StartedOnce,
         \A r \in Requests : req'[r].pc = "start" => req'[r] = req[r],
         \A r \in Requests : req'[r].pc = "start" =>
           /\ job[req[r].job].state # "absent" => job'[req[r].job].state # "absent"
           /\ task[req[r].job].pc = "none" => task'[req[r].job].pc = "none"
  PROVE  StartedOnce'
BY DEF StartedOnce

\* Every step keeps a started job to its request.
LEMMA StartedOnceStep ==
  ASSUME Typed, RunsAddUp, StartedOnce, [Next]_vars
  PROVE  StartedOnce'
<1>0. /\ job \in [Jobs -> ImportRow] /\ task \in [Jobs -> Task] /\ req \in [Requests -> Request]
      /\ \A r \in Requests : req[r].pc = "start" => req[r].job \in Jobs
  BY DEF Typed, LeaseInv, CoreTypes, StartFresh
<1>1. ASSUME \A r \in Requests : req'[r].pc = "start" => req'[r] = req[r],
             \A j \in Jobs : job[j].state # "absent" => job'[j].state # "absent",
             \A j \in Jobs : task[j].pc = "none" => task'[j].pc = "none"
      PROVE  StartedOnce'
  BY <1>0, <1>1, StartedOnceKept
<1>2. CASE \E r \in Requests, p \in Pods, o \in Owners : SubmitSweep(r, p, o)
  <2>1. PICK r \in Requests, p \in Pods, o \in Owners : SubmitSweep(r, p, o)
    BY <1>2
  <2>2. UNCHANGED task /\ \A j \in Jobs : job'[j] \in {job[j], MarkStaleFailed(job[j])}
    BY <1>0, <2>1 DEF SubmitSweep
  <2>3. \A j \in Jobs : RowOK(job'[j], job[j])
    BY <1>0, <2>2, StatementsRowOK
  <2>4. \A q \in Requests : req'[q].pc = "start" => req'[q] = req[q]
    <3>1. PICK k, src : req' = [req EXCEPT ![r] =
                           [pc |-> "check", pod |-> p, owner |-> o, token |-> k, job |-> NoJob,
                            source |-> src]]
      BY <2>1, Zenon DEF SubmitSweep
    <3>2. req'[r].pc = "check" /\ \A q \in Requests \ {r} : req'[q] = req[q]
      BY <1>0, <3>1
    <3> QED BY <3>2
  <2> QED BY <1>1, <2>2, <2>3, <2>4 DEF RowOK
<1>3. ASSUME NEW r \in Requests, SubmitCheck(r) \/ SubmitRefused(r) PROVE StartedOnce'
  <2>1. UNCHANGED <<job, task>>
    BY <1>3 DEF SubmitCheck, SubmitRefused
  <2>2. req' = [req EXCEPT ![r] = NoRequest] \/ req' = [req EXCEPT ![r].pc = "create"]
    BY <1>3 DEF SubmitCheck, SubmitRefused
  <2>3. \A q \in Requests : req'[q].pc = "start" => req'[q] = req[q]
    <3>1. \A q \in Requests \ {r} : req'[q] = req[q]
      BY <1>0, <2>2
    <3>2. req'[r].pc # "start"
      <4>1. CASE req' = [req EXCEPT ![r] = NoRequest]
        BY <1>0, <4>1 DEF NoRequest
      <4>2. CASE req' = [req EXCEPT ![r].pc = "create"]
        BY <1>0, <4>2 DEF Request
      <4> QED BY <2>2, <4>1, <4>2
    <3> QED BY <3>1, <3>2
  <2> QED BY <1>1, <2>1, <2>3
<1>4. ASSUME NEW r \in Requests, NEW j \in Jobs, SubmitCreate(r, j) PROVE StartedOnce'
  <2>1. /\ job[j].state = "absent" /\ UNCHANGED task
        /\ \A i \in Jobs \ {j} : job'[i] = job[i]
        /\ \A q \in Requests \ {r} : req'[q] = req[q]
    BY <1>0, <1>4 DEF SubmitCreate
  <2>2. task[j].pc = "none"
    BY <2>1 DEF RunsAddUp, RunOK
  <2>3. \A q \in Requests : req[q].pc = "start" => req[q].job \in Jobs \ {j}
    BY <1>0, <2>1 DEF StartedOnce
  <2>4. CASE \E d : /\ job' = [job EXCEPT ![j] = CreateImportJob(req[r].owner, d)]
                    /\ req' = [req EXCEPT ![r].pc = "start", ![r].job = j]
    <3>1. job'[j].state = "queued"
      BY <1>0, <2>4 DEF CreateImportJob
    <3>2. req'[r].job = j
      BY <1>0, <2>4 DEF Request
    <3> QED BY <2>1, <2>2, <2>3, <3>1, <3>2 DEF StartedOnce
  <2>5. CASE req' = [req EXCEPT ![r] = NoRequest]
    <3>1. req'[r].pc = "idle"
      BY <1>0, <2>5 DEF NoRequest
    <3> QED BY <2>1, <2>3, <3>1, StartedOnceKept
  <2> QED BY <1>4, <2>4, <2>5 DEF SubmitCreate
<1>5. ASSUME NEW r \in Requests, StartJob(r) PROVE StartedOnce'
  <2>1. /\ req[r].pc = "start" /\ req' = [req EXCEPT ![r] = NoRequest] /\ UNCHANGED job
        /\ \A i \in Jobs : i # req[r].job => task'[i] = task[i]
    BY <1>0, <1>5 DEF StartJob
  <2>2. req'[r].pc = "idle" /\ \A q \in Requests \ {r} : req'[q] = req[q]
    BY <1>0, <2>1 DEF NoRequest
  <2>3. \A q \in Requests \ {r} : req[q].pc = "start" => req[q].job \in Jobs /\ req[q].job # req[r].job
    BY <1>0, <2>1 DEF StartedOnce
  <2> QED BY <2>1, <2>2, <2>3, StartedOnceKept
<1>6. ASSUME NEW j \in Jobs, RunStep(j) PROVE StartedOnce'
  <2>1. UNCHANGED req /\ task[j].pc # "none" /\ \A i \in Jobs \ {j} : task'[i] = task[i]
    BY <1>0, <1>6
    DEF RunStep, RunStarts, FetchLookups, FailLookups, ImportDay, WriteProgress, FinishRun,
        FinishCancelled, ApplyKeyOutcome
  <2>2. \A i \in Jobs \ {j} : job'[i] = job[i]
    BY <1>0, <1>6
    DEF RunStep, RunStarts, FetchLookups, FailLookups, ImportDay, WriteProgress, FinishRun,
        FinishCancelled, ApplyKeyOutcome
  <2>3. \A r \in Requests : req[r].pc = "start" => req[r].job \in Jobs \ {j}
    BY <1>0, <2>1 DEF StartedOnce
  <2> QED BY <2>1, <2>2, <2>3, StartedOnceKept
<1>7. ASSUME NEW p \in Pods, NEW j \in Jobs, CancelStep(p, j) PROVE StartedOnce'
  <2>1. UNCHANGED req /\ \A i \in Jobs : job'[i] \in {job[i], CancelJob(job[i])}
    BY <1>0, <1>7 DEF CancelStep, ImportJobCancel, CancelDurably
  <2>2. \A i \in Jobs : RowOK(job'[i], job[i])
    BY <1>0, <2>1, StatementsRowOK
  <2>3. task' \in {task, [task EXCEPT ![j] = [@ EXCEPT !.cancelled = TRUE]]}
    BY <1>7 DEF CancelStep, ImportJobCancel, CancelDurably
  <2>4. \A i \in Jobs : task'[i].pc = task[i].pc
    BY <1>0, <2>3 DEF Task
  <2> QED BY <1>1, <2>1, <2>2, <2>4 DEF RowOK
<1>8. ASSUME UNCHANGED <<job, task, req>> PROVE StartedOnce'
  BY <1>1, <1>8
<1>9. CASE \E o \in Owners : KeyStep(o)
  BY <1>8, <1>9 DEF KeyStep, ProbeKey, SaveWakatimeKey, DeleteWakatimeKey
<1>10. CASE \E c \in Streams : StreamStep(c)
  BY <1>8, <1>10
  DEF StreamStep, StreamLoad, StreamSubscribe, StreamSnapshot, StreamDeliver, StreamLeave
<1>11. ASSUME NEW p \in Pods, PodStep(p) PROVE StartedOnce'
  <2>1. CASE Shutdown(p)
    BY <1>8, <2>1 DEF Shutdown
  <2>2. CASE Vanish(p)
    <3>1. /\ UNCHANGED job /\ \A j \in Jobs : task'[j] \in {NoTask, task[j]}
          /\ \A r \in Requests : req'[r] \in {NoRequest, req[r]}
      BY <2>2 DEF Vanish
    <3>2. NoTask.pc = "none" /\ NoRequest.pc = "idle"
      BY DEF NoTask, NoRequest
    <3> QED BY <1>1, <3>1, <3>2
  <2>3. CASE Restart(p)
    <3>1. UNCHANGED <<req, task>> /\ \A i \in Jobs : job'[i] \in {job[i], MarkStaleFailed(job[i])}
      BY <1>0, <2>3 DEF Restart
    <3>2. \A i \in Jobs : RowOK(job'[i], job[i])
      BY <1>0, <3>1, StatementsRowOK
    <3> QED BY <1>1, <3>1, <3>2 DEF RowOK
  <2> QED BY <1>11, <2>1, <2>2, <2>3 DEF PodStep, Exit, Crash
<1>12. CASE Tick
  <2>1. /\ UNCHANGED req /\ \A j \in Jobs : job'[j] = Older(job[j])
        /\ \A j \in Jobs : task[j].pc = "none" => task'[j] = task[j]
    BY <1>12 DEF Tick, Live
  <2>2. \A i \in Jobs : RowOK(job'[i], job[i])
    BY <1>0, <2>1, StatementsRowOK
  <2> QED BY <1>1, <2>1, <2>2 DEF RowOK
<1>13. CASE UNCHANGED vars
  BY <1>8, <1>13 DEF vars
<1> QED BY <1>2, <1>3, <1>4, <1>5, <1>6, <1>7, <1>9, <1>10, <1>11, <1>12, <1>13
        DEF Next, RequestStep

-----------------------------------------------------------------------------
(* No 401 is forgotten.                                                    *)

\* A step that brings no answer of a run, starts no run and brings no row back to
\* absent.
LEMMA RejectionsKept ==
  ASSUME RejectionsSeen,
         \A j \in Jobs, t \in Keys \cup {NoKey} :
           <<j, t, FALSE>> \in answers' => <<j, t, FALSE>> \in answers,
         \A r \in Requests : req'[r].pc = "start" => req'[r] = req[r],
         \A j \in Jobs : job[j].state # "absent" => job'[j].state # "absent",
         \A j \in Jobs : task'[j].pc \in {"none", task[j].pc} /\
                         (task'[j].pc # "none" => task'[j].saw401 = task[j].saw401)
  PROVE  RejectionsSeen'
<1> SUFFICES ASSUME NEW j \in Jobs, NEW t \in Keys \cup {NoKey}, <<j, t, FALSE>> \in answers'
             PROVE  /\ job'[j].state # "absent"
                    /\ \A r \in Requests : req'[r].pc = "start" => req'[r].job # j
                    /\ Live(j)' => task'[j].saw401 /\ task'[j].pc \notin {"mark", "lookup"}
  BY DEF RejectionsSeen
<1>1. <<j, t, FALSE>> \in answers
  OBVIOUS
<1>2. /\ job[j].state # "absent"
      /\ \A r \in Requests : req[r].pc = "start" => req[r].job # j
      /\ Live(j) => task[j].saw401 /\ task[j].pc \notin {"mark", "lookup"}
  BY <1>1 DEF RejectionsSeen
<1>3. job'[j].state # "absent" /\ \A r \in Requests : req'[r].pc = "start" => req'[r].job # j
  BY <1>2
<1>4. Live(j)' => task'[j].saw401 /\ task'[j].pc \notin {"mark", "lookup"}
  <2>1. Live(j)' => Live(j) /\ task'[j].pc = task[j].pc /\ task'[j].saw401 = task[j].saw401
    BY DEF Live
  <2> QED BY <1>2, <2>1
<1> QED BY <1>3, <1>4

\* A run that was answered a 401, now or before, remembers it while it lasts.
LEMMA RunRemembers ==
  ASSUME Typed, RejectionsSeen, NEW j \in Jobs, RunStep(j),
         NEW t \in Keys \cup {NoKey}, <<j, t, FALSE>> \in answers', Live(j)'
  PROVE  task'[j].saw401 /\ task'[j].pc \notin {"mark", "lookup"}
<1>1. /\ task \in [Jobs -> Task] /\ task[j] \in Task
      /\ <<j, t, FALSE>> \in answers /\ Live(j) =>
           task[j].saw401 /\ task[j].pc \notin {"mark", "lookup"}
  BY DEF Typed, LeaseInv, CoreTypes, RejectionsSeen
<1>2. CASE RunStarts(j)
  BY <1>1, <1>2 DEF RunStarts, Live
<1>3. CASE FetchLookups(j)
  <2>1. task[j].pc = "lookup" /\ <<j, t, FALSE>> \notin answers
    BY <1>1, <1>3 DEF FetchLookups, Live
  <2>2. PICK rejected \in BOOLEAN :
          /\ task' = [task EXCEPT ![j] = [@ EXCEPT !.pc = "failing", !.saw401 = rejected]]
          /\ answers' = answers \cup Rejection(j, rejected)
    <3>1. <<j, t, FALSE>> # <<j, task[j].token, TRUE>>
      OBVIOUS
    <3>2. answers' # answers /\ answers' # answers \cup {<<j, task[j].token, TRUE>>}
      BY <2>1, <3>1
    <3> QED BY <1>3, <3>2 DEF FetchLookups
  <2>3. rejected
    BY <2>1, <2>2 DEF Rejection
  <2> QED BY <1>1, <2>2, <2>3 DEF Task
<1>4. CASE ImportDay(j)
  <2>1. task[j].pc = "day" /\ (<<j, t, FALSE>> \in answers => task[j].saw401)
    BY <1>1, <1>4 DEF ImportDay, Live
  <2>2. CASE <<j, t, FALSE>> \in answers
    <3>1. task'[j].saw401 /\ task'[j].pc \in {"cancelling", "progress"}
      <4>1. CASE task' = [task EXCEPT ![j] = [@ EXCEPT !.pc = "cancelling"]]
        BY <1>1, <2>1, <2>2, <4>1 DEF Task
      <4>2. CASE task' = [task EXCEPT ![j] = [task[j] EXCEPT !.pc = "progress", !.day = @ + 1]]
        BY <1>1, <2>1, <2>2, <4>2 DEF Task
      <4>3. CASE \E x \in BOOLEAN :
                   task' = [task EXCEPT ![j] =
                     [task[j] EXCEPT !.pc = "progress", !.day = @ + 1, !.failedDays = @ + 1,
                                     !.saw401 = @ \/ x]]
        BY <1>1, <2>1, <2>2, <4>3 DEF Task
      <4> QED BY <1>4, <4>1, <4>2, <4>3 DEF ImportDay
    <3> QED BY <3>1
  <2>3. CASE <<j, t, FALSE>> \notin answers
    <3>1. PICK x \in BOOLEAN :
            /\ task' = [task EXCEPT ![j] =
                 [task[j] EXCEPT !.pc = "progress", !.day = @ + 1, !.failedDays = @ + 1,
                                 !.saw401 = @ \/ x]]
            /\ answers' = answers \cup Rejection(j, x)
      <4>1. <<j, t, FALSE>> # <<j, task[j].token, TRUE>>
        OBVIOUS
      <4>2. answers' # answers /\ answers' # answers \cup {<<j, task[j].token, TRUE>>}
        BY <2>3, <4>1
      <4> QED BY <1>4, <4>2, Zenon DEF ImportDay
    <3>2. x
      BY <2>3, <3>1 DEF Rejection
    <3> QED BY <1>1, <3>1, <3>2 DEF Task
  <2> QED BY <2>2, <2>3
<1>5. CASE FailLookups(j)
  BY <1>1, <1>5 DEF FailLookups, Live, Task
<1>6. CASE WriteProgress(j)
  <2>1. task[j].pc = "progress" /\ UNCHANGED answers
    BY <1>6 DEF WriteProgress
  <2>2. PICK q \in {"cancelling", "day", "finish"} :
          task' = [task EXCEPT ![j] = [task[j] EXCEPT !.ticks = 0, !.pc = q]]
    BY <1>6 DEF WriteProgress, AfterDay
  <2> QED BY <1>1, <2>1, <2>2 DEF Live, Task
<1>7. CASE FinishRun(j)
  <2>1. task[j].pc = "finish" /\ UNCHANGED answers
    BY <1>7 DEF FinishRun
  <2>2. CASE task' = [task EXCEPT ![j] = [@ EXCEPT !.pc = "key", !.verdict = Verdict(j)]]
    BY <1>1, <2>1, <2>2 DEF Live, Task
  <2>3. CASE task' = [task EXCEPT ![j] = [@ EXCEPT !.pc = "dead"]]
    BY <1>1, <2>3 DEF Live, Task
  <2> QED BY <1>7, <2>2, <2>3 DEF FinishRun
<1>8. CASE FinishCancelled(j) \/ ApplyKeyOutcome(j)
  BY <1>1, <1>8 DEF FinishCancelled, ApplyKeyOutcome, Live, Task
<1> QED BY <1>2, <1>3, <1>4, <1>5, <1>6, <1>7, <1>8 DEF RunStep

\* Every step keeps what runs know of rejections.
LEMMA RejectionsSeenStep ==
  ASSUME Typed, RunsAddUp, StartedOnce, RejectionsSeen, [Next]_vars
  PROVE  RejectionsSeen'
<1>0. /\ job \in [Jobs -> ImportRow] /\ task \in [Jobs -> Task] /\ req \in [Requests -> Request]
      /\ \A r \in Requests : req[r].pc = "start" => req[r].job \in Jobs
  BY DEF Typed, LeaseInv, CoreTypes, StartFresh
<1>1. ASSUME \A r \in Requests : req'[r].pc = "start" => req'[r] = req[r],
             \A j \in Jobs : job[j].state # "absent" => job'[j].state # "absent",
             \A j \in Jobs : task'[j].pc \in {"none", task[j].pc} /\
                             (task'[j].pc # "none" => task'[j].saw401 = task[j].saw401),
             UNCHANGED answers
      PROVE  RejectionsSeen'
  BY <1>1, RejectionsKept
<1>2. CASE \E r \in Requests, p \in Pods, o \in Owners : SubmitSweep(r, p, o)
  <2>1. PICK r \in Requests, p \in Pods, o \in Owners : SubmitSweep(r, p, o)
    BY <1>2
  <2>2. UNCHANGED <<task, answers>> /\ \A j \in Jobs : job'[j] \in {job[j], MarkStaleFailed(job[j])}
    BY <1>0, <2>1 DEF SubmitSweep
  <2>3. \A j \in Jobs : RowOK(job'[j], job[j])
    BY <1>0, <2>2, StatementsRowOK
  <2>4. \A q \in Requests : req'[q].pc = "start" => req'[q] = req[q]
    <3>1. PICK k, src : req' = [req EXCEPT ![r] =
                           [pc |-> "check", pod |-> p, owner |-> o, token |-> k, job |-> NoJob,
                            source |-> src]]
      BY <2>1, Zenon DEF SubmitSweep
    <3>2. req'[r].pc = "check" /\ \A q \in Requests \ {r} : req'[q] = req[q]
      BY <1>0, <3>1
    <3> QED BY <3>2
  <2> QED BY <1>1, <2>2, <2>3, <2>4 DEF RowOK
<1>3. ASSUME NEW r \in Requests, SubmitCheck(r) \/ SubmitRefused(r) PROVE RejectionsSeen'
  <2>1. UNCHANGED <<job, task, answers>>
    BY <1>3 DEF SubmitCheck, SubmitRefused
  <2>2. \/ req' = [req EXCEPT ![r] = NoRequest]
        \/ req[r].pc = "check" /\ req' = [req EXCEPT ![r].pc = "create"]
    BY <1>3 DEF SubmitCheck, SubmitRefused
  <2>3. \A q \in Requests : req'[q].pc = "start" => req'[q] = req[q]
    <3>1. \A q \in Requests \ {r} : req'[q] = req[q]
      BY <1>0, <2>2
    <3>2. req'[r].pc # "start"
      <4>1. CASE req' = [req EXCEPT ![r] = NoRequest]
        BY <1>0, <4>1 DEF NoRequest
      <4>2. CASE req' = [req EXCEPT ![r].pc = "create"]
        BY <1>0, <4>2 DEF Request
      <4> QED BY <2>2, <4>1, <4>2
    <3> QED BY <3>1, <3>2
  <2> QED BY <1>1, <2>1, <2>3
<1>4. ASSUME NEW r \in Requests, NEW j \in Jobs, SubmitCreate(r, j) PROVE RejectionsSeen'
  <2>1. /\ job[j].state = "absent" /\ UNCHANGED <<task, answers>>
        /\ \A i \in Jobs \ {j} : job'[i] = job[i]
        /\ \A q \in Requests \ {r} : req'[q] = req[q]
    BY <1>0, <1>4 DEF SubmitCreate
  <2>2. \A t \in Keys \cup {NoKey} : <<j, t, FALSE>> \notin answers'
    BY <2>1 DEF RejectionsSeen
  <2>3. req'[r].pc = "start" => req'[r].job = j
    <3>1. CASE req' = [req EXCEPT ![r].pc = "start", ![r].job = j]
      BY <1>0, <3>1 DEF Request
    <3>2. CASE req' = [req EXCEPT ![r] = NoRequest]
      BY <1>0, <3>2 DEF NoRequest
    <3> QED BY <1>4, <3>1, <3>2 DEF SubmitCreate
  <2> SUFFICES ASSUME NEW i \in Jobs, NEW t \in Keys \cup {NoKey}, <<i, t, FALSE>> \in answers'
               PROVE  /\ job'[i].state # "absent"
                      /\ \A q \in Requests : req'[q].pc = "start" => req'[q].job # i
                      /\ Live(i)' => task'[i].saw401 /\ task'[i].pc \notin {"mark", "lookup"}
    BY DEF RejectionsSeen
  <2>4. i # j /\ <<i, t, FALSE>> \in answers
    BY <2>1, <2>2
  <2>5. /\ job[i].state # "absent"
        /\ \A q \in Requests : req[q].pc = "start" => req[q].job # i
        /\ Live(i) => task[i].saw401 /\ task[i].pc \notin {"mark", "lookup"}
    BY <2>4 DEF RejectionsSeen
  <2> QED BY <2>1, <2>3, <2>4, <2>5 DEF Live
<1>5. ASSUME NEW r \in Requests, StartJob(r) PROVE RejectionsSeen'
  <2>1. /\ req[r].pc = "start" /\ req' = [req EXCEPT ![r] = NoRequest] /\ UNCHANGED <<job, answers>>
        /\ \A i \in Jobs : i # req[r].job => task'[i] = task[i]
    BY <1>0, <1>5 DEF StartJob
  <2>2. req'[r].pc = "idle" /\ \A q \in Requests \ {r} : req'[q] = req[q]
    BY <1>0, <2>1 DEF NoRequest
  <2> SUFFICES ASSUME NEW i \in Jobs, NEW t \in Keys \cup {NoKey}, <<i, t, FALSE>> \in answers'
               PROVE  /\ job'[i].state # "absent"
                      /\ \A q \in Requests : req'[q].pc = "start" => req'[q].job # i
                      /\ Live(i)' => task'[i].saw401 /\ task'[i].pc \notin {"mark", "lookup"}
    BY DEF RejectionsSeen
  <2>3. /\ job[i].state # "absent"
        /\ \A q \in Requests : req[q].pc = "start" => req[q].job # i
        /\ Live(i) => task[i].saw401 /\ task[i].pc \notin {"mark", "lookup"}
    BY <2>1 DEF RejectionsSeen
  <2>4. task'[i] = task[i]
    BY <2>1, <2>3
  <2>5. \A q \in Requests : req'[q].pc = "start" => req'[q].job # i
    BY <2>2, <2>3
  <2> QED BY <2>1, <2>3, <2>4, <2>5 DEF Live
<1>6. ASSUME NEW j \in Jobs, RunStep(j) PROVE RejectionsSeen'
  <2>1. UNCHANGED req /\ task[j].pc # "none" /\ \A i \in Jobs \ {j} : task'[i] = task[i]
    BY <1>0, <1>6
    DEF RunStep, RunStarts, FetchLookups, FailLookups, ImportDay, WriteProgress, FinishRun,
        FinishCancelled, ApplyKeyOutcome
  <2>2. \A i \in Jobs \ {j}, t \in Keys \cup {NoKey} :
          <<i, t, FALSE>> \in answers' => <<i, t, FALSE>> \in answers
    <3>1. answers' \subseteq answers \cup {<<j, task[j].token, TRUE>>, <<j, task[j].token, FALSE>>}
      BY <1>6
      DEF RunStep, RunStarts, FetchLookups, FailLookups, ImportDay, WriteProgress, FinishRun,
          FinishCancelled, ApplyKeyOutcome, Rejection
    <3> QED BY <3>1
  <2>3. \A i \in Jobs \ {j} : job'[i] = job[i]
    BY <1>0, <1>6
    DEF RunStep, RunStarts, FetchLookups, FailLookups, ImportDay, WriteProgress, FinishRun,
        FinishCancelled, ApplyKeyOutcome
  <2>4. job'[j].state # "absent"
    <3>1. job[j].state # "absent"
      BY <2>1 DEF RunsAddUp, RunOK
    <3>2. job'[j] \in {job[j], MarkJobRunning(job[j]), UpdateJobProgress(job[j]), CancelJob(job[j]),
                       FinishImportJob(job[j], "failed"), FinishImportJob(job[j], "completed")}
      BY <1>0, <1>6
      DEF RunStep, RunStarts, FetchLookups, FailLookups, ImportDay, WriteProgress, FinishRun,
          FinishCancelled, ApplyKeyOutcome, Verdict
    <3> QED BY <1>0, <3>1, <3>2, StatementsRowOK DEF RowOK
  <2>5. \A r \in Requests : req[r].pc = "start" => req[r].job \in Jobs \ {j}
    BY <1>0, <2>1 DEF StartedOnce
  <2>6. \A t \in Keys \cup {NoKey} :
          <<j, t, FALSE>> \in answers' =>
            (Live(j)' => task'[j].saw401 /\ task'[j].pc \notin {"mark", "lookup"})
    BY <1>6, RunRemembers
  <2> QED BY <2>1, <2>2, <2>3, <2>4, <2>5, <2>6 DEF RejectionsSeen, Live
<1>7. ASSUME NEW p \in Pods, NEW j \in Jobs, CancelStep(p, j) PROVE RejectionsSeen'
  <2>1. UNCHANGED <<req, answers>> /\ \A i \in Jobs : job'[i] \in {job[i], CancelJob(job[i])}
    BY <1>0, <1>7 DEF CancelStep, ImportJobCancel, CancelDurably
  <2>2. \A i \in Jobs : RowOK(job'[i], job[i])
    BY <1>0, <2>1, StatementsRowOK
  <2>3. task' \in {task, [task EXCEPT ![j] = [@ EXCEPT !.cancelled = TRUE]]}
    BY <1>7 DEF CancelStep, ImportJobCancel, CancelDurably
  <2>4. \A i \in Jobs : task'[i].pc = task[i].pc /\ task'[i].saw401 = task[i].saw401
    BY <1>0, <2>3 DEF Task
  <2> QED BY <1>1, <2>1, <2>2, <2>4 DEF RowOK
<1>8. CASE \E o \in Owners : KeyStep(o)
  <2>1. UNCHANGED <<job, task, req>>
    BY <1>8 DEF KeyStep, ProbeKey, SaveWakatimeKey, DeleteWakatimeKey
  <2>2. \A j \in Jobs, t \in Keys \cup {NoKey} :
          <<j, t, FALSE>> \in answers' => <<j, t, FALSE>> \in answers
    <3>1. answers' = answers \/ \E k \in Keys, ok \in BOOLEAN : answers' = answers \cup {<<NoJob, k, ok>>}
      BY <1>8 DEF KeyStep, ProbeKey, SaveWakatimeKey, DeleteWakatimeKey
    <3> QED BY <3>1, ImportAssumption
  <2> QED BY <2>1, <2>2, RejectionsKept
<1>9. CASE \E c \in Streams : StreamStep(c)
  BY <1>1, <1>9
  DEF StreamStep, StreamLoad, StreamSubscribe, StreamSnapshot, StreamDeliver, StreamLeave
<1>10. ASSUME NEW p \in Pods, PodStep(p) PROVE RejectionsSeen'
  <2>1. CASE Shutdown(p)
    BY <1>1, <2>1 DEF Shutdown
  <2>2. CASE Vanish(p)
    <3>1. /\ UNCHANGED <<job, answers>> /\ \A j \in Jobs : task'[j] \in {NoTask, task[j]}
          /\ \A r \in Requests : req'[r] \in {NoRequest, req[r]}
      BY <2>2 DEF Vanish
    <3>2. NoTask.pc = "none" /\ NoRequest.pc = "idle"
      BY DEF NoTask, NoRequest
    <3>3. \A j \in Jobs : task'[j].pc \in {"none", task[j].pc} /\
                          (task'[j].pc # "none" => task'[j].saw401 = task[j].saw401)
      BY <3>1, <3>2
    <3> QED BY <1>1, <3>1, <3>2, <3>3
  <2>3. CASE Restart(p)
    <3>1. /\ UNCHANGED <<req, task, answers>>
          /\ \A i \in Jobs : job'[i] \in {job[i], MarkStaleFailed(job[i])}
      BY <1>0, <2>3 DEF Restart
    <3>2. \A i \in Jobs : RowOK(job'[i], job[i])
      BY <1>0, <3>1, StatementsRowOK
    <3> QED BY <1>1, <3>1, <3>2 DEF RowOK
  <2> QED BY <1>10, <2>1, <2>2, <2>3 DEF PodStep, Exit, Crash
<1>11. CASE Tick
  <2>1. /\ UNCHANGED <<req, answers>> /\ \A j \in Jobs : job'[j] = Older(job[j])
        /\ \A j \in Jobs : task'[j] \in {task[j], [task[j] EXCEPT !.ticks = task[j].ticks + 1]}
    BY <1>11 DEF Tick
  <2>2. \A j \in Jobs : task'[j].pc = task[j].pc /\ task'[j].saw401 = task[j].saw401
    BY <1>0, <2>1 DEF Task
  <2>3. \A i \in Jobs : RowOK(job'[i], job[i])
    BY <1>0, <2>1, StatementsRowOK
  <2> QED BY <1>1, <2>1, <2>2, <2>3 DEF RowOK
<1>12. CASE UNCHANGED vars
  BY <1>1, <1>12 DEF vars
<1> QED BY <1>2, <1>3, <1>4, <1>5, <1>6, <1>7, <1>8, <1>9, <1>10, <1>11, <1>12
        DEF Next, RequestStep

-----------------------------------------------------------------------------
(* The hub.                                                                *)

Events == {"other", "terminal"}

\* What arrives in a channel was in it or is published.
LEMMA FittingPrefix ==
  ASSUME NEW s \in Seq(Events), NEW e \in Seq(Events), NEW n \in Nat, n <= Len(s \o e)
  PROVE  /\ SubSeq(s \o e, 1, n) \in Seq(Events)
         /\ \A i \in DOMAIN SubSeq(s \o e, 1, n) :
              \/ \E l \in DOMAIN s : s[l] = SubSeq(s \o e, 1, n)[i]
              \/ \E l \in DOMAIN e : e[l] = SubSeq(s \o e, 1, n)[i]
<1> DEFINE all == s \o e
<1>1. /\ all \in Seq(Events) /\ Len(all) = Len(s) + Len(e) /\ Len(s) \in Nat /\ Len(e) \in Nat
      /\ \A i \in 1 .. Len(s) : all[i] = s[i]
      /\ \A i \in 1 .. Len(e) : all[Len(s) + i] = e[i]
  OBVIOUS
<1>2. n <= Len(all)
  OBVIOUS
<1> HIDE DEF all
<1>3. /\ SubSeq(all, 1, n) \in Seq(Events) /\ DOMAIN SubSeq(all, 1, n) = 1 .. n
      /\ \A i \in 1 .. n : SubSeq(all, 1, n)[i] = all[i]
  BY <1>1, <1>2
<1>4. ASSUME NEW i \in 1 .. n
      PROVE  \/ \E l \in DOMAIN s : s[l] = all[i]
             \/ \E l \in DOMAIN e : e[l] = all[i]
  <2>1. CASE i <= Len(s)
    BY <1>1, <2>1
  <2>2. CASE ~(i <= Len(s))
    <3>1. i - Len(s) \in 1 .. Len(e) /\ i = Len(s) + (i - Len(s))
      BY <1>1, <1>2, <1>4, <2>2
    <3>2. all[i] = e[i - Len(s)]
      BY <1>1, <3>1
    <3> QED BY <3>1, <3>2
  <2> QED BY <2>1, <2>2
<1> QED BY <1>3, <1>4 DEF all

\* Publishing keeps the types, moves no stream to another job, and tells the
\* end of no job but the one it is about.
LEMMA PublishFacts ==
  ASSUME stream \in [Streams -> Stream], NEW p \in Pods, NEW j \in Jobs,
         NEW e \in Seq(Events), Publish(p, j, e)
  PROVE  /\ stream' \in [Streams -> Stream]
         /\ \A c \in Streams : /\ stream'[c].job = stream[c].job
                               /\ Told(c)' => \/ Told(c)
                                              \/ /\ stream[c].job = j
                                                 /\ \E l \in DOMAIN e : e[l] = "terminal"
<1> SUFFICES ASSUME NEW c \in Streams
             PROVE  /\ stream'[c] \in Stream /\ stream'[c].job = stream[c].job
                    /\ Told(c)' => \/ Told(c)
                                   \/ /\ stream[c].job = j
                                      /\ \E l \in DOMAIN e : e[l] = "terminal"
  <2>1. stream' = [c \in Streams |-> stream'[c]]
    BY DEF Publish
  <2> QED BY <2>1
<1> DEFINE all == stream[c].chan \o e
           n == IF Len(all) < Buffer THEN Len(all) ELSE Buffer
           new == SubSeq(all, 1, n)
<1>1. stream[c].chan \in Seq(Events) /\ stream[c] \in Stream
  BY DEF Stream, Events
<1>2. n \in Nat /\ n <= Len(all)
  BY <1>1, ImportAssumption
<1>3. /\ new \in Seq(Events)
      /\ \A i \in DOMAIN new : \/ \E l \in DOMAIN stream[c].chan : stream[c].chan[l] = new[i]
                               \/ \E l \in DOMAIN e : e[l] = new[i]
  <2> HIDE DEF n
  <2> QED BY <1>1, <1>2, FittingPrefix
<1> HIDE DEF new
<1>4. CASE stream'[c] = stream[c]
  BY <1>1, <1>4 DEF Told
<1>5. CASE stream[c].job = j /\ stream'[c] = [stream[c] EXCEPT !.chan = new]
  <2>1. stream'[c] \in Stream /\ stream'[c].job = stream[c].job /\ stream'[c].chan = new
    BY <1>1, <1>3, <1>5 DEF Stream, Events
  <2> QED BY <1>3, <1>5, <2>1 DEF Told
<1> QED BY <1>4, <1>5 DEF Publish, new

\* The events of the importer.
LEMMA EventTypes ==
  /\ <<"other">> \in Seq(Events) /\ <<"other", "other">> \in Seq(Events)
  /\ <<"other", "terminal">> \in Seq(Events)
  /\ ~ \E l \in DOMAIN <<"other">> : <<"other">>[l] = "terminal"
  /\ ~ \E l \in DOMAIN <<"other", "other">> : <<"other", "other">>[l] = "terminal"
<1>1. /\ <<"other">> \in Seq(Events) /\ <<"other", "other">> \in Seq(Events)
      /\ <<"other", "terminal">> \in Seq(Events)
  BY DEF Events
<1>2. DOMAIN <<"other">> = {1} /\ <<"other">>[1] = "other"
  OBVIOUS
<1>3. /\ DOMAIN <<"other", "other">> = {1, 2}
      /\ <<"other", "other">>[1] = "other" /\ <<"other", "other">>[2] = "other"
  OBVIOUS
<1> QED BY <1>1, <1>2, <1>3

\* What a step of a run publishes: nothing, something, or the end of a job
\* whose row it writes.
LEMMA RunPublishes ==
  ASSUME Typed, NEW j \in Jobs, RunStep(j)
  PROVE  /\ stream' \in [Streams -> Stream]
         /\ \A c \in Streams : stream'[c].job = stream[c].job
         /\ \A c \in Streams : Told(c)' => \/ Told(c)
                                           \/ /\ stream[c].job = j
                                              /\ job'[j].state \in TerminalStates
                                              /\ task[j].pc # "none" /\ task'[j].pc # "mark"
<1>0. /\ stream \in [Streams -> Stream] /\ task \in [Jobs -> Task] /\ job \in [Jobs -> ImportRow]
      /\ task[j].pod \in Pods /\ job[j] \in ImportRow
  BY DEF Typed, OtherTypes, LeaseInv, CoreTypes, Task
<1>1. ASSUME UNCHANGED stream
      PROVE  /\ stream' \in [Streams -> Stream]
             /\ \A c \in Streams : stream'[c].job = stream[c].job /\ (Told(c)' => Told(c))
  BY <1>0, <1>1 DEF Told
<1>2. ASSUME NEW e \in {<<"other">>, <<"other", "other">>}, Publish(task[j].pod, j, e)
      PROVE  /\ stream' \in [Streams -> Stream]
             /\ \A c \in Streams : stream'[c].job = stream[c].job /\ (Told(c)' => Told(c))
  <2>1. e \in Seq(Events) /\ ~ \E l \in DOMAIN e : e[l] = "terminal"
    BY <1>2, EventTypes
  <2> QED BY <1>0, <1>2, <2>1, PublishFacts
<1>3. ASSUME Publish(task[j].pod, j, <<"other", "terminal">>)
      PROVE  /\ stream' \in [Streams -> Stream]
             /\ \A c \in Streams : /\ stream'[c].job = stream[c].job
                                   /\ Told(c)' => Told(c) \/ stream[c].job = j
  BY <1>0, <1>3, EventTypes, PublishFacts
<1>4. CASE RunStarts(j) \/ WriteProgress(j) \/ ImportDay(j) \/ FetchLookups(j) \/ ApplyKeyOutcome(j)
  <2>1. \/ UNCHANGED stream \/ Publish(task[j].pod, j, <<"other">>)
        \/ Publish(task[j].pod, j, <<"other", "other">>)
    BY <1>4 DEF RunStarts, WriteProgress, ImportDay, FetchLookups, ApplyKeyOutcome
  <2> QED BY <1>1, <1>2, <2>1
<1>5. ASSUME task'[j].pc # "mark", task[j].pc # "none",
             \/ UNCHANGED stream \/ Publish(task[j].pod, j, <<"other">>)
             \/ /\ Publish(task[j].pod, j, <<"other", "terminal">>)
                /\ job'[j].state \in TerminalStates
      PROVE  /\ stream' \in [Streams -> Stream]
             /\ \A c \in Streams : stream'[c].job = stream[c].job
             /\ \A c \in Streams : Told(c)' => \/ Told(c)
                                               \/ /\ stream[c].job = j
                                                  /\ job'[j].state \in TerminalStates
                                                  /\ task[j].pc # "none" /\ task'[j].pc # "mark"
  BY <1>1, <1>2, <1>3, <1>5
<1>6. CASE FailLookups(j)
  <2>1. task[j].pc = "failing" /\ task'[j].pc = "key"
    BY <1>0, <1>6 DEF FailLookups, Task
  <2>2. FinishImportJob(job[j], "failed").state = "failed"
    BY <1>0, StatementsRowOK
  <2>3. \/ UNCHANGED stream
        \/ /\ Publish(task[j].pod, j, <<"other", "terminal">>)
           /\ job' = [job EXCEPT ![j] = FinishImportJob(@, "failed")]
    BY <1>6 DEF FailLookups
  <2> QED BY <1>0, <1>5, <2>1, <2>2, <2>3 DEF TerminalStates
<1>7. CASE FinishRun(j)
  <2>1. task[j].pc = "finish" /\ task'[j].pc \in {"key", "dead"}
    <3>1. \/ task' = [task EXCEPT ![j] = [@ EXCEPT !.pc = "key", !.verdict = Verdict(j)]]
          \/ task' = [task EXCEPT ![j] = [@ EXCEPT !.pc = "dead"]]
      BY <1>7 DEF FinishRun
    <3>2. CASE task' = [task EXCEPT ![j] = [@ EXCEPT !.pc = "key", !.verdict = Verdict(j)]]
      BY <1>0, <1>7, <3>2 DEF FinishRun, Task
    <3>3. CASE task' = [task EXCEPT ![j] = [@ EXCEPT !.pc = "dead"]]
      BY <1>0, <1>7, <3>3 DEF FinishRun, Task
    <3> QED BY <3>1, <3>2, <3>3
  <2>2. FinishImportJob(job[j], Verdict(j)).state \in {"completed", "failed"}
    <3>1. Verdict(j) \in {"completed", "failed"}
      BY DEF Verdict
    <3> QED BY <1>0, <3>1, StatementsRowOK
  <2>3. \/ UNCHANGED stream
        \/ /\ Publish(task[j].pod, j, <<"other", "terminal">>)
           /\ job' = [job EXCEPT ![j] = FinishImportJob(job[j], Verdict(j))]
    BY <1>7 DEF FinishRun
  <2>4. \/ UNCHANGED stream
        \/ /\ Publish(task[j].pod, j, <<"other", "terminal">>)
           /\ job'[j].state \in TerminalStates
    BY <1>0, <2>2, <2>3 DEF TerminalStates
  <2> QED BY <1>5, <2>1, <2>4
<1>8. CASE FinishCancelled(j)
  <2>1. task[j].pc = "cancelling" /\ task'[j].pc = "dead"
    BY <1>0, <1>8 DEF FinishCancelled, Task
  <2>2. \/ UNCHANGED stream \/ Publish(task[j].pod, j, <<"other">>)
        \/ /\ Publish(task[j].pod, j, <<"other", "terminal">>)
           /\ job' = [job EXCEPT ![j] = CancelJob(job[j])] /\ IsActive(job[j])
    BY <1>8 DEF FinishCancelled
  <2>3. IsActive(job[j]) => CancelJob(job[j]).state = "cancelled"
    BY <1>0, StatementsRowOK
  <2> QED BY <1>0, <1>5, <2>1, <2>2, <2>3 DEF TerminalStates
<1> QED BY <1>4, <1>6, <1>7, <1>8 DEF RunStep

\* What the other steps do to streams: none is told anything.
LEMMA OthersTellNothing ==
  ASSUME Typed, [Next]_vars, ~ \E j \in Jobs : RunStep(j)
  PROVE  /\ stream' \in [Streams -> Stream]
         /\ \A c \in Streams : Told(c)' => Told(c) /\ stream'[c].job = stream[c].job
<1>0. /\ stream \in [Streams -> Stream] /\ job \in [Jobs -> ImportRow]
      /\ \A c \in Streams : stream[c] \in Stream
  BY DEF Typed, OtherTypes, LeaseInv, CoreTypes
<1>1. CASE UNCHANGED stream
  BY <1>0, <1>1 DEF Told
<1>2. ASSUME NEW c \in Streams, NEW s \in Stream, stream' = [stream EXCEPT ![c] = s],
             \A i \in DOMAIN s.chan : s.chan[i] = "terminal" =>
               Told(c) /\ s.job = stream[c].job
      PROVE  /\ stream' \in [Streams -> Stream]
             /\ \A d \in Streams : Told(d)' => Told(d) /\ stream'[d].job = stream[d].job
  BY <1>0, <1>2 DEF Told
<1>3. ASSUME NEW c \in Streams, NEW p \in Pods, NEW j \in Jobs, StreamLoad(c, p, j)
      PROVE  /\ stream' \in [Streams -> Stream]
             /\ \A d \in Streams : Told(d)' => Told(d) /\ stream'[d].job = stream[d].job
  <2> DEFINE st == job[j].state
             s == [NoStream EXCEPT !.pc = "loaded", !.pod = p, !.job = j, !.snapshot = st]
  <2>1. /\ DOMAIN s = {"pc", "pod", "job", "snapshot", "chan"}
        /\ s = [x \in {"pc", "pod", "job", "snapshot", "chan"} |-> s[x]]
        /\ s.pc = "loaded" /\ s.pod = p /\ s.job = j /\ s.snapshot = st /\ s.chan = <<>>
    BY DEF NoStream
  <2>2. stream' = [stream EXCEPT ![c] = s] /\ st # "absent"
    BY <1>3, <2>1 DEF StreamLoad
  <2>3. st \in ActiveStates \cup TerminalStates
    BY <1>0, <2>2 DEF ImportRow
  <2> HIDE DEF st
  <2> HIDE DEF s
  <2>4. s \in Stream /\ s.chan = <<>>
    <3>1. s.chan \in Seq({"other", "terminal"})
      <4>1. s.chan = <<>>
        BY <2>1
      <4>2. <<>> \in Seq({"other", "terminal"})
        OBVIOUS
      <4> QED BY <4>1, <4>2, Zenon
    <3>2. /\ s.pc \in {"new", "loaded", "subscribed", "tail", "closed"} /\ s.pod \in Pods
          /\ s.job \in Jobs \cup {NoJob}
          /\ s.snapshot \in {"none"} \cup ActiveStates \cup TerminalStates
      BY <1>3, <2>1, <2>3
    <3> QED BY <2>1, <3>1, <3>2 DEF Stream
  <2>5. \A i \in DOMAIN s.chan : s.chan[i] = "terminal" => Told(c) /\ s.job = stream[c].job
    BY <2>4
  <2> QED BY <1>2, <2>2, <2>4, <2>5
<1>4. ASSUME NEW c \in Streams, NEW q \in {"subscribed", "tail", "closed"},
             stream' = [stream EXCEPT ![c].pc = q]
      PROVE  /\ stream' \in [Streams -> Stream]
             /\ \A d \in Streams : Told(d)' => Told(d) /\ stream'[d].job = stream[d].job
  <2> DEFINE s == [stream[c] EXCEPT !.pc = q]
  <2>1. s \in Stream /\ s.chan = stream[c].chan /\ s.job = stream[c].job
    BY <1>0 DEF Stream
  <2>2. stream' = [stream EXCEPT ![c] = s]
    BY <1>0, <1>4
  <2> HIDE DEF s
  <2> QED BY <1>2, <2>1, <2>2 DEF Told
<1>5. ASSUME NEW c \in Streams, StreamDeliver(c)
      PROVE  /\ stream' \in [Streams -> Stream]
             /\ \A d \in Streams : Told(d)' => Told(d) /\ stream'[d].job = stream[d].job
  <2> DEFINE q == IF Head(stream[c].chan) = "terminal" THEN "closed" ELSE "tail"
             rest == Tail(stream[c].chan)
             s == [stream[c] EXCEPT !.chan = rest, !.pc = q]
  <2>1. stream' = [stream EXCEPT ![c] = s] /\ stream[c].chan # <<>>
    BY <1>0, <1>5 DEF StreamDeliver
  <2>2. stream[c].chan \in Seq(Events)
    BY <1>0 DEF Stream, Events
  <2>3. /\ rest \in Seq(Events)
        /\ \A i \in DOMAIN rest : i + 1 \in DOMAIN stream[c].chan /\ rest[i] = stream[c].chan[i + 1]
    BY <2>1, <2>2
  <2>4. q \in {"closed", "tail"}
    OBVIOUS
  <2> HIDE DEF rest, q
  <2>5. s \in Stream /\ s.chan = rest /\ s.job = stream[c].job
    BY <1>0, <2>3, <2>4 DEF Stream, Events
  <2> HIDE DEF s
  <2>6. \A i \in DOMAIN s.chan : s.chan[i] = "terminal" => Told(c) /\ s.job = stream[c].job
    BY <2>3, <2>5 DEF Told
  <2> QED BY <1>2, <2>1, <2>5, <2>6
<1>6. CASE \E c \in Streams : StreamStep(c)
  <2>1. PICK c \in Streams : StreamStep(c)
    BY <1>6
  <2>2. CASE StreamSubscribe(c) \/ StreamLeave(c)
    BY <1>4, <2>2 DEF StreamSubscribe, StreamLeave
  <2>3. CASE StreamSnapshot(c)
    <3> DEFINE q == IF stream[c].snapshot \in TerminalStates THEN "closed" ELSE "tail"
    <3>1. stream' = [stream EXCEPT ![c].pc = q] /\ q \in {"subscribed", "tail", "closed"}
      BY <2>3 DEF StreamSnapshot
    <3> QED BY <1>4, <3>1
  <2> QED BY <1>3, <1>5, <2>1, <2>2, <2>3 DEF StreamStep
<1>7. ASSUME NEW p \in Pods, Vanish(p)
      PROVE  /\ stream' \in [Streams -> Stream]
             /\ \A d \in Streams : Told(d)' => Told(d) /\ stream'[d].job = stream[d].job
  <2>1. stream' = [c \in Streams |-> stream'[c]]
    BY <1>7 DEF Vanish
  <2>2. ASSUME NEW c \in Streams
        PROVE  /\ stream'[c] \in Stream /\ stream'[c].chan = stream[c].chan
               /\ stream'[c].job = stream[c].job
    <3>1. stream'[c] = stream[c] \/ stream'[c] = [stream[c] EXCEPT !.pc = "closed"]
      BY <1>7 DEF Vanish
    <3> QED BY <1>0, <3>1 DEF Stream
  <2> QED BY <2>1, <2>2 DEF Told
<1>8. CASE \E p \in Pods : PodStep(p)
  BY <1>1, <1>7, <1>8 DEF PodStep, Shutdown, Exit, Crash, Restart
<1>9. CASE \E r \in Requests, p \in Pods, o \in Owners : SubmitSweep(r, p, o)
  BY <1>1, <1>9 DEF SubmitSweep
<1>10. CASE \E r \in Requests : RequestStep(r)
  BY <1>1, <1>10 DEF RequestStep, SubmitCheck, SubmitRefused, StartJob, SubmitCreate
<1>11. CASE \E p \in Pods, j \in Jobs : CancelStep(p, j)
  BY <1>1, <1>11 DEF CancelStep, ImportJobCancel, CancelDurably
<1>12. CASE \E o \in Owners : KeyStep(o)
  BY <1>1, <1>12 DEF KeyStep, ProbeKey, SaveWakatimeKey, DeleteWakatimeKey
<1>13. CASE Tick \/ UNCHANGED vars
  BY <1>1, <1>13 DEF Tick, vars
<1> QED BY <1>6, <1>8, <1>9, <1>10, <1>11, <1>12, <1>13 DEF Next

\* A job that is over stays over: only its first goroutine could take its row
\* back, and that one has long left the start.
LEMMA OverStays ==
  ASSUME Typed, RunsAddUp, StartedOnce, [Next]_vars, NEW j \in Jobs, Over(j)
  PROVE  Over(j)'
<1>0. /\ job \in [Jobs -> ImportRow] /\ task \in [Jobs -> Task] /\ req \in [Requests -> Request]
      /\ job[j] \in ImportRow /\ task[j] \in Task
      /\ job[j].state \in TerminalStates /\ job[j].state \notin {"absent", "queued", "running"}
      /\ task[j].pc # "mark" /\ \A r \in Requests : req[r].pc = "start" => req[r].job # j
  BY DEF Typed, LeaseInv, CoreTypes, Over, TerminalStates
<1>1. /\ CancelJob(job[j]) = job[j] /\ MarkStaleFailed(job[j]) = job[j] /\ Older(job[j]) = job[j]
      /\ UpdateJobProgress(job[j]).state = job[j].state
      /\ \A s \in {"completed", "failed"} : FinishImportJob(job[j], s).state = s
  BY <1>0, StatementsRowOK
<1>2. ASSUME UNCHANGED <<job, task, req>> PROVE Over(j)'
  BY <1>2 DEF Over
<1>3. CASE \E r \in Requests, p \in Pods, o \in Owners : SubmitSweep(r, p, o)
  <2>1. PICK r \in Requests, p \in Pods, o \in Owners : SubmitSweep(r, p, o)
    BY <1>3
  <2>2. UNCHANGED task /\ job'[j] = job[j]
    BY <1>0, <1>1, <2>1 DEF SubmitSweep
  <2>3. PICK k, src : req' = [req EXCEPT ![r] =
                         [pc |-> "check", pod |-> p, owner |-> o, token |-> k, job |-> NoJob,
                          source |-> src]]
    BY <2>1, Zenon DEF SubmitSweep
  <2>4. req'[r].pc = "check" /\ \A q \in Requests \ {r} : req'[q] = req[q]
    BY <1>0, <2>3
  <2> QED BY <1>0, <2>2, <2>4 DEF Over
<1>4. ASSUME NEW r \in Requests, RequestStep(r) PROVE Over(j)'
  <2>1. job'[j] = job[j] /\ \A q \in Requests \ {r} : req'[q] = req[q]
    BY <1>0, <1>4 DEF RequestStep, SubmitCheck, SubmitRefused, StartJob, SubmitCreate
  <2>2. task'[j] = task[j]
    BY <1>0, <1>4 DEF RequestStep, SubmitCheck, SubmitRefused, StartJob, SubmitCreate
  <2>3. req'[r].pc = "start" => req'[r].job # j
    <3>1. CASE req' = [req EXCEPT ![r] = NoRequest]
      BY <1>0, <3>1 DEF NoRequest
    <3>2. CASE req' = [req EXCEPT ![r].pc = "create"]
      BY <1>0, <3>2 DEF Request
    <3>3. ASSUME NEW i \in Jobs, job[i].state = "absent",
                 req' = [req EXCEPT ![r].pc = "start", ![r].job = i]
          PROVE  req'[r].job # j
      BY <1>0, <3>3 DEF Request
    <3> QED BY <1>4, <3>1, <3>2, <3>3
            DEF RequestStep, SubmitCheck, SubmitRefused, StartJob, SubmitCreate
  <2> QED BY <1>0, <2>1, <2>2, <2>3 DEF Over
<1>5. ASSUME NEW i \in Jobs, RunStep(i) PROVE Over(j)'
  <2>1. UNCHANGED req
    BY <1>5
    DEF RunStep, RunStarts, FetchLookups, FailLookups, ImportDay, WriteProgress, FinishRun,
        FinishCancelled, ApplyKeyOutcome
  <2>2. CASE i # j
    <3>1. job'[j] = job[j]
      BY <1>0, <1>5, <2>2
      DEF RunStep, RunStarts, FetchLookups, FailLookups, ImportDay, WriteProgress, FinishRun,
          FinishCancelled, ApplyKeyOutcome
    <3>2. task'[j] = task[j]
      BY <1>0, <1>5, <2>2
      DEF RunStep, RunStarts, FetchLookups, FailLookups, ImportDay, WriteProgress, FinishRun,
          FinishCancelled, ApplyKeyOutcome
    <3> QED BY <1>0, <2>1, <3>1, <3>2 DEF Over
  <2>3. CASE i = j
    <3>1. ~ RunStarts(j)
      BY <1>0 DEF RunStarts
    <3>2. job'[j].state \in TerminalStates
      <4>1. \/ job' = job \/ job' = [job EXCEPT ![j] = CancelJob(job[j])]
            \/ job' = [job EXCEPT ![j] = UpdateJobProgress(job[j])]
            \/ \E s \in {"completed", "failed"} : job' = [job EXCEPT ![j] = FinishImportJob(job[j], s)]
        <5>1. Verdict(j) \in {"completed", "failed"}
          BY DEF Verdict
        <5> QED BY <1>5, <2>3, <3>1, <5>1
                DEF RunStep, FetchLookups, FailLookups, ImportDay, WriteProgress, FinishRun,
                    FinishCancelled, ApplyKeyOutcome
      <4> QED BY <1>0, <1>1, <4>1 DEF TerminalStates
    <3>3. task'[j].pc # "mark"
      <4>1. CASE FetchLookups(j)
        <5>1. AfterDay(j, 0) \in {"day", "finish"}
          BY DEF AfterDay
        <5>2. CASE task' = [task EXCEPT ![j] = [@ EXCEPT !.pc = AfterDay(j, 0), !.ticks = 0]]
          BY <1>0, <5>1, <5>2 DEF Task
        <5>3. CASE task' = [task EXCEPT ![j] = [@ EXCEPT !.pc = "cancelling"]]
          BY <1>0, <5>3 DEF Task
        <5>4. CASE \E x \in BOOLEAN :
                     task' = [task EXCEPT ![j] = [@ EXCEPT !.pc = "failing", !.saw401 = x]]
          BY <1>0, <5>4 DEF Task
        <5> QED BY <4>1, <5>2, <5>3, <5>4 DEF FetchLookups
      <4>2. CASE ImportDay(j)
        <5>1. CASE task' = [task EXCEPT ![j] = [@ EXCEPT !.pc = "cancelling"]]
          BY <1>0, <5>1 DEF Task
        <5>2. CASE task' = [task EXCEPT ![j] = [task[j] EXCEPT !.pc = "progress", !.day = @ + 1]]
          BY <1>0, <5>2 DEF Task
        <5>3. CASE \E x \in BOOLEAN :
                     task' = [task EXCEPT ![j] =
                       [task[j] EXCEPT !.pc = "progress", !.day = @ + 1, !.failedDays = @ + 1,
                                       !.saw401 = @ \/ x]]
          <6>1. PICK y, d, n : task' = [task EXCEPT ![j] =
                  [task[j] EXCEPT !.pc = "progress", !.day = d, !.failedDays = n, !.saw401 = y]]
            BY <5>3, Zenon
          <6> QED BY <1>0, <6>1 DEF Task
        <5> QED BY <4>2, <5>1, <5>2, <5>3 DEF ImportDay
      <4>3. CASE WriteProgress(j)
        <5>1. PICK q \in {"cancelling", AfterDay(j, task[j].day)} :
                task' = [task EXCEPT ![j] = [task[j] EXCEPT !.ticks = 0, !.pc = q]]
          BY <4>3 DEF WriteProgress
        <5>2. task'[j].pc = q /\ q # "mark"
          BY <1>0, <5>1 DEF Task, AfterDay
        <5> QED BY <5>2
      <4>4. CASE FailLookups(j)
        BY <1>0, <4>4 DEF FailLookups, Task
      <4>5. CASE FinishRun(j)
        <5>1. PICK v : \/ task' = [task EXCEPT ![j] = [@ EXCEPT !.pc = "key", !.verdict = v]]
                       \/ task' = [task EXCEPT ![j] = [@ EXCEPT !.pc = "dead"]]
          BY <4>5 DEF FinishRun
        <5>2. CASE task' = [task EXCEPT ![j] = [@ EXCEPT !.pc = "key", !.verdict = v]]
          BY <1>0, <5>2 DEF Task
        <5>3. CASE task' = [task EXCEPT ![j] = [@ EXCEPT !.pc = "dead"]]
          BY <1>0, <5>3 DEF Task
        <5> QED BY <5>1, <5>2, <5>3
      <4>6. CASE FinishCancelled(j) \/ ApplyKeyOutcome(j)
        <5>1. task' = [task EXCEPT ![j] = [@ EXCEPT !.pc = "dead"]]
          BY <4>6 DEF FinishCancelled, ApplyKeyOutcome
        <5> QED BY <1>0, <5>1 DEF Task
      <4> QED BY <1>5, <2>3, <3>1, <4>1, <4>2, <4>3, <4>4, <4>5, <4>6 DEF RunStep
    <3> QED BY <1>0, <2>1, <3>2, <3>3 DEF Over
  <2> QED BY <2>2, <2>3
<1>6. ASSUME NEW p \in Pods, NEW i \in Jobs, CancelStep(p, i) PROVE Over(j)'
  <2>1. UNCHANGED req /\ job'[j] \in {job[j], CancelJob(job[j])}
    BY <1>0, <1>6 DEF CancelStep, ImportJobCancel, CancelDurably
  <2>2. task' \in {task, [task EXCEPT ![i] = [@ EXCEPT !.cancelled = TRUE]]}
    BY <1>6 DEF CancelStep, ImportJobCancel, CancelDurably
  <2>3. task'[j].pc = task[j].pc
    BY <1>0, <2>2 DEF Task
  <2> QED BY <1>0, <1>1, <2>1, <2>3 DEF Over
<1>7. CASE \E o \in Owners : KeyStep(o)
  BY <1>2, <1>7 DEF KeyStep, ProbeKey, SaveWakatimeKey, DeleteWakatimeKey
<1>8. CASE \E c \in Streams : StreamStep(c)
  BY <1>2, <1>8
  DEF StreamStep, StreamLoad, StreamSubscribe, StreamSnapshot, StreamDeliver, StreamLeave
<1>9. ASSUME NEW p \in Pods, PodStep(p) PROVE Over(j)'
  <2>1. CASE Shutdown(p)
    BY <1>2, <2>1 DEF Shutdown
  <2>2. CASE Vanish(p)
    <3>1. /\ UNCHANGED job /\ task'[j] \in {NoTask, task[j]}
          /\ \A r \in Requests : req'[r] \in {NoRequest, req[r]}
      BY <2>2 DEF Vanish
    <3>2. NoTask.pc = "none" /\ NoRequest.pc = "idle"
      BY DEF NoTask, NoRequest
    <3> QED BY <1>0, <3>1, <3>2 DEF Over
  <2>3. CASE Restart(p)
    <3>1. UNCHANGED <<req, task>> /\ job'[j] \in {job[j], MarkStaleFailed(job[j])}
      BY <1>0, <2>3 DEF Restart
    <3> QED BY <1>0, <1>1, <3>1 DEF Over
  <2> QED BY <1>9, <2>1, <2>2, <2>3 DEF PodStep, Exit, Crash
<1>10. CASE Tick
  <2>1. /\ UNCHANGED req /\ job'[j] = Older(job[j])
        /\ task'[j] \in {task[j], [task[j] EXCEPT !.ticks = task[j].ticks + 1]}
    BY <1>10 DEF Tick
  <2>2. task'[j].pc = task[j].pc
    BY <1>0, <2>1 DEF Task
  <2> QED BY <1>0, <1>1, <2>1, <2>2 DEF Over
<1>11. CASE UNCHANGED vars
  BY <1>2, <1>11 DEF vars
<1> QED BY <1>3, <1>4, <1>5, <1>6, <1>7, <1>8, <1>9, <1>10, <1>11 DEF Next


-----------------------------------------------------------------------------
(* The invariants are kept.                                                *)

\* What is left of the types.
LEMMA OtherTypesKept ==
  ASSUME Typed, [Next]_vars
  PROVE  OtherTypes'
<1>0. /\ task \in [Jobs -> Task] /\ asked \subseteq (Pods \X Jobs) /\ answers \subseteq Answer
      /\ power \in [Pods -> {"up", "stopping", "down"}] /\ stored \in [Jobs -> Nat]
  BY DEF Typed, OtherTypes, LeaseInv, CoreTypes
<1>1. stream' \in [Streams -> Stream]
  BY RunPublishes, OthersTellNothing
<1>2. ASSUME UNCHANGED <<asked, power, answers, stored>> PROVE OtherTypes'
  BY <1>0, <1>1, <1>2 DEF OtherTypes
<1>3. CASE \E r \in Requests, p \in Pods, o \in Owners : SubmitSweep(r, p, o)
  BY <1>2, <1>3 DEF SubmitSweep
<1>4. CASE \E r \in Requests : RequestStep(r)
  BY <1>2, <1>4 DEF RequestStep, SubmitCheck, SubmitRefused, StartJob, SubmitCreate
<1>5. ASSUME NEW j \in Jobs, RunStep(j) PROVE OtherTypes'
  <2>1. /\ UNCHANGED <<asked, power>>
        /\ answers' \subseteq answers \cup {<<j, task[j].token, TRUE>>, <<j, task[j].token, FALSE>>}
        /\ stored' = stored \/ stored' = [stored EXCEPT ![j] = stored[j] + 1]
    <3>1. CASE ImportDay(j)
      BY <1>0, <3>1 DEF ImportDay, Rejection
    <3>2. CASE FetchLookups(j)
      BY <3>2 DEF FetchLookups, Rejection
    <3>3. CASE RunStarts(j) \/ FailLookups(j) \/ WriteProgress(j) \/ FinishRun(j)
      BY <3>3 DEF RunStarts, FailLookups, WriteProgress, FinishRun
    <3>4. CASE FinishCancelled(j) \/ ApplyKeyOutcome(j)
      BY <3>4 DEF FinishCancelled, ApplyKeyOutcome
    <3> QED BY <1>5, <3>1, <3>2, <3>3, <3>4 DEF RunStep
  <2>2. task[j].token \in Keys \cup {NoKey}
    BY <1>0 DEF Task
  <2>3. answers' \subseteq Answer
    <3>1. <<j, task[j].token, TRUE>> \in Answer /\ <<j, task[j].token, FALSE>> \in Answer
      BY <2>2 DEF Answer
    <3> QED BY <1>0, <2>1, <3>1
  <2>4. stored' \in [Jobs -> Nat]
    BY <1>0, <2>1
  <2> QED BY <1>0, <1>1, <2>1, <2>3, <2>4 DEF OtherTypes
<1>6. ASSUME NEW p \in Pods, NEW j \in Jobs, CancelStep(p, j) PROVE OtherTypes'
  <2>1. UNCHANGED <<power, answers, stored>> /\ asked' \subseteq asked \cup {<<p, j>>}
    BY <1>6 DEF CancelStep, ImportJobCancel, CancelDurably
  <2> QED BY <1>0, <1>1, <2>1 DEF OtherTypes
<1>7. ASSUME NEW o \in Owners, KeyStep(o) PROVE OtherTypes'
  <2>1. /\ UNCHANGED <<asked, power, stored>>
        /\ answers' = answers \/ \E k \in Keys, ok \in BOOLEAN : answers' = answers \cup {<<NoJob, k, ok>>}
    BY <1>7 DEF KeyStep, ProbeKey, SaveWakatimeKey, DeleteWakatimeKey
  <2>2. answers' \subseteq Answer
    BY <1>0, <2>1 DEF Answer
  <2> QED BY <1>0, <1>1, <2>1, <2>2 DEF OtherTypes
<1>8. CASE \E c \in Streams : StreamStep(c)
  BY <1>2, <1>8
  DEF StreamStep, StreamLoad, StreamSubscribe, StreamSnapshot, StreamDeliver, StreamLeave
<1>9. ASSUME NEW p \in Pods, PodStep(p) PROVE OtherTypes'
  <2>1. /\ UNCHANGED <<answers, stored>> /\ asked' \subseteq asked
        /\ \E w \in {"up", "stopping", "down"} : power' = [power EXCEPT ![p] = w]
    BY <1>9 DEF PodStep, Shutdown, Exit, Crash, Vanish, Restart
  <2> QED BY <1>0, <1>1, <2>1 DEF OtherTypes
<1>10. CASE Tick \/ UNCHANGED vars
  BY <1>2, <1>10 DEF Tick, vars
<1> QED BY <1>3, <1>4, <1>5, <1>6, <1>7, <1>8, <1>9, <1>10 DEF Next

\* The counts of every run add up after every step.
LEMMA RunsAddUpKept ==
  ASSUME Typed, RunsAddUp, StartedOnce, [Next]_vars
  PROVE  RunsAddUp'
<1>1. CASE UNCHANGED vars
  BY <1>1, OthersAddUp DEF vars, RowOK
<1>2. CASE Next
  BY <1>2, EveryRunStepAddsUp, RequestAddsUp, UserAddsUp, PodAddsUp DEF Next
<1> QED BY <1>1, <1>2

\* A stream is told the end of a job that is over, whose first goroutine is
\* the one that tells.
LEMMA ToldInTheEndKept ==
  ASSUME Typed, RunsAddUp, StartedOnce, ToldInTheEnd, [Next]_vars, NEW c \in Streams, Told(c)'
  PROVE  \E j \in Jobs : stream'[c].job = j /\ Over(j)'
<1>1. CASE \E j \in Jobs : RunStep(j)
  <2>1. PICK j \in Jobs : RunStep(j)
    BY <1>1
  <2>2. CASE Told(c)
    <3>1. PICK i \in Jobs : i = stream[c].job /\ Over(i)
      BY <2>2 DEF ToldInTheEnd
    <3>2. stream'[c].job = i
      BY <2>1, <3>1, RunPublishes
    <3>3. Over(i)'
      BY <3>1, OverStays
    <3> QED BY <3>2, <3>3
  <2>3. CASE ~ Told(c)
    <3>1. /\ stream'[c].job = j /\ job'[j].state \in TerminalStates
          /\ task[j].pc # "none" /\ task'[j].pc # "mark"
      BY <2>1, <2>3, RunPublishes
    <3>2. UNCHANGED req
      BY <2>1
      DEF RunStep, RunStarts, FetchLookups, FailLookups, ImportDay, WriteProgress, FinishRun,
          FinishCancelled, ApplyKeyOutcome
    <3>3. \A r \in Requests : req'[r].pc = "start" => req'[r].job # j
      BY <3>1, <3>2 DEF StartedOnce
    <3>4. Over(j)'
      BY <3>1, <3>3 DEF Over
    <3> QED BY <3>1, <3>4
  <2> QED BY <2>2, <2>3
<1>2. CASE ~ \E j \in Jobs : RunStep(j)
  <2>1. Told(c) /\ stream'[c].job = stream[c].job
    BY <1>2, OthersTellNothing
  <2>2. PICK i \in Jobs : i = stream[c].job /\ Over(i)
    BY <2>1 DEF ToldInTheEnd
  <2>3. Over(i)'
    BY <2>2, OverStays
  <2> QED BY <2>1, <2>2, <2>3
<1> QED BY <1>1, <1>2

-----------------------------------------------------------------------------
(* What a run has seen.                                                    *)

\* Only an answer of 401 makes a run remember one.
LEMMA RefusalsKept ==
  ASSUME RefusalsTold, answers \subseteq answers',
         \A j \in Jobs : task'[j].saw401 =>
           task[j].saw401 \/ \E t \in Keys \cup {NoKey} : <<j, t, FALSE>> \in answers'
  PROVE  RefusalsTold'
BY DEF RefusalsTold

\* The step of a run that makes it remember a 401 is the one that was answered it.
LEMMA RunIsTold ==
  ASSUME Typed, NEW j \in Jobs, RunStep(j), task'[j].saw401
  PROVE  task[j].saw401 \/ \E t \in Keys \cup {NoKey} : <<j, t, FALSE>> \in answers'
<1>1. task \in [Jobs -> Task] /\ task[j] \in Task /\ task[j].token \in Keys \cup {NoKey}
  BY DEF Typed, LeaseInv, CoreTypes, Task
<1>2. CASE RunStarts(j)
  <2>1. CASE \E t \in ResolveToken(j) :
               task' = [task EXCEPT ![j] = [@ EXCEPT !.pc = "lookup", !.ticks = 0, !.token = t]]
    <3>1. task'[j].saw401 = task[j].saw401
      BY <1>1, <2>1 DEF Task
    <3> QED BY <3>1
  <2>2. CASE task' = [task EXCEPT ![j] = [@ EXCEPT !.pc = "dead"]]
    <3>1. task'[j].saw401 = task[j].saw401
      BY <1>1, <2>2 DEF Task
    <3> QED BY <3>1
  <2> QED BY <1>2, <2>1, <2>2 DEF RunStarts
<1>3. CASE FetchLookups(j)
  <2>1. CASE \/ task' = [task EXCEPT ![j] = [@ EXCEPT !.pc = AfterDay(j, 0), !.ticks = 0]]
             \/ task' = [task EXCEPT ![j] = [@ EXCEPT !.pc = "cancelling"]]
    <3>1. task'[j].saw401 = task[j].saw401
      BY <1>1, <2>1 DEF Task
    <3> QED BY <3>1
  <2>2. ASSUME NEW x \in BOOLEAN,
               task' = [task EXCEPT ![j] = [@ EXCEPT !.pc = "failing", !.saw401 = x]],
               answers' = answers \cup Rejection(j, x)
        PROVE  \E t \in Keys \cup {NoKey} : <<j, t, FALSE>> \in answers'
    <3>1. x
      BY <1>1, <2>2 DEF Task
    <3> QED BY <1>1, <2>2, <3>1 DEF Rejection
  <2> QED BY <1>3, <2>1, <2>2 DEF FetchLookups
<1>4. CASE ImportDay(j)
  <2>1. CASE \/ task' = [task EXCEPT ![j] = [@ EXCEPT !.pc = "cancelling"]]
             \/ task' = [task EXCEPT ![j] = [task[j] EXCEPT !.pc = "progress", !.day = @ + 1]]
    <3>1. task'[j].saw401 = task[j].saw401
      BY <1>1, <2>1 DEF Task
    <3> QED BY <3>1
  <2>2. ASSUME NEW x \in BOOLEAN,
               task' = [task EXCEPT ![j] =
                 [task[j] EXCEPT !.pc = "progress", !.day = @ + 1, !.failedDays = @ + 1,
                                 !.saw401 = @ \/ x]],
               answers' = answers \cup Rejection(j, x)
        PROVE  task[j].saw401 \/ \E t \in Keys \cup {NoKey} : <<j, t, FALSE>> \in answers'
    <3>1. task[j].saw401 \/ x
      BY <1>1, <2>2 DEF Task
    <3> QED BY <1>1, <2>2, <3>1 DEF Rejection
  <2> QED BY <1>4, <2>1, <2>2 DEF ImportDay
<1>5. CASE FailLookups(j)
  <2>1. task'[j].saw401 = task[j].saw401
    BY <1>1, <1>5 DEF FailLookups, Task
  <2> QED BY <2>1
<1>6. CASE WriteProgress(j)
  <2>1. PICK q \in {"cancelling", "day", "finish"} :
          task' = [task EXCEPT ![j] = [task[j] EXCEPT !.ticks = 0, !.pc = q]]
    BY <1>6 DEF WriteProgress, AfterDay
  <2> QED BY <1>1, <2>1 DEF Task
<1>7. CASE FinishRun(j)
  <2>1. CASE task' = [task EXCEPT ![j] = [@ EXCEPT !.pc = "key", !.verdict = Verdict(j)]]
    BY <1>1, <2>1 DEF Task
  <2>2. CASE task' = [task EXCEPT ![j] = [@ EXCEPT !.pc = "dead"]]
    BY <1>1, <2>2 DEF Task
  <2> QED BY <1>7, <2>1, <2>2 DEF FinishRun
<1>8. CASE FinishCancelled(j) \/ ApplyKeyOutcome(j)
  <2>1. task' = [task EXCEPT ![j] = [@ EXCEPT !.pc = "dead"]]
    BY <1>8 DEF FinishCancelled, ApplyKeyOutcome
  <2>2. task'[j].saw401 = task[j].saw401
    BY <1>1, <2>1 DEF Task
  <2> QED BY <2>2
<1> QED BY <1>2, <1>3, <1>4, <1>5, <1>6, <1>7, <1>8 DEF RunStep

\* Every step keeps it.
LEMMA RefusalsToldStep ==
  ASSUME Typed, RefusalsTold, [Next]_vars
  PROVE  RefusalsTold'
<1>0. task \in [Jobs -> Task] /\ ~ NoTask.saw401
  BY DEF Typed, LeaseInv, CoreTypes, NoTask
<1>1. ASSUME answers \subseteq answers', UNCHANGED task PROVE RefusalsTold'
  BY <1>1, RefusalsKept
<1>2. CASE \E r \in Requests, p \in Pods, o \in Owners : SubmitSweep(r, p, o)
  BY <1>1, <1>2 DEF SubmitSweep
<1>3. ASSUME NEW r \in Requests, RequestStep(r) PROVE RefusalsTold'
  <2>1. CASE StartJob(r)
    <3>1. UNCHANGED answers /\ \A j \in Jobs : j # req[r].job => task'[j] = task[j]
      BY <1>0, <2>1 DEF StartJob
    <3>2. \A j \in Jobs : j = req[r].job => ~ task'[j].saw401
      BY <1>0, <2>1 DEF StartJob, NoTask
    <3> QED BY <3>1, <3>2, RefusalsKept
  <2>2. CASE SubmitCheck(r) \/ SubmitRefused(r) \/ \E j \in Jobs : SubmitCreate(r, j)
    BY <1>1, <2>2 DEF SubmitCheck, SubmitRefused, SubmitCreate
  <2> QED BY <1>3, <2>1, <2>2 DEF RequestStep
<1>4. ASSUME NEW j \in Jobs, RunStep(j) PROVE RefusalsTold'
  <2>1. answers \subseteq answers' /\ \A i \in Jobs \ {j} : task'[i] = task[i]
    BY <1>0, <1>4
    DEF RunStep, RunStarts, FetchLookups, FailLookups, ImportDay, WriteProgress, FinishRun,
        FinishCancelled, ApplyKeyOutcome
  <2> QED BY <1>4, <2>1, RunIsTold, RefusalsKept
<1>5. ASSUME NEW p \in Pods, NEW j \in Jobs, CancelStep(p, j) PROVE RefusalsTold'
  <2>1. UNCHANGED answers /\ task' \in {task, [task EXCEPT ![j] = [@ EXCEPT !.cancelled = TRUE]]}
    BY <1>5 DEF CancelStep, ImportJobCancel, CancelDurably
  <2>2. \A i \in Jobs : task'[i].saw401 = task[i].saw401
    BY <1>0, <2>1 DEF Task
  <2> QED BY <2>1, <2>2, RefusalsKept
<1>6. CASE \E o \in Owners : KeyStep(o)
  <2>1. UNCHANGED task /\ answers \subseteq answers'
    BY <1>6 DEF KeyStep, ProbeKey, SaveWakatimeKey, DeleteWakatimeKey
  <2> QED BY <1>1, <2>1
<1>7. CASE \E c \in Streams : StreamStep(c)
  BY <1>1, <1>7
  DEF StreamStep, StreamLoad, StreamSubscribe, StreamSnapshot, StreamDeliver, StreamLeave
<1>8. ASSUME NEW p \in Pods, PodStep(p) PROVE RefusalsTold'
  <2>1. CASE Shutdown(p) \/ Restart(p)
    BY <1>1, <2>1 DEF Shutdown, Restart
  <2>2. CASE Vanish(p)
    BY <1>0, <2>2, RefusalsKept DEF Vanish
  <2> QED BY <1>8, <2>1, <2>2 DEF PodStep, Exit, Crash
<1>9. CASE Tick
  <2>1. UNCHANGED answers /\ \A i \in Jobs : task'[i].saw401 = task[i].saw401
    BY <1>0, <1>9 DEF Tick, Task
  <2> QED BY <2>1, RefusalsKept
<1>10. CASE UNCHANGED vars
  BY <1>1, <1>10 DEF vars
<1> QED BY <1>2, <1>3, <1>4, <1>5, <1>6, <1>7, <1>8, <1>9, <1>10 DEF Next

-----------------------------------------------------------------------------
(* The whole.                                                              *)

EndInv == RunInv /\ ToldInTheEnd

\* In the first state no run has begun.
LEMMA InitRuns == Init => EndInv
<1> SUFFICES ASSUME Init PROVE EndInv
  OBVIOUS
<1>1. LeaseInv
  BY InitLease
<1>2. NoStream \in Stream /\ NoStream.chan = <<>>
  <2>1. AnyPod \in Pods
    BY ImportAssumption DEF AnyPod
  <2>2. <<>> \in Seq({"other", "terminal"})
    OBVIOUS
  <2> QED BY <2>1, <2>2 DEF NoStream, Stream
<1>3. OtherTypes
  BY <1>2 DEF Init, OtherTypes
<1>4. RunsAddUp
  <2>1. /\ NoTask.pc = "none" /\ NoTask.day = 0 /\ NoTask.failedDays = 0
    BY DEF NoTask
  <2> SUFFICES ASSUME NEW j \in Jobs PROVE RunOK(j, task[j], job[j], stored[j], answers)
    BY DEF RunsAddUp
  <2>2. task[j] = NoTask /\ job[j].state = "absent" /\ stored[j] = 0
    BY DEF Init
  <2> QED BY <2>1, <2>2, NotBegun
<1>5. StartedOnce
  <2>1. \A r \in Requests : req[r].pc = "idle"
    BY DEF Init, NoRequest
  <2> QED BY <2>1 DEF StartedOnce
<1>7. RejectionsSeen
  BY DEF Init, RejectionsSeen
<1>8. RefusalsTold
  BY DEF Init, NoTask, RefusalsTold
<1>6. ToldInTheEnd
  <2>1. \A c \in Streams : stream[c].chan = <<>>
    BY <1>2 DEF Init
  <2>2. \A c \in Streams : DOMAIN stream[c].chan = {}
    BY <2>1
  <2> QED BY <2>2 DEF ToldInTheEnd, Told
<1> QED BY <1>1, <1>3, <1>4, <1>5, <1>6, <1>7, <1>8 DEF EndInv, RunInv, Typed

\* Every step keeps them all.
LEMMA NextRuns == EndInv /\ [Next]_vars => EndInv'
<1> SUFFICES ASSUME Typed, RunsAddUp, StartedOnce, RejectionsSeen, RefusalsTold,
                    ToldInTheEnd, [Next]_vars
             PROVE  EndInv'
  BY DEF EndInv, RunInv
<1>1. LeaseInv'
  BY NextLease DEF Typed
<1>2. Typed'
  BY <1>1, OtherTypesKept DEF Typed
<1>3. RunsAddUp' /\ StartedOnce' /\ RejectionsSeen' /\ RefusalsTold'
  BY RunsAddUpKept, StartedOnceStep, RejectionsSeenStep, RefusalsToldStep
<1>4. ToldInTheEnd'
  <2> SUFFICES ASSUME NEW c \in Streams, Told(c)'
               PROVE  stream'[c].job \in Jobs /\ Over(stream[c].job)'
    BY DEF ToldInTheEnd
  <2>1. PICK j \in Jobs : stream'[c].job = j /\ Over(j)'
    BY ToldInTheEndKept
  <2> QED BY <2>1 DEF Over
<1> QED BY <1>2, <1>3, <1>4 DEF EndInv, RunInv

\* The inductive invariant of the importer holds in every behaviour of the
\* model.
THEOREM RunsCorrect == Spec => []EndInv
BY InitRuns, NextRuns, PTL DEF Spec

-----------------------------------------------------------------------------
(* What follows.                                                           *)

\* Rows, goroutines, requests, keys and streams have their shape, and what a
\* bounded instance may use stays within its bounds, for every value of the
\* constants.
THEOREM ImportTypes == Spec => []TypeOK
<1>1. EndInv => TypeOK
  BY DEF EndInv, RunInv, Typed, LeaseInv, CoreTypes, OtherTypes, TypeOK
<1> QED BY <1>1, RunsCorrect, PTL

\* completed is said only of a run that stored at least one day of a range that
\* has any (importer.go, the verdict of run), whatever sweeps and cancels wrote
\* in between.
THEOREM CompletedIsImported == Spec => []CompletedMeansImported
<1>1. EndInv => CompletedMeansImported
  BY DEF EndInv, RunInv, RunsAddUp, RunOK, CompletedMeansImported
<1> QED BY <1>1, RunsCorrect, PTL

\* A terminal event in a subscriber's channel is true and stays true
\* (importer.go, publishJob after the write; hub.go).
THEOREM TerminalEventsHold == Spec => []TerminalEventsAreTrue
<1>1. EndInv => TerminalEventsAreTrue
  BY DEF EndInv, ToldInTheEnd, Told, Over, TerminalEventsAreTrue
<1> QED BY <1>1, RunsCorrect, PTL

\* What the outcome of a run leaves behind, if anything, the run earned.
LEMMA OutcomeIsEarned ==
  ASSUME EndInv, NEW j \in Jobs, task[j].pc = "key",
         KeyOutcome(j) # key[job[j].owner], KeyOutcome(j).saved # NoKey
  PROVE  Earned(j, key[job[j].owner], KeyOutcome(j))
<1> DEFINE r == key[job[j].owner]
<1>1. r \in KeyRow /\ task[j].token \in Keys \cup {NoKey}
  BY DEF EndInv, RunInv, Typed, LeaseInv, CoreTypes, ImportRow, Task
<1>2. \A s \in {"valid", "invalid"} :
        LET u == UpdateWakatimeKeyStatus(r, s) IN
        u.saved # NoKey => u.saved = r.saved /\ u.status = s
  BY <1>1 DEF UpdateWakatimeKeyStatus, KeyRow
<1>3. CASE task[j].saw401
  <2>1. KeyOutcome(j) = UpdateWakatimeKeyStatus(r, "invalid")
    BY <1>3 DEF KeyOutcome
  <2>2. \E t \in Keys \cup {NoKey} : <<j, t, FALSE>> \in answers
    BY <1>3 DEF EndInv, RunInv, RefusalsTold
  <2> QED BY <1>2, <2>1, <2>2 DEF Earned
<1>4. CASE ~ task[j].saw401
  <2>1. task[j].verdict = "completed"
    BY <1>4 DEF KeyOutcome
  <2>2. <<j, task[j].token, TRUE>> \in answers
    BY <2>1 DEF EndInv, RunInv, RunsAddUp, RunOK
  <2>3. \A t \in Keys \cup {NoKey} : <<j, t, FALSE>> \notin answers
    BY <1>4 DEF EndInv, RunInv, RejectionsSeen, Live
  <2>4. Proved(j, task[j].token)
    BY <2>2, <2>3 DEF Proved
  <2>5. KeyOutcome(j).status = "valid" /\ KeyOutcome(j).saved \in {r.saved, task[j].token}
    <3>1. CASE task[j].source = "typed"
      BY <1>4, <2>1, <3>1 DEF KeyOutcome, SetEncryptedWakatimeKey
    <3>2. CASE task[j].source # "typed"
      <4>1. KeyOutcome(j) = UpdateWakatimeKeyStatus(r, "valid")
        BY <1>4, <2>1, <3>2 DEF KeyOutcome
      <4> QED BY <1>2, <4>1
    <3> QED BY <3>1, <3>2
  <2> QED BY <1>1, <2>4, <2>5 DEF Earned
<1> QED BY <1>3, <1>4

\* But for the owner's edits, only the end of a run changes a saved key.
LEMMA KeysChanged ==
  ASSUME EndInv, [Next]_vars, NEW o \in Owners,
         key'[o] # key[o], key'[o].saved # NoKey, edit'[o] = edit[o]
  PROVE  \E j \in Jobs : /\ job[j].owner = o /\ Earned(j, key[o], key'[o])
                         /\ task[j].pc = "key" /\ task'[j].pc # "key"
<1>0. key \in [Owners -> KeyRow] /\ edit \in [Owners -> KeyRow] /\ job \in [Jobs -> ImportRow] /\ task \in [Jobs -> Task]
  BY DEF EndInv, RunInv, Typed, LeaseInv, CoreTypes
<1>1. key' # key
  OBVIOUS
<1>2. CASE \E u \in Owners : KeyStep(u)
  <2>1. PICK u \in Owners : KeyStep(u)
    BY <1>2
  <2>2. CASE SaveWakatimeKey(u)
    <3>1. key' = [key EXCEPT ![u] = SetEncryptedWakatimeKey(edit[u].saved, edit[u].status)]
      BY <1>1, <2>2 DEF SaveWakatimeKey
    <3>2. edit' = [edit EXCEPT ![u] = NoEdit] /\ edit[u].saved # NoKey
      BY <2>2 DEF SaveWakatimeKey
    <3>3. u # o
      BY <1>0, <3>2 DEF NoEdit
    <3> QED BY <1>0, <3>1, <3>3
  <2>3. CASE DeleteWakatimeKey(u)
    <3>1. key' = [key EXCEPT ![u] = ClearEncryptedWakatimeKey]
          /\ ClearEncryptedWakatimeKey.saved = NoKey
      BY <2>3 DEF DeleteWakatimeKey, ClearEncryptedWakatimeKey
    <3> QED BY <1>0, <3>1
  <2> QED BY <1>1, <2>1, <2>2, <2>3 DEF KeyStep, ProbeKey
<1>3. CASE \E j \in Jobs : ApplyKeyOutcome(j)
  <2>1. PICK j \in Jobs : ApplyKeyOutcome(j)
    BY <1>3
  <2>2. /\ key' = [key EXCEPT ![job[j].owner] = KeyOutcome(j)] /\ task[j].pc = "key"
        /\ job[j].owner \in Owners /\ task'[j].pc = "dead"
    BY <1>0, <1>1, <2>1 DEF ApplyKeyOutcome, ImportRow, Task
  <2>3. job[j].owner = o /\ key'[o] = KeyOutcome(j)
    BY <1>0, <2>2
  <2>4. Earned(j, key[o], key'[o])
    BY <2>2, <2>3, OutcomeIsEarned
  <2> QED BY <2>2, <2>3, <2>4
<1>4. CASE \E r \in Requests, p \in Pods, u \in Owners : SubmitSweep(r, p, u)
  BY <1>1, <1>4 DEF SubmitSweep
<1>5. CASE \E r \in Requests : RequestStep(r)
  BY <1>1, <1>5 DEF RequestStep, SubmitCheck, SubmitRefused, StartJob, SubmitCreate
<1>6. CASE (\E j \in Jobs : RunStep(j)) /\ ~ \E j \in Jobs : ApplyKeyOutcome(j)
  BY <1>1, <1>6
  DEF RunStep, RunStarts, FetchLookups, FailLookups, ImportDay, WriteProgress, FinishRun,
      FinishCancelled
<1>7. CASE \E p \in Pods, j \in Jobs : CancelStep(p, j)
  BY <1>1, <1>7 DEF CancelStep, ImportJobCancel, CancelDurably
<1>8. CASE \E c \in Streams : StreamStep(c)
  BY <1>1, <1>8
  DEF StreamStep, StreamLoad, StreamSubscribe, StreamSnapshot, StreamDeliver, StreamLeave
<1>9. CASE \E p \in Pods : PodStep(p)
  BY <1>1, <1>9 DEF PodStep, Shutdown, Exit, Crash, Vanish, Restart
<1>10. CASE Tick \/ UNCHANGED vars
  BY <1>1, <1>10 DEF Tick, vars
<1> QED BY <1>2, <1>3, <1>4, <1>5, <1>6, <1>7, <1>8, <1>9, <1>10 DEF Next

\* But for its owner's edits, a key is saved, or called valid, only by a run that
\* proved one end to end, and called invalid only by a run that was answered 401
\* (importer.go, applyKeyOutcome): a run that has completed was answered for its
\* key, and knows of every 401, so one that knows of none was answered none.
THEOREM KeysAreEarned == Spec => KeyOutcomesAreEarned
<1>1. ASSUME EndInv, [Next]_vars
      PROVE  \A o \in Owners :
               key'[o] # key[o] /\ key'[o].saved # NoKey /\ edit'[o] = edit[o]
                 => \E j \in Jobs : /\ job[j].owner = o /\ Earned(j, key[o], key'[o])
                                    /\ task[j].pc = "key" /\ task'[j].pc # "key"
  BY <1>1, KeysChanged
<1> QED BY <1>1, RunsCorrect, PTL DEF Spec, KeyOutcomesAreEarned
=============================================================================
