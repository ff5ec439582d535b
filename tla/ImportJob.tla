------------------------------ MODULE ImportJob ------------------------------
(***************************************************************************)
(* The wakatime.com importer: POST /import creates a durable job and runs  *)
(* it in a goroutine of the pod that served the request; the goroutine     *)
(* walks the requested days, writes progress and a terminal state, and     *)
(* finally judges the API key the run used (internal/boomtime/importer,    *)
(* internal/boomtime/admin/import.go, internal/identity/wakatime_key.go).  *)
(*                                                                         *)
(* Handlers are sequences of statements, so requests of one user, on one   *)
(* pod or on two, interleave; a run's context may be cancelled between any *)
(* two of its statements; pods stop and die; statements fail.  Streams     *)
(* (the WebSocket of a job) follow a run through an in-process hub.        *)
(*                                                                         *)
(* Time: a tick is the 60 s client timeout, which bounds every upstream    *)
(* request.  Statements and local steps take no time at this scale, so a   *)
(* tick waits for them.                                                    *)
(***************************************************************************)
EXTENDS ImportStore, Sequences, FiniteSets

CONSTANTS Jobs, NoJob, Pods, Requests, Streams,
          ServerPods,   \* server role, not a drain pod
          DayInputs,    \* how many days a requested range may have
          ServerKey,    \* the server-wide key, or NoKey
          TypedKeys,    \* what users type into the import form; NoKey: nothing
          Buffer,       \* capacity of a subscriber channel
          MaxFaults,    \* bound: failing statements
          MaxStops,     \* bound: pods that stop
          MaxCancels,   \* bound: cancel requests
          MaxEdits      \* bound: edits of saved keys

ASSUME ImportAssumption ==
  /\ Owners # {} /\ Pods # {}
  /\ NoJob \notin Jobs
  /\ ServerPods \subseteq Pods
  /\ DayInputs \subseteq Nat
  /\ ServerKey \in Keys \cup {NoKey}
  /\ TypedKeys \subseteq Keys \cup {NoKey}
  /\ Buffer \in Nat /\ MaxFaults \in Nat
  /\ MaxStops \in Nat /\ MaxCancels \in Nat /\ MaxEdits \in Nat

\* Two look-up requests and a day between the first two writes of updated_at,
\* and a day more for every progress write that fails: the lease covers it.
ASSUME LeaseAssumption == 3 + MaxFaults <= Lease

VARIABLES
  job,       \* import_jobs
  task,      \* the goroutine of each job
  req,       \* POST /import requests
  asked,     \* cancel requests that found no goroutine and go to the database
  key,       \* the saved key of each owner
  edit,      \* a key that was probed and is about to be saved
  stream,    \* WebSocket connections
  power,     \* per pod: "up", "stopping", "down"
  answers,   \* history: <<j, k, ok>> when wakatime.com accepted key k in a call of
             \* run j (of a probe: NoJob), or answered it with 401
  stored,    \* history: days of each job whose heartbeats were stored
  used       \* how much of each bound is used up

vars == <<job, task, req, asked, key, edit, stream, power, answers, stored, used>>

Task == [pc: {"none", "mark", "lookup", "failing", "day", "progress", "finish",
              "cancelling", "key", "dead"},
         pod: Pods, source: {"typed", "saved", "server"},
         token: Keys \cup {NoKey}, ticks: Nat, day: Nat, failedDays: Nat,
         saw401: BOOLEAN, verdict: {"none", "completed", "failed"},
         cancelled: BOOLEAN]

Request == [pc: {"idle", "check", "create", "start"}, pod: Pods, owner: Owners,
            source: {"typed", "saved", "server"}, token: Keys \cup {NoKey},
            job: Jobs \cup {NoJob}]

Stream == [pc: {"new", "loaded", "subscribed", "tail", "closed"}, pod: Pods,
           job: Jobs \cup {NoJob}, snapshot: {"none"} \cup ActiveStates \cup TerminalStates,
           chan: Seq({"other", "terminal"})]

Answer == (Jobs \cup {NoJob}) \X (Keys \cup {NoKey}) \X BOOLEAN

AnyPod == CHOOSE p \in Pods : TRUE
AnyOwner == CHOOSE o \in Owners : TRUE

NoTask == [pc |-> "none", pod |-> AnyPod, source |-> "server", token |-> NoKey,
           ticks |-> 0, day |-> 0, failedDays |-> 0, saw401 |-> FALSE,
           verdict |-> "none", cancelled |-> FALSE]

NoRequest == [pc |-> "idle", pod |-> AnyPod, owner |-> AnyOwner,
              source |-> "server", token |-> NoKey, job |-> NoJob]

NoStream == [pc |-> "new", pod |-> AnyPod, job |-> NoJob, snapshot |-> "none",
             chan |-> <<>>]

NoEdit == [saved |-> NoKey, status |-> "none"]

\* In the running map of its pod's Worker.
Live(j) == task[j].pc \notin {"none", "dead"}

CtxDone(j) == task[j].cancelled \/ power[task[j].pod] = "stopping"

Active(o) == {j \in Jobs : job[j].owner = o /\ IsActive(job[j])}

Bound == [faults: 0..MaxFaults, stops: 0..MaxStops,
          cancels: 0..MaxCancels, edits: 0..MaxEdits]

\* Hub.Publish to the subscribers of j on pod p; what does not fit is dropped.
Publish(p, j, events) ==
  stream' = [c \in Streams |->
    IF stream[c].pc \in {"subscribed", "tail"} /\ stream[c].pod = p /\ stream[c].job = j
      THEN LET all == stream[c].chan \o events IN
           [stream[c] EXCEPT !.chan =
              SubSeq(all, 1, IF Len(all) < Buffer THEN Len(all) ELSE Buffer)]
      ELSE stream[c]]

\* A statement that fails without the run's context being to blame.
Fault ==
  /\ used.faults < MaxFaults
  /\ used' = [used EXCEPT !.faults = @ + 1]

TypeOK ==
  /\ job \in [Jobs -> ImportRow]
  /\ task \in [Jobs -> Task]
  /\ req \in [Requests -> Request]
  /\ asked \subseteq (Pods \X Jobs)
  /\ key \in [Owners -> KeyRow]
  /\ edit \in [Owners -> KeyRow]
  /\ stream \in [Streams -> Stream]
  /\ power \in [Pods -> {"up", "stopping", "down"}]
  /\ answers \subseteq Answer
  /\ stored \in [Jobs -> Nat]
  /\ used \in Bound

Init ==
  /\ job = [j \in Jobs |-> [state |-> "absent", owner |-> AnyOwner, days |-> 0, age |-> 0]]
  /\ task = [j \in Jobs |-> NoTask]
  /\ req = [r \in Requests |-> NoRequest]
  /\ asked = {}
  /\ key = [o \in Owners |-> ClearEncryptedWakatimeKey]
  /\ edit = [o \in Owners |-> NoEdit]
  /\ stream = [c \in Streams |-> NoStream]
  /\ power = [p \in Pods |-> "up"]
  /\ answers = {}
  /\ stored = [j \in Jobs |-> 0]
  /\ used = [faults |-> 0, stops |-> 0, cancels |-> 0, edits |-> 0]
-----------------------------------------------------------------------------
(* POST /import, statement by statement.                                   *)

\* ImportRequest up to the sweep of the owner's own abandoned job, whose
\* failure is ignored.
SubmitSweep(r, p, o) ==
  /\ req[r].pc = "idle"
  /\ p \in ServerPods
  /\ power[p] = "up"
  /\ \E k \in TypedKeys :
       req' = [req EXCEPT ![r] =
                [pc |-> "check", pod |-> p, owner |-> o, token |-> k, job |-> NoJob,
                 source |-> IF k # NoKey THEN "typed"
                            ELSE IF key[o].saved # NoKey THEN "saved" ELSE "server"]]
  /\ \/ /\ job' = [j \in Jobs |-> IF job[j].owner = o THEN MarkStaleFailed(job[j]) ELSE job[j]]
        /\ UNCHANGED used
     \/ Fault /\ UNCHANGED job
  /\ UNCHANGED <<task, asked, key, edit, stream, power, answers, stored>>

\* GetRunningJobByOwner: an active job is handed back instead of a new one.
SubmitCheck(r) ==
  /\ req[r].pc = "check"
  /\ \/ /\ req' = IF Active(req[r].owner) # {} THEN [req EXCEPT ![r] = NoRequest]
                  ELSE [req EXCEPT ![r].pc = "create"]
        /\ UNCHANGED used
     \/ Fault /\ req' = [req EXCEPT ![r] = NoRequest]
  /\ UNCHANGED <<job, task, asked, key, edit, stream, power, answers, stored>>

\* The INSERT.  Its answer may be lost although the row is there.
SubmitCreate(r, j) ==
  /\ req[r].pc = "create"
  /\ job[j].state = "absent"
  /\ \E d \in DayInputs :
       \/ /\ job' = [job EXCEPT ![j] = CreateImportJob(req[r].owner, d)]
          /\ req' = [req EXCEPT ![r].pc = "start", ![r].job = j]
          /\ UNCHANGED used
       \/ /\ Fault
          /\ job' \in {job, [job EXCEPT ![j] = CreateImportJob(req[r].owner, d)]}
          /\ req' = [req EXCEPT ![r] = NoRequest]
  /\ UNCHANGED <<task, asked, key, edit, stream, power, answers, stored>>

\* Bound: a request that finds all ids taken is given up.
SubmitRefused(r) ==
  /\ req[r].pc = "create"
  /\ \A j \in Jobs : job[j].state # "absent"
  /\ req' = [req EXCEPT ![r] = NoRequest]
  /\ UNCHANGED <<job, task, asked, key, edit, stream, power, answers, stored, used>>

StartJob(r) ==
  /\ req[r].pc = "start"
  /\ task' = [task EXCEPT ![req[r].job] =
               [NoTask EXCEPT !.pc = "mark", !.pod = req[r].pod,
                              !.source = req[r].source, !.token = req[r].token]]
  /\ req' = [req EXCEPT ![r] = NoRequest]
  /\ UNCHANGED <<job, asked, key, edit, stream, power, answers, stored, used>>

-----------------------------------------------------------------------------
(* Worker.run, statement by statement.                                     *)

\* resolveToken: a saved key that is gone or does not decrypt falls back to the
\* server's.
ResolveToken(j) ==
  CASE task[j].source = "typed"  -> {task[j].token}
    [] task[j].source = "saved"  -> {ServerKey} \cup ({key[job[j].owner].saved} \ {NoKey})
    [] task[j].source = "server" -> {ServerKey}

\* A statement on the run's context fails: it is done, or the database is away.
StatementFails(j) ==
  \/ CtxDone(j) /\ UNCHANGED used
  \/ ~ CtxDone(j) /\ Fault

\* The transition to running; a failure ends the run on the spot.
RunStarts(j) ==
  /\ task[j].pc = "mark"
  /\ \/ /\ ~ CtxDone(j)
        /\ job' = [job EXCEPT ![j] = MarkJobRunning(@)]
        /\ \E t \in ResolveToken(j) :
             task' = [task EXCEPT ![j] = [@ EXCEPT !.pc = "lookup", !.ticks = 0, !.token = t]]
        /\ Publish(task[j].pod, j, <<"other", "other">>)
        /\ UNCHANGED used
     \/ /\ StatementFails(j)
        /\ job' \in {job, [job EXCEPT ![j] = MarkJobRunning(@)]}
        /\ task' = [task EXCEPT ![j] = [@ EXCEPT !.pc = "dead"]]
        /\ UNCHANGED stream
  /\ UNCHANGED <<req, asked, key, edit, power, answers, stored>>

AfterDay(j, n) == IF n < job[j].days THEN "day" ELSE "finish"

\* A failed call tells the run of a 401, or of anything else.
Rejection(j, rejected) == IF rejected THEN {<<j, task[j].token, FALSE>>} ELSE {}

\* fetchLookups: user agents and machine names, two requests.
FetchLookups(j) ==
  /\ task[j].pc = "lookup"
  /\ \/ /\ task[j].token # NoKey
        /\ task' = [task EXCEPT ![j] = [@ EXCEPT !.pc = AfterDay(j, 0), !.ticks = 0]]
        /\ answers' = answers \cup {<<j, task[j].token, TRUE>>}
     \/ /\ CtxDone(j)
        /\ task' = [task EXCEPT ![j] = [@ EXCEPT !.pc = "cancelling"]]
        /\ UNCHANGED answers
     \/ /\ ~ CtxDone(j)
        /\ \E rejected \in BOOLEAN :
             /\ task' = [task EXCEPT ![j] = [@ EXCEPT !.pc = "failing", !.saw401 = rejected]]
             /\ answers' = answers \cup Rejection(j, rejected)
  /\ UNCHANGED <<job, req, asked, key, edit, stream, power, stored, used>>

\* Mutated form of FailLookups: the event is sent whatever the write returned.
FailLookups_Announced(j) ==
  /\ task[j].pc = "failing"
  /\ job' \in {job, [job EXCEPT ![j] = FinishImportJob(@, "failed")]}
  /\ Publish(task[j].pod, j, <<"other", "terminal">>)
  /\ StatementFails(j)
  /\ task' = [task EXCEPT ![j] = [@ EXCEPT !.pc = "key", !.verdict = "failed"]]
  /\ UNCHANGED <<req, asked, key, edit, power, answers, stored>>

\* The look-ups failed: the error of the terminal write is ignored.
FailLookups(j) ==
  /\ task[j].pc = "failing"
  /\ \/ /\ ~ CtxDone(j)
        /\ job' = [job EXCEPT ![j] = FinishImportJob(@, "failed")]
        /\ Publish(task[j].pod, j, <<"other", "terminal">>)
        /\ UNCHANGED used
     \/ /\ StatementFails(j)
        /\ job' \in {job, [job EXCEPT ![j] = FinishImportJob(@, "failed")]}
        /\ UNCHANGED stream
  /\ task' = [task EXCEPT ![j] = [@ EXCEPT !.pc = "key", !.verdict = "failed"]]
  /\ UNCHANGED <<req, asked, key, edit, power, answers, stored>>

\* One pass of the loop up to the progress write: importDay stores the day, or
\* fails and is counted; a done context ends the loop.
ImportDay(j) ==
  /\ task[j].pc = "day"
  /\ \/ /\ CtxDone(j)
        /\ task' = [task EXCEPT ![j] = [@ EXCEPT !.pc = "cancelling"]]
        /\ UNCHANGED <<stream, answers, stored>>
     \/ /\ task[j].token # NoKey
        /\ task' = [task EXCEPT ![j] = [task[j] EXCEPT !.pc = "progress", !.day = @ + 1]]
        /\ answers' = answers \cup {<<j, task[j].token, TRUE>>}
        /\ stored' = [stored EXCEPT ![j] = @ + 1]
        /\ Publish(task[j].pod, j, <<"other">>)
     \/ /\ ~ CtxDone(j)
        /\ \E rejected \in BOOLEAN :
             /\ task' = [task EXCEPT ![j] =
                  [task[j] EXCEPT !.pc = "progress", !.day = @ + 1, !.failedDays = @ + 1,
                                  !.saw401 = @ \/ rejected]]
             /\ answers' = answers \cup Rejection(j, rejected)
        /\ Publish(task[j].pod, j, <<"other">>)
        /\ UNCHANGED stored
  /\ UNCHANGED <<job, req, asked, key, edit, power, used>>

\* The durable progress write.  Its failure costs a refresh of the lease and,
\* if the context is to blame, ends the run.
WriteProgress(j) ==
  /\ task[j].pc = "progress"
  /\ \/ /\ ~ CtxDone(j)
        /\ job' = [job EXCEPT ![j] = UpdateJobProgress(@)]
        /\ task' = [task EXCEPT ![j] = [@ EXCEPT !.pc = AfterDay(j, task[j].day), !.ticks = 0]]
        /\ Publish(task[j].pod, j, <<"other">>)
        /\ UNCHANGED used
     \/ /\ StatementFails(j)
        /\ job' \in {job, [job EXCEPT ![j] = UpdateJobProgress(@)]}
        /\ task' = [task EXCEPT ![j] =
             [@ EXCEPT !.ticks = 0, !.pc = IF CtxDone(j) THEN "cancelling"
                                           ELSE AfterDay(j, task[j].day)]]
        /\ UNCHANGED stream
  /\ UNCHANGED <<req, asked, key, edit, power, answers, stored>>

\* Mutated form of Verdict: a run that got to its end has succeeded.
Verdict_Completed(j) == "completed"

\* Mutated form of Verdict: only the failure is ever set.
Verdict_Unset(j) ==
  IF job[j].days > 0 /\ task[j].failedDays = job[j].days THEN "failed" ELSE task[j].verdict

\* A run every day of which failed is a failure.
Verdict(j) ==
  IF job[j].days > 0 /\ task[j].failedDays = job[j].days THEN "failed" ELSE "completed"

\* The terminal write uses the run's own context: if it fails, so does the run.
FinishRun(j) ==
  /\ task[j].pc = "finish"
  /\ \/ /\ ~ CtxDone(j)
        /\ job' = [job EXCEPT ![j] = FinishImportJob(@, Verdict(j))]
        /\ task' = [task EXCEPT ![j] = [@ EXCEPT !.pc = "key", !.verdict = Verdict(j)]]
        /\ Publish(task[j].pod, j, <<"other", "terminal">>)
        /\ UNCHANGED used
     \/ /\ StatementFails(j)
        /\ job' \in {job, [job EXCEPT ![j] = FinishImportJob(@, Verdict(j))]}
        /\ task' = [task EXCEPT ![j] = [@ EXCEPT !.pc = "dead"]]
        /\ UNCHANGED stream
  /\ UNCHANGED <<req, asked, key, edit, power, answers, stored>>

\* finishCancelled, on a context of its own.
FinishCancelled(j) ==
  /\ task[j].pc = "cancelling"
  /\ \/ /\ job' = [job EXCEPT ![j] = CancelJob(@)]
        /\ Publish(task[j].pod, j,
                   IF IsActive(job[j]) THEN <<"other", "terminal">> ELSE <<"other">>)
        /\ UNCHANGED used
     \/ /\ Fault
        /\ job' \in {job, [job EXCEPT ![j] = CancelJob(@)]}
        /\ UNCHANGED stream
  /\ task' = [task EXCEPT ![j] = [@ EXCEPT !.pc = "dead"]]
  /\ UNCHANGED <<req, asked, key, edit, power, answers, stored>>

\* Mutated form of KeyOutcome: a completed run speaks for its key, whatever
\* single days were answered.
KeyOutcome_Lenient(j) ==
  LET r == key[job[j].owner] IN
  IF task[j].verdict = "completed"
    THEN IF task[j].source = "typed" THEN SetEncryptedWakatimeKey(task[j].token, "valid")
         ELSE UpdateWakatimeKeyStatus(r, "valid")
  ELSE IF task[j].saw401 THEN UpdateWakatimeKeyStatus(r, "invalid")
  ELSE r

\* What a finished run says of the owner's key.
KeyOutcome(j) ==
  LET r == key[job[j].owner] IN
  IF task[j].saw401 THEN UpdateWakatimeKeyStatus(r, "invalid")
  ELSE IF task[j].verdict # "completed" THEN r
  ELSE IF task[j].source = "typed" THEN SetEncryptedWakatimeKey(task[j].token, "valid")
  ELSE UpdateWakatimeKeyStatus(r, "valid")

\* applyKeyOutcome and the deferred clean-up of StartJob; a failure is logged.
ApplyKeyOutcome(j) ==
  /\ task[j].pc = "key"
  /\ \/ key' = [key EXCEPT ![job[j].owner] = KeyOutcome(j)] /\ UNCHANGED used
     \/ Fault /\ UNCHANGED key
  /\ task' = [task EXCEPT ![j] = [@ EXCEPT !.pc = "dead"]]
  /\ UNCHANGED <<job, req, asked, edit, stream, power, answers, stored>>

-----------------------------------------------------------------------------
(* POST /import/jobs/:id/cancel: Worker.Cancel looks the job up in the      *)
(* running map of this pod, and only a job that is not there is cancelled   *)
(* in the database.                                                        *)

ImportJobCancel(p, j) ==
  /\ power[p] = "up"
  /\ p \in ServerPods
  /\ job[j].state # "absent"
  /\ used.cancels < MaxCancels
  /\ used' = [used EXCEPT !.cancels = @ + 1]
  /\ IF Live(j) /\ task[j].pod = p
       THEN task' = [task EXCEPT ![j] = [@ EXCEPT !.cancelled = TRUE]] /\ UNCHANGED asked
       ELSE asked' = asked \cup {<<p, j>>} /\ UNCHANGED task
  /\ UNCHANGED <<job, req, key, edit, stream, power, answers, stored>>

CancelDurably(p, j) ==
  /\ <<p, j>> \in asked
  /\ \/ job' = [job EXCEPT ![j] = CancelJob(@)] /\ UNCHANGED used
     \/ Fault /\ UNCHANGED job
  /\ asked' = asked \ {<<p, j>>}
  /\ UNCHANGED <<task, req, key, edit, stream, power, answers, stored>>

-----------------------------------------------------------------------------
(* The saved key: POST and DELETE /api/v1/users/current/wakatime_key.      *)

\* probeWakatimeKey; a key that is rejected is not saved.
ProbeKey(o, k) ==
  /\ used.edits < MaxEdits
  /\ used' = [used EXCEPT !.edits = @ + 1]
  /\ \/ /\ edit' = [edit EXCEPT ![o] = [saved |-> k, status |-> "valid"]]
        /\ answers' = answers \cup {<<NoJob, k, TRUE>>}
     \/ /\ edit' = [edit EXCEPT ![o] = [saved |-> k, status |-> "unknown"]]
        /\ UNCHANGED answers
     \/ /\ answers' = answers \cup {<<NoJob, k, FALSE>>}
        /\ UNCHANGED edit
  /\ UNCHANGED <<job, task, req, asked, key, stream, power, stored>>

SaveWakatimeKey(o) ==
  /\ edit[o].saved # NoKey
  /\ \/ /\ key' = [key EXCEPT ![o] = SetEncryptedWakatimeKey(edit[o].saved, edit[o].status)]
        /\ UNCHANGED used
     \/ Fault /\ UNCHANGED key
  /\ edit' = [edit EXCEPT ![o] = NoEdit]
  /\ UNCHANGED <<job, task, req, asked, stream, power, answers, stored>>

DeleteWakatimeKey(o) ==
  /\ used.edits < MaxEdits
  /\ key[o].saved # NoKey
  /\ used' = [used EXCEPT !.edits = @ + 1]
  /\ key' = [key EXCEPT ![o] = ClearEncryptedWakatimeKey]
  /\ UNCHANGED <<job, task, req, asked, edit, stream, power, answers, stored>>

-----------------------------------------------------------------------------
(* GET /import/jobs/:id/ws.                                                *)

\* jobForOwner reads the row before the handshake ...
StreamLoad(c, p, j) ==
  /\ stream[c].pc = "new"
  /\ power[p] = "up"
  /\ p \in ServerPods
  /\ job[j].state # "absent"
  /\ stream' = [stream EXCEPT ![c] = [NoStream EXCEPT !.pc = "loaded", !.pod = p,
                                        !.job = j, !.snapshot = job[j].state]]
  /\ UNCHANGED <<job, task, req, asked, key, edit, power, answers, stored, used>>

\* ... then Hub.Subscribe ...
StreamSubscribe(c) ==
  /\ stream[c].pc = "loaded"
  /\ stream' = [stream EXCEPT ![c].pc = "subscribed"]
  /\ UNCHANGED <<job, task, req, asked, key, edit, power, answers, stored, used>>

\* ... then the snapshot is sent; a terminal one closes the connection.
StreamSnapshot(c) ==
  /\ stream[c].pc = "subscribed"
  /\ stream' = [stream EXCEPT ![c].pc =
       IF stream[c].snapshot \in TerminalStates THEN "closed" ELSE "tail"]
  /\ UNCHANGED <<job, task, req, asked, key, edit, power, answers, stored, used>>

StreamDeliver(c) ==
  /\ stream[c].pc = "tail"
  /\ stream[c].chan # <<>>
  /\ stream' = [stream EXCEPT ![c].chan = Tail(@),
                  ![c].pc = IF Head(stream[c].chan) = "terminal" THEN "closed" ELSE "tail"]
  /\ UNCHANGED <<job, task, req, asked, key, edit, power, answers, stored, used>>

\* The client goes away.
StreamLeave(c) ==
  /\ stream[c].pc \in {"loaded", "subscribed", "tail"}
  /\ stream' = [stream EXCEPT ![c].pc = "closed"]
  /\ UNCHANGED <<job, task, req, asked, key, edit, power, answers, stored, used>>

-----------------------------------------------------------------------------
(* Time and pods.                                                          *)

\* How many client timeouts a run may still spend where it is.
CanWait(j) ==
  \/ ~ Live(j)
  \/ task[j].pc = "lookup" /\ task[j].ticks < 2
  \/ task[j].pc = "day" /\ task[j].ticks < 1

Older(r) == IF IsActive(r) /\ r.age <= Lease THEN [r EXCEPT !.age = @ + 1] ELSE r

Tick ==
  /\ \A j \in Jobs : CanWait(j)
  /\ \A r \in Requests : req[r].pc # "start"
  /\ job' = [j \in Jobs |-> Older(job[j])]
  /\ task' = [j \in Jobs |-> IF Live(j) THEN [task[j] EXCEPT !.ticks = @ + 1] ELSE task[j]]
  /\ UNCHANGED <<req, asked, key, edit, stream, power, answers, stored, used>>

\* The base context is cancelled; nobody waits for the runs.
Shutdown(p) ==
  /\ power[p] = "up"
  /\ used.stops < MaxStops
  /\ used' = [used EXCEPT !.stops = @ + 1]
  /\ power' = [power EXCEPT ![p] = "stopping"]
  /\ UNCHANGED <<job, task, req, asked, key, edit, stream, answers, stored>>

\* The process ends, by itself or not, with everything it held in memory.
Vanish(p) ==
  /\ power' = [power EXCEPT ![p] = "down"]
  /\ task' = [j \in Jobs |-> IF task[j].pod = p THEN NoTask ELSE task[j]]
  /\ req' = [r \in Requests |-> IF req[r].pod = p THEN NoRequest ELSE req[r]]
  /\ asked' = {x \in asked : x[1] # p}
  /\ stream' = [c \in Streams |-> IF stream[c].pod = p /\ stream[c].pc # "new"
                                    THEN [stream[c] EXCEPT !.pc = "closed"] ELSE stream[c]]
  /\ UNCHANGED <<job, key, edit, answers, stored>>

Exit(p) == power[p] = "stopping" /\ Vanish(p) /\ UNCHANGED used

Crash(p) ==
  /\ power[p] = "up"
  /\ used.stops < MaxStops
  /\ used' = [used EXCEPT !.stops = @ + 1]
  /\ Vanish(p)

\* ShouldRecoverInterrupted and RecoverInterrupted: only a server pod sweeps.
Restart(p) ==
  /\ power[p] = "down"
  /\ power' = [power EXCEPT ![p] = "up"]
  /\ \/ /\ job' = IF p \in ServerPods THEN [j \in Jobs |-> MarkStaleFailed(job[j])] ELSE job
        /\ UNCHANGED used
     \/ Fault /\ UNCHANGED job
  /\ UNCHANGED <<task, req, asked, key, edit, stream, answers, stored>>

-----------------------------------------------------------------------------
RequestStep(r) ==
  \/ SubmitCheck(r) \/ SubmitRefused(r) \/ StartJob(r)
  \/ \E j \in Jobs : SubmitCreate(r, j)

RunStep(j) ==
  \/ RunStarts(j) \/ FetchLookups(j) \/ FailLookups(j) \/ ImportDay(j)
  \/ WriteProgress(j) \/ FinishRun(j) \/ FinishCancelled(j) \/ ApplyKeyOutcome(j)

CancelStep(p, j) == ImportJobCancel(p, j) \/ CancelDurably(p, j)

KeyStep(o) ==
  \/ \E k \in Keys : ProbeKey(o, k)
  \/ SaveWakatimeKey(o) \/ DeleteWakatimeKey(o)

StreamStep(c) ==
  \/ \E p \in Pods, j \in Jobs : StreamLoad(c, p, j)
  \/ StreamSubscribe(c) \/ StreamSnapshot(c) \/ StreamDeliver(c) \/ StreamLeave(c)

PodStep(p) == Shutdown(p) \/ Exit(p) \/ Crash(p) \/ Restart(p)

Next ==
  \/ \E r \in Requests, p \in Pods, o \in Owners : SubmitSweep(r, p, o)
  \/ \E r \in Requests : RequestStep(r)
  \/ \E j \in Jobs : RunStep(j)
  \/ \E p \in Pods, j \in Jobs : CancelStep(p, j)
  \/ \E o \in Owners : KeyStep(o)
  \/ \E c \in Streams : StreamStep(c)
  \/ \E p \in Pods : PodStep(p)
  \/ Tick

Spec == Init /\ [][Next]_vars

(***************************************************************************)
(* Fairness.  A goroutine that was started goes on, a request that was     *)
(* accepted is served, time passes.  Nothing is assumed of users, of pods  *)
(* (a pod that is down may stay down) or of streams.                       *)
(***************************************************************************)
Fairness ==
  /\ \A r \in Requests : WF_vars(RequestStep(r))
  /\ \A j \in Jobs : WF_vars(RunStep(j))
  /\ \A p \in Pods, j \in Jobs : WF_vars(CancelDurably(p, j))
  /\ WF_vars(Tick)

FairSpec == Spec /\ Fairness

-----------------------------------------------------------------------------
(* Properties.                                                             *)

\* The lease is long enough (importjobs.go, ImportJobStaleAfter: "a healthy
\* import refreshes the lease well inside this window"): the row of a live run
\* never looks abandoned, whatever the timing of its requests.
LiveRunsAreFresh == \A j \in Jobs : Live(j) => ~ Expired(job[j])

\* No sweep - a boot of another pod, the owner's next POST /import - fails the
\* row of a live run: only the run itself does (importjobs.go,
\* MarkStaleJobsFailed).
SweepsSpareLiveRuns ==
  [][\A j \in Jobs :
       Live(j) /\ IsActive(job[j]) /\ job'[j].state = "failed"
         => task'[j].pc # task[j].pc]_vars

\* completed is said only of a run that got at least one day in (importer.go:
\* a run where every day errored is not a success), also when the row was
\* swept, cancelled and rewritten in between.
CompletedMeansImported ==
  \A j \in Jobs : job[j].state = "completed" => job[j].days = 0 \/ stored[j] > 0

\* Run j proved key k: one of its calls was accepted with k, and none of the run's calls,
\* on the look-ups or on any day, was answered 401.
Proved(j, k) ==
  /\ <<j, k, TRUE>> \in answers
  /\ \A t \in Keys \cup {NoKey} : <<j, t, FALSE>> \notin answers

\* What the run of j may make of its owner's key: valid, and its own, if it proved
\* one end to end, and invalid if it was answered 401.
Earned(j, old, new) ==
  \/ /\ new.status = "valid"
     /\ \E k \in Keys \cup {NoKey} : Proved(j, k) /\ new.saved \in {old.saved, k}
  \/ /\ new.status = "invalid" /\ new.saved = old.saved
     /\ \E k \in Keys \cup {NoKey} : <<j, k, FALSE>> \in answers

\* But for its owner's edits, a key is saved and judged only by a run that earned
\* it (importer.go, applyKeyOutcome): one accepted day does not make up for a 401
\* on another, nor another run's success, or a probe's, for this run's 401.
KeyOutcomesAreEarned ==
  [][\A o \in Owners :
       key'[o] # key[o] /\ key'[o].saved # NoKey /\ edit'[o] = edit[o]
         => \E j \in Jobs : /\ job[j].owner = o /\ Earned(j, key[o], key'[o])
                            /\ task[j].pc = "key" /\ task'[j].pc # "key"]_vars

\* A client is told that its import has ended only when the row says so: a
\* terminal event in a subscriber's channel is true, and stays true
\* (importer.go, publishJob's nil check; hub.go).
TerminalEventsAreTrue ==
  \A c \in Streams : \A i \in DOMAIN stream[c].chan :
    stream[c].chan[i] = "terminal" => job[stream[c].job].state \in TerminalStates

\* A user who keeps trying is not locked out for good: rows left behind by a
\* pod that died or stopped, even if it never comes back, or by a lost answer are
\* reclaimed by the sweep of POST /import on whichever pod serves it
\* (admin/import.go).
Submits(o) == \E r \in Requests, p \in Pods : SubmitSweep(r, p, o)

OwnerIsUnblocked ==
  \A o \in Owners : ([]<><<Submits(o)>>_vars) => []<>(Active(o) = {})
=============================================================================
