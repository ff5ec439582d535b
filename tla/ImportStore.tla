----------------------------- MODULE ImportStore -----------------------------
(***************************************************************************)
(* The rows the importer shares with the rest of the program: import_jobs  *)
(* (internal/shared/db/importjobs.go) and the saved wakatime.com key of a  *)
(* user (internal/shared/db/wakatime_key.go).  As in JobStore, a statement *)
(* is a function from a row to the row it leaves behind.                   *)
(*                                                                         *)
(* Unlike the statements of the job queue, MarkJobRunning, the progress    *)
(* write and FinishImportJob look at nothing but the id.  Only CancelJob   *)
(* and the sweep ask for a state.                                          *)
(*                                                                         *)
(* `age` is now() - updated_at in ticks of one minute.  It is only kept    *)
(* for rows the sweep looks at.  Dates, counters, log lines and drift      *)
(* findings decide nothing and are left out.                               *)
(***************************************************************************)
EXTENDS Integers

CONSTANTS Owners, Keys, NoKey,
          Lease    \* ImportJobStaleAfter, in ticks

ASSUME StoreAssumption ==
  /\ NoKey \notin Keys
  /\ Lease \in Nat

ActiveStates == {"queued", "running"}
TerminalStates == {"completed", "failed", "cancelled"}

\* "absent" is an id that has not been handed out; its owner means nothing.
ImportRow == [state: {"absent"} \cup ActiveStates \cup TerminalStates,
              owner: Owners, days: Nat, age: Nat]

IsActive(r) == r.state \in ActiveStates

CreateImportJob(owner, days) ==
  [state |-> "queued", owner |-> owner, days |-> days, age |-> 0]

MarkJobRunning(r) == [r EXCEPT !.state = "running", !.age = 0]

\* Mutated form of UpdateJobProgress: updated_at keeps its value.
UpdateJobProgress_NoTouch(r) == r

UpdateJobProgress(r) == [r EXCEPT !.age = 0]

FinishImportJob(r, state) == [r EXCEPT !.state = state, !.age = 0]

CancelJob(r) ==
  IF IsActive(r) THEN [r EXCEPT !.state = "cancelled", !.age = 0] ELSE r

\* Mutated form of Expired: a row that never ran is not looked at.
Expired_RunningOnly(r) == r.state = "running" /\ r.age > Lease

Expired(r) == IsActive(r) /\ r.age > Lease

\* Mutated form of MarkStaleFailed: the sweep does not ask for the lease.
MarkStaleFailed_Blunt(r) ==
  IF IsActive(r) THEN [r EXCEPT !.state = "failed", !.age = 0] ELSE r

\* MarkStaleJobsFailed, on one row of its scope.
MarkStaleFailed(r) ==
  IF Expired(r) THEN [r EXCEPT !.state = "failed", !.age = 0] ELSE r

-----------------------------------------------------------------------------
(* The saved key of a user and its status.                                 *)

KeyRow == [saved: Keys \cup {NoKey},
           status: {"none", "valid", "invalid", "unknown"}]

ClearEncryptedWakatimeKey == [saved |-> NoKey, status |-> "none"]

SetEncryptedWakatimeKey(k, status) == [saved |-> k, status |-> status]

\* A no-op for a user without a key; otherwise the status goes to whichever key
\* is saved now.
UpdateWakatimeKeyStatus(r, status) ==
  IF r.saved = NoKey THEN r ELSE [r EXCEPT !.status = status]
=============================================================================
