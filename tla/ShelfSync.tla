----------------------------- MODULE ShelfSync -----------------------------
(***************************************************************************)
(* The two-way sync of one book with the reader's Hardcover shelf          *)
(* (internal/books/connect/hardcover: curation_push.go, sync.go, push.go,  *)
(* pull.go; the PATCH of internal/books/api/books_curation.go; the finish  *)
(* and progress pushes of internal/books/ingest/audible).  The pushers and *)
(* the pull belong to jobs of different kinds, so each runs once at a time *)
(* and all of them run beside each other and beside the reader, who edits  *)
(* on both sides.                                                          *)
(*                                                                         *)
(* Hardcover is external: `shelf` is the user_book it keeps for the book,  *)
(* Absent while the book is on no shelf, and it stamps every write.  The   *)
(* two clocks agree.  Timestamps are only compared, so after every step    *)
(* they are replaced by their ranks; whether more than hardcoverEchoSkew   *)
(* lies between two of them is open.  `reads` counts the reads with a      *)
(* finish date that we have inserted.                                      *)
(***************************************************************************)
EXTENDS ReadingStore, FiniteSets

CONSTANTS Statuses,   \* what the reader chooses from
          MaxEdits,   \* edits and finishes of the reader
          MaxPct,     \* steps of progress the library sweep may see
          MaxFaults,  \* failing statements and requests, dying processes
          MaxEvents   \* all three together

ASSUME ShelfAssumption ==
  /\ Statuses \subseteq CurationStatuses
  /\ MaxEdits \in Nat /\ MaxPct \in Nat /\ MaxFaults \in Nat
  /\ MaxEvents \in Nat

VARIABLES item,    \* the row of reading_items
          shelf,   \* Hardcover's user_book
          reads,   \* user_book_reads inserted by us
          dry,     \* BOOM_HARDCOVER_DRYRUN of this process
          queue,   \* [Pushers -> pushes waiting]
          pusher,  \* [Pushers -> the push that runs]
          pull,    \* the pull that runs
          inProgress, \* the percent the progress push has listed; 0 if it does not run
          edits, faults,
          latest   \* history: what was decided here, if it was the last decision;
                   \* Unclear once jobs overlapped or a write of ours has no stamp

vars == <<item, shelf, reads, dry, queue, pusher, pull, inProgress, edits,
          faults, latest>>

Pushers == {"curation", "finish"}
Absent == [status |-> NoStatus, at |-> 0]
Idle == [at |-> "idle", status |-> NoStatus, dated |-> FALSE, readId |-> 0]
NoPull == [at |-> "idle", snap |-> Absent, list |-> NoStatus]

Here(s) == [who |-> "here", status |-> s]
Elsewhere == [who |-> "there", status |-> NoStatus]
Unclear == [who |-> "unclear", status |-> NoStatus]
Decided(d) == latest' = IF latest = Unclear THEN Unclear ELSE d
Blurred(b) == latest' = IF b THEN Unclear ELSE latest

Busy ==
  \/ \E p \in Pushers : pusher[p].at # "idle"
  \/ pull.at # "idle"
  \/ inProgress # 0

\* The next instant: later than every rank.
Now == 5

\* The row, the shelf and the pull after a step, their times ranked.
Ranked(i, s, q) ==
  LET times == {i.cur, i.pushedAt, s.at, q.snap.at} \ {0}
      Rank(t) == Cardinality({u \in times : u <= t})
  IN  /\ item' = [i EXCEPT !.cur = Rank(@), !.pushedAt = Rank(@)]
      /\ shelf' = [s EXCEPT !.at = Rank(@)]
      /\ pull' = [q EXCEPT !.snap.at = Rank(@)]

\* Mutant: the time of our write is not kept.
Recorded_NoClock(p) ==
  SetReadingItemPushed_NoClock(SetReadingItemPushedReadID(item, pusher[p].readId),
                               pusher[p].status, Now)

\* Mutant: the id of an earlier read is not looked at.
Inserts_Always(p) == pusher[p].dated

\* Mutant: the pull pushes nothing back.
ListDiverged_Never ==
  /\ pull.at = "reconciled"
  /\ Ranked(item, shelf, NoPull)
  /\ UNCHANGED <<reads, dry, queue, pusher, inProgress, edits, faults, latest>>

\* ----- the reader

Room == edits + item.pct + faults < MaxEvents
Edited == edits < MaxEdits /\ Room /\ edits' = edits + 1
Fails == faults < MaxFaults /\ Room /\ faults' = faults + 1

\* SetBookCuration: the override, then the push job, which may not be queued.
SetBookCuration(s) ==
  /\ Edited
  /\ Ranked(SetReadingItemCuration(item, s, Now), shelf, pull)
  /\ Decided(Here(s))
  /\ \/ queue' = [queue EXCEPT !["curation"] = @ + 1] /\ UNCHANGED faults
     \/ Fails /\ UNCHANGED queue
  /\ UNCHANGED <<reads, dry, pusher, inProgress>>

EditOnHardcover(s) ==
  /\ Edited
  /\ Ranked(item, [status |-> s, at |-> Now], pull)
  /\ Decided(Elsewhere)
  /\ UNCHANGED <<reads, dry, queue, pusher, inProgress, faults>>

\* The finished sweep meets a finish it has not seen: announceFinished queues
\* the push of it.
Finish ==
  /\ ~item.finished
  /\ Edited
  /\ LET after == MarkReadingItemFinished(item, Now)
     IN  /\ Ranked(after, shelf, pull)
         /\ Decided(IF after.cur = Now THEN Here("read") ELSE latest)
  /\ queue' = [queue EXCEPT !["finish"] = @ + 1]
  /\ UNCHANGED <<reads, dry, pusher, inProgress, faults>>

\* The library sweep of a book that is being read.
Progress ==
  /\ ~item.finished /\ item.pct < MaxPct /\ Room
  /\ item' = UpsertReadingItem(item, "reading", item.pct + 1, FALSE)
  /\ UNCHANGED <<shelf, reads, dry, queue, pusher, pull, inProgress, edits, faults,
                 latest>>

\* ----- a push

Taken(p) ==
  /\ pusher[p].at = "idle" /\ queue[p] > 0
  /\ queue' = [queue EXCEPT ![p] = @ - 1]
  /\ Blurred(Busy)

\* What a push carries, unless dry-run ends it here.  PushCuration reads the
\* row; RunHardcoverPush pushes "read" whatever the row says.
Loaded(p) ==
  pusher' = IF dry THEN pusher
            ELSE [pusher EXCEPT ![p] =
              [at |-> "loaded",
               status |-> IF p = "finish" THEN "read" ELSE EffectiveStatus(item),
               dated |-> p = "finish" \/ item.finished,
               readId |-> item.readId]]

\* The row is read; the finish push runs Match again, which may find nothing.
Load(p) ==
  /\ Taken(p)
  /\ item.linked
  /\ Loaded(p) \/ (p = "finish" /\ UNCHANGED pusher)
  /\ UNCHANGED <<item, shelf, reads, dry, pull, inProgress, edits, faults>>

\* The row has no link yet: Match finds the book and PushCuration stores the
\* link, or it finds nothing and the push ends.
LoadUnlinked(p) ==
  /\ Taken(p)
  /\ ~item.linked
  /\ \/ /\ item' = IF p = "curation" THEN SetReadingItemHardcoverLink(item) ELSE item
        /\ Loaded(p)
     \/ UNCHANGED <<item, pusher>>
  /\ UNCHANGED <<shelf, reads, dry, pull, inProgress, edits, faults>>

\* UpsertUserBookCuration, UpsertUserBook.  RunHardcoverPush looks the cached
\* read id up only after it.
Write(p) ==
  /\ pusher[p].at = "loaded"
  /\ Ranked(item, [status |-> pusher[p].status, at |-> Now], pull)
  /\ pusher' = [pusher EXCEPT ![p].at = "written",
                              ![p].readId = IF p = "finish" THEN item.readId ELSE @]
  /\ UNCHANGED <<reads, dry, queue, inProgress, edits, faults, latest>>

\* UpsertRead inserts a read only if no id of one is known.
Inserts(p) == pusher[p].dated /\ pusher[p].readId = 0

UpsertRead(p) ==
  /\ pusher[p].at = "written"
  /\ reads' = IF Inserts(p) THEN reads + 1 ELSE reads
  /\ pusher' = [pusher EXCEPT ![p].at = "dated",
                              ![p].readId = IF Inserts(p) THEN reads + 1 ELSE @]
  /\ UNCHANGED <<item, shelf, dry, queue, pull, inProgress, edits, faults, latest>>

\* The bookkeeping at the end of PushCuration; recordFinishPush.
Recorded(p) ==
  SetReadingItemPushed(SetReadingItemPushedReadID(item, pusher[p].readId),
                       pusher[p].status, Now)

Record(p) ==
  /\ pusher[p].at = "dated"
  /\ Ranked(Recorded(p), shelf, pull)
  /\ pusher' = [pusher EXCEPT ![p] = Idle]
  /\ UNCHANGED <<reads, dry, queue, inProgress, edits, faults, latest>>

\* A request or statement fails or the process dies.  The job is tried again
\* unless its attempts are used up; a failing bookkeeping statement is only
\* logged, so the job is done.
PushFails(p) ==
  /\ pusher[p].at # "idle"
  /\ Fails
  /\ pusher' = [pusher EXCEPT ![p] = Idle]
  /\ queue' \in {queue, [queue EXCEPT ![p] = @ + 1]}
  /\ Blurred(pusher[p].at # "loaded")
  /\ UNCHANGED <<item, shelf, reads, dry, pull, inProgress, edits>>

\* syncInProgressToHardcover at the end of an Audible sync: a linked row whose
\* percent moved is put on the shelf as "reading" with a new read, and only
\* the percent is recorded.  The rows are listed first and pushed one by one.
ListInProgress ==
  /\ inProgress = 0
  /\ EffectiveStatus(item) = "reading" /\ item.linked /\ ~dry
  /\ item.pct # 0 /\ ~item.finished /\ item.pct # item.pushedPct
  /\ inProgress' = item.pct
  /\ Blurred(Busy)
  /\ UNCHANGED <<item, shelf, reads, dry, queue, pusher, pull, edits, faults>>

PushProgressMatched ==
  /\ inProgress # 0
  /\ Ranked(SetReadingItemPushedProgress(item, inProgress),
            [status |-> "reading", at |-> Now], pull)
  /\ inProgress' = 0
  /\ Blurred(TRUE)
  /\ UNCHANGED <<reads, dry, queue, pusher, edits, faults>>

\* ----- the pull

\* Me and UserBooks.
Fetch ==
  /\ pull.at = "idle"
  /\ pull' = [NoPull EXCEPT !.at = "fetched", !.snap = shelf]
  /\ Blurred(Busy)
  /\ UNCHANGED <<item, shelf, reads, dry, queue, pusher, inProgress, edits, faults>>

\* UpdateHardcoverLinkFromPull of the entry, if the shelf has one.
Reconcile ==
  /\ pull.at = "fetched"
  /\ \E past \in BOOLEAN :
       Ranked(IF pull.snap = Absent THEN item
              ELSE UpdateHardcoverLinkFromPull(item, pull.snap, past),
              shelf, [NoPull EXCEPT !.at = "reconciled"])
  /\ UNCHANGED <<reads, dry, queue, pusher, inProgress, edits, faults, latest>>

\* PushDivergedToHardcover reads its work-list and stops if there is none.
ListDiverged ==
  /\ pull.at = "reconciled"
  /\ pull' = IF Diverged(item) /\ ~dry
             THEN [pull EXCEPT !.at = "listed", !.list = EffectiveStatus(item)]
             ELSE NoPull
  /\ UNCHANGED <<item, shelf, reads, dry, queue, pusher, inProgress, edits, faults,
                 latest>>

BulkUpsert ==
  /\ pull.at = "listed"
  /\ Ranked(item, [status |-> pull.list, at |-> Now],
            [pull EXCEPT !.at = "written"])
  /\ UNCHANGED <<reads, dry, queue, pusher, inProgress, edits, faults, latest>>

Mirror ==
  /\ pull.at = "written"
  /\ Ranked(SetReadingItemPushed(item, pull.list, Now), shelf, NoPull)
  /\ UNCHANGED <<reads, dry, queue, pusher, inProgress, edits, faults, latest>>

\* A failing fetch or bulk request ends the run, a failing reconcile or stamp
\* skips the book, a dying process does both; the schedule runs the pull again.
PullFails ==
  /\ pull.at # "idle"
  /\ Fails
  /\ Ranked(item, shelf,
            IF pull.at = "fetched" THEN [NoPull EXCEPT !.at = "reconciled"] ELSE NoPull)
  /\ Blurred(pull.at = "written")
  /\ UNCHANGED <<reads, dry, queue, pusher, inProgress, edits>>

\* The match sweep links the row (SyncService.MatchUnmatched).
Link ==
  /\ ~item.linked
  /\ item' = SetReadingItemHardcoverLink(item)
  /\ UNCHANGED <<shelf, reads, dry, queue, pusher, pull, inProgress, edits, faults,
                 latest>>

-----------------------------------------------------------------------------
Init ==
  /\ item \in {NewItem, [NewItem EXCEPT !.linked = TRUE]}
  /\ shelf \in {Absent, [status |-> "want", at |-> 1]}
  /\ reads = 0
  /\ dry \in BOOLEAN
  /\ queue = [p \in Pushers |-> 0]
  /\ pusher = [p \in Pushers |-> Idle]
  /\ pull = NoPull
  /\ inProgress = 0
  /\ edits = 0 /\ faults = 0
  /\ latest = Elsewhere

PushNext(p) ==
  Load(p) \/ LoadUnlinked(p) \/ Write(p) \/ UpsertRead(p) \/ Record(p) \/ PushFails(p)

PullNext == Fetch \/ Reconcile \/ ListDiverged \/ BulkUpsert \/ Mirror \/ PullFails

Next ==
  \/ \E s \in Statuses \union {NoStatus} : SetBookCuration(s)
  \/ \E s \in Statuses : EditOnHardcover(s)
  \/ Finish \/ Progress \/ Link
  \/ \E p \in Pushers : PushNext(p)
  \/ ListInProgress \/ PushProgressMatched
  \/ PullNext

Spec == Init /\ [][Next]_vars

\* The queue runs what is queued, the schedule starts pulls for ever and the
\* match sweep reaches every row; handlers do not hang (a client timeout ends
\* every request).
Fairness ==
  /\ \A p \in Pushers : WF_vars(Load(p) \/ LoadUnlinked(p) \/ Write(p) \/ UpsertRead(p)
                                \/ Record(p))
  /\ WF_vars(Fetch \/ Reconcile \/ ListDiverged \/ BulkUpsert \/ Mirror)
  /\ WF_vars(Link) /\ WF_vars(PushProgressMatched)

FairSpec == Spec /\ Fairness

-----------------------------------------------------------------------------
\* What the reader chose here, or Amazon reported as a finish, stays the
\* override until something later is decided on Hardcover: no push, however
\* late it reads the row, and no pull turns an older value of ours into a newer
\* edit, as long as jobs took turns and every write of ours was recorded
\* (SetReadingItemPushed).
LocalEditStands ==
  latest.who = "here" => item.over = latest.status

\* Finishing a book leaves one read on Hardcover, whichever of the two pushes
\* comes first and however often they are repeated (the cached read id).
OneReadPerFinish == latest # Unclear => reads <= 1

\* When the reader stops, the shelf and the row agree in the end, whatever
\* overlapped and failed before, for a book that is on the shelf.
Agreed == shelf.status = EffectiveStatus(item)
Converges == <>[](dry \/ shelf = Absent \/ Agreed)
=============================================================================
