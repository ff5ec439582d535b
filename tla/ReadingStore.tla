---------------------------- MODULE ReadingStore ----------------------------
(***************************************************************************)
(* One row of `reading_items` (internal/shared/db/reading_items.go) and    *)
(* the statements on it.  The derived layer (status, finished, progress)   *)
(* belongs to Amazon and is rewritten by every sync; the override layer is *)
(* the reader's own, kept beside the time of its last change.  Rating and  *)
(* finish date of the override pass the gates of the status and are left   *)
(* out, as is what only describes the book.                                *)
(*                                                                         *)
(* Times are natural numbers and 0 is NULL.                                *)
(***************************************************************************)
EXTENDS Naturals

\* Mutant: the status of a push is stored without its time.
SetReadingItemPushed_NoClock(it, status, t) ==
  [it EXCEPT !.pushedStatus = status, !.mirror = status]

\* ----- the row

NoStatus == "null"
CurationStatuses == {"want", "reading", "read", "paused", "dnf"}

\* What the first library sync inserts for a book nobody has opened.
NewItem ==
  [status |-> "want", finished |-> FALSE, pct |-> 0, over |-> NoStatus,
   cur |-> 0, linked |-> FALSE, mirror |-> NoStatus, pushedAt |-> 0,
   pushedStatus |-> NoStatus, pushedPct |-> 0, readId |-> 0]

EffectiveStatus(it) == IF it.over # NoStatus THEN it.over ELSE it.status

\* ON CONFLICT of a sync that knows the progress.
UpsertReadingItem(it, status, pct, finished) ==
  [it EXCEPT !.status = status, !.pct = pct, !.finished = finished]

\* MarkReadingItemFinished and SetReadingItemFinishedFromInsights: the first
\* finish is promoted into the override layer.
MarkReadingItemFinished(it, t) ==
  LET promoted == ~it.finished /\ EffectiveStatus(it) # "read"
  IN  [it EXCEPT !.finished = TRUE, !.status = "read",
                 !.over = IF promoted THEN "read" ELSE @,
                 !.cur = IF promoted THEN t ELSE @]

\* The PATCH; NoStatus clears the override.
SetReadingItemCuration(it, status, t) == [it EXCEPT !.over = status, !.cur = t]

SetReadingItemHardcoverLink(it) == [it EXCEPT !.linked = TRUE]

SetReadingItemPushedReadID(it, id) == IF id = 0 THEN it ELSE [it EXCEPT !.readId = id]

SetReadingItemPushedProgress(it, pct) == [it EXCEPT !.pushedPct = pct]

SetReadingItemPushed(it, status, t) ==
  [it EXCEPT !.pushedAt = t, !.pushedStatus = status, !.mirror = status]

\* ListDivergedHardcoverItems.
Diverged(it) ==
  it.linked /\ it.mirror # NoStatus /\ it.mirror # EffectiveStatus(it)

\* hardcoverAdoptGate: newer than the override and not our own write again.
\* `past`: it is later than our last push by more than hardcoverEchoSkew.
AdoptGate(it, link, past) ==
  /\ link.at > it.cur
  /\ (link.at > it.pushedAt /\ past) \/ link.status # it.pushedStatus

UpdateHardcoverLinkFromPull(it, link, past) ==
  IF ~it.linked THEN it
  ELSE LET seen == [it EXCEPT !.mirror = link.status]
       IN  IF AdoptGate(it, link, past)
           THEN [seen EXCEPT !.over = link.status, !.cur = link.at]
           ELSE seen
=============================================================================
