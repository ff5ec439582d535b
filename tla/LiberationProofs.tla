-------------------------- MODULE LiberationProofs --------------------------
(***************************************************************************)
(* Liberation for any number of titles, runs, queued jobs, deletions and   *)
(* interruptions.                                                          *)
(*                                                                         *)
(* Two layers.  OpenFiles says who may still be writing: a file that is    *)
(* open belongs to a run that is copying, and holds as many chunks as that *)
(* run has copied, wherever it has been renamed to.  It holds also when    *)
(* commits to one path overlap, and bounds the size of every file.  The    *)
(* invariants of the properties come on top of it: CommitsApart is what    *)
(* LiberatedIsWhole rests on, the path of a committing run is its alone.   *)
(***************************************************************************)
EXTENDS Liberation, TLAPS

OpenFile(f) ==
  \A r \in Runs : f.by = r => run[r].at = "copying" /\ f.chunks = run[r].copied

OpenFiles == \A p \in Paths : OpenFile(file[p]) /\ OpenFile(partial[p])

\* An idle run has no title, a working one has; a path is there from the
\* moment it is resolved; nothing is copied before the .partial is there.
RunShape(t) ==
  /\ t.at = "idle" <=> t.book = Nobody
  /\ t.at \in Committing => t.path \in Paths
  /\ t.at \in InFlight \union {"idle", "resolved", "cleared"} => t.copied = 0

Typed == LiberationTypeOK /\ OpenFiles /\ \A r \in Runs : RunShape(run[r])

-----------------------------------------------------------------------------
(* What the statements and the helpers return.                             *)

\* The statements of store.go keep a row within its columns.
LEMMA StatementTypes ==
  ASSUME NEW it \in LiberationColumns
  PROVE  /\ \A s \in TitleStatus :
              /\ SetStatus(it, s) \in LiberationColumns
              /\ SetStatus(it, s).status = s /\ SetStatus(it, s).path = it.path
              /\ MarkFailed(it, s) \in LiberationColumns
              /\ MarkFailed(it, s).status = s /\ MarkFailed(it, s).path = it.path
         /\ \A p \in Paths, z \in Size : MarkLiberated(it, p, z) \in LiberationColumns
         /\ MarkInterrupted(it) \in LiberationColumns
         /\ MarkInterrupted(it).status = "failed" /\ MarkInterrupted(it).path = it.path
<1>1. ASSUME NEW s \in TitleStatus
      PROVE  /\ SetStatus(it, s) \in LiberationColumns
             /\ SetStatus(it, s).status = s /\ SetStatus(it, s).path = it.path
  BY DEF SetStatus, LiberationColumns
<1>2. ASSUME NEW s \in TitleStatus
      PROVE  /\ MarkFailed(it, s) \in LiberationColumns
             /\ MarkFailed(it, s).status = s /\ MarkFailed(it, s).path = it.path
  <2> DEFINE n == IF it.attempts < MaxAutoAttempts THEN it.attempts + 1 ELSE it.attempts
  <2>1. n \in 0 .. MaxAutoAttempts
    BY LiberationAssumption DEF LiberationColumns
  <2>2. MarkFailed(it, s) = [it EXCEPT !.status = s, !.attempts = n]
    BY DEF MarkFailed, LiberationColumns
  <2> HIDE DEF n
  <2> QED BY <2>1, <2>2 DEF LiberationColumns
<1>3. ASSUME NEW p \in Paths, NEW z \in Size
      PROVE  MarkLiberated(it, p, z) \in LiberationColumns
  BY LiberationAssumption DEF MarkLiberated, LiberationColumns, TitleStatus
<1>4. /\ MarkInterrupted(it) \in LiberationColumns
      /\ MarkInterrupted(it).status = "failed" /\ MarkInterrupted(it).path = it.path
  BY DEF MarkInterrupted, LiberationColumns, TitleStatus
<1> QED BY <1>1, <1>2, <1>3, <1>4

\* The null records have their types.
LEMMA NullTypes ==
  /\ Untouched \in LiberationColumns
  /\ NoRun \in LiberationRun /\ RunShape(NoRun)
  /\ NoFile \in File /\ NoSize \in Size
  /\ NoPath \notin Paths
<1>1. Untouched \in LiberationColumns
  BY LiberationAssumption
     DEF Untouched, LiberationColumns, TitleStatus, NoSize, Size, Whole
<1>2. NoRun \in LiberationRun
  BY DEF NoRun, LiberationRun, NoSize, Size, Whole
<1>3. RunShape(NoRun)
  BY DEF NoRun, RunShape, Committing
<1>4. NoFile \in File /\ NoSize \in Size
  BY DEF NoFile, File, NoSize, Size, Whole
<1>5. NoPath \notin Paths
  BY NullsAssumption DEF NoPath, Paths, Rendered
<1> QED BY <1>1, <1>2, <1>3, <1>4, <1>5

\* Closing the files of a run changes nothing else about them, and leaves none
\* of them open by it.
LEMMA ClosedFacts ==
  ASSUME NEW files \in [Paths -> File], NEW r \in Runs
  PROVE  /\ Closed(files, r) \in [Paths -> File]
         /\ \A p \in Paths :
              /\ Closed(files, r)[p].by # r
              /\ SizeOf(Closed(files, r)[p]) = SizeOf(files[p])
              /\ files[p].by # r => Closed(files, r)[p] = files[p]
              /\ \A q \in Runs \ {r} : Closed(files, r)[p].by = q => files[p].by = q
<1> DEFINE g == Closed(files, r)
<1>1. ASSUME NEW p \in Paths
      PROVE  /\ g[p] \in File /\ g[p].by # r /\ SizeOf(g[p]) = SizeOf(files[p])
             /\ files[p].by # r => g[p] = files[p]
             /\ \A q \in Runs \ {r} : g[p].by = q => files[p].by = q
  <2>1. files[p] \in File /\ r # Nobody
    BY NullsAssumption
  <2>2. g[p] = IF files[p].by = r THEN [files[p] EXCEPT !.by = Nobody] ELSE files[p]
    BY DEF Closed
  <2>3. CASE files[p].by = r
    BY <2>1, <2>2, <2>3, NullsAssumption DEF File, SizeOf
  <2>4. CASE files[p].by # r
    BY <2>1, <2>2, <2>4
  <2> QED BY <2>3, <2>4
<1>2. g \in [Paths -> File]
  BY <1>1 DEF Closed
<1> QED BY <1>1, <1>2

\* A chunk is added to the files the run has open and to no other.
LEMMA GrownFacts ==
  ASSUME NEW files \in [Paths -> File], NEW r \in Runs, NEW n \in 0 .. Whole, n < Whole,
         \A p \in Paths : files[p].by = r => files[p].chunks = n
  PROVE  /\ Grown(files, r) \in [Paths -> File]
         /\ \A p \in Paths :
              /\ Grown(files, r)[p].by = files[p].by
              /\ Grown(files, r)[p].book = files[p].book
              /\ files[p].by = r => Grown(files, r)[p].chunks = n + 1
              /\ files[p].by # r => Grown(files, r)[p] = files[p]
<1> DEFINE g == Grown(files, r)
           m == n + 1
<1>1. m \in 0 .. Whole
  BY DEF Whole
<1>2. ASSUME NEW p \in Paths
      PROVE  /\ g[p] \in File /\ g[p].by = files[p].by /\ g[p].book = files[p].book
             /\ files[p].by = r => g[p].chunks = m
             /\ files[p].by # r => g[p] = files[p]
  <2>1. files[p] \in File
    OBVIOUS
  <2>2. g[p] = IF files[p].by = r THEN [files[p] EXCEPT !.chunks = m] ELSE files[p]
    BY DEF Grown
  <2> HIDE DEF m, g
  <2> QED BY <1>1, <2>1, <2>2 DEF File
<1>3. g \in [Paths -> File]
  BY <1>2 DEF Grown
<1> QED BY <1>2, <1>3

-----------------------------------------------------------------------------
(* Types.                                                                  *)

\* A working run has a title.
LEMMA WorkingRun ==
  ASSUME Typed, NEW r \in Runs
  PROVE  /\ run[r] \in LiberationRun /\ RunShape(run[r])
         /\ run[r].at # "idle" => run[r].book \in Titles
         /\ run[r].at \in Committing => run[r].at # "idle" /\ run[r].path \in Paths
         /\ run[r].at \in InFlight => run[r].at # "idle"
BY DEF Typed, LiberationTypeOK, RunShape, LiberationRun, InFlight, Committing

\* The files are open by runs that copy them, once the record of `r` is `t`.
OpenBy(files, r, t) ==
  \A p \in Paths :
    /\ files[p].by = r => t.at = "copying" /\ files[p].chunks = t.copied
    /\ \A q \in Runs \ {r} :
         files[p].by = q => run[q].at = "copying" /\ files[p].chunks = run[q].copied

\* A step that changes the record of one run to `t` keeps the types if what it
\* writes has its type and every file that is open afterwards is open by a run
\* that copies it.
LEMMA TypedStep ==
  ASSUME Typed, NEW r \in Runs, NEW t \in LiberationRun, RunShape(t),
         run' = [run EXCEPT ![r] = t],
         title' \in [Titles -> LiberationColumns],
         file' \in [Paths -> File], partial' \in [Paths -> File],
         waiting' \subseteq Titles \X BOOLEAN,
         denied' \union stranded' \subseteq Titles,
         OpenBy(file', r, t), OpenBy(partial', r, t)
  PROVE  Typed'
<1>1. run' \in [Runs -> LiberationRun] /\ run'[r] = t /\ \A q \in Runs \ {r} : run'[q] = run[q]
  BY DEF Typed, LiberationTypeOK
<1>2. LiberationTypeOK'
  BY <1>1 DEF LiberationTypeOK
<1>3. \A q \in Runs : RunShape(run[q])'
  BY <1>1 DEF Typed, RunShape, Committing, InFlight, Paths, Rendered, Nobody
<1>4. OpenFiles'
  BY <1>1 DEF OpenFiles, OpenFile, OpenBy
<1> QED BY <1>2, <1>3, <1>4 DEF Typed

\* What a step leaves alone about files it has not opened or closed.
LEMMA OpenBefore ==
  ASSUME Typed, NEW p \in Paths, NEW q \in Runs
  PROVE  /\ file[p].by = q => run[q].at = "copying" /\ file[p].chunks = run[q].copied
         /\ partial[p].by = q => run[q].at = "copying" /\ partial[p].chunks = run[q].copied
BY DEF Typed, OpenFiles, OpenFile

\* A run that fails says so in the row of its title and touches no other row.
LEMMA FailsFacts ==
  ASSUME Typed, NEW r \in Runs, run[r].at # "idle", NEW s \in TitleStatus, Fails(r, s)
  PROVE  /\ title' \in [Titles -> LiberationColumns]
         /\ run' = [run EXCEPT ![r] = NoRun]
         /\ title'[run[r].book].status = s
         /\ \A b \in Titles : title'[b].path = title[b].path
         /\ \A b \in Titles \ {run[r].book} : title'[b] = title[b]
<1> DEFINE c == run[r].book
<1>1. c \in Titles /\ title \in [Titles -> LiberationColumns]
  BY WorkingRun DEF Typed, LiberationTypeOK
<1>2. /\ MarkFailed(title[c], s) \in LiberationColumns
      /\ MarkFailed(title[c], s).status = s /\ MarkFailed(title[c], s).path = title[c].path
  BY <1>1, StatementTypes
<1>3. title' = [title EXCEPT ![c] = MarkFailed(title[c], s)] /\ run' = [run EXCEPT ![r] = NoRun]
  BY <1>1 DEF Fails, Ends
<1> QED BY <1>1, <1>2, <1>3

\* Advances: the same of a run that goes on.
LEMMA AdvancesFacts ==
  ASSUME Typed, NEW r \in Runs, run[r].at \in InFlight, NEW s \in InFlight, Advances(r, s)
  PROVE  /\ title' \in [Titles -> LiberationColumns]
         /\ [run[r] EXCEPT !.at = s] \in LiberationRun /\ RunShape([run[r] EXCEPT !.at = s])
         /\ run' = [run EXCEPT ![r] = [run[r] EXCEPT !.at = s]]
         /\ title'[run[r].book].status = s
         /\ \A b \in Titles : title'[b].path = title[b].path
         /\ \A b \in Titles \ {run[r].book} : title'[b] = title[b]
<1> DEFINE c == run[r].book
           t == [run[r] EXCEPT !.at = s]
<1>1. c \in Titles /\ title \in [Titles -> LiberationColumns] /\ run[r] \in LiberationRun
      /\ RunShape(run[r])
  BY WorkingRun DEF Typed, LiberationTypeOK
<1>2. /\ SetStatus(title[c], s) \in LiberationColumns
      /\ SetStatus(title[c], s).status = s /\ SetStatus(title[c], s).path = title[c].path
  BY <1>1, StatementTypes DEF TitleStatus
<1>3. title' = [title EXCEPT ![c] = SetStatus(title[c], s)] /\ run' = [run EXCEPT ![r] = t]
  BY <1>1 DEF Advances, Typed, LiberationTypeOK
<1>4. t \in LiberationRun /\ t.at = s /\ t.book = run[r].book /\ t.copied = run[r].copied
  BY <1>1 DEF LiberationRun, InFlight
<1>5. RunShape(t)
  BY <1>1, <1>4 DEF RunShape, InFlight, Committing
<1> QED BY <1>1, <1>2, <1>3, <1>4, <1>5

\* A request queues a job or begins a deletion, and touches no row.
LEMMA RequestsTyped ==
  ASSUME Typed, NEW b \in Titles, NEW force \in BOOLEAN,
         LiberateBook(b, force) \/ SweepLiberation(b, force) \/ ForgetLiberation(b)
  PROVE  Typed'
<1> USE DEF Typed, LiberationTypeOK
<1>1. CASE LiberateBook(b, force) \/ SweepLiberation(b, force)
  <2>1. waiting' \subseteq Titles \X BOOLEAN
    BY <1>1 DEF LiberateBook, SweepLiberation, Enqueue
  <2>2. UNCHANGED <<title, file, partial, run, stranded>> /\ denied' \subseteq denied
    BY <1>1 DEF LiberateBook, SweepLiberation
  <2> QED BY <2>1, <2>2 DEF OpenFiles, OpenFile, RunShape, Committing, InFlight
<1>2. CASE ForgetLiberation(b)
  BY <1>2 DEF ForgetLiberation, OpenFiles, OpenFile, RunShape
<1> QED BY <1>1, <1>2

\* A deletion takes a file away and clears a row; it opens no file.
LEMMA DeletionTyped ==
  ASSUME Typed, ForgetRemove \/ ClearLiberation
  PROVE  Typed'
<1> USE DEF Typed, LiberationTypeOK
<1>1. CASE ForgetRemove
  <2>1. UNCHANGED <<title, partial, waiting, run, denied, stranded>>
    BY <1>1 DEF ForgetRemove
  <2>2. file' \in [Paths -> File] /\ \A p \in Paths : file'[p] \in {file[p], NoFile}
    BY <1>1, NullTypes DEF ForgetRemove
  <2>3. \A r \in Runs : NoFile.by # r
    BY NullsAssumption DEF NoFile
  <2>4. OpenFiles'
    BY <2>1, <2>2, <2>3 DEF OpenFiles, OpenFile
  <2> QED BY <2>1, <2>2, <2>4 DEF RunShape
<1>2. CASE ClearLiberation
  <2>1. UNCHANGED <<file, partial, waiting, run, stranded>> /\ denied' \subseteq denied
    BY <1>2 DEF ClearLiberation
  <2>2. title' \in [Titles -> LiberationColumns]
    BY <1>2, NullTypes DEF ClearLiberation
  <2> QED BY <2>1, <2>2 DEF OpenFiles, OpenFile, RunShape
<1> QED BY <1>1, <1>2

\* The stages up to the remux write the row and the record of their run only.
LEMMA StagesTyped ==
  ASSUME Typed, NEW r \in Runs, NEW b \in Titles, NEW force \in BOOLEAN,
         StartLiberation(r, b, force) \/ RequestLicense(r) \/ Fetch(r) \/ Decrypt(r)
  PROVE  Typed'
<1>1. /\ title \in [Titles -> LiberationColumns] /\ run \in [Runs -> LiberationRun]
      /\ file \in [Paths -> File] /\ partial \in [Paths -> File]
      /\ waiting \subseteq Titles \X BOOLEAN /\ denied \union stranded \subseteq Titles
  BY DEF Typed, LiberationTypeOK
<1>2. UNCHANGED <<file, partial, stranded>> /\ waiting' \subseteq Titles \X BOOLEAN
  BY <1>1 DEF StartLiberation, RequestLicense, Fetch, Decrypt
<1>3. run[r].at \in InFlight \union {"idle"}
  BY DEF StartLiberation, RequestLicense, Fetch, Decrypt, InFlight
<1>4. \A p \in Paths : file[p].by # r /\ partial[p].by # r
  BY <1>3, OpenBefore DEF InFlight
<1>5. ASSUME NEW t \in LiberationRun, RunShape(t), run' = [run EXCEPT ![r] = t],
             title' \in [Titles -> LiberationColumns], denied' \subseteq Titles
      PROVE  Typed'
  <2>1. /\ file' = file /\ partial' = partial /\ denied' \union stranded' \subseteq Titles
        /\ file' \in [Paths -> File] /\ partial' \in [Paths -> File]
    BY <1>1, <1>2, <1>5
  <2>2. OpenBy(file', r, t) /\ OpenBy(partial', r, t)
    BY <2>1, <1>4, OpenBefore DEF OpenBy
  <2> QED BY <2>1, <2>2, <1>2, <1>5, TypedStep
<1>6. ASSUME NEW s \in TitleStatus, run[r].at # "idle", Fails(r, s), denied' \subseteq Titles
      PROVE  Typed'
  BY <1>5, <1>6, FailsFacts, NullTypes
<1>7. ASSUME NEW s \in InFlight, run[r].at \in InFlight, Advances(r, s), denied' \subseteq Titles
      PROVE  Typed'
  BY <1>5, <1>7, AdvancesFacts
<1>8. CASE StartLiberation(r, b, force)
  <2>1. CASE UNCHANGED <<title, run>>
    <3>1. denied' = denied
      BY <1>8 DEF StartLiberation
    <3> QED BY <3>1, <1>2, <2>1, <1>1 DEF Typed, LiberationTypeOK, OpenFiles, OpenFile, RunShape
  <2>2. CASE ~ UNCHANGED <<title, run>>
    <3> DEFINE t == [NoRun EXCEPT !.at = "licensing", !.book = b]
    <3>1. t \in LiberationRun /\ RunShape(t)
      <4>1. t \in LiberationRun
        BY NullTypes DEF LiberationRun, InFlight
      <4>2. t.at = "licensing" /\ t.book = b /\ t.copied = 0
        BY DEF NoRun
      <4>3. b # Nobody
        BY NullsAssumption
      <4> QED BY <4>1, <4>2, <4>3 DEF RunShape, Committing, InFlight
    <3>2. run' = [run EXCEPT ![r] = t] /\ denied' = denied
      BY <1>8, <2>2 DEF StartLiberation
    <3>3. title' \in [Titles -> LiberationColumns]
      <4>1. title' = [title EXCEPT ![b] = SetStatus(title[b], "licensing")]
        BY <1>8, <2>2, <1>1 DEF StartLiberation
      <4> QED BY <4>1, <1>1, StatementTypes DEF TitleStatus, InFlight
    <3> HIDE DEF t
    <3> QED BY <3>1, <3>2, <3>3, <1>5, <1>1
  <2> QED BY <2>1, <2>2
<1>9. CASE RequestLicense(r)
  <2>1. run[r].at = "licensing" /\ run[r].book \in Titles
    BY <1>9, WorkingRun DEF RequestLicense
  <2>2. denied' \subseteq Titles
    BY <1>9, <1>1, <2>1 DEF RequestLicense
  <2>3. \/ Advances(r, "downloading")
        \/ \E s \in {"failed", "unsupported_format", "denied"} : Fails(r, s)
    BY <1>9 DEF RequestLicense
  <2> QED BY <2>1, <2>2, <2>3, <1>6, <1>7 DEF InFlight, TitleStatus, Terminal
<1>10. CASE Fetch(r)
  <2>1. run[r].at = "downloading" /\ denied' = denied
    BY <1>10 DEF Fetch
  <2>2. Advances(r, "converting") \/ Fails(r, "failed")
    BY <1>10 DEF Fetch
  <2> QED BY <2>1, <2>2, <1>1, <1>6, <1>7 DEF InFlight, TitleStatus
<1>11. CASE Decrypt(r)
  <2>1. run[r].at = "converting" /\ denied' = denied
    BY <1>11 DEF Decrypt
  <2>2. CASE \E s \in {"failed", "unsupported_codec"} : Fails(r, s)
    BY <2>1, <2>2, <1>1, <1>6 DEF TitleStatus, Terminal
  <2>3. CASE \A s \in {"failed", "unsupported_codec"} : ~ Fails(r, s)
    <3> DEFINE path == ResolvedPath(run[r].book)
               t == [run[r] EXCEPT !.at = "resolved", !.path = path]
    <3>1. run[r] \in LiberationRun /\ RunShape(run[r]) /\ run[r].book \in Titles
      BY <2>1, WorkingRun
    <3>2. path \in Paths
      <4>1. path # NoPath
        BY <1>11, <2>3 DEF Decrypt
      <4> QED BY <4>1, <3>1 DEF ResolvedPath, Disambiguated, Paths
    <3>3. run' = [run EXCEPT ![r] = t] /\ title' = title
      BY <1>11, <2>3, <1>1 DEF Decrypt
    <3> HIDE DEF path
    <3>4. t \in LiberationRun /\ t.at = "resolved" /\ t.path = path /\ t.book = run[r].book
          /\ t.copied = run[r].copied
      BY <3>1, <3>2 DEF LiberationRun
    <3>5. RunShape(t)
      BY <3>1, <3>2, <3>4, <2>1 DEF RunShape, Committing, InFlight
    <3> QED BY <3>3, <3>4, <3>5, <2>1, <1>1, <1>5
  <2> QED BY <2>2, <2>3
<1> QED BY <1>8, <1>9, <1>10, <1>11

\* The record a run has after its next stage.
LEMMA MovedRun ==
  ASSUME NEW t \in LiberationRun, t.at # "idle", RunShape(t), t.at \in Committing,
         NEW s \in Committing, NEW n \in 0 .. Whole,
         n = 0 \/ s \in {"copying", "committed", "sized"}
  PROVE  /\ [t EXCEPT !.at = s, !.copied = n] \in LiberationRun
         /\ RunShape([t EXCEPT !.at = s, !.copied = n])
<1> DEFINE u == [t EXCEPT !.at = s, !.copied = n]
<1>1. u \in LiberationRun /\ u.at = s /\ u.book = t.book /\ u.path = t.path /\ u.copied = n
  BY DEF LiberationRun, Committing
<1>2. RunShape(u)
  BY <1>1 DEF RunShape, Committing, InFlight
<1> QED BY <1>1, <1>2

\* Committing, in whichever way, leaves every file with its type and open only
\* by runs that copy it.
LEMMA CommitTyped ==
  ASSUME Typed, NEW r \in Runs,
         CommitRename(r) \/ ClearPartial(r) \/ CreatePartial(r) \/ CopyChunk(r)
           \/ RenamePartial(r) \/ StatCommitted(r) \/ FinishLiberation(r)
  PROVE  Typed'
<1>1. /\ title \in [Titles -> LiberationColumns] /\ run \in [Runs -> LiberationRun]
      /\ file \in [Paths -> File] /\ partial \in [Paths -> File]
      /\ waiting \subseteq Titles \X BOOLEAN /\ denied \union stranded \subseteq Titles
  BY DEF Typed, LiberationTypeOK
<1>2. /\ run[r] \in LiberationRun /\ RunShape(run[r]) /\ run[r].at \in Committing
      /\ run[r].at # "idle" /\ run[r].path \in Paths /\ run[r].book \in Titles
  <2>1. run[r].at \in Committing
    BY DEF CommitRename, ClearPartial, CreatePartial, CopyChunk, RenamePartial, StatCommitted,
           FinishLiberation, Committing
  <2> QED BY <2>1, WorkingRun
<1>3. UNCHANGED <<waiting, stranded, denied>>
  BY DEF CommitRename, ClearPartial, CreatePartial, CopyChunk, RenamePartial, StatCommitted,
         FinishLiberation
<1>4. /\ r # Nobody /\ NoFile \in File /\ NoFile.by = Nobody
      /\ NoRun \in LiberationRun /\ RunShape(NoRun)
  BY NullsAssumption, NullTypes DEF NoFile
<1>5. ASSUME NEW t \in LiberationRun, RunShape(t), run' = [run EXCEPT ![r] = t],
             title' \in [Titles -> LiberationColumns],
             file' \in [Paths -> File], partial' \in [Paths -> File],
             OpenBy(file', r, t), OpenBy(partial', r, t)
      PROVE  Typed'
  <2>1. waiting' \subseteq Titles \X BOOLEAN /\ denied' \union stranded' \subseteq Titles
    BY <1>1, <1>3
  <2> QED BY <2>1, <1>5, TypedStep
<1>6. ASSUME NEW t, run[r].at # "copying" PROVE OpenBy(file, r, t) /\ OpenBy(partial, r, t)
  BY <1>6, OpenBefore DEF OpenBy
<1>7. CASE CommitRename(r)
  <2> DEFINE t == [run[r] EXCEPT !.at = "committed", !.copied = run[r].copied]
             f == [book |-> run[r].book, chunks |-> Whole, by |-> Nobody]
  <2>1. t \in LiberationRun /\ RunShape(t)
    BY <1>2, MovedRun DEF LiberationRun, Committing
  <2>2. run' = [run EXCEPT ![r] = t] /\ file' = [file EXCEPT ![run[r].path] = f]
        /\ UNCHANGED <<title, partial>> /\ run[r].at = "resolved"
    BY <1>1, <1>2, <1>7 DEF CommitRename, LiberationRun
  <2>3. f \in File /\ \A q \in Runs : f.by # q
    BY <1>2, NullsAssumption DEF File, Whole
  <2> HIDE DEF t, f
  <2>4. file' \in [Paths -> File] /\ \A p \in Paths : file'[p] \in {file[p], f}
    BY <1>1, <2>2, <2>3
  <2>5. OpenBy(file', r, t) /\ OpenBy(partial', r, t)
    BY <1>6, <2>2, <2>3, <2>4 DEF OpenBy
  <2> QED BY <1>1, <1>5, <2>1, <2>2, <2>4, <2>5
<1>8. CASE ClearPartial(r)
  <2> DEFINE t == [run[r] EXCEPT !.at = "cleared", !.copied = 0]
  <2>1. t \in LiberationRun /\ RunShape(t)
    <3>1. 0 \in 0 .. Whole
      BY DEF Whole
    <3> QED BY <1>2, <3>1, MovedRun DEF Committing
  <2>2. run' = [run EXCEPT ![r] = t] /\ partial' = [partial EXCEPT ![run[r].path] = NoFile]
        /\ UNCHANGED <<title, file>> /\ run[r].at = "resolved"
    <3>1. run[r].at = "resolved" /\ run[r].copied = 0
      BY <1>2, <1>8 DEF ClearPartial, RunShape
    <3> QED BY <1>1, <1>2, <1>8, <3>1 DEF ClearPartial, LiberationRun
  <2> HIDE DEF t
  <2>4. partial' \in [Paths -> File] /\ \A p \in Paths : partial'[p] \in {partial[p], NoFile}
    BY <1>1, <1>4, <2>2
  <2>5. \A q \in Runs : NoFile.by # q
    BY <1>4, NullsAssumption
  <2>6. OpenBy(file', r, t) /\ OpenBy(partial', r, t)
    BY <1>6, <2>2, <2>4, <2>5 DEF OpenBy
  <2> QED BY <1>1, <1>5, <2>1, <2>2, <2>4, <2>6
<1>9. CASE CreatePartial(r) /\ partial[run[r].path] = NoFile
  <2> DEFINE t == [run[r] EXCEPT !.at = "copying", !.copied = 0]
             f == [book |-> run[r].book, chunks |-> 0, by |-> r]
  <2>1. t \in LiberationRun /\ RunShape(t)
    <3>1. 0 \in 0 .. Whole
      BY DEF Whole
    <3> QED BY <1>2, <3>1, MovedRun DEF Committing
  <2>2. run' = [run EXCEPT ![r] = t] /\ partial' = [partial EXCEPT ![run[r].path] = f]
        /\ UNCHANGED <<title, file>> /\ run[r].at = "cleared"
    <3>1. run[r].at = "cleared" /\ run[r].copied = 0
      BY <1>2, <1>9 DEF CreatePartial, RunShape
    <3> QED BY <1>1, <1>2, <1>9, <3>1 DEF CreatePartial, LiberationRun
  <2>3. f \in File /\ f.by = r /\ f.chunks = 0 /\ t.at = "copying" /\ t.copied = 0
    BY <1>2 DEF File, Whole, LiberationRun
  <2> HIDE DEF t, f
  <2>4. partial' \in [Paths -> File] /\ \A p \in Paths : partial'[p] \in {partial[p], f}
    BY <1>1, <2>2, <2>3
  <2>5. OpenBy(file', r, t) /\ OpenBy(partial', r, t)
    BY <1>6, <2>2, <2>3, <2>4 DEF OpenBy
  <2> QED BY <1>1, <1>5, <2>1, <2>2, <2>4, <2>5
<1>10. ASSUME NEW s \in TitleStatus, Fails(r, s), UNCHANGED <<file, partial>>,
              run[r].at # "copying"
       PROVE  Typed'
  <2>1. run' = [run EXCEPT ![r] = NoRun] /\ title' \in [Titles -> LiberationColumns]
    BY <1>2, <1>10, FailsFacts
  <2>2. OpenBy(file', r, NoRun) /\ OpenBy(partial', r, NoRun)
    BY <1>6, <1>10
  <2> QED BY <1>1, <1>4, <1>5, <1>10, <2>1, <2>2
<1>11. CASE CreatePartial(r) /\ partial[run[r].path] # NoFile
  BY <1>10, <1>11 DEF CreatePartial, TitleStatus
<1>12. CASE CopyChunk(r)
  <2> DEFINE n == run[r].copied
             t == [run[r] EXCEPT !.at = "copying", !.copied = n + 1]
  <2>1. n \in 0 .. Whole /\ n < Whole /\ n + 1 \in 0 .. Whole
    BY <1>2, <1>12 DEF CopyChunk, LiberationRun, Whole
  <2>2. t \in LiberationRun /\ RunShape(t) /\ t.at = "copying" /\ t.copied = n + 1
    BY <1>2, <2>1, MovedRun DEF Committing, LiberationRun
  <2>3. run' = [run EXCEPT ![r] = t] /\ title' = title
        /\ file' = Grown(file, r) /\ partial' = Grown(partial, r)
    BY <1>1, <1>2, <1>12 DEF CopyChunk, LiberationRun
  <2> HIDE DEF t
  <2>4. \A p \in Paths : /\ file[p].by = r => file[p].chunks = n
                         /\ partial[p].by = r => partial[p].chunks = n
    BY OpenBefore
  <2> HIDE DEF n
  <2>5. /\ file' \in [Paths -> File]
        /\ \A p \in Paths : /\ file'[p].by = file[p].by
                            /\ file[p].by = r => file'[p].chunks = n + 1
                            /\ file[p].by # r => file'[p] = file[p]
    BY <1>1, <2>1, <2>3, <2>4, GrownFacts
  <2>6. /\ partial' \in [Paths -> File]
        /\ \A p \in Paths : /\ partial'[p].by = partial[p].by
                            /\ partial[p].by = r => partial'[p].chunks = n + 1
                            /\ partial[p].by # r => partial'[p] = partial[p]
    BY <1>1, <2>1, <2>3, <2>4, GrownFacts
  <2>7. OpenBy(file', r, t)
    BY <2>2, <2>5, OpenBefore DEF OpenBy
  <2>8. OpenBy(partial', r, t)
    BY <2>2, <2>6, OpenBefore DEF OpenBy
  <2> QED BY <1>1, <1>5, <2>2, <2>3, <2>5, <2>6, <2>7, <2>8
<1>13. CASE RenamePartial(r)
  <2> DEFINE path == run[r].path
             cf == Closed(file, r)
             cp == Closed(partial, r)
  <2>1. /\ cf \in [Paths -> File] /\ cp \in [Paths -> File]
        /\ \A p \in Paths : /\ cf[p].by # r /\ cp[p].by # r
                            /\ SizeOf(cf[p]) = SizeOf(file[p])
                            /\ SizeOf(cp[p]) = SizeOf(partial[p])
                            /\ \A q \in Runs \ {r} : /\ cf[p].by = q => file[p].by = q
                                                     /\ cp[p].by = q => partial[p].by = q
    <3>1. /\ cf \in [Paths -> File]
          /\ \A p \in Paths : /\ cf[p].by # r /\ SizeOf(cf[p]) = SizeOf(file[p])
                              /\ \A q \in Runs \ {r} : cf[p].by = q => file[p].by = q
      BY <1>1, ClosedFacts
    <3>2. /\ cp \in [Paths -> File]
          /\ \A p \in Paths : /\ cp[p].by # r /\ SizeOf(cp[p]) = SizeOf(partial[p])
                              /\ \A q \in Runs \ {r} : cp[p].by = q => partial[p].by = q
      BY <1>1, ClosedFacts
    <3> QED BY <3>1, <3>2
  <2> HIDE DEF cf, cp
  <2>2. \A p \in Paths, q \in Runs :
          /\ cf[p].by = q => q # r /\ run[q].at = "copying" /\ cf[p].chunks = run[q].copied
          /\ cp[p].by = q => q # r /\ run[q].at = "copying" /\ cp[p].chunks = run[q].copied
    BY <2>1, OpenBefore DEF SizeOf
  <2>3. CASE cp[path] # NoFile
    <3> DEFINE t == [run[r] EXCEPT !.at = "committed", !.copied = run[r].copied]
    <3>1. t \in LiberationRun /\ RunShape(t)
      BY <1>2, MovedRun DEF LiberationRun, Committing
    <3>2. /\ run' = [run EXCEPT ![r] = t] /\ title' = title
          /\ file' = [cf EXCEPT ![path] = cp[path]]
          /\ partial' = [cp EXCEPT ![path] = NoFile]
      BY <1>1, <1>2, <1>13, <2>3 DEF RenamePartial, LiberationRun, cf, cp
    <3> HIDE DEF t
    <3>3. /\ file' \in [Paths -> File] /\ partial' \in [Paths -> File]
          /\ \A p \in Paths : file'[p] \in {cf[p], cp[path]} /\ partial'[p] \in {cp[p], NoFile}
      BY <1>2, <1>4, <2>1, <3>2
    <3>4. \A q \in Runs : NoFile.by # q
      BY <1>4, NullsAssumption
    <3>5. OpenBy(file', r, t) /\ OpenBy(partial', r, t)
      BY <1>2, <2>2, <3>3, <3>4 DEF OpenBy
    <3> QED BY <1>1, <1>5, <3>1, <3>2, <3>3, <3>5
  <2>4. CASE cp[path] = NoFile
    <3>1. /\ file' = cf /\ partial' = cp /\ Fails(r, "failed")
      BY <1>13, <2>4 DEF RenamePartial, cf, cp
    <3>2. run' = [run EXCEPT ![r] = NoRun] /\ title' \in [Titles -> LiberationColumns]
      BY <1>2, <3>1, FailsFacts DEF TitleStatus
    <3>3. OpenBy(file', r, NoRun) /\ OpenBy(partial', r, NoRun)
      BY <2>2, <3>1 DEF OpenBy
    <3> QED BY <1>4, <1>5, <2>1, <3>1, <3>2, <3>3
  <2> QED BY <2>3, <2>4
<1>14. CASE StatCommitted(r)
  <2> DEFINE local == [book |-> run[r].book, chunks |-> Whole]
             there == file[run[r].path]
             z == IF there = NoFile THEN local ELSE SizeOf(there)
             t == [run[r] EXCEPT !.at = "sized", !.size = z]
  <2>1. z \in Size
    <3>1. there \in File
      BY <1>1, <1>2
    <3>2. SizeOf(there) \in Size
      BY <3>1 DEF File, SizeOf, Size
    <3>3. local \in Size
      BY <1>2 DEF Size, Whole
    <3> QED BY <3>2, <3>3
  <2>2. run' = [run EXCEPT ![r] = t] /\ UNCHANGED <<title, file, partial>>
        /\ run[r].at = "committed"
    BY <1>1, <1>14 DEF StatCommitted
  <2> HIDE DEF z
  <2>3. /\ t \in LiberationRun /\ t.at = "sized" /\ t.book = run[r].book /\ t.path = run[r].path
    BY <1>2, <2>1 DEF LiberationRun
  <2>4. RunShape(t)
    BY <1>2, <2>3 DEF RunShape, Committing, InFlight
  <2>5. OpenBy(file', r, t) /\ OpenBy(partial', r, t)
    BY <1>6, <2>2
  <2> QED BY <1>1, <1>5, <2>2, <2>3, <2>4, <2>5
<1>15. CASE FinishLiberation(r) /\ run[r].size.chunks = 0
  BY <1>10, <1>15 DEF FinishLiberation, TitleStatus
<1>16. CASE FinishLiberation(r) /\ run[r].size.chunks # 0
  <2>1. /\ title' = [title EXCEPT ![run[r].book] =
                       MarkLiberated(title[run[r].book], run[r].path, run[r].size)]
        /\ run' = [run EXCEPT ![r] = NoRun] /\ UNCHANGED <<file, partial>>
        /\ run[r].at = "sized"
    BY <1>1, <1>2, <1>16 DEF FinishLiberation, Ends
  <2>2. run[r].size \in Size
    BY <1>2 DEF LiberationRun
  <2>3. title' \in [Titles -> LiberationColumns]
    BY <1>1, <1>2, <2>1, <2>2, StatementTypes
  <2>4. OpenBy(file', r, NoRun) /\ OpenBy(partial', r, NoRun)
    BY <1>6, <2>1
  <2> QED BY <1>1, <1>4, <1>5, <2>1, <2>3, <2>4
<1> QED BY <1>7, <1>8, <1>9, <1>11, <1>12, <1>13, <1>14, <1>15, <1>16

\* A run that is cut short closes its files.
LEMMA EndsTyped ==
  ASSUME Typed, NEW r \in Runs, Interrupt(r) \/ Kill(r)
  PROVE  Typed'
<1>1. /\ title \in [Titles -> LiberationColumns] /\ run \in [Runs -> LiberationRun]
      /\ file \in [Paths -> File] /\ partial \in [Paths -> File]
      /\ waiting \subseteq Titles \X BOOLEAN /\ denied \union stranded \subseteq Titles
  BY DEF Typed, LiberationTypeOK
<1>2. run[r].at # "idle" /\ run[r].book \in Titles
  BY WorkingRun DEF Interrupt, Kill, InFlight
<1>3. /\ UNCHANGED <<waiting, denied>> /\ run' = [run EXCEPT ![r] = NoRun]
      /\ file' = Closed(file, r) /\ stranded' \subseteq stranded \union {run[r].book}
  BY DEF Interrupt, Kill, Ends
<1>4. title' \in [Titles -> LiberationColumns]
  <2>1. title' \in {title, [title EXCEPT ![run[r].book] = MarkInterrupted(title[run[r].book])]}
    BY <1>1, <1>2 DEF Interrupt, Kill
  <2> QED BY <1>1, <1>2, <2>1, StatementTypes
<1> DEFINE cf == Closed(file, r)
           cp == Closed(partial, r)
<1>5. /\ cf \in [Paths -> File]
      /\ \A p \in Paths : /\ cf[p].by # r /\ SizeOf(cf[p]) = SizeOf(file[p])
                          /\ \A q \in Runs \ {r} : cf[p].by = q => file[p].by = q
  BY <1>1, ClosedFacts
<1>6. /\ cp \in [Paths -> File]
      /\ \A p \in Paths : /\ cp[p].by # r /\ SizeOf(cp[p]) = SizeOf(partial[p])
                          /\ \A q \in Runs \ {r} : cp[p].by = q => partial[p].by = q
  BY <1>1, ClosedFacts
<1> HIDE DEF cf, cp
<1>7. OpenBy(cf, r, NoRun) /\ OpenBy(cp, r, NoRun)
  BY <1>5, <1>6, OpenBefore DEF OpenBy, SizeOf
<1>8. OpenBy(partial', r, NoRun) /\ partial' \in [Paths -> File]
  <2>1. CASE partial' = cp
    BY <1>6, <1>7, <2>1
  <2>2. CASE run[r].at # "copying" /\ partial' = partial
    BY <1>1, <2>2, OpenBefore DEF OpenBy
  <2>3. CASE partial' = [cp EXCEPT ![run[r].path] = NoFile]
    <3>1. NoFile \in File /\ \A q \in Runs : NoFile.by # q
      BY NullTypes, NullsAssumption DEF NoFile
    <3>2. partial' \in [Paths -> File] /\ \A p \in Paths : partial'[p] \in {cp[p], NoFile}
      BY <1>6, <2>3, <3>1
    <3> QED BY <1>7, <3>1, <3>2 DEF OpenBy
  <2> QED BY <2>1, <2>2, <2>3 DEF Interrupt, Kill, cp
<1>9. /\ waiting' \subseteq Titles \X BOOLEAN /\ denied' \union stranded' \subseteq Titles
      /\ file' = cf
  BY <1>1, <1>2, <1>3 DEF cf
<1> QED BY <1>3, <1>4, <1>5, <1>7, <1>8, <1>9, NullTypes, TypedStep

\* Every step keeps the types.
LEMMA LiberationStep ==
  ASSUME Typed, [LiberationNext]_liberationVars
  PROVE  Typed'
<1>1. CASE UNCHANGED liberationVars
  BY <1>1 DEF liberationVars, Typed, LiberationTypeOK, OpenFiles, OpenFile, RunShape
<1>2. ASSUME NEW b \in Titles, NEW force \in BOOLEAN,
             LiberateBook(b, force) \/ SweepLiberation(b, force)
      PROVE  Typed'
  BY <1>2, RequestsTyped
<1>3. ASSUME NEW b \in Titles, ForgetLiberation(b) PROVE Typed'
  BY <1>3, RequestsTyped
<1>4. CASE ForgetRemove \/ ClearLiberation
  BY <1>4, DeletionTyped
<1>5. ASSUME NEW r \in Runs, RunStep(r) \/ Interrupt(r) \/ Kill(r) PROVE Typed'
  <2>1. CASE RunStep(r)
    <3>1. CASE \E b \in Titles, force \in BOOLEAN : StartLiberation(r, b, force)
      BY <3>1, StagesTyped
    <3>2. CASE RequestLicense(r) \/ Fetch(r) \/ Decrypt(r)
      <4>1. run[r].book \in Titles
        BY <3>2, WorkingRun DEF RequestLicense, Fetch, Decrypt
      <4> QED BY <3>2, <4>1, StagesTyped
    <3>3. CASE CommitRename(r) \/ ClearPartial(r) \/ CreatePartial(r) \/ CopyChunk(r)
                 \/ RenamePartial(r) \/ StatCommitted(r) \/ FinishLiberation(r)
      BY <3>3, CommitTyped
    <3> QED BY <2>1, <3>1, <3>2, <3>3 DEF RunStep
  <2> QED BY <1>5, <2>1, EndsTyped
<1> QED BY <1>1, <1>2, <1>3, <1>4, <1>5 DEF LiberationNext

\* Every variable of liberation keeps its type: no counter and no file outgrows
\* its bound, also when commits to one path overlap (LiberateOne, Commit,
\* copyThenRename).
THEOREM LiberationTypes == LiberationSpec => []Typed
<1>1. LiberationInit => Typed
  <2> SUFFICES ASSUME LiberationInit PROVE Typed
    OBVIOUS
  <2>1. /\ title \in [Titles -> LiberationColumns] /\ run \in [Runs -> LiberationRun]
        /\ file \in [Paths -> File] /\ partial \in [Paths -> File]
        /\ \A r \in Runs : RunShape(run[r])
    BY NullTypes DEF LiberationInit
  <2>2. OpenFiles
    BY NullsAssumption DEF LiberationInit, OpenFiles, OpenFile, NoFile
  <2> QED BY <2>1, <2>2 DEF LiberationInit, Typed, LiberationTypeOK
<1>2. Typed /\ [LiberationNext]_liberationVars => Typed'
  BY LiberationStep
<1> QED BY <1>1, <1>2, PTL DEF LiberationSpec

-----------------------------------------------------------------------------
(* Rows in flight.                                                         *)

\* What a step of one run does to the row of its title `c`:
\* it leaves other rows and runs alone, and where it leaves its title without
\* the run, the row has left the states of a run under way or the title is
\* stranded.
StepOf(r, c) ==
  /\ \A b \in Titles \ {c} : title'[b] = title[b]
  /\ \A q \in Runs \ {r} : run'[q] = run[q]
  /\ run[r].book \in {c, Nobody} /\ run'[r].book \in {c, Nobody}
  /\ \/ run'[r].book = c \/ title'[c].status \notin InFlight \/ c \in stranded'
     \/ run[r].book = Nobody /\ title' = title
  /\ stranded \subseteq stranded'

\* Every step of a run is a StepOf some title.
LEMMA RunStepFacts ==
  ASSUME Typed, NEW r \in Runs, RunStep(r) \/ Interrupt(r) \/ Kill(r)
  PROVE  \E c \in Titles : StepOf(r, c)
<1>1. /\ title \in [Titles -> LiberationColumns] /\ run \in [Runs -> LiberationRun]
      /\ run[r].at # "idle" => run[r].book \in Titles
      /\ run[r].at = "idle" => run[r].book = Nobody
  BY WorkingRun DEF Typed, LiberationTypeOK, RunShape
<1>2. NoRun.book = Nobody /\ Nobody \notin Titles
  BY NullsAssumption DEF NoRun
<1> DEFINE c == run[r].book
<1>3. ASSUME NEW s \in TitleStatus \ InFlight, run[r].at # "idle", Fails(r, s),
             stranded' = stranded
      PROVE  c \in Titles /\ StepOf(r, c)
  <2>1. /\ c \in Titles /\ run' = [run EXCEPT ![r] = NoRun]
        /\ title'[c].status = s /\ \A b \in Titles \ {c} : title'[b] = title[b]
    BY <1>1, <1>3, FailsFacts
  <2>2. run'[r].book = Nobody /\ \A q \in Runs \ {r} : run'[q] = run[q]
    BY <1>1, <1>2, <2>1
  <2> QED BY <1>3, <2>1, <2>2 DEF StepOf
<1>4. ASSUME NEW s \in InFlight, run[r].at \in InFlight, Advances(r, s),
             stranded' = stranded
      PROVE  c \in Titles /\ StepOf(r, c)
  <2>1. /\ c \in Titles /\ run' = [run EXCEPT ![r] = [run[r] EXCEPT !.at = s]]
        /\ \A b \in Titles \ {c} : title'[b] = title[b]
    BY <1>1, <1>4, AdvancesFacts DEF InFlight
  <2>2. run'[r].book = c /\ \A q \in Runs \ {r} : run'[q] = run[q]
    BY <1>1, <2>1 DEF LiberationRun
  <2> QED BY <1>4, <2>1, <2>2 DEF StepOf
<1>5. ASSUME run[r].at # "idle", NEW t, run' = [run EXCEPT ![r] = t], t.book = c,
             UNCHANGED <<title, stranded>>
      PROVE  c \in Titles /\ StepOf(r, c)
  BY <1>1, <1>5 DEF StepOf
<1>6. ASSUME NEW b \in Titles, NEW force \in BOOLEAN, StartLiberation(r, b, force)
      PROVE  StepOf(r, b)
  <2>1. CASE UNCHANGED <<title, run>>
    BY <1>1, <1>6, <2>1 DEF StartLiberation, StepOf
  <2>2. CASE ~ UNCHANGED <<title, run>>
    <3>1. /\ title' = [title EXCEPT ![b] = SetStatus(@, "licensing")]
          /\ run' = [run EXCEPT ![r] = [NoRun EXCEPT !.at = "licensing", !.book = b]]
          /\ stranded' = stranded /\ run[r].at = "idle"
      BY <1>6, <2>2 DEF StartLiberation
    <3>2. run'[r].book = b
      BY <1>1, <3>1 DEF NoRun
    <3> QED BY <1>1, <3>1, <3>2 DEF StepOf
  <2> QED BY <2>1, <2>2
<1>7. CASE RequestLicense(r)
  <2>1. run[r].at = "licensing" /\ stranded' = stranded
    BY <1>7 DEF RequestLicense
  <2>2. CASE Advances(r, "downloading")
    BY <1>4, <2>1, <2>2 DEF InFlight
  <2>3. ASSUME NEW s \in {"failed", "unsupported_format", "denied"}, Fails(r, s)
        PROVE  c \in Titles /\ StepOf(r, c)
    BY <1>3, <2>1, <2>3 DEF TitleStatus, InFlight, Terminal
  <2> QED BY <1>7, <2>2, <2>3 DEF RequestLicense
<1>8. "failed" \in TitleStatus \ InFlight /\ "unsupported_codec" \in TitleStatus \ InFlight
  BY DEF TitleStatus, InFlight, Terminal
<1>9. CASE Fetch(r)
  <2>1. run[r].at = "downloading" /\ stranded' = stranded
        /\ (Advances(r, "converting") \/ Fails(r, "failed"))
    BY <1>9 DEF Fetch
  <2> QED BY <1>3, <1>4, <1>8, <2>1 DEF InFlight
<1>10. CASE Decrypt(r)
  <2>1. run[r].at = "converting" /\ stranded' = stranded
    BY <1>10 DEF Decrypt
  <2>2. CASE \E s \in {"failed", "unsupported_codec"} : Fails(r, s)
    BY <1>3, <1>8, <2>1, <2>2
  <2>3. CASE \A s \in {"failed", "unsupported_codec"} : ~ Fails(r, s)
    <3> DEFINE t == [run[r] EXCEPT !.at = "resolved", !.path = ResolvedPath(run[r].book)]
    <3>1. run' = [run EXCEPT ![r] = t] /\ title' = title
      BY <1>1, <1>10, <2>3 DEF Decrypt
    <3>2. t.book = c
      BY <1>1 DEF LiberationRun
    <3> HIDE DEF t
    <3> QED BY <1>5, <2>1, <3>1, <3>2
  <2> QED BY <2>2, <2>3
<1>11. CASE FinishLiberation(r) /\ run[r].size.chunks # 0
  <2>1. /\ run[r].at = "sized" /\ run' = [run EXCEPT ![r] = NoRun]
        /\ title' = [title EXCEPT ![c] = MarkLiberated(@, run[r].path, run[r].size)]
        /\ stranded' = stranded
    BY <1>11 DEF FinishLiberation, Ends
  <2>2. title'[c].status = "liberated" /\ run'[r].book = Nobody
        /\ \A q \in Runs \ {r} : run'[q] = run[q]
    BY <1>1, <1>2, <2>1 DEF MarkLiberated
  <2> QED BY <1>1, <2>1, <2>2 DEF StepOf, InFlight
<1>12. CASE FinishLiberation(r) /\ run[r].size.chunks = 0
  BY <1>3, <1>8, <1>12 DEF FinishLiberation
<1>13. CASE CreatePartial(r) /\ partial[run[r].path] # NoFile
  BY <1>3, <1>8, <1>13 DEF CreatePartial
<1>14. CASE RenamePartial(r) /\ Closed(partial, r)[run[r].path] = NoFile
  BY <1>3, <1>8, <1>14 DEF RenamePartial
<1>15. CASE \/ CommitRename(r) \/ ClearPartial(r) \/ CopyChunk(r) \/ StatCommitted(r)
            \/ CreatePartial(r) /\ partial[run[r].path] = NoFile
            \/ RenamePartial(r) /\ Closed(partial, r)[run[r].path] # NoFile
  <2>1. UNCHANGED <<title, stranded>> /\ run[r].at # "idle"
    BY <1>15 DEF CommitRename, ClearPartial, CopyChunk, StatCommitted, CreatePartial,
                 RenamePartial
  <2>2. \E t : run' = [run EXCEPT ![r] = t] /\ t.book = c
    <3>1. run[r] \in LiberationRun
      BY <1>1
    <3>2. CASE CommitRename(r)
      <4> WITNESS [run[r] EXCEPT !.at = "committed"]
      <4> QED BY <1>1, <3>1, <3>2 DEF CommitRename, LiberationRun
    <3>3. CASE ClearPartial(r)
      <4> WITNESS [run[r] EXCEPT !.at = "cleared"]
      <4> QED BY <1>1, <3>1, <3>3 DEF ClearPartial, LiberationRun
    <3>4. CASE CopyChunk(r)
      <4> WITNESS [run[r] EXCEPT !.copied = run[r].copied + 1]
      <4> QED BY <1>1, <3>1, <3>4 DEF CopyChunk, LiberationRun
    <3>5. CASE StatCommitted(r)
      <4> DEFINE z == IF file[run[r].path] = NoFile
                      THEN [book |-> run[r].book, chunks |-> Whole]
                      ELSE SizeOf(file[run[r].path])
      <4>1. run' = [run EXCEPT ![r] = [run[r] EXCEPT !.at = "sized", !.size = z]]
        BY <1>1, <3>5 DEF StatCommitted
      <4> HIDE DEF z
      <4> WITNESS [run[r] EXCEPT !.at = "sized", !.size = z]
      <4> QED BY <3>1, <4>1 DEF LiberationRun
    <3>6. CASE CreatePartial(r) /\ partial[run[r].path] = NoFile
      <4> WITNESS [run[r] EXCEPT !.at = "copying"]
      <4> QED BY <1>1, <3>1, <3>6 DEF CreatePartial, LiberationRun
    <3>7. CASE RenamePartial(r) /\ Closed(partial, r)[run[r].path] # NoFile
      <4> WITNESS [run[r] EXCEPT !.at = "committed"]
      <4> QED BY <1>1, <3>1, <3>7 DEF RenamePartial, LiberationRun
    <3> QED BY <1>15, <3>2, <3>3, <3>4, <3>5, <3>6, <3>7
  <2> QED BY <1>5, <2>1, <2>2
<1>16. CASE Interrupt(r)
  <2>1. /\ run[r].at # "idle" /\ run' = [run EXCEPT ![r] = NoRun]
        /\ \/ title' = [title EXCEPT ![c] = MarkInterrupted(title[c])] /\ stranded' = stranded
           \/ title' = title /\ stranded' = stranded \union {c}
    BY <1>1, <1>16 DEF Interrupt, Ends, InFlight, RecordsInterruption
  <2>2. run'[r].book = Nobody /\ \A q \in Runs \ {r} : run'[q] = run[q]
    BY <1>1, <1>2, <2>1
  <2>3. MarkInterrupted(title[c]).status = "failed"
    BY <1>1, <2>1, StatementTypes
  <2> QED BY <1>1, <2>1, <2>2, <2>3 DEF StepOf, InFlight
<1>17. CASE Kill(r)
  <2>1. /\ run[r].at # "idle" /\ run' = [run EXCEPT ![r] = NoRun]
        /\ title' = title /\ stranded' = stranded \union {c}
    BY <1>17 DEF Kill, Ends
  <2>2. run'[r].book = Nobody /\ \A q \in Runs \ {r} : run'[q] = run[q]
    BY <1>1, <1>2, <2>1
  <2> QED BY <1>1, <2>1, <2>2 DEF StepOf
<1> QED BY <1>6, <1>7, <1>9, <1>10, <1>11, <1>12, <1>13, <1>14, <1>15, <1>16, <1>17 DEF RunStep

\* Requests and deletions keep the runs and what is stranded, and put no row
\* in flight.
LEMMA RequestFacts ==
  ASSUME Typed,
         \/ \E b \in Titles, force \in BOOLEAN : LiberateBook(b, force)
         \/ \E b \in Titles, force \in BOOLEAN : SweepLiberation(b, force)
         \/ \E b \in Titles : ForgetLiberation(b)
         \/ ForgetRemove \/ ClearLiberation
  PROVE  /\ UNCHANGED <<run, stranded, partial, tangled>>
         /\ \A b \in Titles : title'[b] \in {title[b], Untouched}
         /\ \A p \in Paths : file'[p] \in {file[p], NoFile}
<1>1. title \in [Titles -> LiberationColumns] /\ file \in [Paths -> File]
  BY DEF Typed, LiberationTypeOK
<1>2. CASE \/ \E b \in Titles, force \in BOOLEAN : LiberateBook(b, force)
           \/ \E b \in Titles, force \in BOOLEAN : SweepLiberation(b, force)
           \/ \E b \in Titles : ForgetLiberation(b)
  BY <1>2 DEF LiberateBook, SweepLiberation, ForgetLiberation
<1>3. CASE ForgetRemove
  BY <1>1, <1>3 DEF ForgetRemove
<1>4. CASE ClearLiberation
  BY <1>1, <1>4 DEF ClearLiberation
<1> QED BY <1>2, <1>3, <1>4

\* A row in flight always has a run that works on it, unless that run was
\* killed or could not write its success (SetStatus, recordFailure, recordCtx):
\* however many runs of a title overlap and wherever each is interrupted.
THEOREM RowsInFlightAreAlive == LiberationSpec => []InFlightIsAlive
<1>1. LiberationInit => InFlightIsAlive
  BY DEF LiberationInit, InFlightIsAlive, Untouched, InFlight
<1>2. Typed /\ InFlightIsAlive /\ [LiberationNext]_liberationVars => InFlightIsAlive'
  <2> SUFFICES ASSUME Typed, InFlightIsAlive, [LiberationNext]_liberationVars,
                      NEW b \in Titles, b \notin stranded', title'[b].status \in InFlight
               PROVE  \E q \in Runs : run'[q].book = b
    BY DEF InFlightIsAlive, InFlight
  <2>1. CASE UNCHANGED liberationVars
    BY <2>1 DEF liberationVars, InFlightIsAlive
  <2>2. ASSUME NEW r \in Runs, RunStep(r) \/ Interrupt(r) \/ Kill(r)
        PROVE  \E q \in Runs : run'[q].book = b
    <3>1. PICK c \in Titles : StepOf(r, c)
      BY <2>2, RunStepFacts
    <3>2. Nobody \notin Titles
      BY NullsAssumption
    <3>3. CASE b = c /\ run'[r].book = c
      BY <3>3
    <3>4. CASE b = c /\ run'[r].book # c
      <4>1. run[r].book = Nobody /\ title' = title /\ b \notin stranded
        BY <3>1, <3>4 DEF StepOf
      <4>2. PICK q \in Runs : run[q].book = b
        BY <4>1 DEF InFlightIsAlive
      <4>3. run'[q].book = b
        BY <3>1, <3>2, <4>1, <4>2 DEF StepOf
      <4> QED BY <4>3
    <3>5. CASE b # c
      <4>1. title'[b] = title[b] /\ b \notin stranded
        BY <3>1, <3>5 DEF StepOf
      <4>2. PICK q \in Runs : run[q].book = b
        BY <4>1 DEF InFlightIsAlive
      <4>3. run'[q].book = b
        BY <3>1, <3>2, <3>5, <4>2 DEF StepOf
      <4> QED BY <4>3
    <3> QED BY <3>3, <3>4, <3>5
  <2>3. CASE \/ \E a \in Titles, force \in BOOLEAN : LiberateBook(a, force)
             \/ \E a \in Titles, force \in BOOLEAN : SweepLiberation(a, force)
             \/ \E a \in Titles : ForgetLiberation(a)
             \/ ForgetRemove \/ ClearLiberation
    <3>1. run' = run /\ stranded' = stranded /\ title'[b] \in {title[b], Untouched}
      BY <2>3, RequestFacts
    <3>2. Untouched.status \notin InFlight
      BY DEF Untouched, InFlight
    <3> QED BY <3>1, <3>2 DEF InFlightIsAlive
  <2> QED BY <2>1, <2>2, <2>3 DEF LiberationNext
<1> QED BY <1>1, <1>2, LiberationTypes, PTL DEF LiberationSpec

-----------------------------------------------------------------------------
(* What is recorded as liberated.                                          *)

OwnOrGone(f, b) == f # NoFile => SizeOf(f) = [book |-> b, chunks |-> Whole]

\* A committing run has its path to itself: no other run commits to it and no
\* other title's row points to it.  So the .partial it copies is its own, and
\* what it has committed stays there or is deleted.
CommitsAlone(r) ==
  /\ \A q \in Runs \ {r} : run[q].at \in Committing => run[q].path # run[r].path
  /\ \A b \in Titles \ {run[r].book} : title[b].path # run[r].path
  /\ run[r].at = "copying" =>
       partial[run[r].path] = [book |-> run[r].book, chunks |-> run[r].copied, by |-> r]
  /\ run[r].at \in {"committed", "sized"} => OwnOrGone(file[run[r].path], run[r].book)

CommitsApart == \A r \in Runs : run[r].at \in Committing => CommitsAlone(r)

\* Nobody writes to a file of the library, and a liberated title's is its own.
LibraryIsWhole ==
  /\ \A p \in Paths : file[p].by = Nobody
  /\ \A b \in Titles : title[b].status = "liberated" =>
       title[b].path \in Paths /\ OwnOrGone(file[title[b].path], b)

Untangled == ~tangled => CommitsApart /\ LibraryIsWhole

\* A step that leaves no commit of `r` behind, records no success and leaves the
\* files of the others alone keeps them apart.
LEMMA QuietStep ==
  ASSUME Typed, CommitsApart, LibraryIsWhole, NEW r \in Runs,
         run'[r].at \notin Committing,
         \A q \in Runs \ {r} : run'[q] = run[q],
         \A b \in Titles : title'[b].path = title[b].path,
         \A b \in Titles : title'[b].status = "liberated" => title[b].status = "liberated",
         \A p \in Paths : file'[p] = file[p],
         \A q \in Runs \ {r} : run[q].at = "copying" => partial'[run[q].path] = partial[run[q].path]
  PROVE  CommitsApart' /\ LibraryIsWhole'
<1>1. LibraryIsWhole'
  <2>1. \A p \in Paths : file'[p].by = Nobody
    BY DEF LibraryIsWhole
  <2>2. ASSUME NEW b \in Titles, title'[b].status = "liberated"
        PROVE  title'[b].path \in Paths /\ OwnOrGone(file'[title'[b].path], b)
    BY <2>2 DEF LibraryIsWhole
  <2> QED BY <2>1, <2>2 DEF LibraryIsWhole, OwnOrGone, SizeOf, NoFile, Paths
<1>2. ASSUME NEW q \in Runs, run'[q].at \in Committing PROVE CommitsAlone(q)'
  <2>1. q # r /\ run'[q] = run[q] /\ run[q].at \in Committing /\ run[q].path \in Paths
    BY <1>2, WorkingRun
  <2>2. CommitsAlone(q)
    BY <2>1 DEF CommitsApart
  <2>3. \A o \in Runs \ {q} : run'[o].at \in Committing => run'[o].path # run'[q].path
    BY <2>1, <2>2 DEF CommitsAlone
  <2>4. \A b \in Titles \ {run'[q].book} : title'[b].path # run'[q].path
    BY <2>1, <2>2 DEF CommitsAlone
  <2>5. run'[q].at = "copying" =>
          partial'[run'[q].path] = [book |-> run'[q].book, chunks |-> run'[q].copied, by |-> q]
    BY <2>1, <2>2 DEF CommitsAlone
  <2>6. run'[q].at \in {"committed", "sized"} => OwnOrGone(file'[run'[q].path], run'[q].book)
    BY <2>1, <2>2 DEF CommitsAlone
  <2> QED BY <2>3, <2>4, <2>5, <2>6 DEF CommitsAlone, OwnOrGone, SizeOf, NoFile
<1> QED BY <1>1, <1>2 DEF CommitsApart, Committing

\* A step within a commit changes nothing but the record of its run, its
\* .partial and, with the whole audio of its own title, the file at its path.
LEMMA CommitStep ==
  ASSUME Typed, CommitsApart, LibraryIsWhole, NEW r \in Runs,
         run[r].at \in Committing, title' = title,
         run'[r].path = run[r].path, run'[r].book = run[r].book,
         \A q \in Runs \ {r} : run'[q] = run[q],
         \A p \in Paths \ {run[r].path} : file'[p] = file[p],
         \A q \in Runs \ {r} : run[q].at = "copying" => partial'[run[q].path] = partial[run[q].path],
         \/ file'[run[r].path] = file[run[r].path]
         \/ file'[run[r].path].by = Nobody /\ OwnOrGone(file'[run[r].path], run[r].book),
         run'[r].at = "copying" =>
           partial'[run[r].path] =
             [book |-> run[r].book, chunks |-> run'[r].copied, by |-> r],
         run'[r].at \in {"committed", "sized"} => OwnOrGone(file'[run[r].path], run[r].book)
  PROVE  CommitsApart' /\ LibraryIsWhole'
<1>1. run[r].path \in Paths /\ CommitsAlone(r)
  BY WorkingRun DEF CommitsApart
<1>2. LibraryIsWhole'
  <2>1. \A p \in Paths : file'[p].by = Nobody
    BY <1>1 DEF LibraryIsWhole
  <2>2. ASSUME NEW b \in Titles, title'[b].status = "liberated"
        PROVE  title'[b].path \in Paths /\ OwnOrGone(file'[title'[b].path], b)
    <3>1. title[b].path \in Paths /\ OwnOrGone(file[title[b].path], b) /\ title'[b] = title[b]
      BY <2>2 DEF LibraryIsWhole
    <3>2. CASE title[b].path # run[r].path
      BY <3>1, <3>2
    <3>3. CASE title[b].path = run[r].path
      <4>1. b = run[r].book
        BY <1>1, <3>3 DEF CommitsAlone
      <4> QED BY <3>1, <3>3, <4>1
    <3> QED BY <3>2, <3>3
  <2> QED BY <2>1, <2>2 DEF LibraryIsWhole, OwnOrGone, SizeOf, NoFile, Paths
<1>3. ASSUME NEW q \in Runs, run'[q].at \in Committing PROVE CommitsAlone(q)'
  <2>1. CASE q = r
    <3>1. \A o \in Runs \ {q} : run'[o].at \in Committing => run'[o].path # run'[q].path
      BY <1>1, <2>1 DEF CommitsAlone
    <3>2. \A b \in Titles \ {run'[q].book} : title'[b].path # run'[q].path
      BY <1>1, <2>1 DEF CommitsAlone
    <3> QED BY <2>1, <3>1, <3>2 DEF CommitsAlone, OwnOrGone, SizeOf, NoFile
  <2>2. CASE q # r
    <3>1. run'[q] = run[q] /\ run[q].at \in Committing /\ run[q].path \in Paths
      BY <1>3, <2>2, WorkingRun
    <3>2. CommitsAlone(q) /\ run[q].path # run[r].path
      BY <1>1, <2>2, <3>1 DEF CommitsApart, CommitsAlone
    <3>3. \A o \in Runs \ {q} : run'[o].at \in Committing => run'[o].path # run'[q].path
      <4> SUFFICES ASSUME NEW o \in Runs \ {q}, run'[o].at \in Committing
                   PROVE  run'[o].path # run'[q].path
        OBVIOUS
      <4>1. CASE o = r
        BY <3>1, <3>2, <4>1
      <4>2. CASE o # r
        BY <3>1, <3>2, <4>2 DEF CommitsAlone
      <4> QED BY <4>1, <4>2
    <3>4. \A b \in Titles \ {run'[q].book} : title'[b].path # run'[q].path
      BY <3>1, <3>2 DEF CommitsAlone
    <3>5. /\ file'[run[q].path] = file[run[q].path]
          /\ run[q].at = "copying" => partial'[run[q].path] = partial[run[q].path]
      BY <2>2, <3>1, <3>2
    <3> QED BY <3>1, <3>2, <3>3, <3>4, <3>5 DEF CommitsAlone, OwnOrGone, SizeOf, NoFile
  <2> QED BY <2>1, <2>2
<1> QED BY <1>2, <1>3 DEF CommitsApart, Committing

\* No step breaks what the library holds, as long as commits do not overlap.
LEMMA UntangledStep ==
  ASSUME Typed, CommitsApart, LibraryIsWhole, NEW r \in Runs, ~tangled',
         RunStep(r) \/ Interrupt(r) \/ Kill(r)
  PROVE  CommitsApart' /\ LibraryIsWhole'
<1>1. /\ title \in [Titles -> LiberationColumns] /\ run \in [Runs -> LiberationRun]
      /\ file \in [Paths -> File] /\ partial \in [Paths -> File]
      /\ run[r] \in LiberationRun /\ RunShape(run[r])
      /\ run[r].at # "idle" => run[r].book \in Titles
      /\ run[r].at \in Committing => run[r].path \in Paths
  BY WorkingRun DEF Typed, LiberationTypeOK
<1>2. /\ NoRun.at \notin Committing /\ r # Nobody /\ NoFile.by = Nobody
      /\ \A p \in Paths : file[p].by = Nobody
  BY NullsAssumption DEF NoRun, NoFile, Committing, LibraryIsWhole
<1>3. Closed(file, r) \in [Paths -> File] /\ \A p \in Paths : Closed(file, r)[p] = file[p]
  <2>1. /\ Closed(file, r) \in [Paths -> File]
        /\ \A p \in Paths : file[p].by # r => Closed(file, r)[p] = file[p]
    BY <1>1, ClosedFacts
  <2> QED BY <1>2, <2>1
<1>4. ASSUME NEW q \in Runs \ {r}, run[q].at = "copying"
      PROVE  /\ run[q].path \in Paths
             /\ Closed(partial, r)[run[q].path] = partial[run[q].path]
             /\ run[r].at \in Committing => run[q].path # run[r].path
  <2>1. run[q].path \in Paths /\ CommitsAlone(q)
    BY <1>4, WorkingRun DEF CommitsApart, Committing
  <2>2. partial[run[q].path].by = q
    BY <1>4, <2>1 DEF CommitsAlone
  <2> QED BY <1>1, <2>1, <2>2, ClosedFacts DEF CommitsAlone
<1>5. ASSUME NEW s \in TitleStatus \ {"liberated"}, run[r].at # "idle", Fails(r, s),
             \A p \in Paths : file'[p] = file[p],
             \A q \in Runs \ {r} :
               run[q].at = "copying" => partial'[run[q].path] = partial[run[q].path]
      PROVE  CommitsApart' /\ LibraryIsWhole'
  <2>1. /\ run' = [run EXCEPT ![r] = NoRun] /\ title'[run[r].book].status = s
        /\ \A b \in Titles : title'[b].path = title[b].path
        /\ \A b \in Titles \ {run[r].book} : title'[b] = title[b]
    BY <1>5, FailsFacts
  <2>2. run'[r] = NoRun /\ \A q \in Runs \ {r} : run'[q] = run[q]
    BY <1>1, <2>1
  <2> QED BY <1>2, <1>5, <2>1, <2>2, QuietStep
<1>6. ASSUME NEW s \in InFlight, run[r].at \in InFlight, Advances(r, s),
             UNCHANGED <<file, partial>>
      PROVE  CommitsApart' /\ LibraryIsWhole'
  <2>1. /\ run' = [run EXCEPT ![r] = [run[r] EXCEPT !.at = s]] /\ title'[run[r].book].status = s
        /\ \A b \in Titles : title'[b].path = title[b].path
        /\ \A b \in Titles \ {run[r].book} : title'[b] = title[b]
    BY <1>6, AdvancesFacts
  <2>2. run'[r].at \notin Committing /\ \A q \in Runs \ {r} : run'[q] = run[q]
    BY <1>1, <1>6, <2>1 DEF LiberationRun, InFlight, Committing
  <2>3. s # "liberated"
    BY DEF InFlight
  <2> QED BY <1>6, <2>1, <2>2, <2>3, QuietStep
<1>7. /\ {"failed", "denied", "unsupported_format", "unsupported_codec"}
           \subseteq TitleStatus \ {"liberated"}
      /\ "downloading" \in InFlight /\ "converting" \in InFlight
  BY DEF TitleStatus, Terminal, InFlight
<1>8. ASSUME NEW b \in Titles, NEW force \in BOOLEAN, StartLiberation(r, b, force)
      PROVE  CommitsApart' /\ LibraryIsWhole'
  <2>1. /\ run[r].at = "idle" /\ UNCHANGED <<file, partial>>
        /\ \/ UNCHANGED <<title, run>>
           \/ /\ title' = [title EXCEPT ![b] = SetStatus(title[b], "licensing")]
              /\ run' = [run EXCEPT ![r] = [NoRun EXCEPT !.at = "licensing", !.book = b]]
    BY <1>1, <1>8 DEF StartLiberation
  <2>2. /\ SetStatus(title[b], "licensing").path = title[b].path
        /\ SetStatus(title[b], "licensing").status = "licensing"
    BY <1>1, StatementTypes DEF TitleStatus, InFlight
  <2>3. /\ \A c \in Titles : title'[c].path = title[c].path
        /\ \A c \in Titles : title'[c].status = "liberated" => title[c].status = "liberated"
    BY <1>1, <2>1, <2>2
  <2>4. run'[r].at \notin Committing /\ \A q \in Runs \ {r} : run'[q] = run[q]
    BY <1>1, <2>1 DEF NoRun, Committing
  <2> QED BY <2>1, <2>3, <2>4, QuietStep
<1>9. CASE RequestLicense(r)
  <2>1. /\ run[r].at = "licensing" /\ UNCHANGED <<file, partial>>
        /\ \/ Advances(r, "downloading")
           \/ \E s \in {"failed", "unsupported_format", "denied"} : Fails(r, s)
    BY <1>9 DEF RequestLicense
  <2> QED BY <1>5, <1>6, <1>7, <2>1 DEF InFlight
<1>10. CASE Fetch(r)
  <2>1. /\ run[r].at = "downloading" /\ UNCHANGED <<file, partial>>
        /\ Advances(r, "converting") \/ Fails(r, "failed")
    BY <1>10 DEF Fetch
  <2> QED BY <1>5, <1>6, <1>7, <2>1
<1>11. CASE Decrypt(r) /\ \E s \in {"failed", "unsupported_codec"} : Fails(r, s)
  BY <1>5, <1>7, <1>11 DEF Decrypt
<1>12. CASE Decrypt(r) /\ \A s \in {"failed", "unsupported_codec"} : ~ Fails(r, s)
  <2> DEFINE path == ResolvedPath(run[r].book)
  <2>1. /\ run[r].at = "converting" /\ UNCHANGED <<file, partial, title>> /\ path # NoPath
        /\ run' = [run EXCEPT ![r].at = "resolved", ![r].path = path]
        /\ \A q \in Runs \ {r} : ~(run[q].at \in Committing /\ run[q].path = path)
    BY <1>12 DEF Decrypt
  <2>2. run[r].book \in Titles
    BY <1>1, <2>1
  <2>3. path \in Paths /\ \A b \in Titles \ {run[r].book} : title[b].path # path
    BY <2>1, <2>2 DEF ResolvedPath, Disambiguated, Paths, Claimed
  <2> HIDE DEF path
  <2>4. /\ run'[r].at = "resolved" /\ run'[r].path = path /\ run'[r].book = run[r].book
        /\ \A q \in Runs \ {r} : run'[q] = run[q]
    BY <1>1, <2>1 DEF LiberationRun
  <2>5. LibraryIsWhole'
    BY <2>1 DEF LibraryIsWhole, OwnOrGone, SizeOf, NoFile, Paths
  <2>6. ASSUME NEW q \in Runs, run'[q].at \in Committing PROVE CommitsAlone(q)'
    <3>1. CASE q = r
      <4>1. \A o \in Runs \ {q} : run'[o].at \in Committing => run'[o].path # run'[q].path
        BY <2>1, <2>4, <3>1
      <4>2. \A b \in Titles \ {run'[q].book} : title'[b].path # run'[q].path
        BY <2>1, <2>3, <2>4, <3>1
      <4> QED BY <2>4, <3>1, <4>1, <4>2 DEF CommitsAlone
    <3>2. CASE q # r
      <4>1. run'[q] = run[q] /\ run[q].at \in Committing /\ run[q].path # path /\ CommitsAlone(q)
        BY <2>1, <2>4, <2>6, <3>2 DEF CommitsApart
      <4>2. \A o \in Runs \ {q} : run'[o].at \in Committing => run'[o].path # run'[q].path
        <5> SUFFICES ASSUME NEW o \in Runs \ {q}, run'[o].at \in Committing
                     PROVE  run'[o].path # run'[q].path
          OBVIOUS
        <5>1. CASE o = r
          BY <2>4, <4>1, <5>1
        <5>2. CASE o # r
          BY <2>4, <4>1, <5>2 DEF CommitsAlone
        <5> QED BY <5>1, <5>2
      <4>3. \A b \in Titles \ {run'[q].book} : title'[b].path # run'[q].path
        BY <2>1, <4>1 DEF CommitsAlone
      <4> QED BY <2>1, <4>1, <4>2, <4>3 DEF CommitsAlone, OwnOrGone, SizeOf, NoFile
    <3> QED BY <3>1, <3>2
  <2> QED BY <2>5, <2>6 DEF CommitsApart, Committing
<1>13. CASE CommitRename(r)
  <2> DEFINE f == [book |-> run[r].book, chunks |-> Whole, by |-> Nobody]
  <2>1. /\ run[r].at = "resolved" /\ UNCHANGED <<title, partial>>
        /\ file' = [file EXCEPT ![run[r].path] = f]
        /\ run' = [run EXCEPT ![r].at = "committed"]
    BY <1>13 DEF CommitRename
  <2>2. run[r].at \in Committing /\ run[r].path \in Paths
    BY <1>1, <2>1 DEF Committing
  <2>3. /\ run'[r].at = "committed" /\ run'[r].path = run[r].path /\ run'[r].book = run[r].book
        /\ \A q \in Runs \ {r} : run'[q] = run[q]
    BY <1>1, <2>1 DEF LiberationRun
  <2>4. f.by = Nobody /\ OwnOrGone(f, run[r].book)
    BY DEF OwnOrGone, SizeOf
  <2> HIDE DEF f
  <2>5. file'[run[r].path] = f /\ \A p \in Paths \ {run[r].path} : file'[p] = file[p]
    BY <1>1, <2>1, <2>2
  <2> QED BY <2>1, <2>2, <2>3, <2>4, <2>5, CommitStep
<1>14. CASE ClearPartial(r)
  <2>1. /\ run[r].at = "resolved" /\ UNCHANGED <<title, file>>
        /\ partial' = [partial EXCEPT ![run[r].path] = NoFile]
        /\ run' = [run EXCEPT ![r].at = "cleared"]
    BY <1>14 DEF ClearPartial
  <2>2. run[r].at \in Committing /\ run[r].path \in Paths
    BY <1>1, <2>1 DEF Committing
  <2>3. /\ run'[r].at = "cleared" /\ run'[r].path = run[r].path /\ run'[r].book = run[r].book
        /\ \A q \in Runs \ {r} : run'[q] = run[q]
    BY <1>1, <2>1 DEF LiberationRun
  <2>4. \A q \in Runs \ {r} : run[q].at = "copying" => partial'[run[q].path] = partial[run[q].path]
    BY <1>1, <1>4, <2>1, <2>2
  <2> QED BY <2>1, <2>2, <2>3, <2>4, CommitStep
<1>15. CASE CreatePartial(r) /\ partial[run[r].path] = NoFile
  <2> DEFINE f == [book |-> run[r].book, chunks |-> 0, by |-> r]
  <2>1. /\ run[r].at = "cleared" /\ UNCHANGED <<title, file>>
        /\ partial' = [partial EXCEPT ![run[r].path] = f]
        /\ run' = [run EXCEPT ![r].at = "copying"]
    BY <1>15 DEF CreatePartial
  <2>2. run[r].at \in Committing /\ run[r].path \in Paths /\ run[r].copied = 0
    BY <1>1, <2>1 DEF Committing, RunShape
  <2>3. /\ run'[r].at = "copying" /\ run'[r].path = run[r].path /\ run'[r].book = run[r].book
        /\ run'[r].copied = 0 /\ \A q \in Runs \ {r} : run'[q] = run[q]
    BY <1>1, <2>1, <2>2 DEF LiberationRun
  <2>4. /\ partial'[run[r].path] = f
        /\ \A q \in Runs \ {r} :
             run[q].at = "copying" => partial'[run[q].path] = partial[run[q].path]
    BY <1>1, <1>4, <2>1, <2>2
  <2> QED BY <2>1, <2>2, <2>3, <2>4, CommitStep
<1>16. CASE CreatePartial(r) /\ partial[run[r].path] # NoFile
  BY <1>5, <1>7, <1>16 DEF CreatePartial
<1>17. CASE CopyChunk(r)
  <2> DEFINE n == run[r].copied
  <2>1. /\ run[r].at = "copying" /\ n < Whole /\ title' = title
        /\ partial' = Grown(partial, r) /\ file' = Grown(file, r)
        /\ run' = [run EXCEPT ![r].copied = n + 1]
    BY <1>1, <1>17 DEF CopyChunk
  <2>2. run[r].at \in Committing /\ run[r].path \in Paths /\ n \in 0 .. Whole /\ CommitsAlone(r)
    BY <1>1, <2>1 DEF Committing, LiberationRun, CommitsApart
  <2>3. /\ run'[r].at = "copying" /\ run'[r].path = run[r].path /\ run'[r].book = run[r].book
        /\ run'[r].copied = n + 1 /\ \A q \in Runs \ {r} : run'[q] = run[q]
    BY <1>1, <2>1 DEF LiberationRun
  <2>4. partial[run[r].path] = [book |-> run[r].book, chunks |-> n, by |-> r]
    BY <2>1, <2>2 DEF CommitsAlone
  <2>5. \A p \in Paths : /\ file[p].by = r => file[p].chunks = n
                         /\ partial[p].by = r => partial[p].chunks = n
    BY OpenBefore
  <2>6. \A p \in Paths : file'[p] = file[p]
    BY <1>1, <1>2, <2>1, <2>2, <2>5, GrownFacts
  <2>7. partial'[run[r].path] = [book |-> run[r].book, chunks |-> n + 1, by |-> r]
    <3>1. partial'[run[r].path] = [partial[run[r].path] EXCEPT !.chunks = @ + 1]
      BY <2>1, <2>2, <2>4 DEF Grown
    <3> QED BY <2>4, <3>1
  <2>8. ASSUME NEW q \in Runs \ {r}, run[q].at = "copying"
        PROVE  partial'[run[q].path] = partial[run[q].path]
    <3>1. run[q].path \in Paths /\ partial[run[q].path].by = q
      <4>1. run[q].path \in Paths /\ CommitsAlone(q)
        BY <2>8, WorkingRun DEF CommitsApart, Committing
      <4> QED BY <2>8, <4>1 DEF CommitsAlone
    <3> QED BY <2>1, <3>1 DEF Grown
  <2> QED BY <2>1, <2>2, <2>3, <2>6, <2>7, <2>8, CommitStep
<1>18. CASE RenamePartial(r)
  <2> DEFINE path == run[r].path
             cp == Closed(partial, r)
             f == [book |-> run[r].book, chunks |-> Whole, by |-> Nobody]
  <2>1. /\ run[r].at = "copying" /\ run[r].copied = Whole /\ run[r].at \in Committing
        /\ path \in Paths /\ CommitsAlone(r)
    BY <1>1, <1>18 DEF RenamePartial, Committing, CommitsApart
  <2>2. cp[path] = f
    <3>1. partial[path] = [book |-> run[r].book, chunks |-> Whole, by |-> r]
      BY <2>1 DEF CommitsAlone
    <3> QED BY <2>1, <3>1 DEF Closed
  <2>3. f # NoFile /\ f.by = Nobody /\ OwnOrGone(f, run[r].book)
    BY DEF NoFile, OwnOrGone, SizeOf, Whole
  <2>4. cp \in [Paths -> File]
    BY <1>1, ClosedFacts
  <2> HIDE DEF f
  <2>5. /\ title' = title /\ run' = [run EXCEPT ![r].at = "committed"]
        /\ file' = [Closed(file, r) EXCEPT ![path] = f]
        /\ partial' = [cp EXCEPT ![path] = NoFile]
    BY <1>18, <2>2, <2>3 DEF RenamePartial
  <2>6. /\ run'[r].at = "committed" /\ run'[r].path = path /\ run'[r].book = run[r].book
        /\ \A q \in Runs \ {r} : run'[q] = run[q]
    BY <1>1, <2>5 DEF LiberationRun
  <2>7. file'[path] = f /\ \A p \in Paths \ {path} : file'[p] = file[p]
    BY <1>3, <2>1, <2>5
  <2>8. \A q \in Runs \ {r} : run[q].at = "copying" => partial'[run[q].path] = partial[run[q].path]
    BY <1>4, <2>1, <2>4, <2>5
  <2> QED BY <2>1, <2>3, <2>5, <2>6, <2>7, <2>8, CommitStep
<1>19. CASE StatCommitted(r)
  <2> DEFINE z == IF file[run[r].path] = NoFile THEN [book |-> run[r].book, chunks |-> Whole]
                  ELSE SizeOf(file[run[r].path])
  <2>1. /\ run[r].at = "committed" /\ UNCHANGED <<title, file, partial>>
        /\ run' = [run EXCEPT ![r].at = "sized", ![r].size = z]
    BY <1>19 DEF StatCommitted
  <2> HIDE DEF z
  <2>2. run[r].at \in Committing /\ CommitsAlone(r)
    BY <2>1 DEF Committing, CommitsApart
  <2>3. /\ run'[r].at = "sized" /\ run'[r].path = run[r].path /\ run'[r].book = run[r].book
        /\ \A q \in Runs \ {r} : run'[q] = run[q]
    BY <1>1, <2>1 DEF LiberationRun
  <2>4. OwnOrGone(file[run[r].path], run[r].book)
    BY <2>1, <2>2 DEF CommitsAlone
  <2> QED BY <2>1, <2>2, <2>3, <2>4, CommitStep
<1>20. CASE FinishLiberation(r) /\ run[r].size.chunks = 0
  BY <1>5, <1>7, <1>20 DEF FinishLiberation
<1>21. CASE FinishLiberation(r) /\ run[r].size.chunks # 0
  <2> DEFINE b == run[r].book
             path == run[r].path
  <2>1. /\ run[r].at = "sized" /\ UNCHANGED <<file, partial>>
        /\ title' = [title EXCEPT ![b] = MarkLiberated(@, path, run[r].size)]
        /\ run' = [run EXCEPT ![r] = NoRun]
    BY <1>21 DEF FinishLiberation, Ends
  <2>2. b \in Titles /\ path \in Paths /\ CommitsAlone(r) /\ run[r].at \in Committing
    BY <1>1, <2>1 DEF Committing, CommitsApart
  <2>3. /\ title'[b].status = "liberated" /\ title'[b].path = path
        /\ \A c \in Titles \ {b} : title'[c] = title[c]
    BY <1>1, <2>1, <2>2 DEF MarkLiberated
  <2>4. run'[r].at \notin Committing /\ \A q \in Runs \ {r} : run'[q] = run[q]
    BY <1>1, <1>2, <2>1
  <2>5. OwnOrGone(file[path], b)
    BY <2>1, <2>2 DEF CommitsAlone
  <2>6. LibraryIsWhole'
    <3> SUFFICES ASSUME NEW c \in Titles, title'[c].status = "liberated"
                 PROVE  title'[c].path \in Paths /\ OwnOrGone(file[title'[c].path], c)
      BY <1>2, <2>1 DEF LibraryIsWhole, OwnOrGone, SizeOf, NoFile, Paths
    <3>1. CASE c = b
      BY <2>2, <2>3, <2>5, <3>1
    <3>2. CASE c # b
      BY <2>3, <3>2 DEF LibraryIsWhole
    <3> QED BY <3>1, <3>2
  <2>7. ASSUME NEW q \in Runs, run'[q].at \in Committing PROVE CommitsAlone(q)'
    <3>1. q # r /\ run'[q] = run[q] /\ run[q].at \in Committing /\ CommitsAlone(q)
      BY <2>4, <2>7 DEF CommitsApart
    <3>2. path # run[q].path
      BY <2>2, <3>1 DEF CommitsAlone
    <3>3. \A o \in Runs \ {q} : run'[o].at \in Committing => run'[o].path # run'[q].path
      BY <2>4, <3>1 DEF CommitsAlone
    <3>4. \A c \in Titles \ {run'[q].book} : title'[c].path # run'[q].path
      BY <2>3, <3>1, <3>2 DEF CommitsAlone
    <3> QED BY <2>1, <3>1, <3>3, <3>4 DEF CommitsAlone, OwnOrGone, SizeOf, NoFile
  <2> QED BY <2>6, <2>7 DEF CommitsApart, Committing
<1>22. CASE Interrupt(r) \/ Kill(r)
  <2>1. /\ run[r].at # "idle" /\ run' = [run EXCEPT ![r] = NoRun] /\ file' = Closed(file, r)
        /\ title' \in {title, [title EXCEPT ![run[r].book] = MarkInterrupted(title[run[r].book])]}
    BY <1>1, <1>22 DEF Interrupt, Kill, Ends, InFlight
  <2>2. MarkInterrupted(title[run[r].book]).path = title[run[r].book].path
        /\ MarkInterrupted(title[run[r].book]).status = "failed"
    BY <1>1, <2>1, StatementTypes
  <2>3. /\ \A b \in Titles : title'[b].path = title[b].path
        /\ \A b \in Titles : title'[b].status = "liberated" => title[b].status = "liberated"
    BY <1>1, <2>1, <2>2
  <2>4. run'[r].at \notin Committing /\ \A q \in Runs \ {r} : run'[q] = run[q]
    BY <1>1, <1>2, <2>1
  <2>5. \A q \in Runs \ {r} : run[q].at = "copying" => partial'[run[q].path] = partial[run[q].path]
    <3>1. \/ partial' = partial
          \/ partial' = Closed(partial, r)
          \/ /\ run[r].at = "copying"
             /\ partial' = [Closed(partial, r) EXCEPT ![run[r].path] = NoFile]
      BY <1>22 DEF Interrupt, Kill
    <3>2. Closed(partial, r) \in [Paths -> File]
      BY <1>1, ClosedFacts
    <3> QED BY <1>4, <3>1, <3>2 DEF Committing
  <2> QED BY <1>3, <2>1, <2>3, <2>4, <2>5, QuietStep
<1> QED BY <1>8, <1>9, <1>10, <1>11, <1>12, <1>13, <1>14, <1>15, <1>16, <1>17, <1>18, <1>19, <1>20,
           <1>21, <1>22 DEF RunStep

\* Whatever is forced, forgotten, interrupted or killed, the file a liberated
\* row points to is, while it is there, the whole audio of that very title
\* (resolvePathCollision, Commit, MarkLiberated), unless commits to one path
\* overlapped.
THEOREM LiberatedTitlesAreWhole == LiberationSpec => []LiberatedIsWhole
<1>1. LiberationInit => Untangled
  BY DEF LiberationInit, Untangled, CommitsApart, LibraryIsWhole, NoRun, Committing, NoFile,
         Untouched
<1>2. Typed /\ Untangled /\ [LiberationNext]_liberationVars => Untangled'
  <2> SUFFICES ASSUME Typed, Untangled, [LiberationNext]_liberationVars, ~tangled'
               PROVE  CommitsApart' /\ LibraryIsWhole'
    BY DEF Untangled
  <2>1. ~tangled
    BY DEF LiberationNext, liberationVars, LiberateBook, SweepLiberation, ForgetLiberation,
           ForgetRemove, ClearLiberation, RunStep, StartLiberation, RequestLicense, Fetch,
           Decrypt, CommitRename, ClearPartial, CreatePartial, CopyChunk, RenamePartial,
           StatCommitted, FinishLiberation, Interrupt, Kill
  <2>2. CommitsApart /\ LibraryIsWhole
    BY <2>1 DEF Untangled
  <2>3. CASE UNCHANGED liberationVars
    BY <2>2, <2>3 DEF liberationVars, CommitsApart, CommitsAlone, LibraryIsWhole, OwnOrGone
  <2>4. ASSUME NEW r \in Runs, RunStep(r) \/ Interrupt(r) \/ Kill(r)
        PROVE  CommitsApart' /\ LibraryIsWhole'
    BY <2>2, <2>4, UntangledStep
  <2>5. CASE \/ \E a \in Titles, force \in BOOLEAN : LiberateBook(a, force)
             \/ \E a \in Titles, force \in BOOLEAN : SweepLiberation(a, force)
             \/ \E a \in Titles : ForgetLiberation(a)
             \/ ForgetRemove \/ ClearLiberation
    <3>1. /\ UNCHANGED <<run, partial>> /\ \A b \in Titles : title'[b] \in {title[b], Untouched}
          /\ \A p \in Paths : file'[p] \in {file[p], NoFile}
      BY <2>5, RequestFacts
    <3>2. Untouched.path = NoPath /\ Untouched.status = "null" /\ NoFile.by = Nobody
          /\ NoPath \notin Paths
      BY NullTypes DEF Untouched, NoFile
    <3>3. LibraryIsWhole'
      <4> SUFFICES ASSUME NEW c \in Titles, title'[c].status = "liberated"
                   PROVE  title'[c].path \in Paths /\ OwnOrGone(file'[title'[c].path], c)
        BY <2>2, <3>1, <3>2 DEF LibraryIsWhole, OwnOrGone, SizeOf, NoFile, Paths
      <4>1. /\ title'[c] = title[c] /\ title[c].path \in Paths
            /\ OwnOrGone(file[title[c].path], c)
        BY <2>2, <3>1, <3>2 DEF LibraryIsWhole
      <4> QED BY <3>1, <4>1 DEF OwnOrGone
    <3>4. ASSUME NEW q \in Runs, run'[q].at \in Committing PROVE CommitsAlone(q)'
      <4>1. run' = run /\ partial' = partial /\ CommitsAlone(q) /\ run[q].path \in Paths
        BY <2>2, <3>1, <3>4, WorkingRun DEF CommitsApart
      <4>2. \A c \in Titles \ {run'[q].book} : title'[c].path # run'[q].path
        BY <3>1, <3>2, <4>1 DEF CommitsAlone
      <4>3. file'[run[q].path] \in {file[run[q].path], NoFile}
        BY <3>1, <4>1
      <4> QED BY <4>1, <4>2, <4>3 DEF CommitsAlone, OwnOrGone, SizeOf
    <3> QED BY <3>3, <3>4 DEF CommitsApart, Committing
  <2> QED BY <2>3, <2>4, <2>5 DEF LiberationNext
<1>3. Untangled => LiberatedIsWhole
  BY DEF Untangled, LibraryIsWhole, LiberatedIsWhole, OwnAudio, OwnOrGone
<1> QED BY <1>1, <1>2, <1>3, LiberationTypes, PTL DEF LiberationSpec
=============================================================================
