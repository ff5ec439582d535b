----------------------------- MODULE Liberation -----------------------------
(***************************************************************************)
(* Liberation of owned Audible titles (internal/books/liberate and the     *)
(* handlers of internal/books/api/books_liberation.go): jobs that license, *)
(* download, remux and commit one title each, several at a time, to one    *)
(* library.  The titles of `Titles` render the same path (one author, one  *)
(* title: a re-recording).                                                 *)
(*                                                                         *)
(* A file is the part of a title that has been copied so far: Whole chunks *)
(* are all of it.  `by` is the run that has the file open and goes on      *)
(* writing to it wherever it has been renamed to.  A size is a title and a *)
(* number of chunks: files of two titles differ in size.                   *)
(*                                                                         *)
(* Amazon, the download and ffmpeg are external: each stage answers with   *)
(* success or any of the errors the code tells apart.                      *)
(***************************************************************************)
EXTENDS Naturals

CONSTANTS Titles,        \* library items of one path
          Runs,          \* slots that run books-liberate-book, all pods together
          MaxAutoAttempts,
          MaxJobs,       \* jobs queued for titles
          MaxForgets,    \* DELETE requests
          MaxInterrupts  \* cancelled contexts, dying processes, lost statements

ASSUME LiberationAssumption ==
  /\ MaxAutoAttempts \in Nat \ {0}
  /\ MaxJobs \in Nat /\ MaxForgets \in Nat /\ MaxInterrupts \in Nat

VARIABLES title,     \* [Titles -> liberation columns of the row]
          onDevice,  \* the work directory is on the library's file system
          file,      \* [Paths -> the file there]
          partial,   \* [Paths -> the .partial file beside it]
          waiting,   \* jobs queued: {<<title, force>>}
          run,       \* [Runs -> the job that runs]
          forget,    \* the DELETE request in progress
          enqueued, forgets, interrupts,
          denied,    \* history: titles Amazon denied, which it has not granted, nor their
                     \* owner asked for or forgotten, since
          stranded,  \* history: titles of a run that ended without a word in the row
          tangled    \* history: commits to one path have overlapped

liberationVars == <<title, onDevice, file, partial, waiting, run, forget, enqueued, forgets,
                    interrupts, denied, stranded, tangled>>

Whole == 2
Rendered == "rendered"
Disambiguated(b) == b
Paths == {Rendered} \union Titles
NoPath == "none"
Nobody == "nobody"
NoFile == [book |-> Nobody, chunks |-> 0, by |-> Nobody]
NoSize == [book |-> Nobody, chunks |-> 0]
SizeOf(f) == [book |-> f.book, chunks |-> f.chunks]

\* The null values are none of the things they stand in for.
ASSUME NullsAssumption == Nobody \notin Titles \union Runs /\ NoPath \notin Titles

InFlight == {"licensing", "downloading", "converting"}
Terminal == {"denied", "unsupported_format", "unsupported_codec"}
TitleStatus == InFlight \union Terminal \union {"null", "liberated", "failed"}

Untouched == [status |-> "null", path |-> NoPath, size |-> NoSize, attempts |-> 0]
NoRun == [at |-> "idle", book |-> Nobody, path |-> NoPath, copied |-> 0, size |-> NoSize]
NoForget == [at |-> "idle", book |-> Nobody, path |-> NoPath]

Size == [book : Titles \union {Nobody}, chunks : 0..Whole]
File == [book : Titles \union {Nobody}, chunks : 0..Whole, by : Runs \union {Nobody}]
LiberationColumns ==
  [status : TitleStatus, path : Paths \union {NoPath}, size : Size,
   attempts : 0..MaxAutoAttempts]
LiberationRun ==
  [at : {"idle", "resolved", "cleared", "copying", "committed", "sized"} \union InFlight,
   book : Titles \union {Nobody}, path : Paths \union {NoPath}, copied : 0..Whole,
   size : Size]

-----------------------------------------------------------------------------
\* The statements of store.go.  liberation_attempts is only compared with
\* MaxAutoAttempts, so it stops there.

SetStatus(it, status) == [it EXCEPT !.status = status]

MarkLiberated(it, path, size) ==
  [status |-> "liberated", path |-> path, size |-> size, attempts |-> 0]

MarkFailed(it, status) ==
  [it EXCEPT !.status = status,
             !.attempts = IF @ < MaxAutoAttempts THEN @ + 1 ELSE @]

MarkInterrupted(it) == [it EXCEPT !.status = "failed"]

ListUnliberated ==
  {b \in Titles : /\ title[b].status \notin Terminal \union {"liberated"}
                  /\ title[b].attempts < MaxAutoAttempts}

Claimed(path, b) == \E c \in Titles \ {b} : title[c].path = path

\* alreadyLiberated: recorded as liberated, present, and of the recorded size.
AlreadyLiberated(b) ==
  /\ title[b].status = "liberated"
  /\ file[title[b].path] # NoFile
  /\ SizeOf(file[title[b].path]) = title[b].size

-----------------------------------------------------------------------------
Enqueue(b, force) ==
  /\ enqueued < MaxJobs /\ enqueued' = enqueued + 1
  /\ <<b, force>> \notin waiting
  /\ waiting' = waiting \union {<<b, force>>}

\* POST .../liberate: refused while a run is under way, unless forced.
LiberateBook(b, force) ==
  /\ force \/ title[b].status \notin InFlight
  /\ Enqueue(b, force)
  /\ denied' = denied \ {b}
  /\ UNCHANGED <<title, onDevice, file, partial, run, forget, forgets, interrupts, stranded, tangled>>

\* POST /liberate/sweep and the job it queues, which queues one job for each
\* title on the list.  An enqueue that fails leaves its title to the next sweep.
SweepLiberation(b, force) ==
  /\ b \in ListUnliberated
  /\ Enqueue(b, force)
  /\ UNCHANGED <<title, onDevice, file, partial, run, forget, forgets, interrupts, denied,
                 stranded, tangled>>

\* DELETE .../liberate, in its three statements.
ForgetLiberation(b) ==
  /\ forget.at = "idle" /\ forgets < MaxForgets
  /\ forgets' = forgets + 1
  /\ \E deleteFile \in BOOLEAN :
       forget' = [at |-> IF deleteFile /\ title[b].path # NoPath THEN "loaded" ELSE "removed",
                  book |-> b, path |-> title[b].path]
  /\ UNCHANGED <<title, onDevice, file, partial, waiting, run, enqueued, interrupts, denied,
                 stranded, tangled>>

ForgetRemove ==
  /\ forget.at = "loaded"
  /\ file' = [file EXCEPT ![forget.path] = NoFile]
  /\ forget' = [forget EXCEPT !.at = "removed"]
  /\ UNCHANGED <<title, onDevice, partial, waiting, run, enqueued, forgets, interrupts, denied,
                 stranded, tangled>>

ClearLiberation ==
  /\ forget.at = "removed"
  /\ title' = [title EXCEPT ![forget.book] = Untouched]
  /\ denied' = denied \ {forget.book}
  /\ forget' = NoForget
  /\ UNCHANGED <<onDevice, file, partial, waiting, run, enqueued, forgets, interrupts, stranded, tangled>>

-----------------------------------------------------------------------------
\* A run ends: nobody writes to its file any more.
Closed(files, r) ==
  [p \in Paths |-> IF files[p].by = r THEN [files[p] EXCEPT !.by = Nobody] ELSE files[p]]

Ends(r) == run' = [run EXCEPT ![r] = NoRun]

\* LoadItem, the idempotency check, the credential (without one the run ends),
\* the attempt row and the first SetStatus.
StartLiberation(r, b, force) ==
  /\ run[r].at = "idle" /\ <<b, force>> \in waiting
  /\ waiting' = waiting \ {<<b, force>>}
  /\ \/ UNCHANGED <<title, run>>  \* skipped, or no row or credential
     \/ /\ force \/ ~AlreadyLiberated(b)
        /\ title' = [title EXCEPT ![b] = SetStatus(@, "licensing")]
        /\ run' = [run EXCEPT ![r] = [NoRun EXCEPT !.at = "licensing", !.book = b]]
  /\ UNCHANGED <<onDevice, file, partial, forget, enqueued, forgets, interrupts, denied, stranded,
                 tangled>>

\* recordFailure of an error that says something of the title.
Fails(r, status) ==
  /\ title' = [title EXCEPT ![run[r].book] = MarkFailed(@, status)]
  /\ Ends(r)

Advances(r, stage) ==
  /\ title' = [title EXCEPT ![run[r].book] = SetStatus(@, stage)]
  /\ run' = [run EXCEPT ![r].at = stage]

\* The licence answer and the voucher; a denial is told apart from a title that
\* is no audiobook and from any other error.
RequestLicense(r) ==
  /\ run[r].at = "licensing"
  /\ \/ Advances(r, "downloading") /\ denied' = denied \ {run[r].book}
     \/ \E status \in {"failed", "unsupported_format"} : Fails(r, status) /\ UNCHANGED denied
     \/ Fails(r, "denied") /\ denied' = denied \union {run[r].book}
  /\ UNCHANGED <<onDevice, file, partial, waiting, forget, enqueued, forgets, interrupts,
                 stranded, tangled>>

Fetch(r) ==
  /\ run[r].at = "downloading"
  /\ Advances(r, "converting") \/ Fails(r, "failed")
  /\ UNCHANGED <<onDevice, file, partial, waiting, forget, enqueued, forgets, interrupts, denied,
                 stranded, tangled>>

\* Mutant: no other path for a title whose path is taken.
ResolvedPath_Rendered(b) == Rendered

\* resolvePathCollision; NoPath is ErrPathCollision.
ResolvedPath(b) ==
  IF ~Claimed(Rendered, b) THEN Rendered
  ELSE IF ~Claimed(Disambiguated(b), b) THEN Disambiguated(b)
  ELSE NoPath

Committing == {"resolved", "cleared", "copying", "committed", "sized"}

\* The remux, classifyRemuxFailure, and the path it is to have.
Decrypt(r) ==
  /\ run[r].at = "converting"
  /\ LET path == ResolvedPath(run[r].book)
     IN  \/ /\ path # NoPath
            /\ run' = [run EXCEPT ![r].at = "resolved", ![r].path = path]
            /\ tangled' = (tangled \/ \E q \in Runs \ {r} :
                             run[q].at \in Committing /\ run[q].path = path)
            /\ UNCHANGED title
         \/ /\ \E status \in {"failed", "unsupported_codec"} : Fails(r, status)
            /\ UNCHANGED tangled
  /\ UNCHANGED <<onDevice, file, partial, waiting, forget, enqueued, forgets, interrupts, denied,
                 stranded>>

\* Commit within one file system.
CommitRename(r) ==
  /\ run[r].at = "resolved" /\ onDevice
  /\ file' = [file EXCEPT ![run[r].path] = [book |-> run[r].book, chunks |-> Whole, by |-> Nobody]]
  /\ run' = [run EXCEPT ![r].at = "committed"]
  /\ UNCHANGED <<title, onDevice, partial, waiting, forget, enqueued, forgets, interrupts, denied,
                 stranded, tangled>>

\* copyThenRename: clear what a killed run may have left, create, copy, rename.
ClearPartial(r) ==
  /\ run[r].at = "resolved" /\ ~onDevice
  /\ partial' = [partial EXCEPT ![run[r].path] = NoFile]
  /\ run' = [run EXCEPT ![r].at = "cleared"]
  /\ UNCHANGED <<title, onDevice, file, waiting, forget, enqueued, forgets, interrupts, denied,
                 stranded, tangled>>

CreatePartial(r) ==
  /\ run[r].at = "cleared"
  /\ IF partial[run[r].path] = NoFile
     THEN /\ partial' = [partial EXCEPT ![run[r].path] =
                           [book |-> run[r].book, chunks |-> 0, by |-> r]]
          /\ run' = [run EXCEPT ![r].at = "copying"]
          /\ UNCHANGED title
     ELSE Fails(r, "failed") /\ UNCHANGED partial
  /\ UNCHANGED <<onDevice, file, waiting, forget, enqueued, forgets, interrupts, denied, stranded, tangled>>

Grown(files, r) ==
  [p \in Paths |-> IF files[p].by = r THEN [files[p] EXCEPT !.chunks = @ + 1] ELSE files[p]]

CopyChunk(r) ==
  /\ run[r].at = "copying" /\ run[r].copied < Whole
  /\ partial' = Grown(partial, r)
  /\ file' = Grown(file, r)
  /\ run' = [run EXCEPT ![r].copied = @ + 1]
  /\ UNCHANGED <<title, onDevice, waiting, forget, enqueued, forgets, interrupts, denied, stranded, tangled>>

\* The rename takes whatever the .partial name stands for now.
RenamePartial(r) ==
  /\ run[r].at = "copying" /\ run[r].copied = Whole
  /\ LET path == run[r].path
         closed == Closed(partial, r)
     IN  IF closed[path] # NoFile
         THEN /\ file' = [Closed(file, r) EXCEPT ![path] = closed[path]]
              /\ partial' = [closed EXCEPT ![path] = NoFile]
              /\ run' = [run EXCEPT ![r].at = "committed"]
              /\ UNCHANGED title
         ELSE /\ file' = Closed(file, r) /\ partial' = closed
              /\ Fails(r, "failed")
  /\ UNCHANGED <<onDevice, waiting, forget, enqueued, forgets, interrupts, denied, stranded, tangled>>

\* Stat after the commit; the size of the remux output where it has no answer.
StatCommitted(r) ==
  /\ run[r].at = "committed"
  /\ LET local == [book |-> run[r].book, chunks |-> Whole]
         there == file[run[r].path]
     IN  run' = [run EXCEPT ![r].at = "sized",
                            ![r].size = IF there = NoFile THEN local ELSE SizeOf(there)]
  /\ UNCHANGED <<title, onDevice, file, partial, waiting, forget, enqueued, forgets, interrupts,
                 denied, stranded, tangled>>

\* A committed file whose size is zero fails the run.
FinishLiberation(r) ==
  /\ run[r].at = "sized"
  /\ LET b == run[r].book
     IN  IF run[r].size.chunks = 0 THEN Fails(r, "failed")
         ELSE /\ title' = [title EXCEPT ![b] = MarkLiberated(@, run[r].path, run[r].size)]
              /\ Ends(r)
  /\ UNCHANGED <<onDevice, file, partial, waiting, forget, enqueued, forgets, interrupts, denied,
                 stranded, tangled>>

-----------------------------------------------------------------------------
Interrupted == interrupts < MaxInterrupts /\ interrupts' = interrupts + 1

\* Mutant: the row is written under the cancelled context.
RecordsInterruption_Lost(r) == FALSE

\* The context of the job is cancelled.  Up to the commit the row is told so
\* under a context of its own (recordCtx); the copy removes its .partial;
\* MarkLiberated runs under the cancelled context and is lost.
RecordsInterruption(r) == run[r].at # "sized"

Interrupt(r) ==
  /\ Interrupted
  /\ run[r].at \in InFlight \union {"copying", "sized"}
  /\ title' = IF RecordsInterruption(r)
              THEN [title EXCEPT ![run[r].book] = MarkInterrupted(@)] ELSE title
  /\ stranded' = IF run[r].at = "sized" THEN stranded \union {run[r].book} ELSE stranded
  /\ file' = Closed(file, r)
  /\ partial' = IF run[r].at = "copying" THEN [Closed(partial, r) EXCEPT ![run[r].path] = NoFile]
                ELSE partial
  /\ Ends(r)
  /\ UNCHANGED <<onDevice, waiting, forget, enqueued, forgets, denied, tangled>>

\* The process is killed, or its last statement fails.
Kill(r) ==
  /\ Interrupted
  /\ run[r].at # "idle"
  /\ stranded' = stranded \union {run[r].book}
  /\ file' = Closed(file, r) /\ partial' = Closed(partial, r)
  /\ Ends(r)
  /\ UNCHANGED <<title, onDevice, waiting, forget, enqueued, forgets, denied, tangled>>

-----------------------------------------------------------------------------
LiberationInit ==
  /\ title = [b \in Titles |-> Untouched]
  /\ onDevice \in BOOLEAN
  /\ file = [p \in Paths |-> NoFile] /\ partial = file
  /\ waiting = {}
  /\ run = [r \in Runs |-> NoRun]
  /\ forget = NoForget
  /\ enqueued = 0 /\ forgets = 0 /\ interrupts = 0
  /\ denied = {} /\ stranded = {} /\ tangled = FALSE

RunStep(r) ==
  \/ \E b \in Titles, force \in BOOLEAN : StartLiberation(r, b, force)
  \/ RequestLicense(r) \/ Fetch(r) \/ Decrypt(r)
  \/ CommitRename(r) \/ ClearPartial(r) \/ CreatePartial(r) \/ CopyChunk(r)
  \/ RenamePartial(r) \/ StatCommitted(r) \/ FinishLiberation(r)

LiberationNext ==
  \/ \E b \in Titles, force \in BOOLEAN : LiberateBook(b, force)
  \/ \E b \in Titles, force \in BOOLEAN : SweepLiberation(b, force)
  \/ \E b \in Titles : ForgetLiberation(b)
  \/ ForgetRemove \/ ClearLiberation
  \/ \E r \in Runs : RunStep(r) \/ Interrupt(r) \/ Kill(r)

LiberationSpec == LiberationInit /\ [][LiberationNext]_liberationVars

LiberationTypeOK ==
  /\ title \in [Titles -> LiberationColumns]
  /\ file \in [Paths -> File] /\ partial \in [Paths -> File]
  /\ waiting \subseteq Titles \X BOOLEAN
  /\ run \in [Runs -> LiberationRun]
  /\ denied \union stranded \subseteq Titles

\* The file a liberated row points to is, while it is there, the whole audio of
\* that very title: never one another title has taken, nor a copy that was cut
\* short (resolvePathCollision, Commit), whatever is forced, forgotten, killed
\* or interrupted, as long as no two runs were committing to one path at a time.
OwnAudio(b) ==
  LET there == file[title[b].path]
  IN  there # NoFile => SizeOf(there) = [book |-> b, chunks |-> Whole]

LiberatedIsWhole ==
  ~tangled => \A b \in Titles : title[b].status = "liberated" => OwnAudio(b)

\* What later runs skip as liberated is whole, also after two runs of a title
\* have overlapped and ended: the comment on makeWorkDir calls that harmless.
LiberatedIsAlwaysWhole ==
  (\A r \in Runs : run[r].at = "idle") =>
    \A b \in Titles : AlreadyLiberated(b) =>
      SizeOf(file[title[b].path]) = [book |-> b, chunks |-> Whole]

\* A title Amazon has denied, and that nobody has asked for since, is on no
\* sweep's list once its runs have ended: terminalStatuses (store.go) "are the
\* outcomes the sweep never retries on its own".
DenialStands ==
  \A b \in denied : (\A r \in Runs : run[r].book # b) => b \notin ListUnliberated

\* A row in flight has a run that works on it, so that the 409 of a second
\* request and the UI tell the truth: however runs of a title overlap, are
\* interrupted or fail, the last of them leaves the row in an ended state,
\* unless it was killed or the write of its success was lost.
InFlightIsAlive ==
  \A b \in Titles \ stranded :
    title[b].status \in InFlight => \E r \in Runs : run[r].book = b
=============================================================================
