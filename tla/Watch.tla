-------------------------------- MODULE Watch --------------------------------
(***************************************************************************)
(* `snipe watch` (cmd/watch.go): one goroutine selects on file events, a   *)
(* debounce timer, the result of a background reindex and cancellation; a  *)
(* second one runs `snipe index` as a child process.  select takes any     *)
(* case that is ready, so each case is an action of its own.  On           *)
(* cancellation drainOnCancel runs one last, bounded, reindex.             *)
(*                                                                         *)
(* A child is one index run, reduced from module IndexRun to what decides  *)
(* whether a change is in the index: it detects changes by the time and    *)
(* hash stored of each file, loads the files, hashes them again and        *)
(* commits.  A change in the middle may be stored as indexed while its     *)
(* rows are older; later runs then pass over it.  The names handed to a    *)
(* child are for the event log only.                                       *)
(***************************************************************************)
EXTENDS Naturals

CONSTANTS Files,    \* paths of Go files under the watched directory
          LateFiles, \* those in a directory created after the start
          NewDir,   \* the event of that directory being created
          MaxEdits  \* bound: changes to files

ASSUME FilesAssumption == /\ LateFiles \subseteq Files
                          /\ NewDir \notin Files
                          /\ MaxEdits \in Nat

VARIABLES
  stale,     \* files whose rows in the index are older than the file
  matched,   \* files whose stored time or hash is that of the file as it is
  dir,       \* the late directory: "none", "unwatched" or "watched"
  edits,     \* number of changes so far
  queue,     \* events the watcher has for the loop
  pending,   \* pendingFiles
  timer,     \* debounceTimer: "off", "armed", or "fired" with its value unread
  indexing,
  phase,     \* "loop", then drainOnCancel: "wait", "run", "stopped"
  cancelled, \* GetContext() is done
  child,     \* the goroutine's process and the drain's
  drainFailed, \* the drain timed out or its reindex failed
  missed,    \* history: stale files the loop no longer knows of
  raced      \* history: files whose last change raced with a run's two looks

indexVars == <<stale, matched, raced>>
treeVars == <<indexVars, dir, edits>>
loopVars == <<pending, timer, indexing, phase, drainFailed>>
vars == <<treeVars, queue, loopVars, cancelled, child, missed>>

-----------------------------------------------------------------------------
\* Background goroutine and final drain.
Jobs == {"loop", "drain"}

\* A child: not there, running, or ended with its result on reindexDone.  It
\* has come as far as "at"; the rows it writes of "covered" are those of the
\* files as they are, and the times and hashes it stores of "stamped".
Child == [st : {"none", "running", "ok", "failed"}, files : SUBSET Files,
          at : {"start", "detected", "loaded", "hashed", "written"},
          covered : SUBSET Files, stamped : SUBSET Files]

StartOn(S) ==
  [st |-> "running", files |-> S, at |-> "start", covered |-> {}, stamped |-> {}]
NoChild == [StartOn({}) EXCEPT !.st = "none"]
Running(j) == child[j].st = "running"

\* The files of a reindex, without those it has found unchanged and those that
\* changed after it had loaded them.
Underway(j) == {f \in child[j].files : child[j].at # "start" => f \in child[j].covered}

\* A change to f now is not in the rows that child j writes, but is in the tree
\* that it hashes.
Races(j, f) == /\ Running(j)
               /\ \/ child[j].at = "detected" /\ f \notin child[j].covered
                  \/ child[j].at = "loaded"

\* DetectChanges takes the file for unchanged, although its rows are older: its
\* last change raced.
Masked == stale \cap matched \cap raced

Watched(f) == f \notin LateFiles \/ dir = "watched"

\* Stop, drain and Reset of the debounce timer.
Rearm == timer' = "armed"

\* reindexDone re-arms if files arrived during the reindex; and if forgotten.
MutantRearmIfPending == UNCHANGED timer
RearmIfPending == IF pending # {} THEN Rearm ELSE UNCHANGED timer

\* addWatchDirs at the start, with an index that is up to date.
Init == /\ stale = {} /\ matched = Files \ LateFiles /\ raced = {}
        /\ dir = "none" /\ edits = 0 /\ queue = {}
        /\ pending = {} /\ timer = "off" /\ indexing = FALSE /\ phase = "loop"
        /\ cancelled = FALSE /\ child = [j \in Jobs |-> NoChild]
        /\ drainFailed = FALSE /\ missed = {}

-----------------------------------------------------------------------------
(* The world outside the loop.                                             *)

\* A file gets a content it has not had.  A child that has loaded it does not
\* cover it any more.  sameSecond: its time in seconds stays the one that is
\* stored, or that a child is about to store.
Edit(f, sameSecond) ==
  /\ edits < MaxEdits
  /\ f \in LateFiles => dir # "none"
  /\ sameSecond => f \in matched \/ \E j \in Jobs : f \in child[j].stamped
  /\ edits' = edits + 1
  /\ stale' = stale \cup {f}
  /\ matched' = IF sameSecond THEN matched ELSE matched \ {f}
  /\ raced' = IF sameSecond \/ \E j \in Jobs : Races(j, f) THEN raced \cup {f}
              ELSE raced \ {f}
  /\ child' = [j \in Jobs |->
                 [child[j] EXCEPT
                    !.covered = IF child[j].at = "detected" THEN @ ELSE @ \ {f},
                    !.stamped = IF sameSecond THEN @ ELSE @ \ {f}]]
  /\ \/ /\ Watched(f)
        /\ queue' = queue \cup {f}
        /\ missed' = missed \ {f}
     \/ /\ ~Watched(f)
        /\ missed' = missed \cup {f}
        /\ UNCHANGED queue
  /\ UNCHANGED <<dir, loopVars, cancelled>>

MakeDir ==
  /\ dir = "none"
  /\ dir' = "unwatched"
  /\ queue' = queue \cup {NewDir}
  /\ UNCHANGED <<indexVars, edits, loopVars, cancelled, child, missed>>

\* The kernel's queue overflows.  The loop gets an error on watcher.Errors,
\* prints it and goes on; the events are gone.
Overflow ==
  /\ phase = "loop" /\ queue # {}
  /\ queue' = {}
  /\ missed' = missed \cup (queue \cap stale)
  /\ UNCHANGED <<treeVars, loopVars, cancelled, child>>

\* The debounce time is over.
Expire ==
  /\ timer = "armed"
  /\ timer' = "fired"
  /\ UNCHANGED <<treeVars, queue, pending, indexing, phase, drainFailed, cancelled, child,
                 missed>>

Cancel ==
  /\ ~cancelled
  /\ cancelled' = TRUE
  /\ UNCHANGED <<treeVars, queue, loopVars, child, missed>>

-----------------------------------------------------------------------------
(* runReindex: the child process.                                          *)

\* trySkipIndex: a full run takes every file, an incremental one those whose time
\* and hash are not as stored; if there are none it is done.  Which of the two
\* is left open: it is full if the build configuration or most files have
\* changed, or the metrics are of an older version.  (A run for removals alone,
\* which neither loads nor hashes, is not told apart.)
Detect(j, full) ==
  LET changed == IF full THEN Files ELSE stale \ matched
  IN /\ Running(j) /\ child[j].at = "start"
     /\ child' = [child EXCEPT ![j].at = IF changed = {} THEN "written" ELSE "detected",
                               ![j].covered = changed]
     /\ UNCHANGED <<treeVars, queue, loopVars, cancelled, missed>>

\* index.Load.
Load(j) ==
  /\ Running(j) /\ child[j].at = "detected"
  /\ child' = [child EXCEPT ![j].at = "loaded"]
  /\ UNCHANGED <<treeVars, queue, loopVars, cancelled, missed>>

\* ExtractFileInfo: every file there is, whether or not its rows are new.
HashFiles(j) ==
  /\ Running(j) /\ child[j].at = "loaded"
  /\ child' = [child EXCEPT ![j].at = "hashed", ![j].stamped = stale \cup matched]
  /\ UNCHANGED <<treeVars, queue, loopVars, cancelled, missed>>

\* WriteFiles, the last of the transactions that decide: rows, times and hashes
\* are there.
WriteFiles(j) ==
  /\ Running(j) /\ child[j].at = "hashed"
  /\ stale' = stale \ child[j].covered
  /\ missed' = missed \ child[j].covered
  /\ matched' = child[j].stamped
  /\ child' = [child EXCEPT ![j].at = "written"]
  /\ UNCHANGED <<dir, edits, raced, queue, loopVars, cancelled>>

\* It ends well; the drain returns.
Succeed(j) ==
  /\ Running(j) /\ child[j].at = "written"
  /\ child' = [child EXCEPT ![j].st = "ok"]
  /\ phase' = IF j = "drain" THEN "stopped" ELSE phase
  /\ UNCHANGED <<treeVars, queue, pending, timer, indexing, drainFailed, cancelled, missed>>

\* It returns an error: another process holds the index lock, a file does not
\* parse, the machine fails it; or exec.CommandContext kills it, the goroutine's
\* child once the command context is done, the drain's at its own deadline.
\* Rows it may have written before WriteFiles do not count: the files are seen
\* as changed again.
Fail(j) ==
  /\ Running(j)
  /\ child' = [child EXCEPT ![j] = [StartOn(@.files) EXCEPT !.st = "failed"]]
  /\ phase' = IF j = "drain" THEN "stopped" ELSE phase
  /\ drainFailed' = (drainFailed \/ j = "drain")
  /\ UNCHANGED <<treeVars, queue, pending, timer, indexing, cancelled, missed>>

-----------------------------------------------------------------------------
(* The select loop of runWatch.                                            *)

\* Events during a reindex are taken to be covered by it.
MutantFileEvent(f) ==
  /\ phase = "loop" /\ f \in queue
  /\ queue' = queue \ {f}
  /\ pending' = IF indexing THEN pending ELSE pending \cup {f}
  /\ Rearm
  /\ UNCHANGED <<treeVars, indexing, phase, drainFailed, cancelled, child, missed>>

\* case event := <-watcher.Events, a Go file.
FileEvent(f) ==
  /\ phase = "loop" /\ f \in queue
  /\ queue' = queue \ {f}
  /\ pending' = pending \cup {f}
  /\ Rearm
  /\ UNCHANGED <<treeVars, indexing, phase, drainFailed, cancelled, child, missed>>

\* case event := <-watcher.Events, a new directory: addWatchDirs.  Nothing is
\* done about the files that are in it already.
DirEvent ==
  /\ phase = "loop" /\ NewDir \in queue
  /\ queue' = queue \ {NewDir}
  /\ dir' = "watched"
  /\ UNCHANGED <<indexVars, edits, loopVars, cancelled, child, missed>>

\* The case with pendingFiles cleared before indexing is looked at.
MutantTimerFires ==
  /\ phase = "loop" /\ timer = "fired"
  /\ timer' = "off"
  /\ pending' = {}
  /\ IF pending = {} \/ indexing
     THEN UNCHANGED <<indexing, child>>
     ELSE /\ indexing' = TRUE
          /\ child' = [child EXCEPT !["loop"] = StartOn(pending)]
  /\ UNCHANGED <<treeVars, queue, phase, drainFailed, cancelled, missed>>

\* case <-debounceTimer.C: startReindex, unless one is running.
TimerFires ==
  /\ phase = "loop" /\ timer = "fired"
  /\ timer' = "off"
  /\ IF pending = {} \/ indexing
     THEN UNCHANGED <<pending, indexing, child>>
     ELSE /\ pending' = {}
          /\ indexing' = TRUE
          /\ child' = [child EXCEPT !["loop"] = StartOn(pending)]
  /\ UNCHANGED <<treeVars, queue, phase, drainFailed, cancelled, missed>>

\* case res := <-reindexDone.  A failure is reported, or not even that once the
\* context is done; its files are not queued again.
ReindexDone ==
  /\ phase = "loop" /\ child["loop"].st \in {"ok", "failed"}
  /\ indexing' = FALSE
  /\ missed' = IF child["loop"].st = "ok" THEN missed
               ELSE missed \cup (child["loop"].files \cap stale)
  /\ child' = [child EXCEPT !["loop"] = NoChild]
  /\ RearmIfPending
  /\ UNCHANGED <<treeVars, queue, pending, phase, drainFailed, cancelled>>

-----------------------------------------------------------------------------
(* case <-GetContext().Done(): drainOnCancel.                              *)

\* The last reindex, if there are files for it.
DrainWith(S) ==
  /\ pending' = S
  /\ IF S = {}
     THEN phase' = "stopped" /\ UNCHANGED child
     ELSE phase' = "run" /\ child' = [child EXCEPT !["drain"] = StartOn(S)]

\* It does not wait for the reindex that is in flight.
MutantBeginDrain ==
  /\ phase = "loop" /\ cancelled
  /\ DrainWith(pending)
  /\ UNCHANGED <<treeVars, queue, timer, indexing, drainFailed, cancelled, missed>>

BeginDrain ==
  /\ phase = "loop" /\ cancelled
  /\ IF indexing THEN phase' = "wait" /\ UNCHANGED <<pending, child>>
     ELSE DrainWith(pending)
  /\ UNCHANGED <<treeVars, queue, timer, indexing, drainFailed, cancelled, missed>>

\* The in-flight result: the files of a failed reindex are folded back in.
Fold == IF child["loop"].st = "ok" THEN pending ELSE pending \cup child["loop"].files

\* The result is awaited but its files are forgotten.
MutantDrainResult ==
  /\ phase = "wait" /\ child["loop"].st \in {"ok", "failed"}
  /\ DrainWith(pending)
  /\ UNCHANGED <<treeVars, queue, timer, indexing, drainFailed, cancelled, missed>>

DrainResult ==
  /\ phase = "wait" /\ child["loop"].st \in {"ok", "failed"}
  /\ DrainWith(Fold)
  /\ UNCHANGED <<treeVars, queue, timer, indexing, drainFailed, cancelled, missed>>

\* A deadline that is looked at only after the in-flight reindex has ended.
MutantDrainTimeout ==
  /\ phase = "wait" /\ ~Running("loop")
  /\ phase' = "stopped"
  /\ drainFailed' = TRUE
  /\ UNCHANGED <<treeVars, queue, pending, timer, indexing, cancelled, child, missed>>

\* watchDrainTimeout passes first.  The drain's context is over as well, so
\* exec.CommandContext refuses to start the last reindex.
DrainTimeout ==
  /\ phase = "wait"
  /\ phase' = "stopped"
  /\ drainFailed' = TRUE
  /\ UNCHANGED <<treeVars, queue, pending, timer, indexing, cancelled, child, missed>>

\* The drain's deadline passes while its own reindex runs, and kills it.
DrainDeadline == Fail("drain")

-----------------------------------------------------------------------------
LoopStep == \/ \E f \in Files : FileEvent(f)
            \/ DirEvent \/ TimerFires \/ ReindexDone \/ BeginDrain

DrainStep == DrainResult \/ DrainTimeout

ChildStep(j) == \/ \E full \in BOOLEAN : Detect(j, full)
                \/ Load(j) \/ HashFiles(j) \/ WriteFiles(j) \/ Succeed(j) \/ Fail(j)

WorldStep == \/ \E f \in Files, sameSecond \in BOOLEAN : Edit(f, sameSecond)
             \/ MakeDir \/ Overflow \/ Expire \/ Cancel

Next == LoopStep \/ DrainStep \/ WorldStep \/ \E j \in Jobs : ChildStep(j)

\* The loop runs, timers expire, and a child that is not cancelled ends.  The
\* deadline of the drain passes; nothing is assumed of a child by then.
Fairness == /\ WF_vars(LoopStep) /\ WF_vars(BeginDrain) /\ WF_vars(Expire)
            /\ WF_vars(~cancelled /\ ChildStep("loop"))
            /\ WF_vars(DrainTimeout) /\ WF_vars(DrainDeadline)

Spec == Init /\ [][Next]_vars /\ Fairness

-----------------------------------------------------------------------------
TypeOK ==
  /\ stale \subseteq Files /\ matched \subseteq Files /\ raced \subseteq Files
  /\ dir \in {"none", "unwatched", "watched"} /\ edits \in 0..MaxEdits
  /\ queue \subseteq Files \cup {NewDir} /\ pending \subseteq Files
  /\ timer \in {"off", "armed", "fired"} /\ indexing \in BOOLEAN
  /\ phase \in {"loop", "wait", "run", "stopped"} /\ cancelled \in BOOLEAN
  /\ child \in [Jobs -> Child] /\ drainFailed \in BOOLEAN
  /\ missed \subseteq Files

\* The drain "waits ... rather than starting an overlapping reindex": at most
\* one child process of the loop runs at a time.
NoOverlap == ~(Running("loop") /\ Running("drain"))

\* While the loop runs it knows of every change: the change is an event, a
\* pending file, or part of a reindex in flight - unless it was missed for one
\* of the reasons the code accepts (no watch yet, overflow, failed reindex), or
\* it raced with a run and every run now takes the file for unchanged.
NoChangeForgotten ==
  phase = "loop" =>
    stale \subseteq missed \cup queue \cup pending \cup Underway("loop") \cup Masked

\* Pending files are never left without something that will wake the loop up.
NoLostWakeup ==
  phase = "loop" /\ pending # {} => timer # "off" \/ indexing

\* A shutdown whose drain worked leaves in the index every change the loop
\* knew of: what is still stale was missed, its event was not taken yet, or its
\* last change came between a run's change detection and its hashing, or within
\* the second of the stored time, so that the drain could not see it.
DrainIsFinal ==
  phase = "stopped" /\ ~drainFailed => stale \subseteq missed \cup queue \cup Masked

\* Each change gets into the index, unless it is missed, masked, or the loop is
\* told to stop.
ChangesIndexed ==
  \A f \in Files :
    f \in stale ~> (f \notin stale \/ f \in missed \/ f \in Masked \/ cancelled)

\* Shutdown cannot hang, even if no child ever ends.
ShutsDown == cancelled ~> phase = "stopped"

=============================================================================
