------------------------------ MODULE QueryOpen ------------------------------
(***************************************************************************)
(* What a query answers from (cmd/root.go OpenStore, cmd/heal.go,          *)
(* internal/query/state.go, internal/util/root.go).                        *)
(*                                                                         *)
(* A query opens the index next to the code, refuses one that is missing,  *)
(* being built or built for another directory, lets a child process        *)
(* reindex a little drift, reads its rows, and compares the files they     *)
(* name with the disk.  None of this is one step: the user edits files and *)
(* moves the repository, other index runs come and go, and any process may *)
(* be killed.  Index runs are abstracted to the order of their commits;    *)
(* IndexRun has their tables, IndexLock the lock.                          *)
(***************************************************************************)
EXTENDS Naturals, FiniteSets

CONSTANTS Files,      \* Go files of the repository, as relative paths
          Dirs, Home, \* directories the repository may be in; where it is at first
          HealMax,    \* healMaxChangedFiles
          MaxEvents   \* bound: edits, configuration changes and moves

ASSUME OpenAssumption == /\ {HealMax, MaxEvents} \subseteq Nat \ {0}
                         /\ Home \in Dirs /\ Dirs \subseteq Nat \ {0}

VARIABLES
  here, kept,  \* the repository's directory; is the code still in the other one, too?
  disk,        \* files: version (0: no file) and time
  conf,        \* the build configuration
  events,      \* edits, configuration changes and moves so far
  rows,        \* symbols table: per file the version, and the directory it was read in
  meta,        \* files table: likewise with the version as hash, and a time
  root, fp,    \* meta keys repo_root and fingerprint (0: none)
  run,         \* the index process that holds the lock
  q,           \* the query
  clouded      \* history: files edited during a run, or without a later time

vars == <<here, kept, disk, conf, events, rows, meta, root, fp, run, q, clouded>>
world == <<here, kept, disk, conf, events>>
db == <<rows, meta, root, fp>>

NoRow == [v |-> 0, d |-> 0]
NoMeta == [v |-> 0, d |-> 0, t |-> 0]
NoRun == [pc |-> "none", who |-> "none", force |-> FALSE, conf |-> 0, changed |-> {}, snap |-> {}]
\* seen: the versions each file had since the query began; calm: no edit since
\* the child began; crossed: another run committed between rows and label.
NoQuery == [pc |-> "idle", child |-> "none", seen |-> {}, calm |-> TRUE, crossed |-> FALSE, half |-> FALSE,
            healed |-> FALSE, answer |-> {}, stale |-> {}]

Init ==
  /\ here = Home /\ kept = FALSE
  /\ disk = [f \in Files |-> [v |-> 1, t |-> 0]]
  /\ conf = 1 /\ events = 0
  /\ rows = [f \in Files |-> NoRow] /\ meta = [f \in Files |-> NoMeta]
  /\ root = 0 /\ fp = 0
  /\ run = NoRun /\ q = NoQuery
  /\ clouded = {}

-----------------------------------------------------------------------------
\* Comparisons with the disk.

\* util.RootMoved; an index without repo_root never moved.
RootMoved == root # 0 /\ root # here

\* index.DetectChanges: paths that only one side has, and files whose time and
\* content both differ.
Stored == {f \in Files : meta[f].v # 0}
Changed == {f \in Files : \/ (disk[f].v # 0) # (f \in Stored)
                          \/ f \in Stored /\ meta[f].d # here
                          \/ f \in Stored /\ disk[f].t # meta[f].t /\ disk[f].v # meta[f].v}
\* A file whose stored path is in another directory counts twice.
TotalChanged == Cardinality(Changed) + Cardinality({f \in Stored : meta[f].d # here /\ disk[f].v # 0})

\* checkPathStaleness for a path that rows name: not in the files table, not
\* on disk, or later and different.  Code left behind does not change.
MutantStale(f) == \/ rows[f].d # here /\ ~kept
                  \/ rows[f].d = here /\ (disk[f].v = 0 \/ (disk[f].t > meta[f].t + 1 /\ disk[f].v # meta[f].v))
Stale(f) == \/ meta[f].v = 0 \/ meta[f].d # rows[f].d
            \/ rows[f].d # here /\ ~kept
            \/ rows[f].d = here /\ (disk[f].v = 0 \/ (disk[f].t > meta[f].t /\ disk[f].v # meta[f].v))

-----------------------------------------------------------------------------
\* The index run, cmd/index.go.

Running == run.pc # "none"
To(pc) == run' = [run EXCEPT !.pc = pc]
\* What a commit may do to a query that has read its rows and not compared them.
Cross == q' = [q EXCEPT !.crossed = @ \/ q.pc = "label"]

\* AcquireLock, the fingerprint and the look at the old repo_root.
BeginRun(who) ==
  /\ ~Running
  /\ run' = [NoRun EXCEPT !.pc = "root", !.who = who, !.force = RootMoved, !.conf = conf]

UserIndexes == BeginRun("user") /\ UNCHANGED <<world, db, q, clouded>>

\* repo_root is stored before anything is written.
SetRoot ==
  /\ run.pc = "root"
  /\ root' = here /\ To("detect")
  /\ UNCHANGED <<world, rows, meta, fp, q, clouded>>

\* trySkipIndex: skip, or reindex everything, or what changed.
Detect ==
  /\ run.pc = "detect"
  /\ LET full == run.force \/ fp # run.conf \/ Stored = {} \/ 2 * TotalChanged > Cardinality(Files)
     IN IF full THEN run' = [run EXCEPT !.pc = "load", !.changed = Files, !.force = TRUE]
        ELSE IF Changed = {} THEN To("end")
        ELSE run' = [run EXCEPT !.pc = "load", !.changed = Changed]
  /\ UNCHANGED <<world, db, q, clouded>>

\* Load and ExtractFileInfo, as one look at the tree (IndexRun has them apart).
Load ==
  /\ run.pc = "load"
  /\ run' = [run EXCEPT !.pc = "rows", !.snap = {<<f, disk[f].v, disk[f].t>> : f \in Files}]
  /\ UNCHANGED <<world, db, q, clouded>>

Snap(f) == CHOOSE s \in run.snap : s[1] = f

\* WriteIndex or WriteIndexIncremental; the latter forgets deleted files in
\* the same transaction.
WriteRows ==
  /\ run.pc = "rows"
  /\ rows' = [f \in Files |-> IF f \notin run.changed THEN rows[f]
                              ELSE IF Snap(f)[2] = 0 THEN NoRow
                              ELSE [v |-> Snap(f)[2], d |-> here]]
  /\ meta' = [f \in Files |-> IF ~run.force /\ f \in run.changed /\ Snap(f)[2] = 0 THEN NoMeta ELSE meta[f]]
  /\ Cross /\ To("meta")
  /\ UNCHANGED <<world, root, fp, clouded>>

WriteFiles ==
  /\ run.pc = "meta"
  /\ meta' = [f \in Files |-> IF Snap(f)[2] = 0 THEN NoMeta
                              ELSE [v |-> Snap(f)[2], d |-> here, t |-> Snap(f)[3]]]
  /\ Cross /\ To(IF run.force THEN "fp" ELSE "end")
  /\ UNCHANGED <<world, rows, root, fp, clouded>>

WriteFp ==
  /\ run.pc = "fp"
  /\ fp' = run.conf /\ To("end")
  /\ UNCHANGED <<world, rows, meta, root, q, clouded>>

Ended(ok) == /\ run' = NoRun
             /\ q' = IF run.who = "child" /\ q.child = "running"
                     THEN [q EXCEPT !.child = IF ok THEN "ok" ELSE "failed"] ELSE q

EndRun ==
  /\ run.pc = "end"
  /\ Ended(TRUE)
  /\ UNCHANGED <<world, db, clouded>>

\* An error, or a kill; the next process reaps the lock.
RunDies ==
  /\ Running
  /\ Ended(FALSE)
  /\ UNCHANGED <<world, db, clouded>>

-----------------------------------------------------------------------------
\* The query.

Goto(pc) == q' = [q EXCEPT !.pc = pc]
Idle == q.pc \in {"idle", "done", "refused"}

Ask ==
  /\ Idle
  /\ q' = [NoQuery EXCEPT !.pc = "lock", !.seen = {<<f, disk[f].v>> : f \in Files}]
  /\ UNCHANGED <<world, db, run, clouded>>

\* IsIndexing, once, before the store is opened.
CheckLock ==
  /\ q.pc = "lock"
  /\ Goto(IF Running THEN "refused" ELSE "root")
  /\ UNCHANGED <<world, db, run, clouded>>

CheckRoot ==
  /\ q.pc = "root"
  /\ Goto(IF RootMoved THEN "refused" ELSE "drift")
  /\ UNCHANGED <<world, db, run, clouded>>

\* maybeSelfHeal and shouldHeal: the fingerprint must match.
CheckDrift ==
  /\ q.pc = "drift"
  /\ Goto(IF fp = conf /\ Stored # {} /\ TotalChanged \in 1..HealMax THEN "spawn" ELSE "read")
  /\ UNCHANGED <<world, db, run, clouded>>

\* The child takes the lock, or finds another run and exits with an error.
Spawn ==
  /\ q.pc = "spawn"
  /\ IF Running
     THEN q' = [q EXCEPT !.pc = "heal", !.child = "failed"] /\ UNCHANGED run
     ELSE BeginRun("child") /\ q' = [q EXCEPT !.pc = "heal", !.child = "running", !.calm = TRUE]
  /\ UNCHANGED <<world, db, clouded>>

\* runHealCmd: the child ended; or the deadline or an interrupt comes first,
\* the child is killed and waited for.
MutantChildEnded ==
  /\ q.pc = "heal" /\ q.child \in {"ok", "failed"}
  /\ q' = [q EXCEPT !.pc = "read", !.healed = TRUE, !.child = "none"]
  /\ UNCHANGED <<world, db, run, clouded>>
ChildEnded ==
  /\ q.pc = "heal" /\ q.child \in {"ok", "failed"}
  /\ q' = [q EXCEPT !.pc = "read", !.healed = (q.child = "ok"), !.child = "none"]
  /\ UNCHANGED <<world, db, run, clouded>>

MutantNoDeadline ==
  /\ q.pc = "heal" /\ q.child = "killed"
  /\ q' = [q EXCEPT !.pc = "read", !.child = "none"]
  /\ UNCHANGED <<world, db, run, clouded>>
GiveUp ==
  /\ q.pc = "heal" /\ q.child = "running"
  /\ q' = [q EXCEPT !.pc = "read", !.child = "none"]
  /\ run' = NoRun
  /\ UNCHANGED <<world, db, clouded>>

\* The rows of the answer.  half: repo_root is the new one and rows are not,
\* because an index run is between the two, or died there.
Read ==
  /\ q.pc = "read"
  /\ q' = [q EXCEPT !.pc = "label", !.half = (root = here /\ \E f \in Files : rows[f].d \notin {0, here}), !.answer = {<<f, rows[f].v, rows[f].d>> : f \in {g \in Files : rows[g].v # 0}}]
  /\ UNCHANGED <<world, db, run, clouded>>

\* CheckFileStaleness over the files of the answer.
Label ==
  /\ q.pc = "label"
  /\ q' = [q EXCEPT !.pc = "done", !.calm = TRUE, !.stale = {a[1] : a \in {b \in q.answer : Stale(b[1])}}]
  /\ UNCHANGED <<world, db, run, clouded>>

\* SIGKILL; a running child goes on.
QueryKilled ==
  /\ ~Idle
  /\ q' = NoQuery
  /\ run' = IF run.who = "child" THEN [run EXCEPT !.who = "orphan"] ELSE run
  /\ UNCHANGED <<world, db, clouded>>

-----------------------------------------------------------------------------
\* The user.

Edited(f, v) == q' = [q EXCEPT !.seen = @ \cup {<<f, v>>}, !.calm = FALSE]

Event == events < MaxEvents /\ events' = events + 1

\* A save, a deletion, or a file restored with an older time.  No content
\* comes back: what a run may make of that is IndexRun's subject.
Edit(f, v, t) ==
  /\ Event
  /\ v \in {0, events + 2} /\ v # disk[f].v
  /\ t \in {0, disk[f].t + 1}
  /\ disk' = [disk EXCEPT ![f] = [v |-> v, t |-> t]]
  /\ clouded' = IF Running \/ t <= disk[f].t THEN clouded \cup {f} ELSE clouded
  /\ q' = [q EXCEPT !.seen = IF Idle THEN @ ELSE @ \cup {<<f, v>>}, !.calm = FALSE]
  /\ UNCHANGED <<here, kept, conf, db, run>>

Reconfigure ==
  /\ Event
  /\ conf' = conf + 1
  /\ q' = [q EXCEPT !.calm = FALSE]
  /\ UNCHANGED <<here, kept, disk, db, run, clouded>>

\* The repository, its index included, is moved or copied while nothing runs.
Move(d) ==
  /\ Event
  /\ d # here /\ ~Running /\ Idle
  /\ here' = d
  /\ kept' \in BOOLEAN
  /\ q' = NoQuery
  /\ UNCHANGED <<disk, conf, db, run, clouded>>

RunStep == SetRoot \/ Detect \/ Load \/ WriteRows \/ WriteFiles \/ WriteFp \/ EndRun
QueryStep == CheckLock \/ CheckRoot \/ CheckDrift \/ Spawn \/ ChildEnded \/ GiveUp \/ Read \/ Label

Next ==
  \/ UserIndexes \/ RunStep \/ RunDies \/ Ask \/ QueryStep \/ QueryKilled \/ Reconfigure
  \/ \E f \in Files, v \in 0..(MaxEvents + 1), t \in 0..MaxEvents : Edit(f, v, t)
  \/ \E d \in Dirs : Move(d)

\* The query's own steps happen; GiveUp is its timer.  The child may hang.
Fairness == WF_vars(QueryStep)
Spec == Init /\ [][Next]_vars /\ Fairness

-----------------------------------------------------------------------------
\* "Queries against a stale index silently lie" (maybeSelfHeal): they do not.
\* A file in the answer without a staleness mark is of this repository and as it
\* was at some moment of the query, unless another run committed between reading
\* and comparing, or the file was edited during a run or without a later time,
\* or the index was half moved: a repository that was copied is then answered
\* for from the original, which OpenStore means to refuse.
AnswerLabelled ==
  q.pc = "done" => \A a \in q.answer :
    \/ a[1] \in q.stale \cup clouded \/ q.crossed \/ q.half
    \/ a[3] = here /\ <<a[1], a[2]>> \in q.seen

\* After a successful heal, with no edit since it began, the answer has every
\* file of the tree as it is: under its path, unless the index was half moved.
\* Then rows may keep another directory's path through the heal: a run that dies
\* there after writing rows and one that dies here after storing repo_root leave
\* rows of there beside file entries of here, which DetectChanges calls unchanged.
HealedIsCurrent ==
  q.pc = "label" /\ q.healed /\ q.calm =>
    \A f \in Files \ clouded : disk[f].v # 0 =>
      \E d \in IF q.half THEN Dirs ELSE {here} : <<f, disk[f].v, d>> \in q.answer

\* A query ends, whatever its child and other runs do.
QueryEnds == ~Idle ~> Idle

=============================================================================
