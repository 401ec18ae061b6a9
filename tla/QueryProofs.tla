------------------------------ MODULE QueryProofs ------------------------------
(***************************************************************************)
(* What a query answers from: the promises of QueryOpen, for any files,    *)
(* directories, threshold and number of events.                            *)
(*                                                                         *)
(* The argument: a file whose edits were all seen by the clock is          *)
(* described by its entry in the files table as it is or as it was before  *)
(* a later time (FollowsDisk), and where the entry is current so is the    *)
(* row.  An index run keeps this because each of its phases leaves the     *)
(* rows current that the next one vouches for (RunInv), and the query      *)
(* reads such rows and compares them with such entries (QueryInv).         *)
(***************************************************************************)
EXTENDS QueryOpen, Sequences, TLAPS

Versions == Files \X Nat \X Nat
Stages == {"none", "root", "detect", "load", "rows", "meta", "fp", "end"}
QueryStages == {"idle", "lock", "root", "drift", "spawn", "heal", "read", "label", "done", "refused"}

WorldOK ==
  /\ here \in Dirs /\ kept \in BOOLEAN /\ events \in Nat /\ conf \in Nat
  /\ disk \in [Files -> [v : Nat, t : Nat]]
  /\ clouded \subseteq Files
DbOK ==
  /\ rows \in [Files -> [v : Nat, d : Nat]]
  /\ meta \in [Files -> [v : Nat, d : Nat, t : Nat]]
  /\ root \in Nat /\ fp \in Nat
RunOK ==
  /\ run \in [pc : Stages, who : {"none", "user", "child", "orphan"}, force : BOOLEAN, conf : Nat,
              changed : SUBSET Files, snap : SUBSET Versions]
  /\ run.pc \in {"rows", "meta"} => \A f \in Files : Snap(f) \in Versions
QueryOK ==
  q \in [pc : QueryStages, child : {"none", "running", "ok", "failed"}, seen : SUBSET (Files \X Nat),
         calm : BOOLEAN, crossed : BOOLEAN, half : BOOLEAN, healed : BOOLEAN,
         answer : SUBSET Versions, stale : SUBSET Files]
TypeOK == WorldOK /\ DbOK /\ RunOK /\ QueryOK

\* Of a file that is not clouded, the entry has the time of the disk or an
\* earlier one; with the same time it has the same content, and with the same
\* content the row has it too.
FollowsDisk == \A f \in Files \ clouded : meta[f].v # 0 =>
  /\ meta[f].t <= disk[f].t
  /\ meta[f].t = disk[f].t => meta[f].v = disk[f].v
  /\ meta[f].v = disk[f].v => rows[f].v = meta[f].v

\* No entry and no run knows a version that is still to come.
VersionsKnown ==
  /\ \A f \in Files : disk[f].v <= events + 1 /\ meta[f].v <= events + 1
  /\ run.pc \in {"rows", "meta"} => \A f \in Files : Snap(f)[2] <= events + 1

RowsFollow(S) == \A f \in S \ clouded : disk[f].v # 0 => rows[f].v = disk[f].v

\* A run has stored its root, what it read is what is there, and rows are
\* current: where nothing changed until they are written, then everywhere.
RunInv ==
  /\ run.pc \notin {"none", "root"} => root = here
  /\ run.pc \in {"rows", "meta"} => \A f \in Files \ clouded : Snap(f) = <<f, disk[f].v, disk[f].t>>
  /\ run.pc \in {"load", "rows"} => RowsFollow(Files \ run.changed)
  /\ run.pc \in {"meta", "fp", "end"} => RowsFollow(Files)

\* Rows have a directory, and there are none before the first repo_root.
RowsInv == \A f \in Files : /\ rows[f].v # 0 => rows[f].d \in Dirs
                            /\ root = 0 => rows[f] = NoRow

\* A query has noticed every version that a file had since it began; it reads
\* under the root it is in; its child holds the lock; after a heal without an
\* edit rows are current; and an answer that no run crossed is the rows.
SeenInv == ~Idle => \A f \in Files : <<f, disk[f].v>> \in q.seen
RootInv == q.pc \in {"drift", "spawn", "heal", "read"} => root \in {0, here}
ChildInv ==
  /\ q.child = "running" => run.who = "child" /\ Running
  /\ q.child # "none" => q.pc = "heal"
  /\ q.healed => q.pc \in {"read", "label", "done"}
HealInv == q.pc \in {"heal", "read"} /\ q.calm /\ (q.child = "ok" \/ q.healed) => RowsFollow(Files)
AnswerInv ==
  /\ q.pc = "label" => \A a \in q.answer : q.half \/ a[3] = here
  /\ q.pc = "label" /\ ~q.crossed => \A a \in q.answer : a = <<a[1], rows[a[1]].v, rows[a[1]].d>> /\ rows[a[1]].v # 0
QueryInv == SeenInv /\ RootInv /\ ChildInv /\ HealInv /\ AnswerInv

OpenInv == /\ TypeOK /\ FollowsDisk /\ VersionsKnown /\ RunInv /\ RowsInv /\ QueryInv
           /\ AnswerLabelled /\ HealedIsCurrent

\* The user's steps, the runs' and the query's.
LEMMA DirsAreNats == Dirs \subseteq Nat /\ 0 \notin Dirs /\ Home \in Dirs
  BY OpenAssumption

LEMMA InitOpen == Init => OpenInv
  <1> SUFFICES ASSUME Init PROVE OpenInv
    OBVIOUS
  <1> USE DirsAreNats DEF Init, NoRow, NoMeta, NoRun, NoQuery
  <1>1. WorldOK /\ DbOK /\ QueryOK
    BY DEF WorldOK, DbOK, QueryOK, QueryStages
  <1>2. RunOK
    BY DEF RunOK, Stages
  <1>3. FollowsDisk /\ VersionsKnown /\ RunInv /\ RowsInv /\ QueryInv
    BY DEF FollowsDisk, VersionsKnown, RunInv, RowsInv, QueryInv, SeenInv, RootInv, ChildInv, HealInv, AnswerInv, Idle
  <1>4. AnswerLabelled /\ HealedIsCurrent
    BY DEF AnswerLabelled, HealedIsCurrent
  <1> QED BY <1>1, <1>2, <1>3, <1>4 DEF OpenInv, TypeOK

-----------------------------------------------------------------------------
(* Types.                                                                  *)

\* A step that leaves the run as it is, or only gives it another owner, keeps
\* what it read.
LEMMA SnapStays == ASSUME run'.snap = run.snap PROVE \A f : Snap(f)' = Snap(f)
  BY DEF Snap

\* After Load the run knows of every file what is on disk.
LEMMA SnapLoaded ==
  ASSUME Load PROVE \A f \in Files : Snap(f)' = <<f, disk[f].v, disk[f].t>>
  <1> SUFFICES ASSUME NEW f \in Files PROVE Snap(f)' = <<f, disk[f].v, disk[f].t>>
    OBVIOUS
  <1>1. run'.snap = {<<g, disk[g].v, disk[g].t>> : g \in Files}
    BY DEF Load
  <1>2. /\ <<f, disk[f].v, disk[f].t>> \in run'.snap
        /\ <<f, disk[f].v, disk[f].t>>[1] = f
    BY <1>1
  <1>3. \A s \in run'.snap : s[1] = f => s = <<f, disk[f].v, disk[f].t>>
    BY <1>1
  <1> QED BY <1>2, <1>3 DEF Snap

LEMMA TypeStep ==
  ASSUME OpenInv, [Next]_vars
  PROVE  TypeOK'
  <1> USE DirsAreNats DEF TypeOK, OpenInv
  <1>0. RootMoved \in BOOLEAN /\ Changed \subseteq Files
    BY DEF RootMoved, Changed
  <1>1. CASE UserIndexes \/ RunStep \/ RunDies
    <2> WorldOK'
      BY <1>1 DEF UserIndexes, RunStep, SetRoot, Detect, Load, WriteRows, WriteFiles, WriteFp, EndRun,
                  RunDies, WorldOK, world
    <2>1. CASE UserIndexes
      <3>1. RunOK'
        BY <2>1, <1>0 DEF UserIndexes, BeginRun, NoRun, RunOK, WorldOK, Stages
      <3>2. DbOK' /\ QueryOK'
        BY <2>1 DEF UserIndexes, DbOK, QueryOK, db
      <3> QED BY <3>1, <3>2
    <2>2. CASE SetRoot
      BY <2>2 DEF SetRoot, To, WorldOK, DbOK, RunOK, QueryOK, Stages
    <2>3. CASE Detect
      <3>1. RunOK'
        BY ZenonT(60), <2>3, <1>0 DEF Detect, To, RunOK, Stages
      <3>2. DbOK' /\ QueryOK'
        BY <2>3 DEF Detect, DbOK, QueryOK, db
      <3> QED BY <3>1, <3>2
    <2>4. CASE Load
      <3>1. run'.snap \subseteq Versions
        BY <2>4 DEF Load, RunOK, WorldOK, Versions
      <3>2. \A f \in Files : Snap(f)' \in Versions
        BY <2>4, SnapLoaded DEF WorldOK, Versions
      <3> QED BY <2>4, <3>1, <3>2 DEF Load, DbOK, RunOK, QueryOK, db, Stages
    <2>5. CASE WriteRows
      <3>1. run'.snap = run.snap
        BY <2>5 DEF WriteRows, To, RunOK
      <3>2. \A f \in Files : Snap(f) \in Versions
        BY <2>5 DEF WriteRows, RunOK
      <3>3. DbOK'
        BY <2>5, <3>2 DEF WriteRows, DbOK, WorldOK, NoRow, NoMeta, Versions
      <3>4. RunOK'
        BY <2>5, <3>1, <3>2, SnapStays DEF WriteRows, To, RunOK, Stages
      <3>5. QueryOK'
        BY <2>5 DEF WriteRows, Cross, QueryOK
      <3> QED BY <3>3, <3>4, <3>5
    <2>6. CASE WriteFiles
      <3>1. \A f \in Files : Snap(f) \in Versions
        BY <2>6 DEF WriteFiles, RunOK
      <3>2. DbOK'
        BY <2>6, <3>1 DEF WriteFiles, DbOK, WorldOK, NoMeta, Versions
      <3> QED BY <2>6, <3>2 DEF WriteFiles, To, Cross, RunOK, QueryOK, Stages
    <2>7. CASE WriteFp
      BY <2>7 DEF WriteFp, To, DbOK, RunOK, QueryOK, Stages
    <2>8. CASE EndRun \/ RunDies
      <3>1. RunOK'
        <4>1. run' = NoRun
          BY <2>8 DEF EndRun, RunDies, Ended
        <4> QED BY <4>1 DEF NoRun, RunOK, Stages
      <3>2. DbOK'
        BY <2>8 DEF EndRun, RunDies, DbOK, db
      <3>3. QueryOK'
        BY <2>8 DEF EndRun, RunDies, Ended, QueryOK
      <3> QED BY <3>1, <3>2, <3>3
    <2> QED BY <1>1, <2>1, <2>2, <2>3, <2>4, <2>5, <2>6, <2>7, <2>8 DEF RunStep
  <1>2. CASE Ask \/ QueryStep \/ QueryKilled
    <2> WorldOK'
      BY <1>2 DEF Ask, QueryStep, CheckLock, CheckRoot, CheckDrift, Spawn, ChildEnded, GiveUp, Read, Label,
                  QueryKilled, WorldOK, world
    <2> DbOK'
      BY <1>2 DEF Ask, QueryStep, CheckLock, CheckRoot, CheckDrift, Spawn, ChildEnded, GiveUp, Read, Label,
                  QueryKilled, DbOK, db
    <2>1. CASE Ask
      <3>1. RunOK'
        BY <2>1, SnapStays DEF Ask, RunOK
      <3>2. {<<f, disk[f].v>> : f \in Files} \subseteq Files \X Nat
        BY DEF WorldOK
      <3>3. QueryOK'
        BY <2>1, <3>2 DEF Ask, NoQuery, QueryOK, QueryStages
      <3> QED BY <3>1, <3>3
    <2>2. CASE CheckLock \/ CheckRoot \/ CheckDrift
      BY <2>2, SnapStays DEF CheckLock, CheckRoot, CheckDrift, Goto, RunOK, QueryOK, QueryStages
    <2>3. CASE Spawn
      <3>1. \/ run' = run /\ q' = [q EXCEPT !.pc = "heal", !.child = "failed"]
            \/ BeginRun("child") /\ q' = [q EXCEPT !.pc = "heal", !.child = "running", !.calm = TRUE]
        BY <2>3 DEF Spawn
      <3>2. conf \in Nat
        BY DEF WorldOK
      <3>3. BeginRun("child") => RunOK'
        BY <1>0, <3>2 DEF BeginRun, NoRun, RunOK, Stages
      <3>4. run' = run => RunOK'
        BY SnapStays DEF RunOK
      <3>5. QueryOK'
        BY ZenonT(60), <3>1 DEF QueryOK, QueryStages
      <3> QED BY <3>1, <3>3, <3>4, <3>5
    <2>4. CASE ChildEnded \/ GiveUp
      <3>1. run' \in {run, NoRun}
        BY <2>4 DEF ChildEnded, GiveUp
      <3>2. RunOK'
        <4>1. CASE run' = run
          BY <4>1, SnapStays DEF RunOK
        <4>2. CASE run' = NoRun
          BY <4>2 DEF NoRun, RunOK, Stages
        <4> QED BY <3>1, <4>1, <4>2
      <3>3. CASE ChildEnded
        BY <3>2, <3>3 DEF ChildEnded, QueryOK, QueryStages
      <3>4. CASE GiveUp
        BY <3>2, <3>4 DEF GiveUp, QueryOK, QueryStages
      <3> QED BY <2>4, <3>3, <3>4
    <2>5. CASE Read
      <3>1. {<<f, rows[f].v, rows[f].d>> : f \in {g \in Files : rows[g].v # 0}} \in SUBSET Versions
        BY DEF DbOK, Versions
      <3>2. (root = here /\ \E f \in Files : rows[f].d \notin {0, here}) \in BOOLEAN
        OBVIOUS
      <3>3. QueryOK'
        BY <2>5, <3>1, <3>2 DEF Read, QueryOK, QueryStages
      <3>4. RunOK'
        BY <2>5, SnapStays DEF Read, RunOK
      <3> QED BY <3>3, <3>4
    <2>6. CASE Label
      <3>1. {a[1] : a \in {b \in q.answer : Stale(b[1])}} \in SUBSET Files
        BY DEF QueryOK, Versions
      <3>2. QueryOK'
        BY <2>6, <3>1 DEF Label, QueryOK, QueryStages
      <3>3. RunOK'
        BY <2>6, SnapStays DEF Label, RunOK
      <3> QED BY <3>2, <3>3
    <2>7. CASE QueryKilled
      BY <2>7, SnapStays DEF QueryKilled, NoQuery, RunOK, QueryOK, QueryStages
    <2> QED BY <1>2, <2>1, <2>2, <2>3, <2>4, <2>5, <2>6, <2>7 DEF QueryStep
  <1>3. ASSUME NEW f \in Files, NEW v \in 0..(MaxEvents + 1), NEW t \in 0..MaxEvents, Edit(f, v, t)
        PROVE  TypeOK'
    <2>1. v \in Nat /\ t \in Nat
      BY OpenAssumption
    <2>2. WorldOK'
      BY <1>3, <2>1 DEF Edit, Event, WorldOK
    <2>3. DbOK' /\ RunOK'
      BY <1>3, SnapStays DEF Edit, DbOK, RunOK, db
    <2>4. (IF Idle THEN q.seen ELSE q.seen \cup {<<f, v>>}) \in SUBSET (Files \X Nat)
      BY <2>1 DEF QueryOK
    <2>5. QueryOK'
      BY <1>3, <2>4 DEF Edit, QueryOK
    <2> QED BY <2>2, <2>3, <2>5
  <1>4. CASE Reconfigure
    <2>1. WorldOK' /\ DbOK' /\ RunOK'
      BY <1>4, SnapStays DEF Reconfigure, Event, WorldOK, DbOK, RunOK, db
    <2>2. QueryOK'
      BY <1>4 DEF Reconfigure, QueryOK
    <2> QED BY <2>1, <2>2
  <1>5. ASSUME NEW d \in Dirs, Move(d) PROVE TypeOK'
    BY <1>5, SnapStays DEF Move, Event, WorldOK, DbOK, RunOK, QueryOK, db, NoQuery, QueryStages
  <1>6. CASE UNCHANGED vars
    BY <1>6, SnapStays DEF vars, WorldOK, DbOK, RunOK, QueryOK
  <1> QED BY <1>1, <1>2, <1>3, <1>4, <1>5, <1>6 DEF Next

-----------------------------------------------------------------------------
(* Rows, entries and the disk.                                             *)

AnEdit == \E f \in Files, v \in 0..(MaxEvents + 1), t \in 0..MaxEvents : Edit(f, v, t)

\* Only three steps touch rows, entries or files.
LEMMA Writers ==
  ASSUME [Next]_vars
  PROVE  \/ WriteRows \/ WriteFiles \/ AnEdit
         \/ UNCHANGED <<disk, clouded, rows, meta>> /\ events' \in {events, events + 1}
  BY DEF Next, AnEdit, UserIndexes, BeginRun, RunStep, SetRoot, Detect, Load, WriteFp, EndRun, RunDies,
         Ask, QueryStep, CheckLock, CheckRoot, CheckDrift, Spawn, ChildEnded, GiveUp, Read, Label, QueryKilled,
         Reconfigure, Move, Event, db, world, vars

\* What a user's edit makes of a file, and of those it leaves alone.
LEMMA EditIsFresh ==
  ASSUME OpenInv, AnEdit
  PROVE  /\ UNCHANGED <<rows, meta, root, run, here>>
         /\ clouded \subseteq clouded' /\ events' = events + 1
         /\ Running => \A f \in Files : disk'[f] = disk[f] \/ f \in clouded'
         /\ \A f \in Files \ clouded' :
              \/ disk'[f] = disk[f]
              \/ disk'[f].t = disk[f].t + 1 /\ disk'[f].v \in {0, events + 2}
         /\ \A f \in Files : disk'[f].v = disk[f].v \/ disk'[f].v \in {0, events + 2}
  <1> PICK g \in Files, v \in 0..(MaxEvents + 1), t \in 0..MaxEvents : Edit(g, v, t)
    BY DEF AnEdit
  <1>1. v \in Nat /\ t \in Nat /\ disk[g].t \in Nat
    BY OpenAssumption DEF OpenInv, TypeOK, WorldOK
  <1>2. /\ disk' = [disk EXCEPT ![g] = [v |-> v, t |-> t]]
        /\ clouded' = IF Running \/ t <= disk[g].t THEN clouded \cup {g} ELSE clouded
        /\ v \in {0, events + 2} /\ t \in {0, disk[g].t + 1}
        /\ UNCHANGED <<rows, meta, root, run, here>> /\ events' = events + 1
    BY DEF Edit, db, Event
  <1>3. \A f \in Files : f # g => disk'[f] = disk[f]
    BY <1>2 DEF OpenInv, TypeOK, WorldOK
  <1>4. disk'[g] = [v |-> v, t |-> t]
    BY <1>2 DEF OpenInv, TypeOK, WorldOK
  <1>5. g \notin clouded' => t = disk[g].t + 1 /\ ~Running
    BY <1>1, <1>2
  <1> QED BY <1>2, <1>3, <1>4, <1>5

\* Between Load and the end of a run nothing else changes what it read.
LEMMA SnapKept ==
  ASSUME TypeOK, [Next]_vars, ~Load, run'.pc \in {"rows", "meta"}
  PROVE  run.pc \in {"rows", "meta"} /\ run'.snap = run.snap
  <1> USE DEF TypeOK, RunOK
  <1>1. CASE UNCHANGED run
    BY <1>1
  <1>2. CASE \E who \in {"user", "child"} : BeginRun(who)
    BY <1>2 DEF BeginRun, NoRun
  <1>3. CASE SetRoot \/ Detect \/ WriteRows \/ WriteFiles \/ WriteFp
    <2>1. CASE Detect
      BY <2>1 DEF Detect, To
    <2>2. CASE WriteFiles
      BY <2>2 DEF WriteFiles, To
    <2> QED BY <1>3, <2>1, <2>2 DEF SetRoot, WriteRows, WriteFp, To
  <1>4. CASE run' = NoRun
    BY <1>4 DEF NoRun
  <1>5. CASE QueryKilled
    BY <1>5 DEF QueryKilled
  <1> QED BY <1>1, <1>2, <1>3, <1>4, <1>5
       DEF Next, UserIndexes, RunStep, EndRun, RunDies, Ended,
           Ask, QueryStep, CheckLock, CheckRoot, CheckDrift, Spawn, ChildEnded, GiveUp, Read, Label,
           Edit, Reconfigure, Move, vars

LEMMA VersionsStep ==
  ASSUME OpenInv, [Next]_vars, TypeOK'
  PROVE  VersionsKnown'
  <1> USE DEF OpenInv, TypeOK, WorldOK, DbOK, RunOK, Versions
  <1>1. ASSUME NEW f \in Files PROVE disk'[f].v <= events' + 1 /\ meta'[f].v <= events' + 1
    <2>1. CASE WriteRows
      BY <2>1 DEF WriteRows, VersionsKnown, world, NoMeta
    <2>2. CASE WriteFiles
      <3>1. Snap(f)[2] <= events + 1
        BY <2>2 DEF WriteFiles, VersionsKnown
      <3> QED BY <2>2, <3>1 DEF WriteFiles, VersionsKnown, world, NoMeta
    <2>3. CASE AnEdit
      BY <2>3, EditIsFresh DEF VersionsKnown
    <2>4. CASE UNCHANGED <<disk, clouded, rows, meta>> /\ events' \in {events, events + 1}
      BY <2>4 DEF VersionsKnown
    <2> QED BY <2>1, <2>2, <2>3, <2>4, Writers
  <1>2. ASSUME run'.pc \in {"rows", "meta"}, NEW f \in Files PROVE Snap(f)'[2] <= events' + 1
    <2>1. CASE Load
      <3>1. Snap(f)' = <<f, disk[f].v, disk[f].t>>
        BY <2>1, SnapLoaded
      <3>2. Snap(f)'[2] = disk[f].v
        BY <3>1
      <3> QED BY <2>1, <3>2 DEF Load, VersionsKnown, world
    <2>2. CASE ~Load
      <3>1. run.pc \in {"rows", "meta"} /\ run'.snap = run.snap
        BY <1>2, <2>2, SnapKept
      <3>2. events' \in {events, events + 1}
        BY Writers, EditIsFresh DEF WriteRows, WriteFiles, world
      <3> QED BY <3>1, <3>2, SnapStays DEF VersionsKnown
    <2> QED BY <2>1, <2>2
  <1> QED BY <1>1, <1>2 DEF VersionsKnown

LEMMA RowsStep ==
  ASSUME OpenInv, [Next]_vars, TypeOK'
  PROVE  RowsInv'
  <1> USE DEF OpenInv, TypeOK, WorldOK, DbOK, RunOK
  <1>1. CASE WriteRows
    <2>1. root' = root /\ root = here /\ here # 0
      BY <1>1, DirsAreNats DEF WriteRows, RunInv
    <2> QED BY <1>1, <2>1 DEF WriteRows, RowsInv, NoRow
  <1>2. CASE ~WriteRows
    <2>1. rows' = rows
      BY <1>2, Writers, EditIsFresh DEF WriteFiles
    <2>2. root' = 0 => root = 0
      BY DirsAreNats DEF Next, UserIndexes, RunStep, SetRoot, Detect, Load, WriteRows, WriteFiles, WriteFp, EndRun,
         RunDies, Ask, QueryStep, CheckLock, CheckRoot, CheckDrift, Spawn, ChildEnded, GiveUp, Read, Label,
         QueryKilled, Edit, Reconfigure, Move, db, vars
    <2> QED BY <2>1, <2>2 DEF RowsInv
  <1> QED BY <1>1, <1>2

LEMMA DiskStep ==
  ASSUME OpenInv, [Next]_vars, TypeOK'
  PROVE  FollowsDisk'
  <1> SUFFICES ASSUME NEW f \in Files, f \notin clouded', meta'[f].v # 0
               PROVE  /\ meta'[f].t <= disk'[f].t
                      /\ meta'[f].t = disk'[f].t => meta'[f].v = disk'[f].v
                      /\ meta'[f].v = disk'[f].v => rows'[f].v = meta'[f].v
    BY DEF FollowsDisk
  <1> USE DEF OpenInv, TypeOK, WorldOK, DbOK, RunOK
  <1>1. CASE WriteRows
    <2>1. disk' = disk /\ clouded' = clouded /\ meta'[f] = meta[f]
      BY <1>1 DEF WriteRows, world, NoMeta
    <2>2. Snap(f) = <<f, disk[f].v, disk[f].t>>
      BY <1>1, <2>1 DEF WriteRows, RunInv
    <2>3. meta[f].v = disk[f].v => rows'[f].v = meta[f].v
      BY <1>1, <2>1, <2>2 DEF WriteRows, FollowsDisk, NoRow
    <2> QED BY <2>1, <2>3 DEF FollowsDisk
  <1>2. CASE WriteFiles
    <2>1. disk' = disk /\ clouded' = clouded /\ rows' = rows
      BY <1>2 DEF WriteFiles, world
    <2>2. Snap(f) = <<f, disk[f].v, disk[f].t>>
      BY <1>2, <2>1 DEF WriteFiles, RunInv
    <2>3. disk[f].v # 0 /\ meta'[f] = [v |-> disk[f].v, d |-> here, t |-> disk[f].t]
      BY <1>2, <2>2 DEF WriteFiles, NoMeta
    <2>4. rows[f].v = disk[f].v
      BY <1>2, <2>1, <2>3 DEF WriteFiles, RunInv, RowsFollow
    <2> QED BY <2>1, <2>3, <2>4
  <1>3. CASE AnEdit
    <2>1. f \notin clouded /\ rows'[f] = rows[f] /\ meta'[f] = meta[f]
      BY <1>3, EditIsFresh
    <2>2. CASE disk'[f] = disk[f]
      BY <2>1, <2>2 DEF FollowsDisk
    <2>3. CASE disk'[f].t = disk[f].t + 1 /\ disk'[f].v \in {0, events + 2}
      <3>1. meta[f].t <= disk[f].t /\ meta[f].v <= events + 1
        BY <2>1 DEF FollowsDisk, VersionsKnown
      <3> QED BY <2>1, <2>3, <3>1
    <2> QED BY <1>3, <2>2, <2>3, EditIsFresh
  <1>4. CASE UNCHANGED <<disk, clouded, rows, meta>>
    BY <1>4 DEF FollowsDisk
  <1> QED BY <1>1, <1>2, <1>3, <1>4, Writers

-----------------------------------------------------------------------------
(* The index run.                                                          *)

\* Rows that follow the disk do so until they are written or a file is edited,
\* and a file that is edited during a run is clouded.
LEMMA RowsKeep ==
  ASSUME OpenInv, [Next]_vars, ~WriteRows, Running \/ ~AnEdit, NEW S \in SUBSET Files, RowsFollow(S)
  PROVE  RowsFollow(S)'
  <1> SUFFICES ASSUME NEW f \in S, f \notin clouded', disk'[f].v # 0
               PROVE  rows'[f].v = disk'[f].v
    BY DEF RowsFollow
  <1>1. rows' = rows /\ f \notin clouded /\ disk'[f] = disk[f]
    BY Writers, EditIsFresh DEF WriteFiles, world
  <1> QED BY <1>1 DEF RowsFollow

\* Rows written by a run are current, those it had no reason to write as well.
LEMMA RowsWritten ==
  ASSUME OpenInv, WriteRows
  PROVE  RowsFollow(Files)'
  <1> USE DEF OpenInv, TypeOK, WorldOK, DbOK, RunOK
  <1> SUFFICES ASSUME NEW f \in Files, f \notin clouded', disk'[f].v # 0
               PROVE  rows'[f].v = disk'[f].v
    BY DEF RowsFollow
  <1>1. f \notin clouded /\ disk' = disk
    BY DEF WriteRows, world
  <1>2. Snap(f) = <<f, disk[f].v, disk[f].t>>
    BY <1>1 DEF WriteRows, RunInv
  <1>3. f \notin run.changed => rows[f].v = disk[f].v
    BY <1>1 DEF WriteRows, RunInv, RowsFollow
  <1> QED BY <1>1, <1>2, <1>3 DEF WriteRows

\* What DetectChanges calls unchanged has current rows.
LEMMA UnchangedRows ==
  ASSUME OpenInv
  PROVE  RowsFollow(Files \ Changed)
  <1> SUFFICES ASSUME NEW f \in Files, f \notin Changed, f \notin clouded, disk[f].v # 0
               PROVE  rows[f].v = disk[f].v
    BY DEF RowsFollow
  <1> USE DEF OpenInv, TypeOK, WorldOK, DbOK
  <1>1. meta[f].v # 0 /\ ~(disk[f].t # meta[f].t /\ disk[f].v # meta[f].v)
    BY DEF Changed, Stored
  <1> QED BY <1>1 DEF FollowsDisk

\* How a step moves the run: it ends, begins, stays where it is or takes one of
\* its own steps.
LEMMA RunMoves ==
  ASSUME TypeOK, [Next]_vars
  PROVE  \/ run'.pc \in {"none", "root"}
         \/ run'.pc = run.pc /\ run'.changed = run.changed /\ run'.snap = run.snap
         \/ SetRoot \/ Detect \/ Load \/ WriteRows \/ WriteFiles \/ WriteFp
  <1> USE DEF TypeOK, RunOK
  <1>1. CASE UNCHANGED run
    BY <1>1
  <1>2. ASSUME NEW who \in {"user", "child"}, BeginRun(who) PROVE run'.pc = "root"
    BY <1>2 DEF BeginRun, NoRun
  <1>3. CASE QueryKilled
    BY <1>3 DEF QueryKilled
  <1>4. CASE run' = NoRun
    BY <1>4 DEF NoRun
  <1> QED BY <1>1, <1>2, <1>3, <1>4
       DEF Next, UserIndexes, RunStep, EndRun, RunDies, Ended,
           Ask, QueryStep, CheckLock, CheckRoot, CheckDrift, Spawn, ChildEnded, GiveUp, Read, Label,
           Edit, Reconfigure, Move, vars

LEMMA RunRoot ==
  ASSUME OpenInv, [Next]_vars
  PROVE  run'.pc \notin {"none", "root"} => root' = here'
  <1> SUFFICES ASSUME run'.pc \notin {"none", "root"} PROVE root' = here'
    OBVIOUS
  <1> USE DEF OpenInv, TypeOK, RunOK
  <1>1. CASE SetRoot
    BY <1>1 DEF SetRoot, world
  <1>2. CASE ~SetRoot
    <2>1. run.pc \notin {"none", "root"}
      BY <1>2, RunMoves DEF Detect, Load, WriteRows, WriteFiles, WriteFp
    <2>2. UNCHANGED <<root, here>>
      BY <1>2, <2>1 DEF Next, UserIndexes, BeginRun, Running, RunStep, Detect, Load, WriteRows, WriteFiles,
           WriteFp, EndRun, RunDies, Ask, QueryStep, CheckLock, CheckRoot, CheckDrift, Spawn, ChildEnded,
           GiveUp, Read, Label, QueryKilled, Edit, Reconfigure, Move, db, world, vars
    <2> QED BY <2>1, <2>2 DEF RunInv
  <1> QED BY <1>1, <1>2

LEMMA RunStepInv ==
  ASSUME OpenInv, [Next]_vars, TypeOK'
  PROVE  RunInv'
  <1> USE DEF OpenInv, TypeOK, RunOK
  <1>1. ASSUME run'.pc \in {"rows", "meta"}, NEW f \in Files, f \notin clouded'
        PROVE  Snap(f)' = <<f, disk'[f].v, disk'[f].t>>
    <2>1. CASE Load
      BY <2>1, SnapLoaded DEF Load, world
    <2>2. CASE ~Load
      <3>1. run.pc \in {"rows", "meta"} /\ Snap(f)' = Snap(f)
        BY <1>1, <2>2, SnapKept, SnapStays
      <3>2. f \notin clouded /\ disk'[f] = disk[f]
        BY <1>1, <3>1, Writers, EditIsFresh DEF WriteRows, WriteFiles, world, Running
      <3> QED BY <3>1, <3>2 DEF RunInv
    <2> QED BY <2>1, <2>2
  <1>2. ASSUME run'.pc \in {"load", "rows"} PROVE RowsFollow(Files \ run.changed)'
    <2>1. CASE Detect
      <3>1. UNCHANGED <<disk, rows, clouded>>
        BY <2>1 DEF Detect, db, world
      <3>2. run'.changed \in {Files, Changed}
        BY <1>2, <2>1 DEF Detect, To
      <3> QED BY <3>1, <3>2, UnchangedRows DEF RowsFollow
    <2>2. CASE ~Detect
      <3>1. run.pc \in {"load", "rows"} /\ run'.changed = run.changed /\ ~WriteRows
        BY <1>2, <2>2, RunMoves DEF SetRoot, Load, WriteRows, WriteFiles, WriteFp, To
      <3>2. RowsFollow(Files \ run.changed)
        BY <3>1 DEF RunInv
      <3>3. \A f \in Files \ run.changed : f \notin clouded' => f \notin clouded /\ disk'[f] = disk[f] /\ rows'[f] = rows[f]
        BY <3>1, Writers, EditIsFresh DEF WriteFiles, world, Running
      <3> QED BY <3>1, <3>2, <3>3 DEF RowsFollow
    <2> QED BY <2>1, <2>2
  <1>3. ASSUME run'.pc \in {"meta", "fp", "end"} PROVE RowsFollow(Files)'
    <2>1. CASE WriteRows
      BY <2>1, RowsWritten
    <2>2. CASE Detect
      <3>1. UNCHANGED <<disk, rows, clouded>>
        BY <2>2 DEF Detect, db, world
      <3>2. Changed = {}
        BY <1>3, <2>2 DEF Detect
      <3> QED BY <3>1, <3>2, UnchangedRows DEF RowsFollow
    <2>3. CASE ~WriteRows /\ ~Detect
      <3>1. run.pc \in {"meta", "fp", "end"}
        BY <1>3, <2>3, RunMoves DEF SetRoot, Load, WriteFiles, WriteFp, To
      <3> QED BY <2>3, <3>1, RowsKeep DEF RunInv, Running
    <2> QED BY <2>1, <2>2, <2>3
  <1> QED BY <1>1, <1>2, <1>3, RunRoot DEF RunInv

-----------------------------------------------------------------------------
(* The query.                                                              *)

\* How a step moves the query: another actor's step that it does not notice, a
\* commit that crosses it, the end of its child's run, or a step of its own.
LEMMA QueryMoves ==
  ASSUME TypeOK, [Next]_vars
  PROVE  \/ q' = q /\ ~AnEdit /\ here' = here
         \/ (WriteRows \/ WriteFiles) /\ Cross
         \/ EndRun \/ RunDies
         \/ Ask \/ QueryStep \/ QueryKilled \/ AnEdit \/ Reconfigure \/ \E d \in Dirs : Move(d)
  <1>1. CASE UserIndexes \/ SetRoot \/ Detect \/ Load \/ WriteFp \/ UNCHANGED vars
    <2>1. q' = q /\ events' = events /\ here' = here
      BY <1>1 DEF UserIndexes, SetRoot, Detect, Load, WriteFp, world, vars
    <2>2. ~AnEdit
      <3>1. AnEdit => events' = events + 1
        BY DEF AnEdit, Edit, Event
      <3>2. events \in Nat
        BY DEF TypeOK, WorldOK
      <3> QED BY <2>1, <3>1, <3>2
    <2> QED BY <2>1, <2>2
  <1> QED BY <1>1 DEF Next, RunStep, WriteRows, WriteFiles, AnEdit

\* A query begins, or is gone, with nothing.
LEMMA NoQueryYet ==
  ASSUME Ask \/ QueryKilled \/ \E d \in Dirs : Move(d)
  PROVE  q'.pc \in {"idle", "lock"} /\ q'.child = "none" /\ q'.healed = FALSE
  <1>1. CASE Ask
    BY <1>1 DEF Ask, NoQuery
  <1>2. CASE QueryKilled \/ \E d \in Dirs : Move(d)
    <2>1. q' = NoQuery
      BY <1>2 DEF QueryKilled, Move
    <2> QED BY <2>1 DEF NoQuery
  <1> QED BY <1>1, <1>2

LEMMA SeenStep ==
  ASSUME OpenInv, [Next]_vars, TypeOK'
  PROVE  SeenInv'
  <1> SUFFICES ASSUME ~Idle', NEW f \in Files PROVE <<f, disk'[f].v>> \in q'.seen
    BY DEF SeenInv
  <1> USE DEF OpenInv, TypeOK, QueryOK, QueryInv, SeenInv, Idle
  <1>1. CASE Ask
    BY <1>1 DEF Ask, NoQuery, world
  <1>2. CASE AnEdit
    <2> PICK g \in Files, v \in 0..(MaxEvents + 1), t \in 0..MaxEvents : Edit(g, v, t)
      BY <1>2 DEF AnEdit
    <2>1. q'.pc = q.pc /\ q'.seen = q.seen \cup {<<g, v>>}
      BY DEF Edit
    <2>2. disk'[f] = IF f = g THEN [v |-> v, t |-> t] ELSE disk[f]
      BY DEF Edit, WorldOK
    <2> QED BY <2>1, <2>2
  <1>3. CASE ~Ask /\ ~AnEdit
    <2>1. disk' = disk
      BY <1>3, Writers DEF WriteRows, WriteFiles, world
    <2>2. ~Idle /\ q'.seen = q.seen
      <3>1. CASE q' = q
        BY <3>1
      <3>2. CASE (WriteRows \/ WriteFiles) /\ Cross
        BY <3>2 DEF Cross
      <3>3. CASE EndRun \/ RunDies
        BY <3>3 DEF EndRun, RunDies, Ended
      <3>4. CASE QueryStep
        BY <3>4 DEF QueryStep, CheckLock, CheckRoot, CheckDrift, Spawn, ChildEnded, GiveUp, Read, Label, Goto
      <3>5. CASE QueryKilled \/ \E d \in Dirs : Move(d)
        BY <3>5 DEF QueryKilled, Move, NoQuery
      <3>6. CASE Reconfigure
        BY <3>6 DEF Reconfigure
      <3> QED BY <1>3, <3>1, <3>2, <3>3, <3>4, <3>5, <3>6, QueryMoves
    <2> QED BY <2>1, <2>2
  <1> QED BY <1>1, <1>2, <1>3

LEMMA RootStep ==
  ASSUME OpenInv, [Next]_vars, TypeOK'
  PROVE  RootInv'
  <1> SUFFICES ASSUME q'.pc \in {"drift", "spawn", "heal", "read"} PROVE root' \in {0, here'}
    BY DEF RootInv
  <1> USE DEF OpenInv, TypeOK, QueryOK, QueryInv, RootInv
  <1>1. CASE CheckRoot
    BY <1>1 DEF CheckRoot, Goto, RootMoved, world, db
  <1>2. CASE ~CheckRoot
    <2>1. q.pc \in {"drift", "spawn", "heal", "read"}
      <3>1. CASE q' = q
        BY <3>1
      <3>2. CASE (WriteRows \/ WriteFiles) /\ Cross
        BY <3>2 DEF Cross
      <3>3. CASE EndRun \/ RunDies
        BY <3>3 DEF EndRun, RunDies, Ended
      <3>4. CASE QueryStep
        BY <1>2, <3>4 DEF QueryStep, CheckLock, CheckDrift, Spawn, ChildEnded, GiveUp, Read, Label, Goto
      <3>5. CASE Ask \/ QueryKilled \/ \E d \in Dirs : Move(d)
        BY <3>5, NoQueryYet
      <3>6. CASE AnEdit \/ Reconfigure
        BY <3>6 DEF AnEdit, Edit, Reconfigure
      <3> QED BY <3>1, <3>2, <3>3, <3>4, <3>5, <3>6, QueryMoves
    <2>2. here' = here /\ root' \in {root, here}
      BY <2>1 DEF Next, UserIndexes, RunStep, SetRoot, Detect, Load, WriteRows, WriteFiles, WriteFp, EndRun,
           RunDies, Ask, QueryStep, CheckLock, CheckRoot, CheckDrift, Spawn, ChildEnded, GiveUp, Read, Label,
           QueryKilled, Edit, Reconfigure, Move, Idle, db, world, vars
    <2> QED BY <2>1, <2>2
  <1> QED BY <1>1, <1>2

LEMMA ChildStep ==
  ASSUME OpenInv, [Next]_vars, TypeOK'
  PROVE  ChildInv'
  <1> USE DEF OpenInv, TypeOK, QueryOK, RunOK, QueryInv, ChildInv, Running
  <1>1. CASE Ask \/ QueryKilled \/ \E d \in Dirs : Move(d)
    BY <1>1, NoQueryYet
  <1>2. CASE Spawn
    BY ZenonT(60), <1>2 DEF Spawn, BeginRun, NoRun
  <1>3. CASE ChildEnded
    BY <1>3 DEF ChildEnded
  <1>4. CASE GiveUp
    BY <1>4 DEF GiveUp
  <1>5. CASE CheckLock \/ CheckRoot \/ CheckDrift \/ Read \/ Label
    BY ZenonT(60), <1>5 DEF CheckLock, CheckRoot, CheckDrift, Read, Label, Goto
  <1>6. CASE EndRun \/ RunDies
    BY <1>6 DEF EndRun, RunDies, Ended
  <1>7. CASE (WriteRows \/ WriteFiles) /\ Cross
    BY <1>7 DEF WriteRows, WriteFiles, Cross, To
  <1>8. CASE AnEdit \/ Reconfigure
    BY ZenonT(60), <1>8 DEF AnEdit, Edit, Reconfigure
  <1>9. CASE UserIndexes \/ SetRoot \/ Detect \/ Load \/ WriteFp \/ UNCHANGED vars
    BY <1>9 DEF UserIndexes, BeginRun, SetRoot, Detect, Load, WriteFp, To, vars
  <1> QED BY <1>1, <1>2, <1>3, <1>4, <1>5, <1>6, <1>7, <1>8, <1>9
       DEF Next, RunStep, QueryStep, AnEdit, WriteRows, WriteFiles

LEMMA HealStep ==
  ASSUME OpenInv, [Next]_vars, TypeOK'
  PROVE  HealInv'
  <1> SUFFICES ASSUME q'.pc \in {"heal", "read"}, q'.calm, q'.child = "ok" \/ q'.healed
               PROVE  RowsFollow(Files)'
    BY DEF HealInv
  <1> USE DEF OpenInv, TypeOK, QueryOK, RunOK, QueryInv, ChildInv, HealInv
  <1>1. ~AnEdit
    BY DEF AnEdit, Edit
  <1>2. CASE WriteRows
    BY <1>2, RowsWritten
  <1>3. CASE ~WriteRows
    <2>1. RowsFollow(Files)
      <3>1. CASE q' = q
        BY <3>1
      <3>2. CASE WriteFiles /\ Cross
        BY <3>2 DEF Cross
      <3>3. CASE EndRun
        BY <3>3 DEF EndRun, Ended, RunInv
      <3>4. CASE RunDies
        BY <3>4 DEF RunDies, Ended
      <3>5. CASE ChildEnded
        BY <3>5 DEF ChildEnded
      <3>6. CASE CheckLock \/ CheckRoot \/ CheckDrift
        BY <3>6 DEF CheckLock, CheckRoot, CheckDrift, Goto
      <3>11. CASE Read \/ Label
        <4>1. q'.pc \in {"label", "done"}
          BY ZenonT(60), <3>11 DEF Read, Label
        <4> QED BY <4>1
      <3>7. CASE Spawn
        BY ZenonT(60), <3>7 DEF Spawn
      <3>8. CASE GiveUp
        BY <3>8 DEF GiveUp
      <3>9. CASE Reconfigure
        BY <3>9 DEF Reconfigure
      <3>10. CASE Ask \/ QueryKilled \/ \E d \in Dirs : Move(d)
        BY <3>10, NoQueryYet
      <3> QED BY <1>1, <1>3, <3>1, <3>2, <3>3, <3>4, <3>5, <3>6, <3>7, <3>8, <3>9, <3>10, <3>11, QueryMoves
           DEF QueryStep
    <2> QED BY <1>1, <1>3, <2>1, RowsKeep
  <1> QED BY <1>2, <1>3

\* The answer has the rows that were read until another run commits, all of this
\* directory unless the index was half moved.
LEMMA AnswerStep ==
  ASSUME OpenInv, [Next]_vars, TypeOK'
  PROVE  AnswerInv'
  <1> SUFFICES ASSUME q'.pc = "label"
               PROVE  \A a \in q'.answer : /\ q'.half \/ a[3] = here'
                                           /\ ~q'.crossed => /\ a = <<a[1], rows'[a[1]].v, rows'[a[1]].d>>
                                                             /\ rows'[a[1]].v # 0
    BY DEF AnswerInv
  <1> USE DEF OpenInv, TypeOK, QueryOK, QueryInv, AnswerInv
  <1>1. CASE Read
    <2>1. /\ q'.half = (root = here /\ \E f \in Files : rows[f].d \notin {0, here})
          /\ q'.answer = {<<f, rows[f].v, rows[f].d>> : f \in {g \in Files : rows[g].v # 0}}
          /\ rows' = rows /\ here' = here
      BY <1>1 DEF Read, db, world
    <2>2. ASSUME NEW f \in Files, rows[f].v # 0, ~q'.half PROVE rows[f].d = here
      <3>1. root = here
        <4>1. q.pc = "read"
          BY <1>1 DEF Read
        <4>2. rows[f] # NoRow
          BY <2>2 DEF NoRow
        <4> QED BY <4>1, <4>2 DEF RootInv, RowsInv
      <3>2. rows[f].d \in Dirs /\ rows[f].d # 0
        BY <2>2, DirsAreNats DEF RowsInv
      <3> QED BY <2>1, <2>2, <3>1, <3>2
    <2> QED BY <2>1, <2>2
  <1>2. CASE (WriteRows \/ WriteFiles) /\ Cross
    <2>1. q.pc = "label" /\ q'.crossed /\ q'.answer = q.answer /\ q'.half = q.half
      BY <1>2 DEF Cross
    <2>2. here' = here
      BY <1>2 DEF WriteRows, WriteFiles, world
    <2> QED BY <2>1, <2>2
  <1>3. CASE ~Read /\ ~WriteRows /\ ~WriteFiles
    <2>1. q.pc = "label" /\ q'.answer = q.answer /\ q'.half = q.half /\ q'.crossed = q.crossed
      <3>1. CASE q' = q
        BY <3>1
      <3>2. CASE EndRun \/ RunDies
        BY <3>2 DEF EndRun, RunDies, Ended
      <3>3. CASE QueryStep
        BY ZenonT(60), <1>3, <3>3 DEF QueryStep, CheckLock, CheckRoot, CheckDrift, Spawn, ChildEnded, GiveUp, Label, Goto
      <3>4. CASE Ask \/ QueryKilled \/ \E d \in Dirs : Move(d)
        BY <3>4, NoQueryYet
      <3>5. CASE AnEdit \/ Reconfigure
        BY <3>5 DEF AnEdit, Edit, Reconfigure
      <3> QED BY <1>3, <3>1, <3>2, <3>3, <3>4, <3>5, QueryMoves
    <2>2. rows' = rows
      BY <1>3, Writers, EditIsFresh
    <2>3. here' = here
      <3>1. CASE \E d \in Dirs : Move(d)
        BY <3>1, NoQueryYet
      <3> QED BY <3>1 DEF Next, UserIndexes, RunStep, SetRoot, Detect, Load, WriteRows, WriteFiles, WriteFp, EndRun,
           RunDies, Ask, QueryStep, CheckLock, CheckRoot, CheckDrift, Spawn, ChildEnded, GiveUp, Read, Label,
           QueryKilled, Edit, Reconfigure, world, vars
    <2> QED BY <2>1, <2>2, <2>3
  <1> QED BY <1>1, <1>2, <1>3, QueryMoves DEF WriteRows, WriteFiles

LEMMA HealedStep ==
  ASSUME OpenInv, [Next]_vars, TypeOK'
  PROVE  HealedIsCurrent'
  <1> SUFFICES ASSUME q'.pc = "label", q'.healed, q'.calm, NEW f \in Files, f \notin clouded', disk'[f].v # 0
               PROVE  \E d \in IF q'.half THEN Dirs ELSE {here'} : <<f, disk'[f].v, d>> \in q'.answer
    BY DEF HealedIsCurrent
  <1> USE DEF OpenInv, TypeOK, QueryOK, QueryInv
  <1>1. ~AnEdit
    BY DEF AnEdit, Edit
  <1>2. f \notin clouded /\ disk' = disk
    BY <1>1, Writers DEF WriteRows, WriteFiles, world
  <1>3. CASE Read
    <2>1. rows[f].v = disk[f].v
      BY <1>2, <1>3 DEF Read, HealInv, RowsFollow
    <2>2. rows[f].v # 0 /\ here' = here
      BY <1>2, <1>3, <2>1 DEF Read, world
    <2>3. <<f, disk'[f].v, rows[f].d>> \in q'.answer
      BY ZenonT(60), <1>2, <1>3, <2>1, <2>2 DEF Read
    <2>4. CASE q'.half
      BY <2>2, <2>3, <2>4 DEF RowsInv
    <2>5. CASE ~q'.half
      <3>1. q.pc = "read" /\ ~(root = here /\ rows[f].d \notin {0, here})
        BY <1>3, <2>5 DEF Read
      <3>2. rows[f] # NoRow
        BY <2>2 DEF NoRow
      <3>3. rows[f].d = here
        BY <2>2, <3>1, <3>2, DirsAreNats DEF RootInv, RowsInv
      <3> QED BY <2>2, <2>3, <2>5, <3>3
    <2> QED BY <2>4, <2>5
  <1>4. CASE ~Read
    <2>1. /\ q.pc = "label" /\ q.healed /\ q.calm
          /\ q'.answer = q.answer /\ q'.half = q.half
      <3>1. CASE q' = q
        BY <3>1
      <3>2. CASE EndRun \/ RunDies
        BY <3>2 DEF EndRun, RunDies, Ended
      <3>3. CASE QueryStep
        <4>1. q'.pc # "label"
          <5>1. Label => q'.pc = "done"
            BY DEF Label
          <5>2. CheckLock \/ CheckRoot \/ CheckDrift => q'.pc # "label"
            BY DEF CheckLock, CheckRoot, CheckDrift, Goto
          <5>3. Spawn => q'.pc = "heal"
            BY DEF Spawn
          <5>4. ChildEnded \/ GiveUp => q'.pc = "read"
            BY DEF ChildEnded, GiveUp
          <5> QED BY <1>4, <3>3, <5>1, <5>2, <5>3, <5>4 DEF QueryStep
        <4> QED BY <4>1
      <3>4. CASE Ask \/ QueryKilled \/ \E d \in Dirs : Move(d)
        BY <3>4, NoQueryYet
      <3>5. CASE Reconfigure
        BY <3>5 DEF Reconfigure
      <3>6. CASE (WriteRows \/ WriteFiles) /\ Cross
        BY <3>6 DEF Cross
      <3> QED BY <1>1, <1>4, <3>1, <3>2, <3>3, <3>4, <3>5, <3>6, QueryMoves
    <2>2. here' = here
      BY <2>1, NoQueryYet DEF Next, UserIndexes, RunStep, SetRoot, Detect, Load, WriteRows, WriteFiles, WriteFp, EndRun,
           RunDies, Ask, QueryStep, CheckLock, CheckRoot, CheckDrift, Spawn, ChildEnded, GiveUp, Read, Label,
           QueryKilled, Edit, Reconfigure, Move, Idle, world, vars
    <2> QED BY <1>2, <2>1, <2>2 DEF HealedIsCurrent
  <1> QED BY <1>3, <1>4

\* The comparison with the disk: a file whose entry and row are of this
\* directory and not stale is as it is now.
LEMMA LabelRight ==
  ASSUME OpenInv, Label
  PROVE  AnswerLabelled'
  <1> SUFFICES ASSUME NEW a \in q.answer, a[1] \notin q'.stale \cup clouded, ~q.crossed, ~q.half
               PROVE  a[3] = here /\ <<a[1], a[2]>> \in q.seen
    BY DEF Label, AnswerLabelled, OpenInv, TypeOK, QueryOK, world
  <1> USE DEF OpenInv, TypeOK, QueryOK, QueryInv
  <1>1. PICK f \in Files : a[1] = f
    BY DEF Versions
  <1>2. a[3] = here /\ a = <<f, rows[f].v, rows[f].d>> /\ rows[f].v # 0
    BY <1>1 DEF Label, AnswerInv
  <1>3. ~Stale(f)
    BY <1>1 DEF Label
  <1>4. /\ meta[f].v # 0 /\ disk[f].v # 0
        /\ ~(disk[f].t > meta[f].t /\ disk[f].v # meta[f].v)
    BY <1>2, <1>3 DEF Stale
  <1>5. meta[f].v = disk[f].v /\ rows[f].v = disk[f].v
    <2>1. f \notin clouded
      BY <1>1 DEF Label
    <2>2. meta[f].t \in Nat /\ disk[f].t \in Nat
      BY DEF WorldOK, DbOK
    <2>3. meta[f].v = disk[f].v
      BY <1>4, <2>1, <2>2 DEF FollowsDisk
    <2> QED BY <1>4, <2>1, <2>3 DEF FollowsDisk
  <1>6. <<f, disk[f].v>> \in q.seen
    BY DEF Label, SeenInv, Idle
  <1> QED BY <1>1, <1>2, <1>5, <1>6

LEMMA LabelledStep ==
  ASSUME OpenInv, [Next]_vars, TypeOK'
  PROVE  AnswerLabelled'
  <1>1. CASE Label
    BY <1>1, LabelRight
  <1>2. CASE ~Label
    <2> SUFFICES ASSUME q'.pc = "done" PROVE AnswerLabelled'
      BY DEF AnswerLabelled
    <2> USE DEF OpenInv, TypeOK, QueryOK, QueryInv
    <2>1. /\ q.pc = "done" /\ q'.answer = q.answer /\ q'.half = q.half /\ q'.crossed = q.crossed
          /\ q'.stale = q.stale /\ q.seen \subseteq q'.seen
      <3>1. CASE q' = q
        BY <3>1
      <3>2. CASE EndRun \/ RunDies
        BY <3>2 DEF EndRun, RunDies, Ended
      <3>3. CASE QueryStep
        BY ZenonT(60), <1>2, <3>3 DEF QueryStep, CheckLock, CheckRoot, CheckDrift, Spawn, ChildEnded, GiveUp, Read, Goto
      <3>4. CASE Ask \/ QueryKilled \/ \E d \in Dirs : Move(d)
        BY <3>4, NoQueryYet
      <3>5. CASE AnEdit
        BY <3>5 DEF AnEdit, Edit
      <3>6. CASE Reconfigure
        BY <3>6 DEF Reconfigure
      <3>7. CASE (WriteRows \/ WriteFiles) /\ Cross
        BY <3>7 DEF Cross
      <3> QED BY <3>1, <3>2, <3>3, <3>4, <3>5, <3>6, <3>7, QueryMoves
    <2>2. here' = here
      BY <2>1, NoQueryYet DEF Next, UserIndexes, RunStep, SetRoot, Detect, Load, WriteRows, WriteFiles, WriteFp, EndRun,
           RunDies, Ask, QueryStep, CheckLock, CheckRoot, CheckDrift, Spawn, ChildEnded, GiveUp, Read, Label,
           QueryKilled, Edit, Reconfigure, Move, Idle, world, vars
    <2>3. clouded \subseteq clouded'
      BY Writers, EditIsFresh DEF WriteRows, WriteFiles
    <2> QED BY <2>1, <2>2, <2>3 DEF AnswerLabelled
  <1> QED BY <1>1, <1>2

-----------------------------------------------------------------------------
(* The theorems.                                                           *)

\* The inductive invariant holds in every state: types, what entries and rows
\* know of the disk, what a run has done so far, what the query has read.
THEOREM OpenInvariance == Spec => []OpenInv
  <1>1. OpenInv /\ [Next]_vars => OpenInv'
    <2> SUFFICES ASSUME OpenInv, [Next]_vars PROVE OpenInv'
      OBVIOUS
    <2>1. TypeOK'
      BY TypeStep
    <2> QED BY <2>1, DiskStep, VersionsStep, RunStepInv, RowsStep, SeenStep, RootStep, ChildStep, HealStep,
               AnswerStep, LabelledStep, HealedStep DEF OpenInv, QueryInv
  <1> QED BY <1>1, InitOpen, PTL DEF Spec

\* What CheckFileStaleness leaves unmarked in an answer is of this repository
\* and as it was at some moment of the query, but for the clouded files, an
\* index run that crossed the query, and an index that was half moved.
THEOREM AnswersAreLabelled == Spec => []AnswerLabelled
  <1>1. OpenInv => AnswerLabelled
    BY DEF OpenInv
  <1> QED BY <1>1, OpenInvariance, PTL

\* After maybeSelfHeal's child succeeded, and with no edit since it began, the
\* query reads every file of the tree as it is.
THEOREM HealMakesCurrent == Spec => []HealedIsCurrent
  <1>1. OpenInv => HealedIsCurrent
    BY DEF OpenInv
  <1> QED BY <1>1, OpenInvariance, PTL
=============================================================================
