------------------------------ MODULE IndexRun -------------------------------
(***************************************************************************)
(* `snipe index` (cmd/index.go, internal/store/write.go,                   *)
(* internal/index): the run that brings .snipe/index.db up to date with    *)
(* the working tree.                                                       *)
(*                                                                         *)
(* The run looks at the tree three times - change detection, package load, *)
(* file hashing - and commits its results in several transactions.  Each   *)
(* look and each transaction is one action here; between any two of them   *)
(* the user may edit files and the process may die.                        *)
(*                                                                         *)
(* A source file is abstracted to one declared symbol and the files whose  *)
(* symbols it uses.  A symbol's ID is derived from its file and position   *)
(* (generateID), so an edit that moves the declaration re-mints the ID.    *)
(* One run is active at a time: IndexLock is about that.                   *)
(***************************************************************************)
EXTENDS Integers, FiniteSets

CONSTANTS
  Files,              \* paths of Go files under the project root
  Content,            \* what a file may contain
  Confs,              \* build configurations: what the fingerprint hashes
  Absent,             \* no such file, no such row
  NoFp,               \* the meta key "fingerprint" has no value
  EditsWhileIndexing, \* the tree may change while a run is active
  SameSecondEdits,    \* a file may change twice within one second
  Realtime,           \* vectors are computed during the run (--embed-mode, credentials)
  Reverts,            \* a file, or the configuration, may return to a former state
  MaxClock,           \* bound: seconds that pass
  MaxEvents           \* bound: edits, configuration changes and crashes

ASSUME ContentAssumption ==
  /\ Content \subseteq [pos : Nat, uses : SUBSET Files]
  /\ Absent \notin Content
  /\ NoFp \notin Confs
  /\ MaxClock \in Nat
  /\ MaxEvents \in Nat
  /\ {EditsWhileIndexing, SameSecondEdits, Realtime, Reverts} \subseteq BOOLEAN

VARIABLES
  \* The working tree.
  disk,       \* content of each file
  mtime,      \* second each file was last changed in
  conf,       \* current build configuration
  past,       \* history: the contents each file has had
  pastConf,   \* history: the configurations there have been
  now,        \* the clock, in seconds
  events,     \* number of edits, configuration changes and crashes so far
  \* Committed tables and meta keys of index.db.
  symbols,    \* per file, the rows extracted from it
  refs,       \* [from, to] pairs of symbol IDs; from is the enclosing symbol
  edges,      \* likewise, call_graph
  embeddings, \* IDs of the symbols with a stored vector
  imports,
  literals,   \* rows also remember the extractor generation
  docs,       \* package_docs, each file standing for its package
  files,      \* per file, hash and mtime
  fp,         \* meta "fingerprint"
  metrics,    \* meta "file_metrics_version": is it the current one?
  \* The active run.
  pc,
  mode,       \* "full", "incremental" or "none"
  changes,    \* what DetectChanges reported
  runFp,      \* the fingerprint computed at the start
  snap,       \* the tree as Load saw it
  info        \* the tree as ExtractFileInfo saw it

treeVars == <<disk, mtime, conf, past, pastConf, now, events>>
dbVars   == <<symbols, refs, edges, embeddings, imports, literals, docs, files, fp, metrics>>
runVars  == <<pc, mode, changes, runFp, snap, info>>
vars     == <<treeVars, dbVars, runVars>>

-----------------------------------------------------------------------------
\* Rows: a row of symbols, imports or package_docs knows the content and the
\* configuration it was extracted from; one of string_refs also whether the
\* extractor was the current one; one of files has a hash and a time.
Row     == [c : Content, k : Confs]
Literal == [c : Content, k : Confs, x : {"old", "new"}]
Info    == [hash : Content, mtime : Nat]
SymId   == Files \X Nat
Link    == [from : SymId, to : SymId]

ASSUME AbsentAssumption == Absent \notin Row \cup Literal \cup Info

NoFiles == [f \in Files |-> Absent]
NoTree  == [disk |-> NoFiles, conf |-> NoFp]
NoChanges == [modified |-> {}, added |-> {}, deleted |-> {}]

Steps == {"idle", "detect", "load", "hash", "writeIndex", "writeIncremental", "docs",
          "imports", "metrics", "literals", "files", "meta", "embed"}

\* Files with a value other than Absent.
Present(fn) == {f \in Files : fn[f] # Absent}

\* generateID: file and position.
IdOf(fn, f) == <<f, fn[f].c.pos>>

\* The IDs in the symbols table.
Ids(table) == {IdOf(table, f) : f \in Present(table)}

\* ExtractSymbols and the other per-file extractors over a loaded tree.
RowsOf(tree) ==
  [f \in Files |-> IF tree.disk[f] = Absent THEN Absent
                   ELSE [c |-> tree.disk[f], k |-> tree.conf]]

LiteralsOf(tree) ==
  [f \in Files |-> IF tree.disk[f] = Absent THEN Absent
                   ELSE [c |-> tree.disk[f], k |-> tree.conf, x |-> "new"]]

\* ExtractRefsFiltered and ExtractCallGraphFiltered: the uses in files S, each
\* resolved to the position the used symbol has in the loaded tree.
LinksOf(tree, S) ==
  {[from |-> <<x[1], tree.disk[x[1]].pos>>, to |-> <<x[2], tree.disk[x[2]].pos>>] :
      x \in {y \in (S \cap Present(tree.disk)) \X Present(tree.disk) :
               y[2] \in tree.disk[y[1]].uses}}

\* Rows of changed files replaced, rows of deleted files removed.
Replace(table, new, changed, deleted) ==
  [f \in Files |-> IF f \in deleted THEN Absent
                   ELSE IF f \in changed THEN new[f] ELSE table[f]]

\* deleteFromFileSet: refs and call_graph without the rows of files S.  In the
\* mutant the rows that point outside S are forgotten.
OwnedByOthers(rows, S) == {r \in rows : r.from[1] \notin S}

\* The sweep of refs that point at a symbol which is gone; in the mutant, only
\* those of the new files are looked at (filterRefs alone).
MutantSweepRefs(rows, table) == rows
SweepRefs(rows, table) == {r \in rows : r.to \in Ids(table)}

\* deleteFromFileSet on the files table, and a delete of the wrong set.
MutantDropFiles(table, deleted) == table
DropFiles(table, deleted) == [f \in Files |-> IF f \in deleted THEN Absent ELSE table[f]]

\* ExtractFileInfo.
FileInfo == [f \in Files |-> IF disk[f] = Absent THEN Absent
                             ELSE [hash |-> disk[f], mtime |-> mtime[f]]]

-----------------------------------------------------------------------------
(* Change detection: DetectChanges and trySkipIndex.                       *)

\* Equal seconds are taken for equal content; else the hashes decide.
Modified == {f \in Present(disk) \cap Present(files) :
               mtime[f] # files[f].mtime /\ disk[f] # files[f].hash}
Added    == Present(disk) \ Present(files)
Deleted  == Present(files) \ Present(disk)
HasChanges == Modified \cup Added \cup Deleted # {}

\* TotalChanged()*100/totalFiles > 50, in integer arithmetic.
MostlyChanged(ch) ==
  LET total == ch.modified \cup ch.added \cup ch.deleted
      all   == total \cup Present(disk)
  IN  Cardinality(all) > 0 /\ (Cardinality(total) * 100) \div Cardinality(all) > 50

\* trySkipIndex answers skipResultSkipped to a run whose fingerprint is conf.
UpToDate == fp = conf /\ Present(files) # {} /\ ~HasChanges

-----------------------------------------------------------------------------
(* The tree, and the database, before the first run: there is no index, or *)
(* a complete one that an earlier version of snipe built.                  *)
Init ==
  /\ disk \in [Files -> Content \cup {Absent}]
  /\ mtime = [f \in Files |-> 0]
  /\ conf \in Confs
  /\ past = [f \in Files |-> {disk[f]}]
  /\ pastConf = {conf}
  /\ now = 1
  /\ events = 0
  /\ LET tree == [disk |-> disk, conf |-> conf]
     IN \/ /\ symbols = NoFiles /\ refs = {} /\ edges = {} /\ imports = NoFiles
           /\ literals = NoFiles /\ docs = NoFiles /\ files = NoFiles /\ fp = NoFp
        \/ /\ symbols = RowsOf(tree) /\ imports = symbols /\ docs = symbols
           /\ refs = LinksOf(tree, Files) /\ edges = refs
           /\ literals = [f \in Files |-> IF disk[f] = Absent THEN Absent
                                          ELSE [c |-> disk[f], k |-> conf, x |-> "old"]]
           /\ files = FileInfo
           /\ fp = conf
  /\ embeddings = {}
  /\ metrics = FALSE
  /\ pc = "idle" /\ mode = "none" /\ changes = NoChanges /\ runFp = NoFp
  /\ snap = NoTree /\ info = NoFiles

-----------------------------------------------------------------------------
(* The user's side.                                                        *)

MayEdit == /\ EditsWhileIndexing \/ pc = "idle"
           /\ events < MaxEvents
           /\ events' = events + 1

\* A file is written or removed.  os.Stat reports the change in seconds.
Edit(f, c) ==
  /\ MayEdit
  /\ c # disk[f]
  /\ SameSecondEdits \/ mtime[f] < now
  /\ Reverts \/ c \notin past[f]
  /\ disk' = [disk EXCEPT ![f] = c]
  /\ mtime' = [mtime EXCEPT ![f] = now]
  /\ past' = [past EXCEPT ![f] = @ \cup {c}]
  /\ UNCHANGED <<conf, pastConf, now, dbVars, runVars>>

\* go.mod, go.sum, go.work or the Go environment changes.
Configure(k) ==
  /\ MayEdit
  /\ k # conf
  /\ Reverts \/ k \notin pastConf
  /\ conf' = k
  /\ pastConf' = pastConf \cup {k}
  /\ UNCHANGED <<disk, mtime, past, now, dbVars, runVars>>

Tick == /\ now < MaxClock
        /\ now' = now + 1
        /\ UNCHANGED <<disk, mtime, conf, past, pastConf, events, dbVars, runVars>>

-----------------------------------------------------------------------------
(* runIndex.                                                               *)

\* The process is gone, and with it everything it held in memory.
EndRun == /\ pc' = "idle" /\ mode' = "none" /\ changes' = NoChanges /\ runFp' = NoFp
          /\ snap' = NoTree /\ info' = NoFiles

\* The lock is taken, the fingerprint computed, the store opened.  force is the
\* --force flag, an index built under another root, or change detection failing.
Start(force) ==
  /\ pc = "idle"
  /\ runFp' = conf
  /\ pc' = IF force THEN "load" ELSE "detect"
  /\ mode' = IF force THEN "full" ELSE "none"
  /\ UNCHANGED <<treeVars, dbVars, changes, snap, info>>

\* trySkipIndex and the decisions runIndex takes on its answer.  A file that
\* cannot be read is reported as modified.  skipMetrics is --skip-metrics.
Detect(unreadable, skipMetrics) ==
  LET ch == [modified |-> Modified \cup unreadable, added |-> Added, deleted |-> Deleted]
      any == ch.modified \cup ch.added \cup ch.deleted # {}
      full == \/ fp # runFp
              \/ Present(files) = {}
              \/ any /\ MostlyChanged(ch)
              \/ ~skipMetrics /\ ~metrics
  IN /\ pc = "detect"
     /\ unreadable \subseteq Present(disk) \cap Present(files)
     /\ \/ /\ full
           /\ pc' = "load" /\ mode' = "full"
           /\ UNCHANGED <<changes, runFp, snap, info>>
        \/ /\ ~full /\ any
           /\ pc' = IF ch.modified \cup ch.added = {} THEN "writeIncremental" ELSE "load"
           /\ mode' = "incremental" /\ changes' = ch
           /\ UNCHANGED <<runFp, snap, info>>
        \/ /\ ~full /\ ~any
           /\ EndRun
     /\ UNCHANGED <<treeVars, dbVars>>

\* index.Load parses and type-checks the tree; every extractor works on it.
Load ==
  /\ pc = "load"
  /\ snap' = [disk |-> disk, conf |-> conf]
  /\ pc' = IF mode = "full" THEN "hash" ELSE "writeIncremental"
  /\ UNCHANGED <<treeVars, dbVars, mode, changes, runFp, info>>

\* ExtractFileInfo walks the tree again: before the writes of a full run, after
\* the main write of an incremental one.
HashFiles ==
  /\ pc = "hash"
  /\ info' = FileInfo
  /\ pc' = IF mode = "full" THEN "writeIndex" ELSE "files"
  /\ UNCHANGED <<treeVars, dbVars, mode, changes, runFp, snap>>

\* WriteIndex with imports among the tables it truncates: they would be gone
\* until WriteImports, however the run ends.
MutantWriteIndex ==
  /\ pc = "writeIndex"
  /\ symbols' = RowsOf(snap)
  /\ imports' = NoFiles
  /\ embeddings' = embeddings \cap Ids(symbols')
  /\ refs' = {r \in LinksOf(snap, Files) : {r.from, r.to} \subseteq Ids(symbols')}
  /\ edges' = {r \in LinksOf(snap, Files) : {r.from, r.to} \subseteq Ids(symbols')}
  /\ pc' = "docs"
  /\ UNCHANGED <<treeVars, literals, docs, files, fp, metrics,
                 mode, changes, runFp, snap, info>>

\* One transaction: truncate, insert, restore the vectors of symbols whose ID
\* is still there, filter refs and edges to known symbols.
WriteIndex ==
  /\ pc = "writeIndex"
  /\ symbols' = RowsOf(snap)
  /\ embeddings' = embeddings \cap Ids(symbols')
  /\ refs' = {r \in LinksOf(snap, Files) : {r.from, r.to} \subseteq Ids(symbols')}
  /\ edges' = {r \in LinksOf(snap, Files) : {r.from, r.to} \subseteq Ids(symbols')}
  /\ pc' = "docs"
  /\ UNCHANGED <<treeVars, imports, literals, docs, files, fp, metrics,
                 mode, changes, runFp, snap, info>>

\* One transaction with foreign keys off: drop what the affected files own,
\* insert what their new versions hold, then sweep the rows of other files
\* that point at symbols which are gone.  Also the whole of a delete-only run.
WriteIndexIncremental ==
  LET changed  == changes.modified \cup changes.added
      affected == changed \cup changes.deleted
      links    == LinksOf(snap, changed)
  IN /\ pc = "writeIncremental"
     /\ symbols' = Replace(symbols, RowsOf(snap), changed, changes.deleted)
     /\ imports' = Replace(imports, RowsOf(snap), changed, changes.deleted)
     /\ literals' = Replace(literals, LiteralsOf(snap), changed, changes.deleted)
     /\ files' = DropFiles(files, changes.deleted)
     /\ embeddings' = {i \in embeddings : i[1] \notin affected}
     /\ refs' = SweepRefs(OwnedByOthers(refs, affected) \cup links, symbols')
     /\ edges' = {r \in OwnedByOthers(edges, affected) \cup links :
                    {r.from, r.to} \subseteq Ids(symbols')}
     /\ pc' = IF changed = {} THEN "embed" ELSE "docs"
     /\ UNCHANGED <<treeVars, docs, fp, metrics, mode, changes, runFp, snap, info>>

\* One transaction: replaces the set of package docs.
WritePackageDocs ==
  /\ pc = "docs"
  /\ docs' = RowsOf(snap)
  /\ pc' = IF mode = "full" THEN "imports" ELSE "hash"
  /\ UNCHANGED <<treeVars, symbols, refs, edges, embeddings, imports, literals, files, fp,
                 metrics, mode, changes, runFp, snap, info>>

\* One transaction: truncates and repopulates imports.
WriteImports ==
  /\ pc = "imports"
  /\ imports' = RowsOf(snap)
  /\ pc' = "metrics"
  /\ UNCHANGED <<treeVars, symbols, refs, edges, embeddings, literals, docs, files, fp,
                 metrics, mode, changes, runFp, snap, info>>

\* graphmetrics.Compute unless --skip-metrics; its last step stamps
\* file_metrics_version, and a failure to do so is only a warning.
ComputeMetrics ==
  /\ pc = "metrics"
  /\ metrics' \in {metrics, TRUE}
  /\ pc' = "literals"
  /\ UNCHANGED <<treeVars, symbols, refs, edges, embeddings, imports, literals, docs, files, fp,
                 mode, changes, runFp, snap, info>>

\* One transaction: truncates and repopulates string_refs.
WriteLiterals ==
  /\ pc = "literals"
  /\ literals' = LiteralsOf(snap)
  /\ pc' = "files"
  /\ UNCHANGED <<treeVars, symbols, refs, edges, embeddings, imports, docs, files, fp,
                 metrics, mode, changes, runFp, snap, info>>

\* One transaction: replaces the hashes and mtimes that DetectChanges reads.
WriteFiles ==
  /\ pc = "files"
  /\ files' = info
  /\ pc' = IF mode = "full" THEN "meta" ELSE "embed"
  /\ UNCHANGED <<treeVars, symbols, refs, edges, embeddings, imports, literals, docs, fp,
                 metrics, mode, changes, runFp, snap, info>>

\* SetMeta("fingerprint"), the value computed at the start of the run.
SetFingerprint ==
  /\ pc = "meta"
  /\ fp' = runFp
  /\ pc' = "embed"
  /\ UNCHANGED <<treeVars, symbols, refs, edges, embeddings, imports, literals, docs, files,
                 metrics, mode, changes, runFp, snap, info>>

\* Realtime embedding after a full run or the refresh after an incremental one:
\* vectors are saved one by one for symbols of the index; an API failure stops
\* it, and it may be off altogether.  The run then ends.
Embed(saved) ==
  /\ pc = "embed"
  /\ saved \subseteq Ids(symbols)
  /\ saved # {} => Realtime
  /\ embeddings' = embeddings \cup saved
  /\ EndRun
  /\ UNCHANGED <<treeVars, symbols, refs, edges, imports, literals, docs, files, fp, metrics>>

\* The process dies, or a step fails and runIndex returns its error.  Nothing
\* of an open transaction is kept.
Crash ==
  /\ pc # "idle"
  /\ events < MaxEvents
  /\ events' = events + 1
  /\ EndRun
  /\ UNCHANGED <<disk, mtime, conf, past, pastConf, now, dbVars>>

RunStep ==
  \/ \E u \in SUBSET Files, skip \in BOOLEAN : Detect(u, skip)
  \/ Load \/ HashFiles \/ WriteIndex \/ WriteIndexIncremental \/ WritePackageDocs
  \/ WriteImports \/ ComputeMetrics \/ WriteLiterals \/ WriteFiles \/ SetFingerprint
  \/ \E saved \in SUBSET Ids(symbols) : Embed(saved)

TreeStep == \/ \E f \in Files, c \in Content \cup {Absent} : Edit(f, c)
            \/ \E k \in Confs : Configure(k)
            \/ Tick

Next == TreeStep \/ (\E force \in BOOLEAN : Start(force)) \/ RunStep \/ Crash

\* A run that has started goes on until it ends or dies.  When runs start is
\* up to the user.
Spec == Init /\ [][Next]_vars /\ WF_vars(RunStep)

-----------------------------------------------------------------------------
FileMap(S) == [Files -> S \cup {Absent}]

TreeOK ==
  /\ disk \in FileMap(Content) /\ mtime \in [Files -> Nat] /\ conf \in Confs
  /\ past \in [Files -> SUBSET (Content \cup {Absent})] /\ pastConf \subseteq Confs
  /\ now \in Nat /\ events \in Nat

TablesOK ==
  /\ symbols \in FileMap(Row) /\ refs \subseteq Link /\ edges \subseteq Link
  /\ embeddings \subseteq SymId /\ imports \in FileMap(Row) /\ literals \in FileMap(Literal)
  /\ docs \in FileMap(Row) /\ files \in FileMap(Info) /\ fp \in Confs \cup {NoFp}
  /\ metrics \in BOOLEAN

RunOK ==
  /\ pc \in Steps /\ mode \in {"none", "full", "incremental"}
  /\ changes \in [modified : SUBSET Files, added : SUBSET Files, deleted : SUBSET Files]
  /\ runFp \in Confs \cup {NoFp}
  /\ snap \in [disk : FileMap(Content), conf : Confs \cup {NoFp}] /\ info \in FileMap(Info)

TypeOK == TreeOK /\ TablesOK /\ RunOK

\* Committed tables reference only symbols that exist, although incremental
\* runs write with foreign keys off and although the file list, the loaded tree
\* and the stored rows may be of three different moments.
ReferentialIntegrity ==
  /\ \A r \in refs \cup edges : {r.from, r.to} \subseteq Ids(symbols)
  /\ embeddings \subseteq Ids(symbols)

\* An indexed file's rows are those of its present content.
RowsCurrent(f) ==
  IF disk[f] = Absent
  THEN symbols[f] = Absent /\ imports[f] = Absent /\ literals[f] = Absent
  ELSE /\ symbols[f] = [c |-> disk[f], k |-> conf]
       /\ imports[f] = symbols[f]
       /\ literals[f] # Absent /\ literals[f].c = disk[f] /\ literals[f].k = conf

\* "trySkipIndex checks whether the index is already up-to-date and can be
\* skipped": when it says so, the rows of every file are current.
SkipSound == pc = "idle" /\ UpToDate => \A f \in Files : RowsCurrent(f)

\* If runs keep being started, the index ends up in a state in which a run has
\* nothing left to do, whatever edits and crashes came before.  In a tree
\* without Go files every run is a full one.
Converges == []<>(pc = "detect") => <>[](UpToDate \/ Present(disk) = {})

=============================================================================
