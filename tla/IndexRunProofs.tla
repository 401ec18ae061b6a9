--------------------------- MODULE IndexRunProofs ----------------------------
(***************************************************************************)
(* For any set of files, contents and configurations, and whatever is      *)
(* edited or dies in between: the tables an index run leaves behind refer  *)
(* only to symbols that are there.                                         *)
(***************************************************************************)
EXTENDS IndexRun, TLAPS

\* What DetectChanges reports: a deleted file is neither modified nor added.
ChangesInv == changes.deleted \cap (changes.modified \cup changes.added) = {}

\* A run that extracts rows has loaded the tree under some configuration.
SnapInv ==
  /\ pc \in {"hash", "writeIndex", "docs", "imports", "metrics", "literals"} =>
       snap.conf \in Confs
  /\ pc = "writeIncremental" =>
       changes.modified \cup changes.added = {} \/ snap.conf \in Confs

IInv == TypeOK /\ ChangesInv /\ SnapInv /\ ReferentialIntegrity

-----------------------------------------------------------------------------
(* The extractors and the table operators.                                 *)

Tree == [disk : FileMap(Content), conf : Confs]

\* Rows extracted from a tree are rows.
LEMMA RowsOfType ==
  ASSUME NEW tree \in Tree PROVE RowsOf(tree) \in FileMap(Row)
BY DEF Tree, RowsOf, FileMap, Row

LEMMA LiteralsOfType ==
  ASSUME NEW tree \in Tree PROVE LiteralsOf(tree) \in FileMap(Literal)
BY DEF Tree, LiteralsOf, FileMap, Literal

\* The rows of a tree are there exactly for its files.
LEMMA RowsOfPresent ==
  ASSUME NEW tree \in Tree, NEW f \in Files, tree.disk[f] # Absent
  PROVE  /\ RowsOf(tree)[f] = [c |-> tree.disk[f], k |-> tree.conf]
         /\ RowsOf(tree)[f] # Absent
<1>1. RowsOf(tree)[f] = [c |-> tree.disk[f], k |-> tree.conf]
  BY DEF RowsOf
<1>2. RowsOf(tree)[f] \in Row
  BY <1>1 DEF Tree, FileMap, Row
<1> QED BY <1>1, <1>2, AbsentAssumption

\* The IDs of a table's rows are IDs.
LEMMA IdsType ==
  ASSUME NEW table \in FileMap(Row) PROVE Ids(table) \subseteq SymId
<1> SUFFICES ASSUME NEW f \in Present(table) PROVE IdOf(table, f) \in SymId
  BY DEF Ids
<1>1. f \in Files /\ table[f] \in Row
  BY DEF Present, FileMap
<1>2. table[f].c.pos \in Nat
  BY <1>1, ContentAssumption DEF Row
<1> QED BY <1>1, <1>2 DEF IdOf, SymId

\* References and calls extracted from files S of a tree connect symbols that
\* are extracted from it too, and start in S.
LEMMA LinksOfSound ==
  ASSUME NEW tree \in Tree, NEW S, NEW r \in LinksOf(tree, S)
  PROVE  /\ r \in Link
         /\ r.from[1] \in S /\ tree.disk[r.from[1]] # Absent
         /\ r.from = IdOf(RowsOf(tree), r.from[1])
         /\ {r.from, r.to} \subseteq Ids(RowsOf(tree))
         /\ r.to[1] \in Files /\ tree.disk[r.to[1]] # Absent
         /\ r.to = IdOf(RowsOf(tree), r.to[1])
<1>1. PICK x \in (S \cap Present(tree.disk)) \X Present(tree.disk) :
        r = [from |-> <<x[1], tree.disk[x[1]].pos>>, to |-> <<x[2], tree.disk[x[2]].pos>>]
  BY DEF LinksOf
<1>2. /\ x[1] \in S /\ x[1] \in Files /\ tree.disk[x[1]] # Absent
      /\ x[2] \in Files /\ tree.disk[x[2]] # Absent
  BY <1>1 DEF Present
<1>3. r.from = <<x[1], tree.disk[x[1]].pos>> /\ r.to = <<x[2], tree.disk[x[2]].pos>>
  BY <1>1
<1>4. ASSUME NEW f \in Files, tree.disk[f] # Absent
      PROVE  /\ <<f, tree.disk[f].pos>> = IdOf(RowsOf(tree), f)
             /\ <<f, tree.disk[f].pos>> \in Ids(RowsOf(tree))
  <2>1. RowsOf(tree)[f] = [c |-> tree.disk[f], k |-> tree.conf] /\ RowsOf(tree)[f] # Absent
    BY <1>4, RowsOfPresent
  <2>2. RowsOf(tree)[f].c = tree.disk[f]
    BY <2>1
  <2> QED BY <2>1, <2>2 DEF IdOf, Ids, Present
<1>5. {r.from, r.to} \subseteq Ids(RowsOf(tree))
  BY <1>2, <1>3, <1>4
<1>6. r \in Link
  <2>1. {r.from, r.to} \subseteq SymId
    BY <1>5, IdsType, RowsOfType
  <2> QED BY <1>1, <2>1 DEF Link
<1> QED BY <1>2, <1>3, <1>4, <1>5, <1>6

\* Replacing rows by rows gives rows.
LEMMA ReplaceType ==
  ASSUME NEW R, NEW table \in FileMap(R), NEW new \in FileMap(R), NEW A, NEW B
  PROVE  Replace(table, new, A, B) \in FileMap(R)
BY DEF Replace, FileMap

-----------------------------------------------------------------------------
\* What ExtractFileInfo returns is a files table.
LEMMA FileInfoType == TreeOK => FileInfo \in FileMap(Info)
BY DEF TreeOK, FileInfo, FileMap, Info

\* Before the first run there is nothing, or rows that were extracted from one
\* and the same tree.
LEMMA InitIInv == Init => IInv
<1> SUFFICES ASSUME Init PROVE IInv
  OBVIOUS
<1> DEFINE tree == [disk |-> disk, conf |-> conf]
<1>1. TreeOK
  BY DEF Init, TreeOK, FileMap
<1>2. tree \in Tree
  BY <1>1 DEF TreeOK, Tree
<1>3. TablesOK /\ ReferentialIntegrity
  <2>1. embeddings = {} /\ metrics = FALSE
    BY DEF Init
  <2>2. CASE /\ symbols = NoFiles /\ refs = {} /\ edges = {} /\ imports = NoFiles
             /\ literals = NoFiles /\ docs = NoFiles /\ files = NoFiles /\ fp = NoFp
    BY <2>1, <2>2 DEF TablesOK, ReferentialIntegrity, NoFiles, FileMap
  <2>3. CASE /\ symbols = RowsOf(tree) /\ imports = symbols /\ docs = symbols
             /\ refs = LinksOf(tree, Files) /\ edges = refs
             /\ literals = [f \in Files |-> IF disk[f] = Absent THEN Absent
                                            ELSE [c |-> disk[f], k |-> conf, x |-> "old"]]
             /\ files = FileInfo
             /\ fp = conf
    <3>1. literals \in FileMap(Literal)
      BY <1>1, <2>3 DEF TreeOK, FileMap, Literal
    <3>2. symbols \in FileMap(Row) /\ imports \in FileMap(Row) /\ docs \in FileMap(Row)
      BY <1>2, <2>3, RowsOfType
    <3>3. refs \subseteq Link /\ edges \subseteq Link
      BY <1>2, <2>3, LinksOfSound
    <3>4. files \in FileMap(Info) /\ fp \in Confs
      BY <1>1, <2>3, FileInfoType DEF TreeOK
    <3>5. \A r \in refs \cup edges : {r.from, r.to} \subseteq Ids(symbols)
      BY <1>2, <2>3, LinksOfSound
    <3> QED BY <2>1, <3>1, <3>2, <3>3, <3>4, <3>5 DEF TablesOK, ReferentialIntegrity
  <2> QED BY <2>2, <2>3 DEF Init
<1>4. RunOK /\ ChangesInv /\ SnapInv
  BY DEF Init, RunOK, ChangesInv, SnapInv, Steps, NoChanges, NoTree, NoFiles, FileMap
<1> QED BY <1>1, <1>3, <1>4 DEF IInv, TypeOK

-----------------------------------------------------------------------------
(* Steps.                                                                  *)

\* A step that writes no table keeps what holds of the tables.
LEMMA TablesKept ==
  TablesOK /\ ReferentialIntegrity /\ UNCHANGED dbVars => TablesOK' /\ ReferentialIntegrity'
BY DEF TablesOK, ReferentialIntegrity, dbVars, Ids, IdOf, Present

\* A step that does not touch the tree keeps its types.
LEMMA TreeKept == TreeOK /\ UNCHANGED treeVars => TreeOK'
BY DEF TreeOK, treeVars

\* The user's steps are no business of the run.
LEMMA TreeStepIInv == IInv /\ TreeStep => IInv'
<1> SUFFICES ASSUME IInv, TreeStep PROVE IInv'
  OBVIOUS
<1> USE DEF IInv, TypeOK
<1>1. TreeOK' /\ UNCHANGED <<dbVars, runVars>>
  <2>1. ASSUME NEW f \in Files, NEW c \in Content \cup {Absent}, Edit(f, c)
        PROVE  TreeOK' /\ UNCHANGED <<dbVars, runVars>>
    BY <2>1 DEF Edit, MayEdit, TreeOK, FileMap
  <2>2. ASSUME NEW k \in Confs, Configure(k) PROVE TreeOK' /\ UNCHANGED <<dbVars, runVars>>
    BY <2>2 DEF Configure, MayEdit, TreeOK
  <2>3. CASE Tick
    BY <2>3 DEF Tick, TreeOK
  <2> QED BY <2>1, <2>2, <2>3 DEF TreeStep
<1>2. RunOK' /\ ChangesInv' /\ SnapInv'
  BY <1>1 DEF RunOK, ChangesInv, SnapInv, runVars
<1> QED BY <1>1, <1>2, TablesKept

\* A run that is over has nothing in memory.
LEMMA EndRunType == EndRun => RunOK' /\ ChangesInv' /\ SnapInv'
BY DEF EndRun, RunOK, ChangesInv, SnapInv, Steps, NoChanges, NoTree, NoFiles, FileMap

\* Start, change detection, load and hashing: the run only looks.
LEMMA LookIInv ==
  ASSUME IInv,
         \/ \E force \in BOOLEAN : Start(force)
         \/ \E u \in SUBSET Files, skip \in BOOLEAN : Detect(u, skip)
         \/ Load \/ HashFiles \/ Crash
  PROVE  IInv'
<1> USE DEF IInv, TypeOK
<1>1. UNCHANGED dbVars /\ TreeOK'
  <2>1. CASE \E force \in BOOLEAN : Start(force)
    BY <2>1, TreeKept DEF Start
  <2>2. CASE \E u \in SUBSET Files, skip \in BOOLEAN : Detect(u, skip)
    BY <2>2, TreeKept DEF Detect
  <2>3. CASE Load
    BY <2>3, TreeKept DEF Load
  <2>4. CASE HashFiles
    BY <2>4, TreeKept DEF HashFiles
  <2>5. CASE Crash
    BY <2>5 DEF Crash, TreeOK
  <2> QED BY <2>1, <2>2, <2>3, <2>4, <2>5
<1>2. RunOK' /\ ChangesInv' /\ SnapInv'
  <2>1. ASSUME NEW force \in BOOLEAN, Start(force) PROVE RunOK' /\ ChangesInv' /\ SnapInv'
    BY <2>1 DEF Start, RunOK, TreeOK, ChangesInv, SnapInv, Steps
  <2>2. ASSUME NEW u \in SUBSET Files, NEW skip \in BOOLEAN, Detect(u, skip)
        PROVE  RunOK' /\ ChangesInv' /\ SnapInv'
    <3> DEFINE ch == [modified |-> Modified \cup u, added |-> Added, deleted |-> Deleted]
    <3>1. ch \in [modified : SUBSET Files, added : SUBSET Files, deleted : SUBSET Files]
      BY DEF Modified, Added, Deleted, Present
    <3>2. ch.deleted \cap (ch.modified \cup ch.added) = {}
      BY <2>2 DEF Detect, Modified, Added, Deleted
    <3>3. CASE pc' = "load" /\ mode' = "full" /\ UNCHANGED <<changes, runFp, snap, info>>
      BY <3>3 DEF RunOK, ChangesInv, SnapInv, Steps
    <3>4. CASE /\ pc' = IF ch.modified \cup ch.added = {} THEN "writeIncremental" ELSE "load"
               /\ mode' = "incremental" /\ changes' = ch
               /\ UNCHANGED <<runFp, snap, info>>
      <4>1. RunOK'
        BY <3>1, <3>4 DEF RunOK, Steps
      <4>2. ChangesInv'
        BY <3>2, <3>4 DEF ChangesInv
      <4>3. SnapInv'
        BY <3>4 DEF SnapInv
      <4> QED BY <4>1, <4>2, <4>3
    <3>5. CASE EndRun
      BY <3>5, EndRunType
    <3> QED BY <2>2, <3>3, <3>4, <3>5 DEF Detect
  <2>3. CASE Load
    BY <2>3 DEF Load, RunOK, TreeOK, ChangesInv, SnapInv, Steps
  <2>4. CASE HashFiles
    <3>1. info' \in FileMap(Info)
      BY <2>4, FileInfoType DEF HashFiles
    <3> QED BY <2>4, <3>1 DEF HashFiles, RunOK, ChangesInv, SnapInv, Steps
  <2>5. CASE Crash
    BY <2>5, EndRunType DEF Crash
  <2> QED BY <2>1, <2>2, <2>3, <2>4, <2>5
<1> QED BY <1>1, <1>2, TablesKept

\* Writes that do not touch symbols, refs, call_graph or embeddings.
LEMMA OtherWritesIInv ==
  ASSUME IInv,
         WritePackageDocs \/ WriteImports \/ ComputeMetrics \/ WriteLiterals \/ WriteFiles
           \/ SetFingerprint
  PROVE  IInv'
<1> USE DEF IInv, TypeOK
<1>1. UNCHANGED <<treeVars, symbols, refs, edges, embeddings, changes, snap>>
  BY DEF WritePackageDocs, WriteImports, ComputeMetrics, WriteLiterals, WriteFiles, SetFingerprint
<1>2. TreeOK' /\ ReferentialIntegrity' /\ ChangesInv'
  BY <1>1, TreeKept DEF ReferentialIntegrity, ChangesInv, Ids, IdOf, Present
<1>3. pc \in {"docs", "imports", "literals"} => snap \in Tree
  BY DEF SnapInv, RunOK, Tree
<1>4. TablesOK'
  <2>1. CASE WritePackageDocs
    BY <2>1, <1>3, RowsOfType DEF WritePackageDocs, TablesOK
  <2>2. CASE WriteImports
    BY <2>2, <1>3, RowsOfType DEF WriteImports, TablesOK
  <2>3. CASE ComputeMetrics
    <3>1. metrics' \in BOOLEAN
      BY <2>3, Zenon DEF ComputeMetrics, TablesOK
    <3> QED BY <2>3, <3>1 DEF ComputeMetrics, TablesOK
  <2>4. CASE WriteLiterals
    BY <2>4, <1>3, LiteralsOfType DEF WriteLiterals, TablesOK
  <2>5. CASE WriteFiles
    BY <2>5 DEF WriteFiles, TablesOK, RunOK
  <2>6. CASE SetFingerprint
    BY <2>6 DEF SetFingerprint, TablesOK, RunOK
  <2> QED BY <2>1, <2>2, <2>3, <2>4, <2>5, <2>6
<1>5. RunOK' /\ SnapInv'
  BY DEF WritePackageDocs, WriteImports, ComputeMetrics, WriteLiterals, WriteFiles,
         SetFingerprint, RunOK, SnapInv, Steps
<1> QED BY <1>2, <1>4, <1>5

\* A full run: everything extracted from one tree, the vectors filtered.
LEMMA WriteIndexIInv == IInv /\ WriteIndex => IInv'
<1> SUFFICES ASSUME IInv, WriteIndex PROVE IInv'
  OBVIOUS
<1> USE DEF IInv, TypeOK
<1>1. snap \in Tree
  BY DEF WriteIndex, SnapInv, RunOK, Tree
<1>2. symbols' \in FileMap(Row)
  BY <1>1, RowsOfType DEF WriteIndex
<1>3. refs' \subseteq Link /\ edges' \subseteq Link
  BY <1>1, LinksOfSound DEF WriteIndex
<1>4. TablesOK' /\ TreeOK'
  BY <1>2, <1>3, TreeKept DEF WriteIndex, TablesOK
<1>5. ReferentialIntegrity'
  <2>1. Ids(symbols') = Ids(symbols)'
    BY DEF Ids, IdOf, Present
  <2> QED BY <2>1 DEF WriteIndex, ReferentialIntegrity
<1>6. RunOK' /\ ChangesInv' /\ SnapInv'
  BY DEF WriteIndex, RunOK, ChangesInv, SnapInv, Steps
<1> QED BY <1>4, <1>5, <1>6

\* An incremental run with foreign keys off.  The rows of unaffected files
\* still start at a symbol that is there; the sweep looks at the other end.
LEMMA WriteIndexIncrementalIInv == IInv /\ WriteIndexIncremental => IInv'
<1> SUFFICES ASSUME IInv, WriteIndexIncremental PROVE IInv'
  OBVIOUS
<1> USE DEF IInv, TypeOK
<1> DEFINE changed  == changes.modified \cup changes.added
           affected == changed \cup changes.deleted
           links    == LinksOf(snap, changed)
<1>1. changed = {} \/ snap \in Tree
  BY DEF WriteIndexIncremental, SnapInv, RunOK, Tree
<1>2. symbols' = Replace(symbols, RowsOf(snap), changed, changes.deleted)
  BY DEF WriteIndexIncremental
<1>3. changed \cap changes.deleted = {} /\ changed \subseteq Files
  BY DEF ChangesInv, RunOK
<1>4. symbols' \in FileMap(Row) /\ imports' \in FileMap(Row) /\ literals' \in FileMap(Literal)
  <2>1. CASE changed = {}
    BY <2>1 DEF WriteIndexIncremental, TablesOK, Replace, FileMap
  <2>2. CASE snap \in Tree
    BY <2>2, RowsOfType, LiteralsOfType, ReplaceType DEF WriteIndexIncremental, TablesOK
  <2> QED BY <1>1, <2>1, <2>2
<1>5. ASSUME NEW r \in links
      PROVE  r \in Link /\ r.from \in Ids(symbols')
  <2>1. snap \in Tree
    <3>1. changed = {} => links = {}
      BY DEF LinksOf
    <3> QED BY <1>1, <1>5, <3>1
  <2>2. /\ r \in Link
        /\ r.from[1] \in changed /\ snap.disk[r.from[1]] # Absent
        /\ r.from = IdOf(RowsOf(snap), r.from[1])
    BY <2>1, LinksOfSound
  <2>3. RowsOf(snap)[r.from[1]] # Absent
    BY <1>3, <2>1, <2>2, RowsOfPresent
  <2>4. symbols'[r.from[1]] = RowsOf(snap)[r.from[1]]
    BY <1>2, <1>3, <2>2 DEF Replace
  <2>5. r.from = IdOf(symbols', r.from[1]) /\ r.from[1] \in Present(symbols')
    BY <1>3, <2>2, <2>3, <2>4 DEF IdOf, Present
  <2> QED BY <2>2, <2>5 DEF Ids
<1>6. ASSUME NEW i \in Ids(symbols), i[1] \notin affected
      PROVE  i \in Ids(symbols')
  <2>1. PICK f \in Present(symbols) : i = IdOf(symbols, f)
    BY DEF Ids
  <2>2. f \notin affected
    BY <1>6, <2>1 DEF IdOf
  <2>3. symbols'[f] = symbols[f] /\ f \in Files /\ symbols[f] # Absent
    BY <1>2, <2>1, <2>2 DEF Replace, Present
  <2>4. f \in Present(symbols') /\ i = IdOf(symbols', f)
    BY <2>1, <2>3 DEF Present, IdOf
  <2> QED BY <2>4 DEF Ids
<1>7. /\ refs' \subseteq {r \in OwnedByOthers(refs, affected) \cup links : r.to \in Ids(symbols')}
      /\ edges' \subseteq {r \in OwnedByOthers(edges, affected) \cup links : r.to \in Ids(symbols')}
      /\ embeddings' = {i \in embeddings : i[1] \notin affected}
  BY DEF WriteIndexIncremental, SweepRefs
<1>8. ASSUME NEW r \in refs' \cup edges'
      PROVE  r \in Link /\ {r.from, r.to} \subseteq Ids(symbols')
  <2>1. r.to \in Ids(symbols')
    BY <1>7, <1>8
  <2>2. CASE r \in links
    BY <1>5, <2>1, <2>2
  <2>3. CASE r \in OwnedByOthers(refs, affected) \cup OwnedByOthers(edges, affected)
    <3>1. r \in refs \cup edges /\ r.from[1] \notin affected
      BY <2>3 DEF OwnedByOthers
    <3>2. r \in Link /\ r.from \in Ids(symbols)
      BY <3>1 DEF TablesOK, ReferentialIntegrity
    <3> QED BY <1>6, <2>1, <3>1, <3>2
  <2> QED BY <1>7, <1>8, <2>2, <2>3
<1>9. Ids(symbols') = Ids(symbols)'
  BY DEF Ids, IdOf, Present
<1>10. ReferentialIntegrity'
  BY <1>6, <1>7, <1>8, <1>9 DEF ReferentialIntegrity
<1>11. TablesOK'
  <2>1. files' \in FileMap(Info)
    BY DEF WriteIndexIncremental, DropFiles, TablesOK, FileMap
  <2>2. refs' \subseteq Link /\ edges' \subseteq Link /\ embeddings' \subseteq SymId
    BY <1>7, <1>8 DEF TablesOK
  <2> QED BY <1>4, <2>1, <2>2 DEF WriteIndexIncremental, TablesOK
<1>12. TreeOK' /\ RunOK' /\ ChangesInv'
  BY TreeKept DEF WriteIndexIncremental, RunOK, ChangesInv, Steps
<1>13. SnapInv'
  BY <1>1 DEF WriteIndexIncremental, SnapInv, Tree
<1> QED BY <1>10, <1>11, <1>12, <1>13

\* Vectors are saved for symbols that are there.
LEMMA EmbedIInv ==
  ASSUME IInv, NEW saved \in SUBSET Ids(symbols), Embed(saved) PROVE IInv'
<1> USE DEF IInv, TypeOK
<1>1. saved \subseteq SymId
  BY IdsType DEF TablesOK
<1>2. TreeOK' /\ RunOK' /\ ChangesInv' /\ SnapInv'
  BY TreeKept, EndRunType DEF Embed
<1>3. TablesOK' /\ ReferentialIntegrity'
  BY <1>1 DEF Embed, TablesOK, ReferentialIntegrity, Ids, IdOf, Present
<1> QED BY <1>2, <1>3

LEMMA NextIInv == IInv /\ [Next]_vars => IInv'
<1> SUFFICES ASSUME IInv, [Next]_vars PROVE IInv'
  OBVIOUS
<1>1. CASE UNCHANGED vars
  <2>1. UNCHANGED treeVars /\ UNCHANGED dbVars /\ UNCHANGED runVars
    BY <1>1 DEF vars
  <2>2. RunOK' /\ ChangesInv' /\ SnapInv'
    BY <2>1 DEF IInv, TypeOK, RunOK, ChangesInv, SnapInv, runVars
  <2> QED BY <2>1, <2>2, TreeKept, TablesKept DEF IInv, TypeOK
<1>2. CASE TreeStep
  BY <1>2, TreeStepIInv
<1>3. CASE \/ \E force \in BOOLEAN : Start(force)
           \/ \E u \in SUBSET Files, skip \in BOOLEAN : Detect(u, skip)
           \/ Load \/ HashFiles \/ Crash
  BY <1>3, LookIInv
<1>4. CASE WriteIndex
  BY <1>4, WriteIndexIInv
<1>5. CASE WriteIndexIncremental
  BY <1>5, WriteIndexIncrementalIInv
<1>6. CASE WritePackageDocs \/ WriteImports \/ ComputeMetrics \/ WriteLiterals \/ WriteFiles
             \/ SetFingerprint
  BY <1>6, OtherWritesIInv
<1>7. CASE \E saved \in SUBSET Ids(symbols) : Embed(saved)
  BY <1>7, EmbedIInv
<1> QED BY <1>1, <1>2, <1>3, <1>4, <1>5, <1>6, <1>7 DEF Next, RunStep

-----------------------------------------------------------------------------
\* The inductive invariant holds of every state of every behaviour.
THEOREM Invariance == Spec => []IInv
BY InitIInv, NextIInv, PTL DEF Spec

\* Every variable of the tree, the database and the run keeps its type.
THEOREM TypeCorrect == Spec => []TypeOK
<1>1. IInv => TypeOK
  BY DEF IInv
<1> QED BY <1>1, Invariance, PTL

\* No committed state has a reference, call edge or vector of a symbol that is
\* not in the symbols table - for any edits between the looks of a run, any
\* crash, and any sequence of full and incremental runs.
THEOREM TablesRefer == Spec => []ReferentialIntegrity
<1>1. IInv => ReferentialIntegrity
  BY DEF IInv
<1> QED BY <1>1, Invariance, PTL

-----------------------------------------------------------------------------
(* A skipped run.  In an environment that does not edit while a run is     *)
(* active, nor twice in a second, nor back to a former state, what the     *)
(* files table says of a file decides what the other tables hold of it,    *)
(* in whichever transaction a run died.                                    *)

Quiet == ~EditsWhileIndexing /\ ~SameSecondEdits /\ ~Reverts

\* The files table has the file as it is.
StoredAsIs(f) == IF disk[f] = Absent THEN files[f] = Absent
                 ELSE files[f] # Absent /\ files[f].hash = disk[f]

\* The files table is of the past, and its times tell contents apart.
HistoryInv ==
  /\ conf \in pastConf /\ fp \in pastConf \cup {NoFp}
  /\ \A f \in Files :
       /\ disk[f] \in past[f]
       /\ files[f] # Absent => /\ files[f].hash \in past[f]
                               /\ files[f].mtime <= mtime[f]
                               /\ files[f].mtime = mtime[f] => files[f].hash = disk[f]

\* Under the fingerprint of the last full run, the rows of a file that the
\* files table has as it is are current, and a file that has always been
\* there is not unknown to the files table.
StoredInv ==
  fp = conf => \A f \in Files : /\ StoredAsIs(f) => RowsCurrent(f)
                                /\ Absent \notin past[f] => files[f] # Absent

AllCurrent == \A f \in Files : RowsCurrent(f)
TreeNow == [disk |-> disk, conf |-> conf]

\* What a run holds in memory is the tree as it is.
LookedInv ==
  /\ pc # "idle" => runFp = conf
  /\ pc \in {"writeIndex", "imports", "metrics", "literals", "meta"} => mode = "full"
  /\ pc = "writeIncremental" => mode = "incremental"
  /\ pc \in {"load", "hash", "docs", "files"} => mode \in {"full", "incremental"}
  /\ pc \in {"hash", "writeIndex", "docs", "imports", "metrics", "literals", "files", "meta"} => snap = TreeNow
  /\ pc = "writeIncremental" => changes.modified \cup changes.added = {} \/ snap = TreeNow
  /\ pc \in {"writeIndex", "imports", "metrics", "literals", "files", "meta"} => info = FileInfo
  /\ pc = "docs" /\ mode = "full" => info = FileInfo

\* An incremental run knows of every file that is not stored as it is, and
\* when it has written its rows all are current.
IncrementalInv ==
  mode = "incremental" =>
    /\ pc \in {"load", "writeIncremental"} =>
         /\ fp = conf
         /\ \A f \in changes.modified \cup changes.added : disk[f] # Absent
         /\ \A f \in changes.deleted : disk[f] = Absent
         /\ \A f \in Files \ (changes.modified \cup changes.added \cup changes.deleted) : StoredAsIs(f)
    /\ pc \in {"docs", "hash", "files", "embed"} => AllCurrent

\* A full run replaces one table after the other.
FullInv ==
  mode = "full" =>
    /\ pc \in {"docs", "imports", "metrics", "literals", "files", "meta"} => symbols = RowsOf(TreeNow)
    /\ pc \in {"metrics", "literals", "files", "meta"} => imports = RowsOf(TreeNow)
    /\ pc \in {"files", "meta"} => literals = LiteralsOf(TreeNow)
    /\ pc = "meta" => files = FileInfo

SkipInv == IInv /\ HistoryInv /\ StoredInv /\ LookedInv /\ IncrementalInv /\ FullInv

\* Rows extracted from the tree as it is are current.
LEMMA ExtractedAreCurrent ==
  ASSUME TreeOK, NEW f \in Files,
         symbols[f] = RowsOf(TreeNow)[f], imports[f] = RowsOf(TreeNow)[f],
         literals[f] = LiteralsOf(TreeNow)[f]
  PROVE  RowsCurrent(f)
<1>1. CASE disk[f] = Absent
  BY <1>1 DEF RowsCurrent, RowsOf, LiteralsOf, TreeNow
<1>2. CASE disk[f] # Absent
  <2>1. disk[f] \in Content /\ conf \in Confs
    BY <1>2 DEF TreeOK, FileMap
  <2>2. [c |-> disk[f], k |-> conf, x |-> "new"] \in Literal
    BY <2>1 DEF Literal
  <2>3. literals[f] = [c |-> disk[f], k |-> conf, x |-> "new"] /\ literals[f] # Absent
    BY <1>2, <2>2, AbsentAssumption DEF LiteralsOf, TreeNow
  <2> QED BY <1>2, <2>3 DEF RowsCurrent, RowsOf, TreeNow
<1> QED BY <1>1, <1>2

\* What ExtractFileInfo returns of a file.
LEMMA FileInfoOf ==
  ASSUME TreeOK, NEW f \in Files
  PROVE  IF disk[f] = Absent THEN FileInfo[f] = Absent
         ELSE FileInfo[f] # Absent /\ FileInfo[f].hash = disk[f] /\ FileInfo[f].mtime = mtime[f]
<1>1. disk[f] # Absent => [hash |-> disk[f], mtime |-> mtime[f]] \in Info
  BY DEF TreeOK, FileMap, Info
<1> QED BY <1>1, AbsentAssumption DEF FileInfo

\* A file that change detection does not report is stored as it is.
LEMMA UnchangedIsStored ==
  ASSUME HistoryInv, NEW f \in Files, f \notin Modified \cup Added \cup Deleted
  PROVE  StoredAsIs(f)
BY DEF HistoryInv, Modified, Added, Deleted, Present, StoredAsIs

\* A skip is decided on the files table alone; so much is known of the others.
LEMMA SkipInvImpliesSkipSound == SkipInv => SkipSound
<1> SUFFICES ASSUME SkipInv, UpToDate, NEW f \in Files PROVE RowsCurrent(f)
  BY DEF SkipSound
<1>1. StoredAsIs(f)
  BY UnchangedIsStored DEF SkipInv, UpToDate, HasChanges
<1> QED BY <1>1 DEF SkipInv, StoredInv, UpToDate

\* Without an index there is no fingerprint; an index that an earlier version
\* built is complete.
LEMMA InitSkipInv == Init => SkipInv
<1> SUFFICES ASSUME Init PROVE SkipInv
  OBVIOUS
<1>1. IInv /\ TreeOK
  BY InitIInv DEF IInv, TypeOK
<1>2. LookedInv /\ IncrementalInv /\ FullInv
  BY DEF Init, LookedInv, IncrementalInv, FullInv
<1>3. /\ pastConf = {conf} /\ conf \in Confs
      /\ \A f \in Files : disk[f] \in past[f]
  BY DEF Init
<1>4. CASE files = NoFiles /\ fp = NoFp
  BY <1>1, <1>2, <1>3, <1>4, ContentAssumption DEF SkipInv, HistoryInv, StoredInv, NoFiles
<1>5. CASE /\ symbols = RowsOf(TreeNow) /\ imports = symbols
           /\ literals = [f \in Files |-> IF disk[f] = Absent THEN Absent
                                          ELSE [c |-> disk[f], k |-> conf, x |-> "old"]]
           /\ files = FileInfo
           /\ fp = conf
  <2>1. HistoryInv
    BY <1>1, <1>3, <1>5, FileInfoOf DEF HistoryInv, TreeOK
  <2>2. ASSUME NEW f \in Files
        PROVE  RowsCurrent(f) /\ (Absent \notin past[f] => files[f] # Absent)
    <3>1. CASE disk[f] = Absent
      BY <1>3, <1>5, <3>1 DEF RowsCurrent, RowsOf, TreeNow
    <3>2. CASE disk[f] # Absent
      <4>1. [c |-> disk[f], k |-> conf, x |-> "old"] \in Literal
        BY <1>1, <3>2 DEF TreeOK, FileMap, Literal
      <4>2. literals[f] = [c |-> disk[f], k |-> conf, x |-> "old"] /\ literals[f] # Absent
        BY <1>5, <3>2, <4>1, AbsentAssumption
      <4>3. files[f] # Absent
        BY <1>1, <1>5, <3>2, FileInfoOf
      <4> QED BY <1>5, <3>2, <4>2, <4>3 DEF RowsCurrent, RowsOf, TreeNow
    <3> QED BY <3>1, <3>2
  <2> QED BY <1>1, <1>2, <2>1, <2>2 DEF SkipInv, StoredInv
<1> QED BY <1>4, <1>5 DEF Init, TreeNow

\* While the tree, the files table and the fingerprint are left alone, it is
\* enough that no current row is lost.
LEMMA StoredKept ==
  ASSUME HistoryInv, StoredInv, UNCHANGED <<disk, mtime, conf, past, pastConf, files, fp>>,
         \A f \in Files : RowsCurrent(f) => RowsCurrent(f)'
  PROVE  HistoryInv' /\ StoredInv'
BY DEF HistoryInv, StoredInv, StoredAsIs

\* A run that is over knows nothing.
LEMMA EndRunLooked == EndRun => LookedInv' /\ IncrementalInv' /\ FullInv'
BY DEF EndRun, LookedInv, IncrementalInv, FullInv

\* The tree changes between runs, and then to what it has never been.
LEMMA TreeStepSkipInv == ASSUME Quiet, SkipInv, TreeStep PROVE SkipInv'
<1>1. IInv'
  BY TreeStepIInv DEF SkipInv
<1>2. ASSUME NEW f \in Files, NEW c \in Content \cup {Absent}, Edit(f, c)
      PROVE  SkipInv'
  <2>1. /\ pc = "idle" /\ mtime[f] < now /\ c \notin past[f]
        /\ UNCHANGED <<conf, pastConf, now, dbVars, runVars>>
    BY <1>2 DEF Quiet, Edit, MayEdit
  <2>2. /\ disk' = [disk EXCEPT ![f] = c] /\ mtime' = [mtime EXCEPT ![f] = now]
        /\ past' = [past EXCEPT ![f] = @ \cup {c}]
        /\ disk \in FileMap(Content) /\ mtime \in [Files -> Nat] /\ now \in Nat
        /\ past \in [Files -> SUBSET (Content \cup {Absent})] /\ files \in FileMap(Info)
    BY <1>2 DEF Edit, SkipInv, IInv, TypeOK, TreeOK, TablesOK
  <2>3. LookedInv' /\ IncrementalInv' /\ FullInv'
    BY <2>1 DEF LookedInv, IncrementalInv, FullInv, runVars
  <2>4. ASSUME NEW g \in Files, g # f
        PROVE  disk'[g] = disk[g] /\ mtime'[g] = mtime[g] /\ past'[g] = past[g]
    BY <2>2, <2>4
  <2>5. /\ disk'[f] = c /\ mtime'[f] = now /\ past'[f] = past[f] \cup {c}
    BY <2>2 DEF FileMap
  <2>6. HistoryInv'
    <3> SUFFICES ASSUME NEW g \in Files
                 PROVE  /\ disk'[g] \in past'[g]
                        /\ files[g] # Absent => /\ files[g].hash \in past'[g]
                                                /\ files[g].mtime <= mtime'[g]
                                                /\ files[g].mtime = mtime'[g] => files[g].hash = disk'[g]
      BY <2>1 DEF SkipInv, HistoryInv, dbVars
    <3>1. CASE g = f
      <4>1. files[f] # Absent => /\ files[f].hash \in past[f] /\ files[f].mtime <= mtime[f]
                                 /\ files[f].mtime \in Nat
        BY <2>2 DEF SkipInv, HistoryInv, FileMap, Info
      <4>2. mtime[f] \in Nat /\ now \in Nat
        BY <2>2
      <4> QED BY <2>1, <2>5, <3>1, <4>1, <4>2
    <3>2. CASE g # f
      BY <2>4, <3>2 DEF SkipInv, HistoryInv
    <3> QED BY <3>1, <3>2
  <2>7. StoredInv'
    <3> SUFFICES ASSUME fp = conf, NEW g \in Files
                 PROVE  /\ StoredAsIs(g)' => RowsCurrent(g)'
                        /\ Absent \notin past'[g] => files[g] # Absent
      BY <2>1 DEF StoredInv, dbVars
    <3>1. CASE g = f
      <4>1. ~StoredAsIs(f)'
        BY <2>1, <2>5 DEF StoredAsIs, SkipInv, HistoryInv, StoredInv, dbVars
      <4> QED BY <2>5, <3>1, <4>1 DEF SkipInv, StoredInv
    <3>2. CASE g # f
      BY <2>1, <2>4, <3>2 DEF SkipInv, StoredInv, StoredAsIs, RowsCurrent, dbVars
    <3> QED BY <3>1, <3>2
  <2> QED BY <1>1, <2>3, <2>6, <2>7 DEF SkipInv
<1>3. ASSUME NEW k \in Confs, Configure(k) PROVE SkipInv'
  <2>1. /\ pc = "idle" /\ k \notin pastConf /\ conf' = k /\ pastConf' = pastConf \cup {k}
        /\ UNCHANGED <<disk, mtime, past, dbVars, runVars>>
    BY <1>3 DEF Quiet, Configure, MayEdit
  <2>2. LookedInv' /\ IncrementalInv' /\ FullInv'
    BY <2>1 DEF LookedInv, IncrementalInv, FullInv, runVars
  <2>3. HistoryInv'
    BY <2>1 DEF SkipInv, HistoryInv, dbVars
  <2>4. fp' # conf'
    BY <2>1, ContentAssumption DEF SkipInv, HistoryInv, dbVars
  <2> QED BY <1>1, <2>2, <2>3, <2>4 DEF SkipInv, StoredInv
<1>4. CASE Tick
  <2>1. UNCHANGED <<disk, mtime, conf, past, pastConf, dbVars, runVars>>
    BY <1>4 DEF Tick
  <2>2. HistoryInv' /\ StoredInv'
    BY <2>1, StoredKept DEF SkipInv, dbVars, RowsCurrent
  <2>3. LookedInv' /\ IncrementalInv' /\ FullInv'
    BY <2>1 DEF SkipInv, LookedInv, IncrementalInv, FullInv, TreeNow, FileInfo, AllCurrent, RowsCurrent,
                StoredAsIs, dbVars, runVars
  <2> QED BY <1>1, <2>2, <2>3 DEF SkipInv
<1> QED BY <1>2, <1>3, <1>4 DEF TreeStep

\* While the tree rests, a look at it stays true.
LEMMA SameLook ==
  UNCHANGED treeVars => TreeNow' = TreeNow /\ FileInfo' = FileInfo
BY DEF treeVars, TreeNow, FileInfo

\* Start, load, hashing, and the end of a run.
LEMMA LookSkipInv ==
  ASSUME SkipInv, (\E force \in BOOLEAN : Start(force)) \/ Load \/ HashFiles \/ Crash
  PROVE  SkipInv'
<1>1. IInv'
  BY LookIInv DEF SkipInv
<1>2. UNCHANGED <<disk, mtime, conf, past, pastConf, dbVars>>
  BY DEF Start, Load, HashFiles, Crash, treeVars
<1>3. HistoryInv' /\ StoredInv'
  BY <1>2, StoredKept DEF SkipInv, dbVars, RowsCurrent
<1>4. TreeNow' = TreeNow /\ FileInfo' = FileInfo /\ (AllCurrent <=> AllCurrent')
      /\ \A f \in Files : StoredAsIs(f) <=> StoredAsIs(f)'
  BY <1>2 DEF TreeNow, FileInfo, AllCurrent, RowsCurrent, StoredAsIs, dbVars
<1>5. LookedInv' /\ IncrementalInv' /\ FullInv'
  <2>1. ASSUME NEW force \in BOOLEAN, Start(force) PROVE LookedInv' /\ IncrementalInv' /\ FullInv'
    <3>1. CASE force = TRUE
      <4>1. pc' = "load" /\ mode' = "full" /\ runFp' = conf
        BY <2>1, <3>1 DEF Start
      <4> QED BY <1>2, <4>1 DEF LookedInv, IncrementalInv, FullInv
    <3>2. CASE force = FALSE
      <4>1. pc' = "detect" /\ mode' = "none" /\ runFp' = conf
        BY <2>1, <3>2 DEF Start
      <4> QED BY <1>2, <4>1 DEF LookedInv, IncrementalInv, FullInv
    <3> QED BY <3>1, <3>2
  <2>2. CASE Load
    BY <1>2, <1>4, <2>2 DEF Load, SkipInv, LookedInv, IncrementalInv, FullInv, dbVars, TreeNow
  <2>3. CASE HashFiles
    BY <1>2, <1>4, <2>3 DEF HashFiles, SkipInv, LookedInv, IncrementalInv, FullInv, dbVars
  <2>4. CASE Crash
    BY <2>4, EndRunLooked DEF Crash
  <2> QED BY <2>1, <2>2, <2>3, <2>4
<1> QED BY <1>1, <1>3, <1>5 DEF SkipInv

\* An incremental run is told of every file that is not stored as it is.
LEMMA DetectSkipInv ==
  ASSUME SkipInv, NEW u \in SUBSET Files, NEW skip \in BOOLEAN, Detect(u, skip)
  PROVE  SkipInv'
<1> DEFINE ch == [modified |-> Modified \cup u, added |-> Added, deleted |-> Deleted]
<1>1. IInv'
  BY LookIInv DEF SkipInv
<1>2. UNCHANGED <<treeVars, dbVars>> /\ pc = "detect" /\ u \subseteq Present(disk)
  BY DEF Detect
<1>3. HistoryInv' /\ StoredInv'
  BY <1>2, StoredKept DEF SkipInv, dbVars, treeVars, RowsCurrent
<1>4. CASE pc' = "load" /\ mode' = "full" /\ UNCHANGED <<changes, runFp, snap, info>>
  BY <1>1, <1>2, <1>3, <1>4 DEF SkipInv, LookedInv, IncrementalInv, FullInv, treeVars
<1>5. CASE /\ fp = runFp
           /\ pc' = IF ch.modified \cup ch.added = {} THEN "writeIncremental" ELSE "load"
           /\ mode' = "incremental" /\ changes' = ch
           /\ UNCHANGED <<runFp, snap, info>>
  <2>1. LookedInv' /\ FullInv'
    BY <1>2, <1>5 DEF SkipInv, LookedInv, FullInv, treeVars
  <2>2. fp = conf
    BY <1>2, <1>5 DEF SkipInv, LookedInv
  <2>3. /\ \A f \in ch.modified \cup ch.added : disk[f] # Absent
        /\ \A f \in ch.deleted : disk[f] = Absent
    BY <1>2 DEF Modified, Added, Deleted, Present
  <2>4. \A f \in Files \ (ch.modified \cup ch.added \cup ch.deleted) : StoredAsIs(f)
    BY UnchangedIsStored DEF SkipInv
  <2>5. IncrementalInv'
    BY <1>2, <1>5, <2>2, <2>3, <2>4 DEF IncrementalInv, StoredAsIs, treeVars, dbVars
  <2> QED BY <1>1, <1>3, <2>1, <2>5 DEF SkipInv
<1>6. CASE EndRun
  BY <1>1, <1>3, <1>6, EndRunLooked DEF SkipInv
<1> QED BY <1>4, <1>5, <1>6 DEF Detect

\* The rows a full run has written are the rows of the tree; current ones stay.
LEMMA FullWritesSkipInv ==
  ASSUME SkipInv, WriteIndex \/ WritePackageDocs \/ WriteImports \/ ComputeMetrics \/ WriteLiterals
  PROVE  SkipInv'
<1>1. IInv'
  BY WriteIndexIInv, OtherWritesIInv DEF SkipInv
<1>2. UNCHANGED <<treeVars, files, fp, mode, changes, runFp, snap, info>> /\ snap = TreeNow /\ TreeOK
  BY DEF WriteIndex, WritePackageDocs, WriteImports, ComputeMetrics, WriteLiterals, SkipInv, LookedInv,
         IInv, TypeOK
<1>3. /\ symbols' \in {symbols, RowsOf(TreeNow)} /\ imports' \in {imports, RowsOf(TreeNow)}
      /\ literals' \in {literals, LiteralsOf(TreeNow)}
  BY <1>2 DEF WriteIndex, WritePackageDocs, WriteImports, ComputeMetrics, WriteLiterals
<1>4. TreeNow' = TreeNow /\ FileInfo' = FileInfo
  BY <1>2, SameLook
<1>5. ASSUME NEW f \in Files, RowsCurrent(f) PROVE RowsCurrent(f)'
  <2>1. UNCHANGED <<disk, conf>>
    BY <1>2 DEF treeVars
  <2>2. RowsOf(TreeNow)[f] = symbols[f] /\ RowsOf(TreeNow)[f] = imports[f]
    BY <1>5 DEF RowsCurrent, RowsOf, TreeNow
  <2>3. symbols'[f] = symbols[f] /\ imports'[f] = imports[f]
    BY <1>3, <2>2
  <2>4. LiteralsOf(TreeNow)[f] = IF disk[f] = Absent THEN Absent
                                 ELSE [c |-> disk[f], k |-> conf, x |-> "new"]
    BY DEF LiteralsOf, TreeNow
  <2>5. disk[f] # Absent => [c |-> disk[f], k |-> conf, x |-> "new"] \in Literal
    BY <1>2 DEF TreeOK, FileMap, Literal
  <2>6. literals'[f] = literals[f] \/ literals'[f] = LiteralsOf(TreeNow)[f]
    BY <1>3
  <2> QED BY <1>5, <2>1, <2>3, <2>4, <2>5, <2>6, AbsentAssumption DEF RowsCurrent
<1>6. HistoryInv' /\ StoredInv'
  BY <1>2, <1>5, StoredKept DEF SkipInv, treeVars
<1>7. LookedInv'
  BY <1>2, <1>4 DEF WriteIndex, WritePackageDocs, WriteImports, ComputeMetrics, WriteLiterals,
                    SkipInv, LookedInv, treeVars
<1>8. IncrementalInv'
  <2>1. AllCurrent => AllCurrent'
    BY <1>5 DEF AllCurrent
  <2>2. mode = "incremental" => pc = "docs" /\ pc' = "hash"
    BY DEF WriteIndex, WritePackageDocs, WriteImports, ComputeMetrics, WriteLiterals, SkipInv, LookedInv
  <2> QED BY <1>2, <2>1, <2>2 DEF SkipInv, IncrementalInv
<1>9. FullInv'
  BY <1>2, <1>3, <1>4 DEF WriteIndex, WritePackageDocs, WriteImports, ComputeMetrics, WriteLiterals,
                          SkipInv, LookedInv, FullInv
<1> QED BY <1>1, <1>6, <1>7, <1>8, <1>9 DEF SkipInv

\* An incremental run replaces the rows of the files it was told of; those of
\* the others were current.
LEMMA WriteIncrementalSkipInv == SkipInv /\ WriteIndexIncremental => SkipInv'
<1> SUFFICES ASSUME SkipInv, WriteIndexIncremental PROVE SkipInv'
  OBVIOUS
<1> DEFINE changed  == changes.modified \cup changes.added
           affected == changed \cup changes.deleted
<1>1. IInv'
  BY WriteIndexIncrementalIInv DEF SkipInv
<1>2. /\ UNCHANGED <<treeVars, fp, mode, changes, runFp, snap, info>>
      /\ pc = "writeIncremental" /\ mode = "incremental"
      /\ changed = {} \/ snap = TreeNow
      /\ TreeOK /\ changed \subseteq Files /\ changes.deleted \subseteq Files
      /\ changes.deleted \cap changed = {}
  BY DEF WriteIndexIncremental, SkipInv, LookedInv, IInv, TypeOK, RunOK, ChangesInv
<1>3. TreeNow' = TreeNow /\ FileInfo' = FileInfo /\ UNCHANGED <<disk, conf, mtime, past, pastConf>>
  BY <1>2, SameLook DEF treeVars
<1>4. /\ fp = conf
      /\ \A f \in changed : disk[f] # Absent
      /\ \A f \in changes.deleted : disk[f] = Absent
      /\ \A f \in Files \ affected : StoredAsIs(f)
  BY <1>2 DEF SkipInv, IncrementalInv
<1>5. ASSUME NEW f \in Files PROVE RowsCurrent(f)'
  <2>1. CASE f \in changes.deleted
    BY <1>2, <1>3, <1>4, <2>1 DEF WriteIndexIncremental, Replace, RowsCurrent
  <2>2. CASE f \in changed
    <3>1. /\ symbols'[f] = RowsOf(TreeNow)[f] /\ imports'[f] = RowsOf(TreeNow)[f]
          /\ literals'[f] = LiteralsOf(TreeNow)[f]
      BY <1>2, <2>2 DEF WriteIndexIncremental, Replace
    <3>2. disk[f] # Absent /\ [c |-> disk[f], k |-> conf, x |-> "new"] \in Literal
      BY <1>2, <1>4, <2>2 DEF TreeOK, FileMap, Literal
    <3>3. literals'[f] = [c |-> disk[f], k |-> conf, x |-> "new"] /\ literals'[f] # Absent
      BY <3>1, <3>2, AbsentAssumption DEF LiteralsOf, TreeNow
    <3> QED BY <1>3, <3>1, <3>2, <3>3 DEF RowsCurrent, RowsOf, TreeNow
  <2>3. CASE f \notin affected
    <3>1. RowsCurrent(f)
      BY <1>4, <2>3 DEF SkipInv, StoredInv
    <3>2. symbols'[f] = symbols[f] /\ imports'[f] = imports[f] /\ literals'[f] = literals[f]
      BY <2>3 DEF WriteIndexIncremental, Replace
    <3> QED BY <1>3, <3>1, <3>2 DEF RowsCurrent
  <2> QED BY <2>1, <2>2, <2>3
<1>6. \A f \in Files : files'[f] = IF f \in changes.deleted THEN Absent ELSE files[f]
  BY DEF WriteIndexIncremental, DropFiles
<1>7. HistoryInv'
  BY <1>2, <1>3, <1>6 DEF SkipInv, HistoryInv
<1>8. StoredInv'
  <2>1. ASSUME NEW f \in Files, Absent \notin past[f] PROVE files'[f] # Absent
    <3>1. f \notin changes.deleted
      BY <1>4, <2>1 DEF SkipInv, HistoryInv
    <3> QED BY <1>4, <1>6, <2>1, <3>1 DEF SkipInv, StoredInv
  <2> QED BY <1>3, <1>5, <2>1 DEF StoredInv
<1>9. pc' = IF changed = {} THEN "embed" ELSE "docs"
  BY DEF WriteIndexIncremental
<1>10. LookedInv'
  BY <1>2, <1>3, <1>9 DEF SkipInv, LookedInv
<1>11. IncrementalInv' /\ FullInv'
  BY <1>2, <1>5, <1>9 DEF IncrementalInv, FullInv, AllCurrent
<1> QED BY <1>1, <1>7, <1>8, <1>10, <1>11 DEF SkipInv

\* The files table is written when the other tables are current, and the
\* fingerprint when the files table is.
LEMMA WriteFilesSkipInv == SkipInv /\ WriteFiles => SkipInv'
<1> SUFFICES ASSUME SkipInv, WriteFiles PROVE SkipInv'
  OBVIOUS
<1>1. IInv' /\ TreeOK
  BY OtherWritesIInv DEF SkipInv, IInv, TypeOK
<1>2. /\ UNCHANGED <<treeVars, symbols, imports, literals, fp, mode, changes, runFp, snap, info>>
      /\ pc = "files" /\ files' = FileInfo /\ snap = TreeNow /\ info = FileInfo
  BY DEF WriteFiles, SkipInv, LookedInv
<1>3. TreeNow' = TreeNow /\ FileInfo' = FileInfo /\ UNCHANGED <<disk, conf, mtime, past, pastConf>>
  BY <1>2, SameLook DEF treeVars
<1>4. AllCurrent
  <2>1. mode \in {"full", "incremental"}
    BY <1>2 DEF SkipInv, LookedInv
  <2>2. CASE mode = "full"
    BY <1>1, <1>2, <2>2, ExtractedAreCurrent DEF SkipInv, FullInv, AllCurrent
  <2> QED BY <1>2, <2>1, <2>2 DEF SkipInv, IncrementalInv
<1>5. AllCurrent'
  BY <1>2, <1>3, <1>4 DEF AllCurrent, RowsCurrent
<1>6. HistoryInv' /\ StoredInv'
  <2>1. \A f \in Files : disk[f] \in past[f]
    BY DEF SkipInv, HistoryInv
  <2>2. HistoryInv'
    BY <1>1, <1>2, <1>3, <2>1, FileInfoOf DEF SkipInv, HistoryInv, TreeOK
  <2>3. \A f \in Files : Absent \notin past[f] => FileInfo[f] # Absent
    BY <1>1, <2>1, FileInfoOf
  <2> QED BY <1>2, <1>3, <1>5, <2>2, <2>3 DEF StoredInv, AllCurrent
<1>7. LookedInv' /\ IncrementalInv' /\ FullInv'
  BY <1>2, <1>3, <1>5 DEF WriteFiles, SkipInv, LookedInv, IncrementalInv, FullInv
<1> QED BY <1>1, <1>6, <1>7 DEF SkipInv

LEMMA SetFingerprintSkipInv == SkipInv /\ SetFingerprint => SkipInv'
<1> SUFFICES ASSUME SkipInv, SetFingerprint PROVE SkipInv'
  OBVIOUS
<1>1. IInv' /\ TreeOK
  BY OtherWritesIInv DEF SkipInv, IInv, TypeOK
<1>2. /\ UNCHANGED <<treeVars, symbols, imports, literals, files, mode, changes, runFp, snap, info>>
      /\ pc = "meta" /\ pc' = "embed" /\ fp' = conf /\ files = FileInfo /\ mode = "full"
      /\ symbols = RowsOf(TreeNow) /\ imports = RowsOf(TreeNow) /\ literals = LiteralsOf(TreeNow)
  BY DEF SetFingerprint, SkipInv, LookedInv, FullInv
<1>3. UNCHANGED <<disk, conf, mtime, past, pastConf>>
  BY <1>2 DEF treeVars
<1>4. \A f \in Files : RowsCurrent(f)'
  BY <1>1, <1>2, <1>3, ExtractedAreCurrent DEF RowsCurrent
<1>5. HistoryInv'
  BY <1>2, <1>3 DEF SkipInv, HistoryInv
<1>6. \A f \in Files : Absent \notin past[f] => FileInfo[f] # Absent
  BY <1>1, FileInfoOf DEF SkipInv, HistoryInv
<1>7. StoredInv'
  BY <1>2, <1>3, <1>4, <1>6 DEF StoredInv
<1>8. LookedInv' /\ IncrementalInv' /\ FullInv'
  BY <1>2, <1>3 DEF SkipInv, LookedInv, IncrementalInv, FullInv
<1> QED BY <1>1, <1>5, <1>7, <1>8 DEF SkipInv

LEMMA EmbedSkipInv ==
  ASSUME SkipInv, NEW saved \in SUBSET Ids(symbols), Embed(saved) PROVE SkipInv'
<1>1. IInv'
  BY EmbedIInv DEF SkipInv
<1>2. EndRun /\ UNCHANGED <<treeVars, symbols, imports, literals, files, fp>>
  BY DEF Embed
<1>3. HistoryInv' /\ StoredInv'
  BY <1>2, StoredKept DEF SkipInv, treeVars, RowsCurrent
<1> QED BY <1>1, <1>2, <1>3, EndRunLooked DEF SkipInv

LEMMA NextSkipInv == ASSUME Quiet, SkipInv, [Next]_vars PROVE SkipInv'
<1>1. CASE UNCHANGED vars
  <2>1. IInv' /\ UNCHANGED <<treeVars, dbVars, runVars>>
    BY <1>1, NextIInv DEF vars, SkipInv
  <2>2. HistoryInv' /\ StoredInv'
    BY <2>1, StoredKept DEF SkipInv, treeVars, dbVars, RowsCurrent
  <2>3. LookedInv' /\ IncrementalInv' /\ FullInv'
    BY <2>1 DEF SkipInv, LookedInv, IncrementalInv, FullInv, TreeNow, FileInfo, AllCurrent, RowsCurrent,
                StoredAsIs, treeVars, dbVars, runVars
  <2> QED BY <2>1, <2>2, <2>3 DEF SkipInv
<1>2. CASE TreeStep
  BY <1>2, TreeStepSkipInv
<1>3. CASE (\E force \in BOOLEAN : Start(force)) \/ Load \/ HashFiles \/ Crash
  BY <1>3, LookSkipInv
<1>4. CASE \E u \in SUBSET Files, skip \in BOOLEAN : Detect(u, skip)
  BY <1>4, DetectSkipInv
<1>5. CASE WriteIndex \/ WritePackageDocs \/ WriteImports \/ ComputeMetrics \/ WriteLiterals
  BY <1>5, FullWritesSkipInv
<1>6. CASE WriteIndexIncremental
  BY <1>6, WriteIncrementalSkipInv
<1>7. CASE WriteFiles
  BY <1>7, WriteFilesSkipInv
<1>8. CASE SetFingerprint
  BY <1>8, SetFingerprintSkipInv
<1>9. CASE \E saved \in SUBSET Ids(symbols) : Embed(saved)
  BY <1>9, EmbedSkipInv
<1> QED BY <1>1, <1>2, <1>3, <1>4, <1>5, <1>6, <1>7, <1>8, <1>9 DEF Next, RunStep

\* In a quiet environment an index that trySkipIndex takes for up to date is:
\* the rows of every file are those of its present content and of the present
\* build configuration, in whichever transaction earlier runs have died.
THEOREM SkipsAreSound == ASSUME Quiet PROVE Spec => []SkipSound
<1>1. Init /\ [][Next]_vars => []SkipInv
  BY InitSkipInv, NextSkipInv, Quiet, PTL
<1> QED BY <1>1, SkipInvImpliesSkipSound, PTL DEF Spec

=============================================================================
