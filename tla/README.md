# A formal model of snipe

snipe indexes a Go repository into `.snipe/index.db` (SQLite) and answers code
navigation queries from it. It is a command, not a server: every process is
short-lived, and what they share is the working tree and three files under
`.snipe/` - the database, its lock and `batch_state.json`. The hard part of the
program is therefore not one algorithm but what those files say after several
processes, an editor and a few crashes have had their turn with them.

The modules here model that part action by action, TLC checks them on small
instances, and TLAPS proves the main invariants for every value of the
constants. `PROJECT.json` ties every definition to the lines it models.

## 1. The system

| component | code | state it keeps | operations |
|---|---|---|---|
| index lock | `internal/store/store.go` | `.snipe/index.db.lock`: absent, empty or a PID | `AcquireLock`, `IsIndexing`, `ReleaseLock` |
| index run | `cmd/index.go`, `internal/store/write.go`, `internal/index/changes.go`, `files.go` | tables `symbols`, `refs`, `call_graph`, `imports`, `string_refs`, `package_docs`, `files`, `embeddings`, meta keys | `runIndex` in its full, incremental, delete-only and skipped forms |
| extraction | `internal/index/{symbols,refs,callgraph,imports,literals,loader}.go` | none | packages to rows |
| fingerprint | `internal/index/fingerprint.go` | none | hash of what decides how a file is compiled |
| watch loop | `cmd/watch.go` | pending files, debounce timer, one child process | the five `select` cases, `drainOnCancel` |
| batch embedding | `cmd/index.go`, `cmd/embed.go`, `internal/embed/batch.go` | `.snipe/batch_state.json`, a job at the Voyage API | `startBatchEmbeddings`, `recoverCompletedBatch`, `embed-status` |
| realtime embedding, refresh | `cmd/embedtext.go`, `internal/embed/client.go`, `internal/store/embed.go` | rows of `embeddings` | embedding after a full run, refresh after an incremental one |
| store, schema | `internal/store/{store,schema,tx,health}.go` | the database file, schema version | open, migrate, health report |
| query open, self-heal | `cmd/root.go`, `cmd/heal.go`, `internal/query/state.go`, `internal/util/root.go` | none | refuse, warn, reindex or answer |
| query engine | `internal/query/` | none | look up by text or position; references, calls, tests, implementers, impact, imports, literals, dead code, type info |
| selection, limits and output | `internal/protocol/`, `internal/output/` | none | score, select, cut to a token budget, page, cap the text |
| graph metrics | `internal/graphmetrics/` | metric tables, `file_metrics_version` | components, order, coupling, cohesion, centrality |
| edit | `internal/edit/`, `cmd/edit.go` | source files | replace, insert or delete a declaration |
| risk, git churn | `internal/risk/`, `internal/gitchurn/`, `cmd/risk.go` | appended records, `file_churn` | diff, sizes, reach, complexity, tests, history |
| verify, plan, lifecycle | `cmd/verify.go`, `cmd/plan.go`, `internal/lifecycle/` | none | tests and ripple of a diff; sites of a change; a type's life |
| cards | `cmd/def.go`, `pack.go`, `pack_package.go`, `sym.go`, `explain.go`, `types.go` | none | describe a symbol or a package |
| the rest | metrics history, context, diagrams, document checks, search, telemetry, configuration, command line | a log, a history, a settings file | parsing and formatting |

How they interact. `snipe watch` and self-heal start `snipe index` as a child
process; so does the user. The runs exclude each other by the lock file; query
commands look at the lock (`IsIndexing`) but do not take it. A run reads the
tree and the rows an earlier run left, and decides from both what to rewrite. A
full run may create a batch job and leave its ID in the state file; a later run,
or `embed-status`, picks the results up. Queries read tables that a run is
rewriting, in several transactions; a review command reads git and the working
tree besides, one after the other. An edit changes the tree by what the index
says of it, and a client - often a program - reads what a query prints page by
page, following the advice it prints.

Hard behaviours, in order of importance:

1. several processes on one lock file, built from system calls that are not
   atomic together, any of which may be the last thing a process does;
2. an index run that looks at the tree three times and commits seven times, with
   edits and crashes in between, and a next run that must notice;
3. a watch loop whose `select` may take any ready case, next to a child process
   and a shutdown with a deadline;
4. a remote job that is billed, and a local file that is its only trace;
5. opening the database: any number of processes migrate it at once;
6. what a query may answer while all this goes on, and whether a client that
   reads it in pages ever holds the whole;
7. measures that relate two trees, a log and an index, each read at its own time;
8. an edit that is applied from an index of yesterday, or retried;
9. graph algorithms with their boundary cases (self loops, several call sites,
   cycles, empty graphs).

What makes each component right is stated as the properties of section 3; the
complete list of hazards, each at its line, is in `PROJECT.json`.

## 2. The modules

| module | models | instance for TLC | proofs |
|---|---|---|---|
| `IndexLock` | the lock file, one action per system call | `MCIndexLock` | `StoreProofs` |
| `IndexRun` | one index run after the other over a changing tree, one action per look and per transaction | `MCIndexRun` | `IndexRunProofs` |
| `Watch` | the loop, its child processes and the drain | `MCWatch` | `WatchProofs` |
| `BatchEmbed` | an index run and `embed-status` on one state file | `MCBatchEmbed` | `StoreProofs` |
| `Migrations` | abstract: a database that is migrated one version at a time | - | - |
| `Schema` | processes that open the database, one action per statement that others can see; implements `Migrations` | `MCSchema` | `StoreProofs` |
| `QueryOpen` | one query from `OpenStore` to its answer, the heal child, other runs | `MCQueryOpen` | `QueryProofs` |
| `Edit` | single and batch edits, the user, a retrying client | `MCEdit` | `EditProofs` |
| `Extract`, `ExtractRun` | packages to rows, and the tables after full and incremental runs | `MCExtractRun` | `ExtractRunProofs` |
| `QueryTables` | the SQL of `internal/query` over one index | `MCQuerySession` | `ClientProofs` |
| `Lookup` | what a text or a position means | `MCQuerySession` | `ClientProofs` |
| `Commands` | one process that answers one question | `MCQuerySession` | `ClientProofs` |
| `Pager` | abstract: a client that reads a list in pages | - | `ClientProofs` |
| `QuerySession` | a client and its questions, index runs between them; implements `Pager` | `MCQuerySession` | `ClientProofs` |
| `ChangeMeasures` | what `risk`, `verify`, `plan`, `lifecycle` compute | `MCQuerySession` | `ClientProofs` |
| `Cards` | what `def`, `pack`, `types` compute | `MCQuerySession` | `ClientProofs` |
| `Review` | these seven commands, statement by statement, next to edits, ref moves and index runs; composes `QuerySession`, `ChangeMeasures`, `Cards` | `MCQuerySession` | `ClientProofs` |
| `MetricGraph` | the graphs of `graphmetrics`, and reachability in them | - | - |
| `SCC` | Tarjan's components | `MCGraphMetrics` | `GraphMetricsProofs` |
| `TopoSort` | Kahn's order and the search for a cycle | `MCGraphMetrics` | `GraphMetricsProofs` |
| `Cohesion` | the union-find of LCOM4 | `MCGraphMetrics` | `GraphMetricsProofs` |
| `GraphMetrics` | the three of them as `snipe index` and `snipe metrics` call them | `MCGraphMetrics` | `GraphMetricsProofs` |

Conventions. Names follow the source. A definition `Mutant...` that stands in
front of another one is that definition with a plausible bug; it is used by no
specification and serves to show that a property notices the bug. "history"
marks a variable that the code does not have and no guard reads.

### IndexLock

State: `lock` is the file at `LockPath` - who created it and what it says - and
`at` says which system call each process is about to make. `Create`, `Retry` are
`os.OpenFile(O_CREATE|O_EXCL)`, which makes an *empty* file; `WritePid` is the
later `Fprintf`, through the descriptor, so it reaches the file the process
created even if that has been unlinked; `Verdict` is `lockHeldByDeadProcess`;
`Reread` and `Remove` are the two halves of `removeLockIfContentsMatch`;
`ReleaseRead` and `ReleaseUnlink` those of `ReleaseLock`. `Die` may follow any of
them. `ReusePid` gives the PID of an ended process to an unrelated program, for
which signal 0 succeeds as well.

`raced` is a history variable: it becomes true when a process acts inside one of
the two windows the protocol leaves open, namely when the empty lock of a live
creator is matched for reaping, or the file changes between another process's
re-read and its `os.Remove`. The comments in the code know of neither guarantee
nor limit precisely; the model does: everything is safe outside these windows
and nothing is inside them.

### IndexRun

A Go file is abstracted to the position of its one declared symbol and the set
of files it uses. A symbol's ID is `<<file, position>>`, as `generateID` derives
it, so an edit may re-mint an ID - that is the data the sweeps are about. Tables
are functions from files to rows that remember which content and which build
configuration they came from; `refs` and `edges` are sets of pairs of IDs.

Actions, in the order of `runIndex`: `Start` (fingerprint), `Detect`
(`DetectChanges`, `trySkipIndex` and the choice of the kind of run), `Load`,
`HashFiles` (`ExtractFileInfo`), `WriteIndex`, `WritePackageDocs`,
`WriteImports`, `ComputeMetrics`, `WriteLiterals`, `WriteFiles`,
`SetFingerprint`, `Embed`; an incremental or delete-only run goes through
`WriteIndexIncremental` instead. Each write is one transaction. `Crash` may come
between any two, and stands for a returned error as well: nothing of an open
transaction is kept either way. Around the run, `Edit`, `Configure` and `Tick`
change the tree, the build configuration and the clock.

The environment is a set of CONSTANTS, so that a property which needs a quiet
tree says so: `EditsWhileIndexing`, `SameSecondEdits` (times are compared in
seconds) and `Reverts`.

### Watch

`pending`, `timer`, `indexing` and `phase` are the locals of `runWatch`; `timer`
distinguishes a fired timer whose value is unread, because that is what the
stop-drain-reset idiom is about. One action per `select` case: `FileEvent`,
`DirEvent`, `TimerFires`, `ReindexDone`, `BeginDrain`; then `DrainResult`,
`DrainTimeout` and `DrainDeadline` for `drainOnCancel`. A child process is one
index run as `IndexRun` describes it, reduced to the steps that decide whether a
change gets into the index: `Detect`, `Load`, `HashFiles`, `WriteFiles`, with a
failure or a kill between any two. `stale` are the files whose rows are older than
they are, `matched` those that `DetectChanges` takes for unchanged, because their
stored time (in seconds) or hash is that of the file as it is. A file that is both
is `Masked`: its last change came after a run had detected changes, or loaded the
file, and before it hashed all files, or in the second of the stored time. Incremental
runs pass over it until it changes again; a full run, of which `Detect` leaves open
when there is one, repairs it. `raced` (history) holds the files whose last change
came so. `missed` (history) holds the stale files the loop cannot know of for a
reason the code accepts: the directory was not watched yet, the kernel's queue
overflowed, the reindex failed. Each edit gives a file a content it has not had
(returns to a former content are in `IndexRun`), and a run for removals alone, which
neither loads nor hashes, is not told apart.

One over-approximation: a child that was started before cancellation may still
succeed after it, although `exec.CommandContext` normally kills it; the kill
races with the end of the child, so both happen in reality.

### BatchEmbed

`server` is what Voyage knows of each job, `file` is `batch_state.json`, `ipc` and
`spc` are the next steps of an index run and of `embed-status`. API calls and
writes of the state file are separate steps; a `Fault` is a crash or a failed
call, and `CreateBatch` has two of them: the request was lost, or only the reply.
`fate` (history) says what became of a job: its vectors are saved, the user was
told that it is given up, or it "slipped" through a gap the code leaves open.

### MetricGraph, SCC, TopoSort, Cohesion, GraphMetrics

Nodes are numbers in the order of their names, because `Nodes()` and the
adjacency lists are sorted; `adj` never changes. Each algorithm is a state
machine with one action per turn of its innermost loop, and a recursive function
is an explicit stack of frames (`frames` in `SCC`, `path` in `TopoSort`), so that
its invariants can be stated in the middle of it. Where the code iterates over
rows or over a map, the model takes them in any order.

The loaders drop edges of a node to itself, while the functions on graphs are
written for them as well; `LoopNode` is the set of nodes that may have one.

What the algorithms are compared with is defined by sets instead of paths: `m`
reaches `n` if every set that holds `m` and is left by no edge holds `n`; a
component is a least non-empty union of what edges join. `GraphMetrics` runs SCC
and then the topological sort on one import graph, or LCOM4 on a graph of
references.

### Schema, Migrations

`applied` are the migrations whose tables and columns exist, `recorded` the rows
of `migrations`, `advertised` is `schema_version` in `meta`. `ReadVersion` is
`getCurrentMigrationVersion`, `Migrate` one `runMigration`, `Duplicate` its
rollback at a column that exists, `CheckMeta` and `Stamp` the bootstrap at the end
of `initSchema`. `End` is an error or death at any statement. `overtaken`
(history) holds the opens during which another process migrated.

`Migrations` is what a reader of the code expects: versions come one by one, and a
store is handed out only when the database has all that its binary was built for.
The refinement maps the version to the highest recorded migration.

### QueryOpen

Index runs are reduced to the order of their commits, with what tree each saw. A
query goes through the checks of `OpenStore` in their order, may start a heal
child (`maybeSelfHeal`) that can end well, fail, or be killed at its deadline,
reads its rows, and compares times and hashes of the files they name
(`CheckFileStaleness`). The user edits with or without a later file time, changes
the configuration, and moves or copies the repository.

### Edit

A file is a sequence of declarations; one may stand for a group and have several
names. The steps of one request are those of `runEdit` and `ReplaceSymbol`:
resolve in the index, read and parse, find the first declaration of the bare name,
format, write a temporary file, rename, read back. A batch goes on after a failed
request; a client sends a failed edit again. `landed` and `plan` are what an
observer of the disk knows. A declaration has a number that the code does not have:
1 to `Oldest` at first, `New(t)` for what turn `t` or the user adds, so that "the
same declaration" can be said of two contents of a file. A request that changes
nothing is left out, which `EditAssumption` says of insertions.

### Extract, ExtractRun

A file's contents are declarations and uses; `Extract` makes the units of each
package (the package, its test variant, its external test), walks each file once
for every unit it is in, and yields the rows with the primary keys the tables have.
Dispatch edges compare signatures by identity, which differs between chunks.
`ExtractRun` edits a tree and runs full and incremental runs over it; `lost`
(history) are the identifiers whose target was re-minted since.

### QueryTables, Lookup, Commands, Pager, QuerySession

The rows that can ever exist are numbered sequences (CONSTANTS), in the order of
insertion, and an index is the sets of those it holds: that makes each SQL
statement a set comprehension with an order. `OrderBy` sorts by the columns of
ORDER BY and then by insertion, `Page` is LIMIT and OFFSET, `Cascade` the exact,
suffix and substring matches of package patterns.

`Commands` has the order of steps of each command: resolve, page, filter, drop
repetitions, score, select, cut to the budget, count, say whether there is more,
and cap the text. `QuerySession` asks again by offset advice, by a larger limit, or
in strides; each question resolves its text anew, and `Reindex` may come between
two. `Pager` says what such a client relies on, and `Exact` names the commands and
flags that fulfil it.

### ChangeMeasures, Cards, Review

Trees are sequences of lines per file with the symbols they hold; a commit is a
tree with a log. `review` is the running command: its arguments, the step `pc`, and
all that it has read so far. One action is one look at git, at the files, or at the
database; `Edit`, `MoveRef` and `Index` come in between, at most `MaxStirs` of them.
`risk` resolves its refs once (`RiskBase`, `RiskHead`) and asks for staleness last
(`RiskLabel`); `verify` looks up the tests of one function after the other; `plan`
divides one cap between two lists; `lifecycle` walks up from each function.

`pack` reads page and count of a list by separate statements (`PackRefs` to
`PackCounts`), its depth `explain` reads the source again (`PackExplains`), several
IDs are packed one after the other and may fail alone (`PackLoads`), and a package's
card takes three reads. The cards of `def` and `types` are read in one step: no
property is about them while an index run interferes.

## 3. What the runs show

| run | question | result |
|---|---|---|
| `lock` | what does the lock protocol guarantee? | holds |
| `index` | do tables stay consistent, and does the index converge, under any edits and crashes? | holds |
| `index_quiet` | is an index that is reported up to date current, whichever run crashed before? | holds |
| `watch` | does each change that a run can see reach the index, and does shutdown end and leave none behind? | holds |
| `batch` | is a billed job ever lost without a trace, or stuck? | holds |
| `graphs` | do the graph algorithms compute what they are named for, on every small graph? | holds |
| `schema` | what do racing opens migrate, refuse and advertise? | holds |
| `edit` | is an edit's answer true, and does it change what was meant and nothing else? | holds |
| `open` | when may an answer be old without saying so? | holds |
| `queries` | do clients get the whole answer, and what are cards, measures and worklists true of? | holds |
| `extract` | do the tables agree with each other and with the code? | holds |
| `extract_shift` | is a reference that an incremental run leaves alone to what it means? | violated |

**lock** - `SingleWriterUnlessRaced`: two writers at once need a process that
acted in one of the two windows. `NoLockLeftBehind`: a process that ran to its end leaves
no lock naming it, even after a race. `StaleLockReaped`: a dead process's lock
is reaped by the next one that meets it. Three processes: the races need a
victim, a reaper and somebody who profits. The theorems cover any number.

**index** - `ReferentialIntegrity`: references, call edges and vectors name only
symbols that exist, though incremental runs write with foreign keys off and
combine a file list, a parsed tree and stored rows of three different moments.
`Converges`: if runs keep starting, the index reaches a state in which a run has
nothing left to do. Two files are the least that can refer to each other; one
tick of the clock gives two seconds to edit in, and two events give an edit
during a run followed by a crash, or two edits of one file in one run.

**index_quiet** - `SkipSound`: when `trySkipIndex` skips, the rows of every file
are those of its content, with edits only between runs, at most one per file and
second, and no return to a former state. Three events cover crash-edit-crash, two configurations
the invalidation by fingerprint. Files may be swapped by symmetry: the run
checks invariants only.

**watch** - `NoChangeForgotten`: while the loop runs, each change is a queued
event, a pending file or underway, unless missed or masked. `NoLostWakeup`: pending files
have a timer or a running reindex to wake the loop up. `NoOverlap`: the drain's
reindex never runs next to the loop's. `DrainIsFinal`: after a shutdown whose
drain worked only what was missed, or masked, or whose event was not taken is stale.
`ChangesIndexed` and `ShutsDown` are the liveness side. What these properties except
as masked is a race that the index run leaves open and nothing else: `raced` and
`matched` must both hold of the file. A change during a reindex is indexed by the next
one if it came before the first detected changes, or after it had hashed; one in between is lost
although its event is taken and a reindex is started for it. Two files, one of them
in a directory that appears later, and four changes: one before a reindex, two at any
steps of it - of its file, and of the other, which an incremental run leaves alone - and one
after it. The theorems cover any number of files.

**batch** - `NoSilentOrphan`: a billed job without saved results is named in the
state file or was given up with a message, except where it slipped.
`Recovered`: if runs keep starting, a finished job does not stay in the state
file. Two jobs (an old and a new one), two fingerprints, one fault: each place
where a process can stop.

**graphs** - `EmittedAreClasses`: a component leaves Tarjan's stack complete and
with nothing too much. `Topological`: a node is in the order after all that have an edge
to it. `WitnessOrRest`: a witness that the search found is a cycle, and it finds
none only where there is none to be reached. `CountIsRight`: each component has one root in the end.
All graphs of four nodes, one of which may have a self loop; four is the least
with two disjoint cycles or a cycle with a tail on both sides. References for LCOM4
are bounded by three (`MaxRefs`), enough to merge four nodes into one.

**schema** - `AdvertisedUnlessOvertaken`: `schema_version` is the highest recorded
migration unless an open went on with a version that another process has made old.
`RefusedOnlyIfOvertaken`: "duplicate column" needs such a race too; no crash and no
sequence of opens gets there. `ImplementsMigrations`: see above. Three processes
with two releases, five migrations of which some may be repeated, from every
version on.

**edit** - `AnswerIsTrue`: what is reported applied is on disk and what is
reported failed is not, so that a client that repeats failures inserts its code
once. `OnlyTargetChanges`: a landed edit leaves the other declarations as the user
and earlier requests left them, unless the user saved the file between read and rename.
`TargetUnlessNamesake`: it reaches the declaration that the lookup chose unless a
namesake stands ahead of it. Two names, batches of two requests, one edit by the user.

**open** - `AnswerLabelled`: a file in the answer without a staleness mark is as it
was at some moment of the query, with the exceptions the property names.
`HealedIsCurrent`: after a heal that succeeded, and no edit since, the answer is the
tree - unless the index was half moved, see section 4. `QueryEnds`: a query ends whatever its child does. Two events.

**extract** - `TablesAgree`: rows that the primary keys merge are equal, so nothing
is dropped by INSERT OR IGNORE; calls have references; each file has one package.
`RefsRight`: every identifier refers to what it means and every static call is an
edge, whatever the chunks, except what the property lists. `DispatchComplete`: a
call through an interface leads to methods of types that implement it and to nothing
else, and a call in production code to each of them: those that implement it without the
tests always, others - fakes in test files - unless a signature names a type of the
tested package, which the checker has twice (`Reaches`). Four packages with all kinds of
test files, a type that implements with its tests only and a fake, chunks of three and of
all, three edits.

**queries** - one run, because every command works on one small repository:
two packages and an importer, a type with a method, an interface, a second type
with a constructor, a mutual recursion, a test, a file `latest.go` that LIKE takes for a test, and
four trees of it.

* `ImplementsPages`: for the commands of `Exact`, the chain from resolving to
  Truncated implements the pager, also when an index run comes in between; with
  `PagesComplete` a client that stops asking has the whole.
* `TextComplete`: who reads the text and raises the limit has it too, although the
  text is cut again by lists.
* `NamesResolve`: the printed form of a symbol, its qualified name, the place of its
  name and of each reference all find it.
* `BlastRadius`: impact contains what calls or tests the symbol, that of a type
  contains its methods'; dead exports have no impact.
* `MeasuredWhatItNames`, `CurrentUnlessDegraded`: a risk record has the measures of
  the commits it names, and of the tree if it calls itself fresh.
* `VerifyAccounts`: no changed function is left out, however old the index.
* `PlanAccounts`: one cap for both lists, what is cut is counted, every caller is at
  a site, "safe to delete" has no caller in code.
* `LifecycleWhole`: each reference in one group, no evidence lost, and the callers
  are all that reach the function in so many calls, each at its distance, also in
  recursion.
* `CardsAgree`: each of several IDs is shown or failed; a card counts what the list
  commands list and shows the first of them; "all from DIR" is true if no more
  callers were counted than read; a package's card lists its own exports, as `pkg`
  does, up to the 500 that it reads (`Caps.package`), and no more dependents than
  `importers` lists, unless that takes the path for the short name of another.

The trees, commands and settings are paired in `MCCases`; limits are 1 to 3 so that
every page is cut, `MaxStirs` is two (an edit or ref move and an index run, in
either order), `Caps` shrinks a card's lists the same way, and `Moving` names the references a run between two
pages may bring or take.

**extract_shift** - an ID is a hash of file, line, column and kind without the name.
After a constant is inserted above others its neighbours have each other's IDs, and
the rows of files that the incremental run left alone name the wrong constant,
although the comment on the sweep says that only dangling references can remain.

**Known limits.** Met while modelling, each with the line it contradicts under
`findings`. The properties above except them by name, so that they are part of what
the runs show.

* lock: the empty file between `OpenFile` and `Fprintf` is read as stale, and its
  owner's lock is reaped.
* index: a file edited between load and hashing is stored with its new hash over old
  rows, and skipped from then on; the backfill marker is committed before the
  literals; churn and degrees are of the last full run.
* extract: a package that is tested is two for the checker, so that a call in its own
  tests through an interface that names its types misses what other packages implement;
  `DispatchComplete` speaks of production code for that reason.
* watch: after cancellation `select` may take the killed reindex's result first; its
  files are then in nobody's list. A change between the change detection, or the load,
  and the hashing of a reindex, or a second one within the second of the stored time, is
  reported as reindexed and is not in the index (the limit above): `Masked`.
* batch: a lost reply to `CreateBatch` leaves a billed job whose breadcrumb the code
  removes.
* topological sort: the cycle search starts at the first unsorted node by name and may
  find nothing.
* queries: `--select` is applied to the page, not before the limit; `lits` advises an
  offset for ever; callers and importers drop repetitions after LIMIT; the advised
  offset skips what the text cap hid; the cascade of package patterns falls through
  to other packages for one without exports, and past the last page.
* cards: "all from DIR" speaks of the callers that were read; a common prefix is chosen by the
  order of a map; methods of types of the same name are merged; a text with a slash is a package to
  `pack` and a symbol to the others; several stale IDs are ok with no results.
* review: the delete path of `plan` ignores its cap; `verify` has "no Go changes"
  where lines were only deleted; a run that ends during `risk` makes its measures look fresh.

**Bounds.** `MaxClock`, `MaxEvents` (index), `MaxEdits` (watch) and `MaxFaults`
(batch) stand in the guards of the environment's actions and never in one of the
program's, as do `MaxUser` and `MaxTurn` (edit), `MaxEvents` (open), `MaxEdits`
(extract), `MaxStirs` (queries); `MaxOffset` and `MaxLimit` stop a client whose
advice never ends. `MaxRefs` (graphs) restricts the graphs at the start.

**Fairness.** A started process goes on until it ends or is killed: the operating
system schedules it, and no step of these programs waits for another process.
In `Watch` it is weak fairness of the loop as a whole - Go's `select` takes
*some* ready case - and separately of `BeginDrain`: `select` picks at random
among ready cases, so a `Done` channel that stays ready is taken in the end. A
child is assumed to end only while it is not cancelled; that shutdown ends
nevertheless is what `ShutsDown` says. In `QueryOpen` the query's own steps are fair
and its deadline comes; the child is not. Edits and starts of runs are never fair:
the user need not do anything.

## 4. What is proved

The theorems hold for every value of the constants, and without the bounds: no
proof uses `MaxClock`, `MaxEvents` or `MaxEdits` beyond its being a number.
Assumptions are the named ASSUMEs of the modules, all of which say that model
values differ from data, that a constant has its type, that - in `Edit` - a
tree names each declaration once and a request changes something, or that - in
`Extract` - files are laid out as gofmt leaves them (`WellFormed`): one declaration or
use in a place, and no function that begins on another declaration's lines; an external
test is a test. Of the query commands they say that rows have the types of their columns
(`TablesAssumption`), that a tree's index is one which extraction leaves (`Consistent`: an
identifier, keyword or operator is one row, a `go` statement and a channel operation are
rows of the function around them), that texts of trees have no line twice, that
kinds have a rank, and that limits and caps are numbers, the one of a package's card not zero.

* `IndexRunProofs`: `TypeCorrect`, `TablesRefer` (`ReferentialIntegrity`), `SkipsAreSound`. The
  strengthening adds `ChangesInv` - the three sets of `changes` are in step with
  the kind of run - and `SnapInv` - what an incremental run inserts comes from
  the loaded tree. The work is in `WriteIndexIncremental`: a row that survives
  the delete belongs to an unaffected file, whose symbol survives too, and the
  sweep deals with the target; a call edge loses both ends to the filter.
  `SkipsAreSound` (`SkipSound`) has the hypothesis `Quiet`, the environment of the run
  `index_quiet`; its invariant relates each table to the history of each
  file: what a table holds is of the file's present or of a past that its file
  entry, or the fingerprint, gives away.
* `WatchProofs`: `OneChild`, `ChangesKnown`, `WakesUp`, `DrainCovers`,
  `PassedOverOnlyRaces` (`MaskedOnlyByRaces`: what a run takes for unchanged has rows of
  its content, or its last change raced). The strengthening relates the phases to the
  children: `indexing` if and only if the loop's child exists, a drain child only in
  phases that follow the wait, and no file that a child which has written still covers is
  stale (an edit ends the cover). `LooksInv` says, step by step of a running child, that
  what it does not cover and will stamp has raced, which is what `DrainCovers` needs where
  a drain's child finds nothing to do.
* `GraphMetricsProofs`, one part per algorithm. Kahn's order: `OrderIsTopological`,
  `SortedMeansAcyclic`; `indeg` counts the edges from nodes not yet in the order,
  and the queue holds exactly the nodes without one. If all are sorted, a cycle would
  be a set of nodes each with a predecessor in it, and its first in the order
  contradicts. The search: `WitnessIsCycle` (`WitnessOrRest`); the path is joined by
  edges, and what is finished is left by no edge to what is not. Tarjan:
  `ComponentsAreClasses` (`EmittedAreClasses`); the stack holds what still reaches a
  frame, a lowlink is the index of a node on the stack that is reached, what is
  emitted is closed under edges. Union-find: `LinksJoinWhatEdgesJoin`
  (`SameComponents`), `CountsComponents` (`CountIsRight`); each union of components
  has a root, and two roots are told apart by one of them (`RootInv`, `ApartInv`);
  halving keeps that because links never run in a circle. Reachability and connection are
  spoken of by closed sets, so no proof walks along a path, and where one needs a
  first or a last element it takes the least number that has the property.
  `GraphMetricsAreRight` puts the three together as the commands do.
* `QueryProofs`: `AnswersAreLabelled`, `HealMakesCurrent`. The invariant follows the
  contents a file has had (`FollowsDisk`), relates rows, file entries and the root
  that a run commits one after the other to the tree it has seen (`RunInv`,
  `RowsInv`), and says for each step of a query what it has seen of both
  (`QueryInv`). The attempt corrected the model: `HealedIsCurrent` once said
  that rows are under the repository's own directory. A repository that is moved and
  moved back, with a run killed in each place after its rows and after its root, has
  rows that name the other directory beside file entries of this one, which the
  heal's incremental run calls unchanged. The property now excepts the directory there.
* `EditProofs`: `AnswersAreTrue`, `EditsReachTheTarget`, `EditsLeaveTheRest`, the
  three properties of the run. The content an edit makes is described by where each
  of its declarations comes from (`IsSource`, `Derived`), which `EditedDerived` proves of each
  operation of `Apply`; names, the order and the rest of the file, and the code of other
  turns follow from that alone. The invariant adds that code is in no file before its
  turn has landed (`FreshInv`) and in one place after (`OnceInv`), and that until then
  the file has at least what the plan started from (`PlanInv`); so a file that
  reads as planned tells that the rename landed, and "failed" that it did not.
* `ExtractRunProofs`: `TablesAlwaysAgree` (`TablesAgree`), `RefsAlwaysRight` (`RefsRight`),
  `DispatchIsComplete` (`DispatchComplete`).
  The invariant speaks of the tree that the last run stored: symbols, packages, imports
  and literals are what a full run would extract from it, although an incremental one
  keeps the rows of what it calls unchanged (`SymbolsOf`, `FactsOf`, `PackagesOf`). A
  reference is to what its identifier meant when its file was extracted, and that is
  still its meaning unless a run since has re-minted the ID (`RefsOf`); a call of a
  function has its reference in the same file, so that the sweep and the next
  extraction take both or neither (`CallsOf`); and nothing that could be seen is
  missing (`AllOf`). Below that are lemmas about one extraction: `LookupFinds` and
  `LookupOnly` - a position finds its declaration and no other, by its column or, from
  export data, as the first function of the line -, `OneChunk`, `RefsUnique`. For calls
  through interfaces: the checker tells different types apart whatever the unit
  (`SeenApart`), so what it takes for an implementation is one; and for each method that
  `Reaches` names there are a unit of the caller and one of the method that see the types
  of the signatures as the same (`UnitsThatAgree`). The attempt corrected the property:
  it once said that no method of another package's tests is reached, which held because
  the instance had no fake, and it took a line for one call. It also found that the
  cases of `Seen` overlapped.
* `StoreProofs`, of `Schema`: `TypeCorrect`, `AdvertisedConsistent`, `RefusalNeedsRace` and
  `Refinement` (`Schema` implements `Migrations`). The invariant says that the
  recorded migrations are a prefix, equal to the applied ones, and that an open
  that was not overtaken turns to the migration after the last. Each step maps to
  `Apply`, to a grant or release, or to a stutter.
  Of `IndexLock`: `LockTypeCorrect`, `MutualExclusion`, `Visibility`, `CleanExit`.
  `SingleWriterUnlessRaced` is not inductive: that the file of a process past
  `Create` is still its own has to be carried along, and that its text is its
  PID or, if it is still empty, that no other process has matched it. A process
  about to unlink has matched a file nobody alive owns, unless `raced`.
  Of `BatchEmbed`: `BatchTypeCorrect`, `NoJobLost` (`NoSilentOrphan`). While an index
  run is about a job, no other is owed - billed and not accounted for -, and a process
  about to clear the file or to create a job has seen to it that none is
  (`OwedInv`). For that, what the state file or a copy of it says of a job is
  never ahead of the service (`StatesInv`), and a new job is known by its
  breadcrumb alone until the file is written (`NewJobInv`, `BreadcrumbInv`).
* `ClientProofs`, of `Review` and `QuerySession`. First the review commands:
  `MeasuresAreNamed` (`MeasuredWhatItNames`), `FreshIsCurrent`
  (`CurrentUnlessDegraded`), `VerifyMissesNothing` (`VerifyAccounts`), `PlanCounts`
  (`PlanAccounts`). A command is a row
  of steps, and for each the invariant says what has been read by then and of which
  moment it is true: of `risk` (`RiskInv`) that every measure is of the commits resolved
  at the start, (`CurrentInv`) that what was read from the index is of the tree it
  was built from, as long as no run comes in between, so that the label, asked last,
  speaks for all of it; of `verify` (`VerifyInv`) that a changed function is in a stale file, whose
  symbols are all taken, or at the same lines as in the index; of `plan` (`PlanInv`) that its
  two parts were cut from one list of call sites of one index, the second by what the
  first left of the cap (`SitesOf`, `BudgetLeft`). `StepsAre` sums up
  what a step may be, so that each invariant looks only at its own command. Below are
  lemmas about the SQL: ORDER BY lists each row once and in order (`OrderByIsInOrder`), a
  WHERE, a DISTINCT and a page of it are lists again (`PartEach`, `TestsListed`,
  `PageOfList`). The attempt corrected the model: `VerifyAccounts` took a symbol to be
  known by file, type and name, but a file may declare `init` more than once.
  Then the clients of the list commands: `PagesImplemented` (`ImplementsPages`),
  `PagesComplete`, `AnswerIsWhole`, `TextsAreComplete` (`TextComplete`). A client that goes
  by offset holds the rows before it, a page that is not truncated ends at the last row, a
  raised limit reads from the start: that is `Pager`. That a session takes the steps of
  `Pager` is `SessionInv`: an answer is a page of what the query returns without a limit,
  scoring permutes it, dropping repetitions keeps its values, selection is the identity in
  what `Exact` names, and the caps cut a list from its end.
  Then what the answers say: `NamesAlwaysResolve` (`NamesResolve`), `ImpactIsWhole`
  (`BlastRadius`). An index of a session is one that a run leaves (`Healthy`), and in
  such an index the names and places that are printed select one row each.
  Then the cards: `CardsAreRight` (`CardsAgree`); `PackInv` and `PackageInv` say, for each
  statement that a card is made of, what of it is there and of which index.
  Last, `LifecyclesAreWhole` (`LifecycleWhole`): the classes of references are told apart by
  their kinds and contexts (`Classified`, `GroupsPart`), and what the walk up finds in a turn is
  what is that many calls away, by induction over the depth, for which a least number
  that fails is taken (`WalkIsReach`, `LifeInv`). For that proof `WalkCallers` is a recursive
  function of the level, which a theorem can unfold, and no RECURSIVE operator.

Every safety property and every action property of the passing runs is stated by one of
these theorems. Only model-checked is what TLAPS cannot prove: the liveness properties - `StaleLockReaped`,
`Converges`, `ChangesIndexed`, `ShutsDown`, `Recovered`, `QueryEnds` -, which are
fairness arguments.

## 5. What is not modelled

* Go's parser and type checker, SQLite, the file system's own failures, git and the
  Voyage API beyond what the code reads of them. A transaction is atomic, `rename`
  and `O_EXCL` are what they promise.
* `indexed_at`, `symbol_purposes` and the counters in `meta`: no decision of a run
  depends on them, except `incremental_count`, which only feeds a suggestion.
* Floating point: page rank, betweenness, similarity, the curves and weights of the
  risk score, recency in churn, and the metrics history, which compares such numbers.
* In extraction: trees that do not compile, cgo, generics, packages recompiled for
  another's external test. In the cards: signatures, docs, roles, purposes, warnings,
  bodies and context lines, a package's file headers and line counts; `pack --depth
  sym` of a `.go` file, which is `file` of `Commands`.
* Context generation, diagrams, reports, document checks, triage and guard: pure
  functions from rows to text. Search runs ripgrep. Telemetry appends to a log.
* The cache of file lines lives within one run; the history of captures and the log
  are appended to and read by nobody who decides by them.
* Formatting, wording and the parsing of flags.

## 6. Plan

Sections 2 to 4 are done. What would add most next:

1. What an incremental run leaves of calls through interfaces: `DispatchComplete` is
   stated of full runs, since a type that changes may take on an interface that an
   unchanged caller uses.
2. An abstract index that `IndexRun` with a quiet tree implements.
3. Coupling and abstractness next to `GraphMetrics`; the flows of the context
   generator, which walk the call graph with a depth and a budget.
