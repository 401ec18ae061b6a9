--------------------------------- MODULE Review --------------------------------
(***************************************************************************)
(* The commands that a client runs around a change: risk, verify, plan and *)
(* lifecycle, and those that describe what it finds: def, pack and types.  *)
(* Each is one process that reads git, the files and the index one after   *)
(* the other, while the tree is edited, refs move and an index run replaces *)
(* what it reads.  A run is one step here, its transactions are IndexRun's. *)
(***************************************************************************)
EXTENDS QuerySession, ChangeMeasures, Cards

CONSTANTS
  Unborn,      \* no commit, no index
  Cases,       \* commands, [verb, ...] with arguments, and what they start
               \* from, [work, head, main, built, full]
  MaxStirs     \* bound: changes while one runs

VARIABLES
  work,        \* the tree on disk
  ref,         \* the commit of each ref
  built,       \* the tree that the index d was built from
  metrics,     \* [degree, churn] of the last full run
  review,      \* the command that runs: its arguments, pc, what it has read
  stirred      \* what happened during it

ASSUME CasesAssumption ==
  /\ Unborn \notin Trees
  /\ \A x \in Cases :
       /\ {"verb"} \subseteq DOMAIN x[1] /\ {"seen", "size", "label"} \cap DOMAIN x[1] = {}
       /\ x[1].verb \in {"risk", "verify"} => "base" \in DOMAIN x[1]
       /\ x[1].verb = "plan" => {"change", "cap"} \subseteq DOMAIN x[1] /\ x[1].cap \in Int
       /\ x[1].verb = "lifecycle" => {"arg", "includeTests", "depth"} \subseteq DOMAIN x[1] /\ x[1].includeTests \in BOOLEAN /\ x[1].depth \in Int
       /\ x[1].verb = "pack" => /\ {"args", "depth"} \subseteq DOMAIN x[1] /\ x[1].args \in Seq(Range(x[1].args))
                                /\ x[1].depth \in Depths
       /\ {x[2].work, x[2].full} \subseteq Trees /\ {x[2].head, x[2].main, x[2].built} \subseteq Trees \cup {Unborn}

surroundings == <<d, work, ref, built, metrics, stirred>>
session == <<s, whole, moved>>
reviewVars == <<work, ref, built, metrics, review, stirred>>

NoChurn == [f \in {} |-> 0]
Computed(tree, head) ==
  [degree |-> InDegree(Indexed(tree)),
   churn |-> IF head = Unborn THEN NoChurn ELSE Walk(Log[head], DOMAIN Tree[head].text)]

\* What a command goes on with: the step, what it adds to what it has read.
Goes(pc, more) == review' = Over([pc |-> pc], Over(more, review))
Runs(verb, pc) == review.verb = verb /\ review.pc = pc
Steps(verb, pc) == Runs(verb, pc) /\ UNCHANGED <<surroundings, session>>

-----------------------------------------------------------------------------
(* risk: the refs are resolved once, and the commits they name measured.   *)

At(name) == IF name \in DOMAIN ref THEN ref[name] ELSE Unborn
MutantCommitish(sha, name) == At(name)
Commitish(sha, name) == IF sha # Unborn THEN sha ELSE At(name)

Unmeasured == [size |-> {}, files |-> {}, cx |-> {}, history |-> <<>>, found |-> {}, untested |-> {}, focus |-> <<>>,
               factors |-> {}, degraded |-> FALSE]

RiskBase == /\ Steps("risk", "asks")
            /\ Goes("head", Over([baseSHA |-> At(review.base)], Unmeasured))
RiskHead == /\ Steps("risk", "head")
            /\ IF built = Unborn THEN Goes("done", [headSHA |-> At(review.head), label |-> "missing", degraded |-> TRUE])
               ELSE Goes("diff", [headSHA |-> At(review.head)])

RiskDiff == /\ Steps("risk", "diff")
            /\ LET from == Commitish(review.baseSHA, review.base)
                   to   == Commitish(review.headSHA, review.head)
               IN IF Unborn \in {from, to} THEN Goes("label", [degraded |-> TRUE])
                  ELSE Goes("lines", [changes |-> gitDiff(from, to)])
\* A failing git counts no lines.
RiskLines == /\ Steps("risk", "lines")
             /\ LET from == Commitish(review.baseSHA, review.base)
                    to   == Commitish(review.headSHA, review.head)
                    go   == DOMAIN review.changes
                    size == [go |-> go, test |-> go \cap TestFile,
                             added   |-> IF Unborn \in {from, to} THEN 0 ELSE codeLines(from, to),
                             removed |-> IF Unborn \in {from, to} THEN 0 ELSE codeLines(to, from)]
                IN IF go = {} THEN Goes("label", [size |-> {size}, degraded |-> TRUE])
                   ELSE Goes("symbols", [size |-> {size}])

RiskSymbols == /\ Steps("risk", "symbols")
               /\ Goes("reach", [found |-> changedSymbols(d.syms, review.changes)])
RiskReach == /\ Steps("risk", "reach")
             /\ Goes("complexity", [reach |-> reach(d, review.found)])
RiskComplexity == /\ Steps("risk", "complexity")
                  /\ LET head == Commitish(review.headSHA, review.head)
                         cx   == IF head = Unborn THEN {} ELSE complexity(head, review.changes)
                     IN Goes("tests", [cx |-> cx, difficulty |-> difficulty(cx)])
RiskTests == /\ Steps("risk", "tests")
             /\ LET tested == testedFuncs(d, review.found)
                    past   == history(metrics.churn, DOMAIN review.changes)
                IN Goes("label", [history |-> past, untested |-> untested(review.found, tested),
                                  focus |-> focus(review.found, metrics.degree, review.cx),
                                  factors |-> factors([review EXCEPT !.history = past])])
\* Whether the index is current is asked last; the record is appended.
MutantRiskLabel == /\ Steps("risk", "label")
                   /\ Goes("done", [label |-> IF Outdated(built, work) THEN "stale" ELSE "fresh"])
RiskLabel == /\ Steps("risk", "label")
             /\ LET stale == Outdated(built, work)
                IN Goes("done", [label |-> IF stale THEN "stale" ELSE "fresh", degraded |-> review.degraded \/ stale])

Risk == RiskBase \/ RiskHead \/ RiskDiff \/ RiskLines \/ RiskSymbols \/ RiskReach \/ RiskComplexity \/ RiskTests \/ RiskLabel

-----------------------------------------------------------------------------
(* verify: the working tree against HEAD, or HEAD against a base.          *)

VerifyDiff == /\ Steps("verify", "asks")
              /\ LET from == IF review.base = "" THEN At("HEAD") ELSE At(review.base)
                     to   == IF review.base = "" THEN work ELSE At("HEAD")
                     none == [found |-> {}, from |-> from]
                 IN IF Unborn \in {built, from, to} THEN Goes("done", none)
                    ELSE LET changes == IF review.base = "" THEN workingTreeDiff(from, work) ELSE gitDiff(from, to)
                         IN Goes(IF DOMAIN changes = {} THEN "done" ELSE "stale", Over(none, [changes |-> changes]))
VerifyStale == /\ Steps("verify", "stale")
               /\ Goes("symbols", [stale |-> Stale(built, work, DOMAIN review.changes)])
VerifySymbols == /\ Steps("verify", "symbols")
                 /\ LET found == FindOverlappingSymbols(d, review.changes, review.stale)
                        funcs == changedFuncs(found)
                    IN Goes(IF funcs \cup changedTestFuncs(found) = {} THEN "done" ELSE "tests",
                            [found |-> funcs \cup changedTestFuncs(found), todo |-> funcs, seen |-> d,
                             tests |-> changedTestFuncs(found), uncovered |-> {}])
\* The tests of one function after the other.
VerifyTests == /\ Steps("verify", "tests") /\ review.todo # {}
               /\ LET i    == First(Inserted(review.todo))
                      rows == Page(FindTests(d, {i}, FALSE), verifyTestLimit, 0)
                  IN Goes("tests", [todo |-> review.todo \ {i}, tests |-> review.tests \cup Range(rows),
                                    uncovered |-> review.uncovered \cup (IF rows = <<>> THEN {i} ELSE {})])
VerifyRipple == /\ Steps("verify", "tests") /\ review.todo = {}
                /\ Goes("done", [ripple |-> verifyBuildRipple(d, changedFuncs(review.found), DOMAIN review.changes)])

Verify == VerifyDiff \/ VerifyStale \/ VerifySymbols \/ VerifyTests \/ VerifyRipple

-----------------------------------------------------------------------------
(* plan: the worklist of a change.                                         *)

NoSites == [sites |-> <<>>, truncated |-> 0, total |-> 0]
PlanFinds == /\ Steps("plan", "asks")
             /\ LET found == Resolve(d, "refs", review.arg)
                IN IF built = Unborn \/ Len(found) # 1 THEN Goes("refused", <<>>)
                   ELSE Goes("load", [sym |-> found[1], prod |-> NoSites, test |-> NoSites, tests |-> <<>>, safe |-> FALSE])
PlanLoads == /\ Steps("plan", "load")
             /\ IF review.sym \notin d.syms THEN Goes("refused", <<>>)
                ELSE Goes(IF review.change = "behavior" THEN "tests" ELSE "sites", <<>>)
\* A symbol without references in code is safe to delete: only its references
\* in tests are listed.
PlanSites == /\ Steps("plan", "sites")
             /\ LET parts == planPartitionRefs(CallSites(d, review.sym))
                    prod  == planBuildCallSites(parts.prod, review.cap)
                    test  == planBuildCallSites(parts.test, planTestBudget(review.cap, prod.total, prod.truncated))
                IN IF review.change = "delete" /\ parts.prod = <<>>
                   THEN Goes("done", [safe |-> TRUE, seen |-> d, test |-> planBuildCallSites(parts.test, -1)])
                   ELSE Goes("tests", [seen |-> d, prod |-> prod, test |-> test])
PlanTests == /\ Steps("plan", "tests")
             /\ LET rows == Page(FindTests(d, {review.sym}, FALSE), planTestLimit, 0)
                IN Goes("done", [tests |-> rows, churn |-> FindChurnLiterals({Sym[i].file : i \in Range(rows)})])

Plan == PlanFinds \/ PlanLoads \/ PlanSites \/ PlanTests

-----------------------------------------------------------------------------
(* lifecycle: the references first, then the callers of each function.     *)

LifecycleFinds == /\ Steps("lifecycle", "asks")
                  /\ LET found == Resolve(d, "refs", review.arg)
                     IN IF built = Unborn \/ Len(found) # 1 \/ Range(found) \cap d.syms = {} THEN Goes("refused", <<>>)
                        ELSE Goes("refs", [sym |-> found[1]])
LifecycleRefs == /\ Steps("lifecycle", "refs")
                 /\ LET cls == Classify(FindRefs(d, review.sym))
                    IN Goes("callers", [seen |-> d, todo |-> {c.fn : c \in cls} \ {0},
                                        groups |-> buildLifecycleResult(cls, review.includeTests), callers |-> <<>>])
LifecycleCallers == /\ Steps("lifecycle", "callers") /\ review.todo # {}
                    /\ LET fn == First(Inserted(review.todo))
                       IN Goes("callers", [todo |-> review.todo \ {fn},
                                           callers |-> Over([k \in {fn} |-> WalkCallers(d, fn, review.depth)], review.callers)])
LifecycleEnds == /\ Steps("lifecycle", "callers") /\ review.todo = {}
                 /\ Goes("done", <<>>)

Lifecycle == LifecycleFinds \/ LifecycleRefs \/ LifecycleCallers \/ LifecycleEnds

-----------------------------------------------------------------------------
(* def, types and pack find one symbol.                                    *)

Describers == {"def", "types", "pack"}
NoIndex == /\ review.verb \in Describers \cup {"package", "types of package"} /\ review.pc = "asks" /\ built = Unborn
           /\ Goes("refused", <<>>)
           /\ UNCHANGED <<surroundings, session>>

Nothing == [cards |-> <<>>, failed |-> {}]
\* Several symbols are refused, and none with names that are spelled alike.
Finds == /\ review.verb \in Describers /\ review.pc = "asks" /\ built # Unborn
         /\ UNCHANGED <<surroundings, session>>
         /\ Len(review.args) = 1 /\ review.args[1].form # "pkg"
         /\ \E arg \in {review.args[1]} :
            \E found \in {IF review.verb = "pack" /\ review.depth # "sym" /\ looksLikePackagePath(arg) THEN <<>> ELSE Candidates(d, arg)} :
            \E i \in {CASE review.verb = "def"   -> resolveDefSymbol(found, arg, review.sel)
                       [] review.verb = "types" -> resolveTypeSymbol(found, arg)
                       [] review.verb = "pack"  -> resolvePackSymbol(found)} :
              IF i # 0 THEN Goes("load", Over([found |-> <<i>>, todo |-> <<i>>], Nothing))
              ELSE Goes("refused", [suggested |-> IF arg.form = "plain" /\ found = <<>> THEN FindSimilarSymbols(d, arg.name, 3) ELSE <<>>])

-----------------------------------------------------------------------------
(* pack: one card, or those of several IDs, a page and its count each read *)
(* by a statement of its own.                                              *)

PackFinds == /\ Steps("pack", "asks") /\ built # Unborn
             /\ Len(review.args) > 1
             /\ IF review.depth # "pack" \/ \E k \in DOMAIN review.args : review.args[k].form # "id" THEN Goes("refused", <<>>)
                ELSE \E ids \in {Column(review.args, LAMBDA a : a.id)} : Goes("load", Over([found |-> ids, todo |-> ids], Nothing))
\* An ID that the index has not fails alone among several.
MutantPackLoads == /\ Steps("pack", "load") /\ review.todo # <<>>
                   /\ LET i    == Head(review.todo)
                          rest == [todo |-> Tail(review.todo)]
                      IN IF i \in d.syms THEN Goes("refs", Over(rest, [card |-> ToResultWithHints(d, i)]))
                         ELSE IF Len(review.args) = 1 THEN Goes("refused", <<>>)
                         ELSE Goes("load", [todo |-> <<>>, failed |-> review.failed \cup {i}])
PackLoads == /\ Steps("pack", "load") /\ review.todo # <<>>
             /\ LET i    == Head(review.todo)
                    rest == [todo |-> Tail(review.todo)]
                IN IF i \in d.syms THEN Goes("refs", Over(rest, [card |-> ToResultWithHints(d, i)]))
                   ELSE IF Len(review.args) = 1 THEN Goes("refused", <<>>)
                   ELSE Goes("load", Over(rest, [failed |-> review.failed \cup {i}]))
Fills(pc, more) == Goes(pc, [card |-> Over(more, review.card)])
PackRefs == /\ Steps("pack", "refs")
            /\ Fills("callers", [refs |-> RefCard(d, review.card.sym, Caps[review.depth])])
PackCallers == /\ Steps("pack", "callers")
               /\ LET i == review.card.sym
                  IN Fills("callees", [refCount |-> GetRefCount(d, i),
                                       methods  |-> IF isTypeKind(i) /\ review.depth # "sym" THEN GetMethodsForType(d, i) ELSE <<>>,
                                       callers  |-> CallerCard(d, i, review.depth, Caps[review.depth])])
PackCallees == /\ Steps("pack", "callees")
               /\ LET i == review.card.sym
                  IN Fills("counts", [callerCount |-> CallerCount(d, i, review.depth),
                                      callees     |-> CalleeCard(d, i, review.depth, Caps[review.depth])])
PackCounts == /\ Steps("pack", "counts")
              /\ LET i    == review.card.sym
                     card == Over([calleeCount |-> CalleeCount(d, i, review.depth)], review.card)
                 IN IF review.depth = "explain" THEN Goes("explain", [card |-> card])
                    ELSE Goes("load", [cards |-> Append(review.cards, card)])
\* The file is read again: the function must still be where the index says.
PackExplains == /\ Steps("pack", "explain")
                /\ LET i       == review.card.sym
                       here(j) == Sym[j].file = Sym[i].file /\ Sym[j].first = Sym[i].first /\ Sym[j].name = Sym[i].name
                       Answers(walk) == Goes("load", [cards |-> Append(review.cards, Over(walk, review.card))])
                   IN IF ~Callable(i) THEN Answers([degraded |-> "explain_func_only"])
                      ELSE IF i \notin d.syms \/ \A j \in Tree[work].syms : ~here(j) THEN Answers([degraded |-> "explain_failed"])
                      ELSE \E p \in detectCallerPattern(d, i, Caps.context) :
                             Answers([degraded |-> "", mechanism |-> extractMechanism(d, i, Caps.steps), pattern |-> p])
PackEnds == /\ Steps("pack", "load") /\ review.todo = <<>>
            /\ Goes("done", <<>>)
\* The card of a package is read by as many statements.
PackageFinds == /\ Steps("package", "asks") /\ built # Unborn
                /\ LET path == PackagePath(d, review.pkg)
                   IN IF PackageExists(d, path) THEN Goes("exports", [card |-> [path |-> path]]) ELSE Goes("refused", <<>>)
PackageExports == /\ Steps("package", "exports")
                  /\ Fills("ranks", [exports |-> FindPackageSymbols(d, review.card.path, Caps.package, 0)])
PackageRanks == /\ Steps("package", "ranks")
                /\ Fills("done", PackageUse(d, review.card.path))
PackPackage == PackageFinds \/ PackageExports \/ PackageRanks

Pack == PackFinds \/ PackLoads \/ PackRefs \/ PackCallers \/ PackCallees \/ PackCounts \/ PackExplains \/ PackEnds \/ PackPackage

-----------------------------------------------------------------------------
(* def and types.                                                          *)

\* def --pkg of a name: the row that was found is the card, and for none the
\* names of the package are offered.
DefInPkg == /\ Steps("def", "asks") /\ built # Unborn
            /\ \E arg \in {e \in Range(review.args) : e.form = "pkg"} : \E found \in {LookupByNameInPkg(d, arg.name, arg.pkg)} :
                 IF Len(found) = 1 THEN Goes("done", [cards |-> <<ToResultWithHints(d, found[1])>>])
                 ELSE Goes("refused", [suggested |-> IF found # <<>> THEN <<>>
                                                     ELSE Column(FindPackageSymbols(d, arg.pkg, Caps.offered, 0), LAMBDA i : Sym[i].name)])
DefLoads == /\ Steps("def", "load")
            /\ \E i \in Range(review.found) :
                 IF i \in d.syms THEN Goes("done", [cards |-> <<DefCard(d, i, review.args[1])>>]) ELSE Goes("refused", <<>>)
TypesLoads == /\ Steps("types", "load")
              /\ \E i \in Range(review.found) :
                   IF i \in d.syms /\ isTypeKind(i) THEN Goes("done", [cards |-> <<GetTypeInfo(d, i)>>]) ELSE Goes("refused", <<>>)
\* A path without types is looked up as a name, which no symbol has.
TypesOfPackage == /\ Steps("types of package", "asks") /\ built # Unborn
                  /\ LET infos == runTypesForPackage(d, review.pkg)
                     IN IF infos = <<>> THEN Goes("refused", <<>>) ELSE Goes("done", [cards |-> infos])

Describe == NoIndex \/ Finds \/ Pack \/ DefInPkg \/ DefLoads \/ TypesLoads \/ TypesOfPackage

-----------------------------------------------------------------------------
(* What happens meanwhile.                                                 *)

Meanwhile(what) == /\ review.pc \notin {"off", "done", "refused"} /\ Len(stirred) < MaxStirs
                   /\ stirred' = Append(stirred, what)
                   /\ UNCHANGED <<review, session>>

Edit == /\ Meanwhile("edit")
        /\ \E t \in Trees \ {work} : work' = t
        /\ UNCHANGED <<d, ref, built, metrics>>
MoveRef == /\ Meanwhile("ref")
           /\ \E r \in DOMAIN ref, t \in Trees : t # ref[r] /\ ref' = [ref EXCEPT ![r] = t]
           /\ UNCHANGED <<d, work, built, metrics>>
\* Only a full run computes degrees and churn.
Index == /\ Meanwhile("index") /\ built # Unborn
         /\ \E full \in BOOLEAN : metrics' = IF full THEN Computed(work, ref["HEAD"]) ELSE metrics
         /\ built' = work /\ d' = Indexed(work)
         /\ UNCHANGED <<work, ref>>

-----------------------------------------------------------------------------
Off == [verb |-> "none", pc |-> "off"]
ReviewInit ==
  \E x \in Cases : LET e == x[2] IN
    /\ work = e.work /\ ref = [HEAD |-> e.head, main |-> e.main] /\ built = e.built
    /\ d = IF e.built = Unborn THEN [syms |-> {}, calls |-> {}, refs |-> {}] ELSE Indexed(e.built)
    /\ metrics = Computed(e.full, e.head)
    /\ review = Over([pc |-> "asks"], x[1]) /\ stirred = <<>>
ReviewNext == Risk \/ Verify \/ Plan \/ Lifecycle \/ Describe \/ Edit \/ MoveRef \/ Index

\* A client asks a question, as in QuerySession, or has a change reviewed.
Idle == [verb |-> "none", how |-> "once", pc |-> "off", lim |-> 1, off |-> 0, sel |-> "all", room |-> 0, keep |-> "",
         given |-> FALSE, text |-> FALSE, got |-> {}]
ClientInit ==
  \/ /\ Init
     /\ work = Unborn /\ ref = <<>> /\ built = Unborn /\ metrics = <<>> /\ review = Off /\ stirred = <<>>
  \/ ReviewInit /\ s = Idle /\ whole = <<>> /\ moved = FALSE
ClientNext == \/ Refuse /\ UNCHANGED reviewVars
              \/ Ask /\ UNCHANGED reviewVars
              \/ Reindex /\ UNCHANGED reviewVars
              \/ ReviewNext

ClientSpec == ClientInit /\ [][ClientNext]_<<vars, reviewVars>>

-----------------------------------------------------------------------------
(* What the answers promise.                                               *)

Done(verb) == Runs(verb, "done")
Undisturbed(kinds) == \A k \in DOMAIN stirred : stirred[k] \notin kinds

\* "a commit or fetch that moves a ref mid-run must not leave the record
\* pairing these measures with a later commit": the record of a measured risk
\* that names two commits has the diff, the sizes and the complexity of these.
MeasuredWhatItNames ==
  Done("risk") /\ ~review.degraded /\ Unborn \notin {review.baseSHA, review.headSHA} =>
  /\ review.size = {Size(review.baseSHA, review.headSHA)}
  /\ review.changes = gitDiff(review.baseSHA, review.headSHA)
  /\ review.cx = complexity(review.headSHA, gitDiff(review.baseSHA, review.headSHA))

\* A risk that is called fresh and measured has found the functions that the
\* diff changed and the tests of today, if what is checked out is the head it
\* was asked about and no index run came in between.  Then no changed function
\* has more callers, as the metrics of that tree count them, than one that it
\* puts first.
CurrentUnlessDegraded ==
  /\ Done("risk") /\ ~review.degraded /\ Undisturbed({"index"})
  /\ review.headSHA # Unborn /\ Tree[review.headSHA].text = Tree[work].text
  => LET at      == Indexed(review.headSHA)
         changed == changedSymbols(at.syms, review.changes)
         shown   == Range(review.focus)
     IN /\ review.label = "fresh" /\ review.found = changed
        /\ review.untested = {i \in changed : isFunc(i) /\ FindTests(at, {i}, FALSE) = <<>>}
        /\ \A i \in changed : isFunc(i) => \E j \in review.cx : Sym[j].file = Sym[i].file /\ cxFor(i, review.cx) = Cyclo[j]
        /\ metrics.degree = InDegree(at) =>
             \A i \in shown, j \in changed \ shown : isFunc(j) => metrics.degree[j] <= metrics.degree[i]

Alike(i, j) == Sym[j].file = Sym[i].file /\ Sym[j].name = Sym[i].name /\ Sym[j].of = Sym[i].of

\* verify of the working tree: every function of it with a line that HEAD has
\* not, and that the index knows by file, type and name, is among those whose
\* tests it looked up, also if the index is behind the tree or a run replaced
\* it meanwhile - of the functions init of a file at least all that changed.
\* What it calls uncovered it had found no test for.
VerifyAccounts ==
  Done("verify") /\ review.base = "" /\ "seen" \in DOMAIN review /\ Undisturbed({"edit", "ref"}) =>
  /\ \A i \in Tree[work].syms : isFunc(i) /\ InCode(i) /\ Overlaps(i, gitDiff(review.from, work)) =>
       \A j \in review.seen.syms :
         isFunc(j) /\ Alike(i, j) /\ (j \in Tree[work].syms => j = i \/ Overlaps(j, gitDiff(review.from, work))) => j \in review.found
  /\ Undisturbed({"index"}) => review.uncovered = {i \in changedFuncs(review.found) : FindTests(d, {i}, FALSE) = <<>>}

\* plan: "cap total call sites emitted" holds for both parts together; what
\* was not emitted is counted; a function that calls the symbol, other than
\* through an interface, is around a site; and what is called safe to delete
\* has no callers outside the files that LIKE takes for tests.
PlanAccounts ==
  Done("plan") /\ review.change # "behavior" =>
  LET emitted == Range(review.prod.sites) \cup Range(review.test.sites)
      calling == {Calls[c].from : c \in {c \in review.seen.calls : Calls[c].to = review.sym}}
  IN /\ review.cap >= 0 /\ ~review.safe => Cardinality(emitted) <= review.cap
     /\ Cardinality(emitted) + review.prod.truncated + review.test.truncated = GetRefCount(review.seen, review.sym)
     /\ Sym[review.sym].kind # "method" =>
          /\ review.cap < 0 => calling \subseteq {Refs[r].enc : r \in emitted}
          /\ review.safe => \A i \in calling : Sym[i].file \in LikeTest

\* What calls fn, or calls what does, in at most so many calls.
Reached(db, fn, depth) ==
  LET within[k \in 0..depth] ==
        IF k = 0 THEN {fn}
        ELSE within[k - 1] \cup UNION {{Calls[c].from : c \in {c \in db.calls : Calls[c].to = i}} : i \in within[k - 1]}
  IN within

\* lifecycle: what refers to the type is in one group; no evidence of a role
\* is lost between the role and the mixed ones; and the callers of a function
\* are all that reach it in so many calls, each at its distance, also in
\* recursion.
LifecycleWhole ==
  Done("lifecycle") =>
  LET cls     == UNION {review.groups[g] : g \in DOMAIN review.groups}
      around  == {Refs[r].enc : r \in Range(FindRefs(review.seen, review.sym))}
  IN /\ {c.fn : c \in cls} = around
     /\ \A c \in cls : Cardinality({g \in DOMAIN review.groups : c \in review.groups[g]}) = 1
     /\ \A c, e \in cls : c.fn = e.fn /\ c.fn # 0 => c = e
     /\ \A c \in cls : \A r \in review.seen.refs :
          Refs[r].sym = review.sym /\ Refs[r].enc = c.fn /\ c.fn # 0 =>
            /\ Refs[r].ctx \in Construction => "Create" \in {c.role} \cup c.mixed
            /\ Refs[r].ctx \in DeleteCalls => c.role = "Delete"
     /\ Undisturbed({"index"}) => \A fn \in around \ {0} : \E within \in {Reached(d, fn, review.depth)} :
          review.callers[fn] = {e \in (1..review.depth) \X Syms : e[2] \in within[e[1]] /\ e[2] \notin within[e[1] - 1]}

\* The card c of a symbol counts what refs, callers and callees list when they
\* are asked for all, of a type those of all its methods, and shows the first
\* of them; and who is said to call it from one directory only does, if no
\* more callers were counted than read.
Agrees(verb, of, shown, count, limit) ==
  /\ count = Cardinality(UNION {{m} \X DOMAIN Unlimited(d, verb, m) : m \in of})
  /\ Range(shown) \subseteq UNION {Range(Unlimited(d, verb, m)) : m \in of}
  /\ Len(shown) = Least(count, limit)
CardAgrees(c, depth) ==
  LET of == IF isTypeKind(c.sym) /\ depth # "sym" THEN MethodIDs(d, Sym[c.sym].name) ELSE {c.sym}
  IN /\ c.refCount = Len(Unlimited(d, "refs", c.sym))
     /\ c.refs = Page(Unlimited(d, "refs", c.sym), Caps[depth].refs, 0)
     /\ Agrees("callers", of, c.callers, c.callerCount, Caps[depth].calls)
     /\ Agrees("callees", of, c.callees, c.calleeCount, Caps[depth].calls)
     /\ "pattern" \in DOMAIN c /\ c.pattern[1] = "all" /\ c.callerCount <= Caps.context =>
          \A i \in Range(Unlimited(d, "callers", c.sym)) : Sym[i].pkg = c.pattern[2]
\* The card of a package that exports anything has what it exports, as pkg
\* lists it outside of tests, up to its limit.
PackageAgrees(card) ==
  LET own  == {i \in d.syms : Sym[i].pkg = card.path /\ Sym[i].name \in Exported /\ Sym[i].kind # "field"}
      code == {i \in own : Sym[i].file \notin LikeTest}
  IN /\ own # {} => Range(card.exports) \subseteq own /\ Cardinality(Range(card.exports)) = Least(Cardinality(own), Caps.package)
     /\ code # {} => Range(FindPackageSymbolsByUsage(d, card.path, Len(Sym), 0)) = code
     /\ Range(card.types) \cup Range(card.funcs) \subseteq own

\* pack: of several IDs each is shown or failed, and only those fail that the
\* index has not.  Without an index run in between the cards agree with the
\* commands.  A package has no more dependents than importers lists, if it
\* does not take the path for the short name of another.
CardsAgree ==
  /\ Done("pack") =>
       /\ {review.cards[k].sym : k \in DOMAIN review.cards} \cup review.failed = Range(review.found)
       /\ Undisturbed({"index"}) =>
            review.failed \cap d.syms = {} /\ \A k \in DOMAIN review.cards : CardAgrees(review.cards[k], review.depth)
  /\ Done("package") =>
       /\ Undisturbed({"index"}) => PackageAgrees(review.card)
       /\ ResolvePkgPattern(d, review.card.path, Directory) = review.card.path =>
            review.card.dependents <= Cardinality({Imports[r].by : r \in Range(FindImporters(d, review.card.path))})
=============================================================================
