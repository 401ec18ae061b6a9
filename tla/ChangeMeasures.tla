---------------------------- MODULE ChangeMeasures ----------------------------
(***************************************************************************)
(* What risk, verify, plan and lifecycle compute: from two trees, the lines*)
(* and functions that a diff touches (internal/risk, internal/gitchurn,    *)
(* query/overlap.go); from one symbol, the sites to edit (cmd/plan.go) and *)
(* the part each function has in a type's life (internal/lifecycle).       *)
(*                                                                         *)
(* A tree is a commit or what is on disk.  A line is a number that tells it*)
(* from every other line of its file in any tree, so that a changed line is*)
(* a new one.  A file keeps its name, and no edit falls into the second of *)
(* the run that hashed it (IndexRun has those).                            *)
(***************************************************************************)
EXTENDS Integers, Commands

CONSTANTS
  Tree,          \* trees: [text: the lines of each file, syms: symbols of the text, conf: go.mod and the like]
  Log,           \* the commits up to a tree: [author, types, files], merges left out
  Cyclo,         \* the complexity of a function
  NameVerb,      \* what the name of a function begins with: "create", "delete", "mutate" or ""
  Returns,       \* functions whose signature returns the type
  Takes,         \* functions whose signature takes a pointer to it
  DeleteCalls,   \* contexts of a reference that is an argument of a call that deletes
  Generated,     \* files named _gen.go or zz_generated_
  Fixtures       \* literals that are paths of golden files or testdata

Trees == DOMAIN Tree
Text(t, f) == IF f \in DOMAIN Tree[t].text THEN Tree[t].text[f] ELSE <<>>
SymsOf(t, f) == {i \in Tree[t].syms : Sym[i].file = f}

ASSUME TreesAssumption ==
  \A t \in Trees :
    /\ Tree[t].syms \subseteq Syms
    /\ \A i \in Tree[t].syms : Sym[i].file \in DOMAIN Tree[t].text /\ Sym[i].last <= Len(Text(t, Sym[i].file))
    /\ \A f \in DOMAIN Tree[t].text :
         /\ IsInjective(Tree[t].text[f])
         /\ \A u \in Trees : f \in DOMAIN Tree[u].text =>
              /\ Tree[t].text[f] = Tree[u].text[f] => SymsOf(t, f) = SymsOf(u, f)
              /\ LET both(x, y) == SelectSeq(Text(x, f), LAMBDA l : l \in Range(Text(y, f))) IN both(t, u) = both(u, t)

\* What a run leaves for a tree.
Indexed(t) ==
  [syms |-> Tree[t].syms, calls |-> {c \in DOMAIN Calls : {Calls[c].from, Calls[c].to} \subseteq Tree[t].syms},
   refs |-> {r \in DOMAIN Refs : Refs[r].sym \in Tree[t].syms /\ Refs[r].enc \in Tree[t].syms \cup {0}}]

ASSUME MeasuresAssumption ==
  Cyclo \in [Syms -> Nat] /\ DeleteCalls \cap {"go", "chan"} = {} /\ \A t \in Trees : Consistent(Indexed(t))

-----------------------------------------------------------------------------
(* Diffs: for each file the lines that are new, by number in the new text. *)
(* What was only removed has none, and a file without any is not in it.    *)

NewLines(from, to, f) == {n \in DOMAIN Text(to, f) : Text(to, f)[n] \notin Range(Text(from, f))}
gitDiff(from, to) ==
  [f \in {f \in DOMAIN Tree[to].text : NewLines(from, to, f) # {}} |-> NewLines(from, to, f)]
\* Staged, unstaged and untracked together: HEAD against the disk.
workingTreeDiff(head, work) == gitDiff(head, work)

\* Lines of code that were added; removed, the other way round.
codeLines(from, to) ==
  Cardinality(UNION {{f} \X NewLines(from, to, f) : f \in DOMAIN Tree[to].text \ TestFile})
Size(from, to) == [go |-> DOMAIN gitDiff(from, to), test |-> DOMAIN gitDiff(from, to) \cap TestFile,
                   added |-> codeLines(from, to), removed |-> codeLines(to, from)]

isFunc(i) == Sym[i].kind \in {"func", "method"}
Overlaps(i, changes) == /\ Sym[i].file \in DOMAIN changes
                        /\ changes[Sym[i].file] \cap (Sym[i].first..Sym[i].last) # {}

-----------------------------------------------------------------------------
(* risk.                                                                   *)

changedSymbols(syms, changes) == {i \in syms : Scope(i) /\ InCode(i) /\ Overlaps(i, changes)}

callerCap == 500
reach(db, changed) ==
  LET callers      == Range(Page(FindImpactCallers(db, changed, TRUE), callerCap, 0))
      importers(p) == {Imports[i].by : i \in {i \in DOMAIN Imports : Imports[i].pkg = p}} \ {p}
  IN [callers |-> Len(Page(FindImpactCallers(db, changed, TRUE), callerCap, 0)),
      files   |-> Cardinality({Sym[i].file : i \in callers}),
      importers |-> Max({0} \cup {Cardinality(importers(Sym[i].pkg)) : i \in changed})]

\* The functions as they are at head, which git shows: not of the index.
complexity(head, changes) == {i \in changedSymbols(Tree[head].syms, changes) : isFunc(i)}
cxFor(i, cx) ==
  LET same == {j \in cx : Sym[j].file = Sym[i].file /\ Sym[j].name = Sym[i].name /\ Sym[j].line \in Sym[i].first..Sym[i].last}
  IN IF same = {} THEN 0 ELSE Cyclo[CHOOSE j \in same : \A k \in same : Sym[j].line <= Sym[k].line]
difficulty(cx) == Max({0} \cup {Cyclo[i] : i \in cx})

\* A commit that serves several beads is of the gravest type.
classifyBeadTypes(types) ==
  CASE "bug" \in types -> "bug"
    [] "bug" \notin types /\ "feature" \in types -> "feature"
    [] types \cap {"bug", "feature"} = {} /\ "chore" \in types -> "chore"
    [] types \cap {"bug", "feature", "chore"} = {} /\ types \cap {"task", "epic", "spike"} # {} -> "other"
    [] OTHER -> "untyped"
\* Per tracked file what the commits that touched it were; it replaces file_churn.
Walk(log, tracked) ==
  LET touching(f) == SelectSeq(log, LAMBDA c : f \in c.files)
      bugs(f)     == SelectSeq(touching(f), LAMBDA c : classifyBeadTypes(c.types) = "bug")
  IN [f \in {f \in tracked : touching(f) # <<>>} |->
        [commits |-> Len(touching(f)), bugs |-> Len(bugs(f)), authors |-> Cardinality({c.author : c \in Range(touching(f))})]]
\* The most for any file, nothing if there is no churn at all.
history(churn, files) ==
  LET most(field) == Max({0} \cup {churn[f][field] : f \in files \cap DOMAIN churn})
  IN IF DOMAIN churn = {} THEN <<>>
     ELSE <<[commits |-> most("commits"), bugs |-> most("bugs"), authors |-> most("authors")]>>

testedFuncs(db, changed) == {i \in changed : isFunc(i) /\ Page(FindTests(db, {i}, FALSE), 1, 0) # <<>>}
untested(changed, tested) == {i \in changed : isFunc(i)} \ tested

\* Callers, self calls left out, as the last metrics run counted them.
InDegree(db) == [i \in Syms |-> Cardinality({Calls[c].from : c \in {c \in db.calls : Calls[c].to = i}} \ {i})]
focusMax == 3
focus(changed, degree, cx) ==
  Page(OrderBy({i \in changed : isFunc(i)},
               LAMBDA i : <<Most - degree[i], Most - cxFor(i, cx), Sym[i].file, Sym[i].first>>), focusMax, 0)

\* The factors that a score is the mean of: those that were measured.
factors(m) == {"reach", "kind"} \cup (IF m.cx # {} THEN {"difficulty"} ELSE {}) \cup (IF m.history # <<>> THEN {"history"} ELSE {})
                \cup (IF \E i \in m.found : isFunc(i) THEN {"safety_net"} ELSE {})

\* indexStaleness: what an index was built from is not what is on disk.
Outdated(built, work) == Tree[built].conf # Tree[work].conf \/ Tree[built].text # Tree[work].text

-----------------------------------------------------------------------------
(* verify.                                                                 *)

\* checkPathStaleness: not indexed, gone, or with another text.
MutantStale(built, work, files) == {}
Stale(built, work, files) ==
  {f \in files : \/ f \notin DOMAIN Tree[built].text \/ f \notin DOMAIN Tree[work].text
                 \/ Text(built, f) # Text(work, f)}
\* All the symbols of a stale file.
FindOverlappingSymbols(db, changes, stale) ==
  {i \in db.syms : Sym[i].file \in DOMAIN changes /\ (Sym[i].file \in stale \/ Overlaps(i, changes))}
changedFuncs(found) == {i \in found : isFunc(i) /\ InCode(i)}
changedTestFuncs(found) == {i \in found : isFunc(i) /\ IsTest(i)}

verifyTestLimit == 500
verifyRippleCap == 20
verifyRippleCallerLimit == 200
Outside(db, i, files) ==
  Len(SelectSeq(Page(FindImpactCallers(db, {i}, TRUE), verifyRippleCallerLimit, 0), LAMBDA k : Sym[k].file \notin files))
verifyBuildRipple(db, funcs, files) ==
  Page(OrderBy({i \in funcs : Outside(db, i, files) > 0}, LAMBDA i : <<Last(Sym[i].pkg), Sym[i].name, Sym[i].file, Sym[i].first>>), verifyRippleCap, 0)

-----------------------------------------------------------------------------
(* plan.                                                                   *)

planTestLimit == 500
planChurnLimit == 20
planPartitionRefs(rows) == [prod |-> Where(rows, LAMBDA r : Refs[r].file \notin LikeTest),
                            test |-> Where(rows, LAMBDA r : Refs[r].file \in LikeTest)]
\* No cap if it is negative.
planBuildCallSites(rows, cap) ==
  LET sites == IF cap < 0 THEN rows ELSE Page(rows, cap, 0)
  IN [sites |-> sites, truncated |-> Len(rows) - Len(sites), total |-> Len(rows)]
\* What production sites leave of the cap.
MutantTestBudget(cap, total, truncated) == IF cap < 0 THEN cap ELSE Max({0, cap - truncated})
planTestBudget(cap, total, truncated) == IF cap < 0 THEN cap ELSE Max({0, cap - (total - truncated)})

\* The fixtures that the files of the covering tests name.
FindChurnLiterals(files) ==
  LET values == {Lits[i].value : i \in {i \in DOMAIN Lits : Lits[i].file \in files /\ Lits[i].value \in Fixtures}}
      sorted == SetToSortSeq(values, <)
  IN [paths |-> Page(sorted, planChurnLimit, 0), truncated |-> Len(sorted) - Len(Page(sorted, planChurnLimit, 0))]

-----------------------------------------------------------------------------
(* lifecycle.                                                              *)

isTestOrGeneratedFile(f) == f \in TestFile \cup Generated
Construction == {"lit", "new", "make"}
\* The rules R1 to R5 in order of rank, those that speak for a role of fn.
Hits(fn, group) ==
  (IF \E r \in group : Refs[r].ctx \in DeleteCalls THEN <<"Delete">> ELSE <<>>)
  \o (IF \E r \in group : Refs[r].ctx \in Construction THEN <<"Create">> ELSE <<>>)
  \o (IF NameVerb[fn] = "create" /\ fn \in Returns THEN <<"Create">> ELSE <<>>)
  \o (IF NameVerb[fn] = "delete" THEN <<"Delete">> ELSE <<>>)
  \o (IF NameVerb[fn] = "mutate" /\ fn \in Takes THEN <<"Mutate">> ELSE <<>>)
classifyFunction(fn, group, file) ==
  LET hits == Once(Hits(fn, group))
  IN [fn |-> fn, at |-> 0, test |-> isTestOrGeneratedFile(file),
      role |-> IF hits = <<>> THEN "Read" ELSE hits[1], mixed |-> IF hits = <<>> THEN {} ELSE Range(Tail(hits))]
classifyFileScope(r) ==
  [fn |-> 0, at |-> r, test |-> isTestOrGeneratedFile(Refs[r].file),
   role |-> IF Refs[r].ctx \in Construction THEN "Create" ELSE "Type uses", mixed |-> {}]
\* A function once, in the file of its first reference; each reference that
\* no function is around of by itself.
Classify(rows) ==
  LET of(fn)   == Where(rows, LAMBDA r : Refs[r].enc = fn)
      around   == {Refs[r].enc : r \in Range(rows)} \ {0}
  IN {classifyFunction(fn, Range(of(fn)), Refs[of(fn)[1]].file) : fn \in around} \cup {classifyFileScope(r) : r \in Range(of(0))}

roleOrder == <<"Create", "Mutate", "Read", "Delete", "Type uses", "Unknown">>
\* The groups of an answer; tests and generated code are one of their own.
buildLifecycleResult(cls, includeTests) ==
  LET apart(c) == c.test /\ ~includeTests
  IN [g \in Range(roleOrder) \cup {"Tests"} |-> IF g = "Tests" THEN {c \in cls : apart(c)} ELSE {c \in cls : ~apart(c) /\ c.role = g}]

frontierCallers(db, frontier) == {Calls[c].from : c \in {c \in db.calls : Calls[c].to \in frontier}}
\* Level by level; a function is at the level it is first met at.
Level(db, w, k) ==
  LET next == frontierCallers(db, w.frontier) \ w.visited
  IN [visited |-> w.visited \cup next, frontier |-> next, nodes |-> w.nodes \cup {<<k, i>> : i \in next}]
Levels(db, from, depth) ==
  LET walk[k \in 0..depth] == IF k = 0 THEN from ELSE Level(db, walk[k - 1], k) IN walk
MutantWalkCallers(db, fn, depth) ==
  IF depth <= 0 THEN {} ELSE Levels(db, [visited |-> {}, frontier |-> {fn}, nodes |-> {}], depth)[depth].nodes
WalkCallers(db, fn, depth) ==
  IF depth <= 0 THEN {} ELSE Levels(db, [visited |-> {fn}, frontier |-> {fn}, nodes |-> {}], depth)[depth].nodes
=============================================================================
