------------------------------- MODULE Commands -------------------------------
(***************************************************************************)
(* The query commands of cmd: how one process answers one question.        *)
(*                                                                         *)
(* A question q has the command's flags: --limit lim, --select sel, --kind *)
(* keep, and room, the results --max-tokens has room for, 0 without it;    *)
(* given says that --limit was passed, text that it is not read as JSON.    *)
(***************************************************************************)
EXTENDS Lookup

CONSTANTS
  Methods,      \* the method names that an interface's source has
  Directory,    \* the segments of the client's directory below the module's
  Dotted,       \* segments with a dot in them
  ListCap       \* DefaultListCap: how many results a list prints by default

ASSUME ListCapAssumption == ListCap \in Nat

Selects == [best |-> 1, top3 |-> 3, top5 |-> 5]

-----------------------------------------------------------------------------
(* The symbols that an argument means; impl leaves all but interfaces out. *)

SymbolVerbs == {"refs", "callers", "callees", "tests", "impl", "impact"}
Verbs == SymbolVerbs \cup {"imports", "importers", "lits", "pkg", "file", "exports"}

Resolve(db, verb, arg) ==
  IF verb \notin SymbolVerbs THEN <<arg>>
  ELSE IF arg.form = "id" THEN <<arg.id>>
  ELSE IF verb = "impl" THEN SelectSeq(LookupByName(db, arg), LAMBDA i : Sym[i].kind = "interface")
  ELSE LookupByName(db, arg)

-----------------------------------------------------------------------------
(* Ranking, selection and budget.                                          *)

\* The name asked for, a definition, an exported name, a short path.  The
\* number of a file stands for the length of its path.
MaxScore == 160
ScoreResult(verb, i, name) ==
  CASE verb = "refs"      -> (IF Sym[Refs[i].sym].name = name THEN 100 ELSE 0) + (10 - Refs[i].file)
    [] verb = "importers" -> 10 - Imports[i].file
    [] OTHER              -> (IF Sym[i].name = name THEN 100 ELSE 0) + (IF Sym[i].kind # "field" THEN 30 ELSE 0)
                               + (IF Sym[i].name \in Exported THEN 20 ELSE 0) + (10 - Sym[i].file)
ScoreAndSort(verb, results, name) ==
  Column(OrderBy(DOMAIN results, LAMBDA k : <<MaxScore - ScoreResult(verb, results[k], name)>>), LAMBDA k : results[k])
ApplySelection(results, sel) == IF sel \in DOMAIN Selects THEN Page(results, Selects[sel], 0) ELSE results
TruncateToTokenBudget(results, room) ==
  IF room = 0 THEN [kept |-> results, cut |-> FALSE] ELSE [kept |-> Page(results, room, 0), cut |-> Len(results) > room]

\* Total and Truncated of the meta: of what is shown, which is a full page.
MutantMeta(q, shown, cut) == [shown |-> shown, total |-> Len(shown), truncated |-> Len(shown) > q.lim \/ cut]
Meta(q, shown, cut) == [shown |-> shown, total |-> Len(shown), truncated |-> Len(shown) >= q.lim \/ cut]
Budgeted(q, results) == LET fits == TruncateToTokenBudget(results, q.room) IN Meta(q, fits.kept, fits.cut)
Ranked(q, results, name) == Budgeted(q, ApplySelection(ScoreAndSort(q.verb, results, name), q.sel))

-----------------------------------------------------------------------------
(* Lists with limit and offset.                                            *)

\* refs --kind keeps the references from one kind of symbol.
Kept(keep, page) ==
  IF keep = "" THEN page ELSE SelectSeq(page, LAMBDA r : Refs[r].enc # 0 /\ Sym[Refs[r].enc].kind = keep)
runRefs(db, q, t, off) == Kept(q.keep, Page(FindRefs(db, t), q.lim, off))

\* callers and callees show a function once, however often it calls.
Callers(rows) == Once(Column(rows, LAMBDA c : Calls[c].from))
Callees(rows) == Once(Column(rows, LAMBDA c : Calls[c].to))
runCallers(db, q, t, off) == Callers(Page(FindCallers(db, {t}), q.lim, off))
runCallees(db, q, t, off) == Callees(Page(FindCallees(db, {t}), q.lim, off))

runTests(db, q, t, off) == Page(FindTests(db, {t}, FALSE), q.lim, off)
runImpl(db, q, t, off) == Page(FindImplementers(db, t, Methods[t]), q.lim, off)

runImports(q, file, off) == scanImportRows(Page(FindImports(file), q.lim, off))

\* A path of several segments and no dot is taken for a directory; an
\* importing package is shown once.
FindImporters(db, pat) ==
  LET path == ResolvePkgPattern(db, pat, Directory)
  IN IF Len(path) > 1 /\ Range(path) \cap Dotted = {} THEN FindImportersByDirectory(path) ELSE FindImportsByPackage(path)
Importing(rows) ==
  Once(Column(rows, LAMBDA r : CHOOSE i \in DOMAIN Imports : /\ Imports[i].by = Imports[r].by
                                                             /\ \A j \in 1..(i - 1) : Imports[j].by # Imports[r].by))
runImporters(db, q, pat, off) == Importing(scanImportRows(Page(FindImporters(db, pat), q.lim, off)))

runPkg(db, q, pat, off) == FindPackageSymbolsByUsage(db, ResolvePkgPattern(db, pat, Directory), q.lim, off)

\* def --file and def --pkg list symbols.  Neither calls a full page truncated;
\* an empty one is the error not_found, which a client takes for no rows.
runDefScoped(db, q, scope, off) ==
  IF q.verb = "file" THEN Page(FindSymbolsInFile(db, scope), q.lim, off) ELSE FindPackageSymbols(db, scope, q.lim, off)
ScopedMeta(q, results) ==
  LET fits == TruncateToTokenBudget(ApplySelection(ScoreAndSort(q.verb, results, 0), q.sel), q.room)
  IN [shown |-> fits.kept, total |-> Len(fits.kept), truncated |-> fits.cut]

\* lits counts past its page.
runLits(q, value, off) ==
  LET found == FindLiteralRefs(value)
      page  == Page(found, q.lim, off)
  IN [shown |-> page, total |-> Len(found), truncated |-> Len(page) < Len(found)]

-----------------------------------------------------------------------------
(* impact: callers, references to a type, implementers and tests, each     *)
(* with a limit of its own, then merged; its page is taken last.           *)

RefCap == 50
Targets(db, t) == IF t \in db.syms /\ IsType(t) THEN {t} \cup MethodIDs(db, Sym[t].name) ELSE {t}
MutantImpact(db, t, direct, lim) ==
  LET internal == 3 * lim
      mentions == IF IsType(t) \/ Sym[t].kind = "interface" THEN FindImpactRefs(db, t) ELSE <<>>
      impls    == IF Sym[t].kind = "interface" THEN FindImplementers(db, t, Methods[t]) ELSE <<>>
  IN Once(Page(FindImpactCallers(db, Targets(db, t), direct), internal, 0) \o Page(mentions, RefCap, 0)
            \o Page(impls, internal, 0) \o Page(FindTests(db, {t}, direct), internal, 0))

Impact(db, t, direct, lim) ==
  LET internal == 3 * lim
      mentions == IF IsType(t) \/ Sym[t].kind = "interface" THEN FindImpactRefs(db, t) ELSE <<>>
      impls    == IF Sym[t].kind = "interface" THEN FindImplementers(db, t, Methods[t]) ELSE <<>>
  IN Once(Page(FindImpactCallers(db, Targets(db, t), direct), internal, 0) \o Page(mentions, RefCap, 0)
            \o Page(impls, internal, 0) \o Page(FindTests(db, Targets(db, t), direct), internal, 0))

runImpact(db, q, t, off) ==
  LET fits == TruncateToTokenBudget(ApplySelection(Impact(db, t, FALSE, q.lim), q.sel), q.room)
  IN Meta(q, Page(fits.kept, q.lim, off), fits.cut)

-----------------------------------------------------------------------------
(* The answer to q at an offset.                                           *)

Listed(db, q, t, off) ==
  CASE q.verb = "refs"      -> runRefs(db, q, t, off)
    [] q.verb = "callers"   -> runCallers(db, q, t, off)
    [] q.verb = "callees"   -> runCallees(db, q, t, off)
    [] q.verb = "tests"     -> runTests(db, q, t, off)
    [] q.verb = "impl"      -> runImpl(db, q, t, off)
    [] q.verb = "imports"   -> runImports(q, t, off)
    [] q.verb = "importers" -> runImporters(db, q, t, off)
    [] q.verb = "pkg"       -> runPkg(db, q, t, off)
    [] q.verb \in {"file", "exports"} -> runDefScoped(db, q, t, off)
\* The name that the results are ranked by; 0 is none's.
AskedName(q, t) == CASE q.verb = "importers" -> 0
                     [] q.verb = "impl"      -> IF q.arg.form = "id" THEN 0 ELSE q.arg.name
                     [] OTHER                -> Sym[t].name
Answer(db, q, t, off) ==
  CASE q.verb = "impact"             -> runImpact(db, q, t, off)
    [] q.verb = "lits"               -> runLits(q, t, off)
    [] q.verb \in {"file", "exports"} -> ScopedMeta(q, Listed(db, q, t, off))
    [] q.verb \in {"imports", "pkg"} -> Budgeted(q, Listed(db, q, t, off))
    [] OTHER                         -> Ranked(q, Listed(db, q, t, off), AskedName(q, t))

\* No symbol of that name, several, no such interface, or no such literal:
\* the command fails.
Refused(db, q) == LET found == Resolve(db, q.verb, q.arg)
                  IN \/ Len(found) # 1
                     \/ q.verb = "impl" /\ found[1] \notin db.syms
                     \/ q.verb = "lits" /\ FindLiteralRefs(q.arg) = <<>>

-----------------------------------------------------------------------------
(* The text form of an answer: code first, then tests, up to a cap.        *)

ResultFile(verb, r) ==
  CASE verb = "refs" -> Refs[r].file
    [] verb \in {"imports", "importers"} -> Imports[r].file
    [] verb = "lits" -> Lits[r].file
    [] OTHER -> Sym[r].file
textCap(q, n) == IF q.given THEN n ELSE Least(n, ListCap)
Printed(q, a) ==
  LET InTest(r) == ResultFile(q.verb, r) \in TestFile
      code      == Where(a.shown, LAMBDA r : ~InTest(r))
      tests     == Where(a.shown, LAMBDA r : InTest(r))
      room      == textCap(q, Len(a.shown))
  IN Page(code, room, 0) \o (IF room > Len(code) THEN Page(tests, room - Len(code), 0) ELSE <<>>)
\* The line "... N more".
MutantHidden(a, printed) == a.total > Len(a.shown)
Hidden(a, printed) == a.total > Len(printed) \/ Len(a.shown) > Len(printed)

\* All that q would be answered with if there were no limit, in the order of
\* the query.
Unlimited(db, verb, t) ==
  CASE verb = "refs"      -> FindRefs(db, t)
    [] verb = "callers"   -> Column(FindCallers(db, {t}), LAMBDA c : Calls[c].from)
    [] verb = "callees"   -> Column(FindCallees(db, {t}), LAMBDA c : Calls[c].to)
    [] verb = "tests"     -> FindTests(db, {t}, FALSE)
    [] verb = "impl"      -> FindImplementers(db, t, Methods[t])
    [] verb = "imports"   -> scanImportRows(FindImports(t))
    [] verb = "importers" -> Column(FindImporters(db, t), LAMBDA r : Importing(<<r>>)[1])
    [] verb = "lits"      -> FindLiteralRefs(t)
    [] verb = "pkg"       -> FindPackageSymbolsByUsage(db, ResolvePkgPattern(db, t, Directory), Len(Sym), 0)
    [] verb = "file"      -> FindSymbolsInFile(db, t)
    [] verb \in {"exports", "impact"} -> <<>>
Whole(db, q) == IF Refused(db, q) THEN <<>> ELSE Unlimited(db, q.verb, Resolve(db, q.verb, q.arg)[1])
=============================================================================
