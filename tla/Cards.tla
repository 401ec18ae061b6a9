--------------------------------- MODULE Cards --------------------------------
(***************************************************************************)
(* The commands that describe one thing: def, pack at its three depths and *)
(* types for a symbol, pack and types for a package.                       *)
(*                                                                         *)
(* Besides the texts of Lookup an argument may be a place ("at") or a name *)
(* in files ("file"), for def a name in a package ("pkg").  Signatures,    *)
(* docs, roles, purposes and the code itself are left out.                 *)
(***************************************************************************)
EXTENDS Commands

CONSTANTS
  Caps,       \* the limits of a card's lists: of sym, pack and def's
  Spelling,   \* Spelling[n]: the names close enough to n, with their distance
  Beginnings, \* Beginnings[n]: the beginnings of a name that are compared
  Alone,      \* references that are all there is on their line
  Module,     \* the path of the module
  Prefixed    \* names that GLOB 'Test*' or 'Bench*' match

Depths == {"sym", "pack", "explain"}
ASSUME CapsAssumption ==
  /\ \A depth \in Depths : {Caps[depth].refs, Caps[depth].calls} \subseteq Nat
  /\ {Caps.key, Caps.context} \subseteq Nat /\ Caps.package \in Nat \ {0}

isTypeKind(i) == Sym[i].kind \in {"struct", "interface", "type"}
Callable(i) == Sym[i].kind \in {"func", "method"}

-----------------------------------------------------------------------------
(* What an argument means.                                                 *)

\* A name that no file of its prefix has is looked up with the prefix, which
\* no name has.
Candidates(db, arg) ==
  CASE arg.form = "id"   -> <<arg.id>>
    [] arg.form = "at"   -> SelectSeq(<<ResolvePosition(db, arg.at)>>, LAMBDA i : i # 0)
    [] arg.form = "file" -> LookupByNameInFile(db, arg.name, arg.files)
    [] OTHER             -> LookupByName(db, arg)
\* A text with a "/" is taken for a package, except by sym, and no package has
\* that path.
looksLikePackagePath(arg) == arg.form = "path"
Named(arg) == arg.form \notin {"id", "at", "file"}
Single(found) == IF Len(found) = 1 THEN found[1] ELSE 0

\* --select lets def choose among several of a name.
pickSelectedSymbol(found, arg) == ScoreAndSort("def", found, IF arg.form = "plain" THEN arg.name ELSE 0)[1]
resolveDefSymbol(found, arg, sel) ==
  IF Named(arg) /\ sel # "all" /\ Len(found) > 1 THEN pickSelectedSymbol(found, arg) ELSE Single(found)
resolvePackSymbol(found) == Single(found)
\* types looks for types only among symbols found by name.
resolveTypeSymbol(found, arg) == Single(IF Named(arg) THEN SelectSeq(found, isTypeKind) ELSE found)

\* The names offered instead of one that nothing has.
FindSimilarSymbols(db, n, limit) ==
  LET near == {Sym[i].name : i \in db.syms} \cap DOMAIN Spelling[n]
      rank(m) == Cardinality({k \in near : Before(<<Spelling[n][k], k>>, <<Spelling[n][m], m>>)}) + 1
  IN Page([i \in 1..Cardinality(near) |-> CHOOSE m \in near : rank(m) = i], limit, 0)

-----------------------------------------------------------------------------
(* pack and its depth sym.                                                 *)

From(rows) == Column(rows, LAMBDA c : Calls[c].from)
To(rows) == Column(rows, LAMBDA c : Calls[c].to)

\* Whose calls a card shows: those of a type's methods, except at depth sym.
Speakers(db, i, depth) == IF isTypeKind(i) /\ depth # "sym" THEN MethodIDs(db, Sym[i].name) ELSE {i}
RefCard(db, i, caps) == Page(FindRefs(db, i), caps.refs, 0)
CallerCard(db, i, depth, caps) == From(Page(FindCallers(db, Speakers(db, i, depth)), caps.calls, 0))
CalleeCard(db, i, depth, caps) == To(Page(FindCallees(db, Speakers(db, i, depth)), caps.calls, 0))
CallerCount(db, i, depth) == Cardinality({c \in db.calls : Calls[c].to \in Speakers(db, i, depth)})
CalleeCount(db, i, depth) == Cardinality({c \in db.calls : Calls[c].from \in Speakers(db, i, depth)})

-----------------------------------------------------------------------------
(* pack --depth explain.                                                   *)

\* A function called twice, or two of one name, are one step.
extractMechanism(db, i, limit) ==
  Once(Column(Page(FindCallees(db, {i}), limit, 0), LAMBDA c : Sym[Calls[c].to].name))

\* All the callers that were read are from one directory, or else two and half
\* of them begin alike.  If several beginnings are as common, a map's order
\* decides.
Patterns(rows) ==
  LET from     == From(rows)
      dirs     == {Sym[i].pkg : i \in Range(from)}
      alike(p) == Cardinality({k \in DOMAIN from : p \in Beginnings[Sym[from[k]].name]})
      common   == {p \in UNION {Beginnings[Sym[i].name] : i \in Range(from)} : alike(p) >= Len(rows) \div 2 /\ alike(p) >= 2}
  IN CASE rows = <<>>            -> {<<"none">>}
       [] Cardinality(dirs) = 1  -> {<<"all", d, Len(rows)>> : d \in dirs}
       [] OTHER                  -> IF common = {} THEN {<<"none">>} ELSE {<<"mostly", p>> : p \in common}
detectCallerPattern(db, i, limit) == Patterns(Page(FindCallers(db, {i}), limit, 0))

-----------------------------------------------------------------------------
(* def.                                                                    *)

FindSiblings(db, i, limit) ==
  Page(OrderBy({j \in db.syms : Sym[j].file = Sym[i].file /\ Sym[j].kind = Sym[i].kind /\ j # i}, LAMBDA j : <<Sym[j].first>>), limit, 0)
GetCallersPreview(db, i, limit) == From(Page(FindCallers(db, {i}), limit, 0))

\* tier: another spelling of the name was found.
ToResultWithHints(db, i) ==
  [sym |-> i, refCount |-> GetRefCount(db, i), unused |-> Sym[i].name \in Exported /\ GetRefCount(db, i) = 0]
DefCard(db, i, arg) ==
  ToResultWithHints(db, i)
  @@ [siblings |-> FindSiblings(db, i, Caps.siblings),
      preview  |-> IF Callable(i) THEN GetCallersPreview(db, i, Caps.preview) ELSE <<>>,
      tier     |-> arg.form = "plain" /\ Sym[i].name # arg.name]

-----------------------------------------------------------------------------
(* types.                                                                  *)

Inner(i, file, line) == file = Sym[i].file /\ Sym[i].first < line /\ line < Sym[i].last
getEmbedsForType(db, i) ==
  LET rows == OrderBy({r \in db.refs : Inner(i, Refs[r].file, Refs[r].line) /\ isTypeKind(Refs[r].sym) /\ r \in Alone},
                      LAMBDA r : <<Refs[r].line>>)
  IN Once(Column(rows, LAMBDA r : Sym[Refs[r].sym].name))
getFieldsForType(db, i) ==
  OrderBy({j \in db.syms : Sym[j].kind = "field" /\ Inner(i, Sym[j].file, Sym[j].first)}, LAMBDA j : <<Sym[j].first>>)
GetTypeInfo(db, i) ==
  [sym |-> i, methods |-> GetMethodsForType(db, i), embeds |-> getEmbedsForType(db, i), fields |-> getFieldsForType(db, i)]
runTypesForPackage(db, pat) ==
  Column(SelectSeq(FindPackageSymbols(db, pat, Caps.package, 0), isTypeKind), LAMBDA i : GetTypeInfo(db, i))

-----------------------------------------------------------------------------
(* pack of a package.                                                      *)

Known(path) == \E r \in DOMAIN Imports : path \in {Imports[r].by, Imports[r].pkg}
ResolveFullPkgPath(path) == IF ~Known(path) /\ Known(Module \o path) THEN Module \o path ELSE path
PackagePath(db, pat) == ResolveFullPkgPath(ResolvePkgPattern(db, pat, Directory))
PackageExists(db, path) == \/ \E i \in db.syms : Sym[i].pkg = path
                           \/ \E r \in DOMAIN Imports : Imports[r].by = path
PackageUse(db, path) ==
  [types      |-> TopTypesByRefs(db, path, Caps.key),
   funcs      |-> TopFuncsByCallCount(db, path, Caps.key, Prefixed),
   imports    |-> Dependencies(path, Module),
   dependents |-> Cardinality(Dependents(path, Module))]
=============================================================================
