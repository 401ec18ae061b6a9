-------------------------------- MODULE Edit ---------------------------------
(***************************************************************************)
(* snipe edit (cmd/edit.go, internal/edit/ast.go).  A request names a      *)
(* symbol; the index says in which file it is, the file is read and parsed *)
(* again, the first declaration of that bare name is changed, and the      *)
(* formatted result is written by a temporary file and a rename.  The      *)
(* index is not refreshed between the requests of a batch, the user edits  *)
(* the files at any moment, a call may fail, the process may be killed,    *)
(* and a client whose edit was answered with an error sends it again.      *)
(*                                                                         *)
(* A file is the sequence of its declarations.  One that stands for a      *)
(* group (var (...)) has several names; the declarations inside a          *)
(* function's body are its "inner" names.  body is the set of requests     *)
(* whose code the declaration contains.                                    *)
(***************************************************************************)
EXTENDS Integers, Sequences, SequencesExt, FiniteSets

CONSTANTS Trees,     \* initial trees: [files -> sequences of declarations]
          Names,     \* bare symbol names
          Requests,  \* what is asked
          Fold(_),   \* a name with its case folded (COLLATE NOCASE)
          PathHas(_, _), \* strings.Contains: a file's path has the text in it
          MaxTurn,   \* requests in a batch, or attempts of a client
          MaxUser    \* bound on edits by the user

Ops == {"replace_body", "replace_full", "insert_after", "insert_before"}
Codes == {"func", "gen", "stmt", "empty"}
Kinds == {"func", "proto", "gen"}  \* functions with and without a body, and the rest
Request == [name : STRING, at : Nat, file : STRING, op : Ops, code : Codes]
Declaration == [id : Nat, kind : Kinds, names : SUBSET STRING, inner : SUBSET STRING, body : SUBSET Nat]

\* id is what the model knows a declaration by: 1 to Oldest at first.
Oldest == 10
ASSUME EditAssumption ==
  /\ MaxTurn \in Nat \ {0} /\ MaxUser \in Nat /\ Requests \subseteq Request /\ Names \subseteq STRING
  /\ \A q \in Requests : q.code = "empty" => q.op \in {"replace_body", "replace_full"}
ASSUME TreesAssumption == \A t \in Trees :
  /\ DOMAIN t \subseteq STRING /\ IsFiniteSet(DOMAIN t) /\ t \in [DOMAIN t -> Seq(Declaration)]
  /\ \A f \in DOMAIN t : \A p \in DOMAIN t[f] : t[f][p].id \in 1..Oldest /\ IsFiniteSet(t[f][p].names) /\ t[f][p].body = {}
  /\ \A f, g \in DOMAIN t : \A p \in DOMAIN t[f], n \in DOMAIN t[g] : t[f][p].id = t[g][n].id => f = g /\ p = n

VARIABLES
  tree,    \* the files
  index,   \* the symbols table: rows [id, name, file], never refreshed here
  mode,    \* "one" request or a "batch"
  apply,   \* --apply; otherwise a dry run
  pc, turn, req, row, plan, answers,
  users,   \* edits by the user so far
  raced,   \* history: the user edited since the file was read
  landed,  \* history: turns whose file was renamed into place
  unsure   \* history: a landed edit could not be told from a lost one

vars == <<tree, index, mode, apply, pc, turn, req, row, plan, answers, users,
          raced, landed, unsure>>

Files == DOMAIN tree
NoPlan == [file |-> "", id |-> 0, old |-> <<>>, new |-> <<>>]
NoRow == [id |-> 0, name |-> "", file |-> ""]
\* What a request asks for: a name, or with --at (at # 0) a declaration, and
\* in a batch a part of the path of the file that must hold it ("" if any).
NoReq == [name |-> "", at |-> 0, file |-> "", op |-> "", code |-> ""]

\* Rows as LookupByName orders them, by kind, file and line; which file is the
\* first makes no difference, as only rows of one file are ever compared.
RowsOf(t, kinds, files) ==
  FlattenSeq([k \in 1..Len(kinds) |->
    FlattenSeq([f \in 1..Len(files) |->
      FlattenSeq([p \in 1..Len(t[files[f]]) |->
        LET d == t[files[f]][p]
        IN IF d.kind = kinds[k]
           THEN LET ns == SetToSeq(d.names)
                IN [n \in 1..Len(ns) |-> [id |-> d.id, name |-> ns[n], file |-> files[f]]]
           ELSE <<>>])])])

Init ==
  /\ \E t \in Trees : tree = t
  /\ index = RowsOf(tree, <<"func", "proto", "gen">>, SetToSeq(Files))
  /\ mode \in {"one", "batch"}
  /\ apply \in BOOLEAN
  /\ pc = "ask" /\ turn = 1
  /\ req = NoReq /\ row = NoRow /\ plan = NoPlan
  /\ answers = <<>> /\ users = 0
  /\ raced = FALSE /\ landed = {} /\ unsure = FALSE

-----------------------------------------------------------------------------
\* Lookup.

\* query.LookupByName: exact names, or the same in any case.  Rows are named by
\* their place in the table.
LookupByName(n) ==
  LET exact == {i \in DOMAIN index : index[i].name = n}
  IN IF exact # {} THEN exact ELSE {i \in DOMAIN index : Fold(index[i].name) = Fold(n)}

\* The row a request is about, NoRow if it is refused: not found, ambiguous, or,
\* in a batch, in no file whose path has the text; else the first that is left.
Found(q) ==
  LET rows == IF q.at # 0 THEN {i \in DOMAIN index : index[i].id = q.at /\ index[i].name = q.name}
              ELSE LookupByName(q.name)
      here == {i \in rows : q.file = "" \/ PathHas(index[i].file, q.file)}
  IN IF here = {} \/ (q.file = "" /\ \E i, j \in rows : i # j) THEN NoRow
     ELSE index[CHOOSE i \in here : \A j \in here : i <= j]

-----------------------------------------------------------------------------
\* The edit of a file's content, internal/edit.

Declares(d, n) == n \in d.names \cup d.inner

MutantFindSymbol(c, n) == LET hits == {p \in DOMAIN c : Declares(c[p], n)}
                          IN IF hits = {} THEN 0 ELSE CHOOSE p \in hits : \A q \in hits : q <= p

\* FindSymbol, without a line: the first declaration of the bare name in source
\* order, be it a method, one of a group or local to a function; 0 if none.
FindSymbol(c, n) == LET hits == {p \in DOMAIN c : Declares(c[p], n)}
                    IN IF hits = {} THEN 0 ELSE CHOOSE p \in hits : \A q \in hits : p <= q

AtTop(c, q) == q.name \in c[FindSymbol(c, q.name)].names

\* What Apply refuses: no such symbol, a body asked of what has none, and code
\* that format.Source cannot parse there - functions stand at top level only,
\* statements in bodies only.
Accepted(c, q) ==
  /\ FindSymbol(c, q.name) # 0
  /\ q.op = "replace_body" => AtTop(c, q) /\ c[FindSymbol(c, q.name)].kind = "func"
  /\ q.code \in IF AtTop(c, q) /\ q.op # "replace_body" THEN {"func", "gen", "empty"}
                                                        ELSE {"gen", "stmt", "empty"}

\* The declaration that new code brings (requests that change nothing, such as
\* to insert no code, are left out: EditAssumption).  It has the name that was
\* asked for: a replacement, or a method of another type.
New(t) == Oldest + t
Code(q, t) == IF q.code = "empty" THEN <<>>
              ELSE <<[id |-> New(t), kind |-> q.code, names |-> {q.name}, inner |-> {}, body |-> {t}]>>

\* Code that lands inside a declaration: as its body, or beside or in place of
\* one local to it.
Within(d, q, t) ==
  IF q.op = "replace_body" THEN [d EXCEPT !.body = {t}, !.inner = {}]
  ELSE [d EXCEPT !.body = @ \cup {t},
                 !.inner = IF q.op = "replace_full" /\ q.code # "gen" THEN @ \ {q.name} ELSE @]

\* The content Apply makes.  A group is one declaration, replaced as a whole.
MutantEdited(c, q, t) ==
  LET p == FindSymbol(c, q.name)
      put(front, back) == SubSeq(c, 1, front) \o Code(q, t) \o SubSeq(c, back, Len(c))
  IN IF q.op = "replace_body" \/ ~AtTop(c, q) THEN [c EXCEPT ![p] = Within(@, q, t)]
     ELSE CASE q.op = "replace_full" -> put(p - 1, p + 2)
            [] q.op = "insert_after" -> put(p, p + 1)
            [] q.op = "insert_before" -> put(p - 1, p)
Edited(c, q, t) ==
  LET p == FindSymbol(c, q.name)
      put(front, back) == SubSeq(c, 1, front) \o Code(q, t) \o SubSeq(c, back, Len(c))
  IN IF q.op = "replace_body" \/ ~AtTop(c, q) THEN [c EXCEPT ![p] = Within(@, q, t)]
     ELSE CASE q.op = "replace_full" -> put(p - 1, p + 1)
            [] q.op = "insert_after" -> put(p, p + 1)
            [] q.op = "insert_before" -> put(p - 1, p)

-----------------------------------------------------------------------------
\* The command.

Final == mode = "one" \/ turn = MaxTurn
Mark == IF mode = "one" THEN 1 ELSE turn  \* an attempt repeats its request

\* Failures are collected, and the batch goes on.
Answer(a) ==
  /\ answers' = Append(answers, a)
  /\ turn' = IF Final THEN turn ELSE turn + 1
  /\ pc' = IF Final THEN "emit" ELSE "ask"

Ask ==
  /\ pc = "ask"
  /\ req' \in {q \in Requests : IF mode = "one" THEN q.file = "" /\ q.code # "empty" ELSE q.at = 0}
  /\ pc' = "resolve"
  /\ row' = NoRow /\ plan' = NoPlan
  /\ UNCHANGED <<tree, index, mode, apply, turn, answers, users, raced, landed, unsure>>

Resolve ==
  /\ pc = "resolve"
  /\ row' = Found(req)
  /\ pc' = "read"
  /\ row' # NoRow
  /\ UNCHANGED <<tree, index, mode, apply, turn, req, plan, answers, users, raced, landed, unsure>>

Unresolved ==
  /\ pc = "resolve"
  /\ Found(req) = NoRow
  /\ Answer("unresolved")
  /\ row' = NoRow
  /\ UNCHANGED <<tree, index, mode, apply, req, plan, users, raced, landed, unsure>>

\* os.ReadFile, parser.ParseFile, the edit and its formatting.
Read ==
  /\ pc = "read"
  /\ raced' = FALSE
  /\ LET c == tree[row.file]  q == [req EXCEPT !.name = row.name]
     IN IF Accepted(c, q)
        THEN /\ plan' = [file |-> row.file, id |-> c[FindSymbol(c, q.name)].id,
                         old |-> c, new |-> Edited(c, q, Mark)]
             /\ IF apply THEN pc' = "write" /\ UNCHANGED <<turn, answers>> ELSE Answer("dry-run")
        ELSE Answer("failed") /\ plan' = NoPlan
  /\ UNCHANGED <<tree, index, mode, apply, req, row, users, landed, unsure>>

Renamed == /\ tree' = [tree EXCEPT ![plan.file] = plan.new]
           /\ landed' = landed \cup {turn}

\* atomicfile.WriteFile succeeds; fails after the rename, on the directory's
\* fsync; or fails before it.
Write ==
  /\ pc = "write"
  /\ Renamed
  /\ Answer("applied")
  /\ UNCHANGED <<index, mode, apply, req, row, plan, users, raced, unsure>>

WriteUnsynced ==
  /\ pc = "write"
  /\ Renamed
  /\ pc' = "verify"
  /\ UNCHANGED <<index, mode, apply, turn, req, row, plan, answers, users, raced, unsure>>

WriteFails ==
  /\ pc = "write"
  /\ pc' = "verify"
  /\ UNCHANGED <<tree, index, mode, apply, turn, req, row, plan, answers, users, raced, landed, unsure>>

\* The file is read back: what is there now tells whether the rename landed.
MutantReadBack ==
  /\ pc = "verify"
  /\ Answer(IF tree[plan.file] = plan.old THEN "not durable" ELSE "failed")
  /\ unsure' = (unsure \/ (turn \in landed /\ tree[plan.file] # plan.new))
  /\ UNCHANGED <<tree, index, mode, apply, req, row, plan, users, raced, landed>>
ReadBack ==
  /\ pc = "verify"
  /\ Answer(IF tree[plan.file] = plan.new THEN "not durable" ELSE "failed")
  /\ unsure' = (unsure \/ (turn \in landed /\ tree[plan.file] # plan.new))
  /\ UNCHANGED <<tree, index, mode, apply, req, row, plan, users, raced, landed>>

ReadBackFails ==
  /\ pc = "verify"
  /\ Answer("failed")
  /\ unsure' = (unsure \/ turn \in landed)
  /\ UNCHANGED <<tree, index, mode, apply, req, row, plan, users, raced, landed>>

Emit ==
  /\ pc = "emit"
  /\ pc' = "done"
  /\ UNCHANGED <<tree, index, mode, apply, turn, req, row, plan, answers, users, raced, landed, unsure>>

Die ==
  /\ pc \notin {"done", "dead"}
  /\ pc' = "dead"
  /\ answers' = <<>>
  /\ unsure' = (unsure \/ landed # {})
  /\ UNCHANGED <<tree, index, mode, apply, turn, req, row, plan, users, raced, landed>>

\* The client was told of a failure, or of nothing, and repeats its command.
Retry ==
  /\ mode = "one" /\ turn < MaxTurn
  /\ pc = "dead" \/ (pc = "done" /\ answers = <<"failed">>)
  /\ req # NoReq
  /\ pc' = "resolve"
  /\ turn' = turn + 1
  /\ answers' = <<>>
  /\ UNCHANGED <<tree, index, mode, apply, req, row, plan, users, raced, landed, unsure>>

\* The user adds a declaration at the top of a file.
UserEdits(f, n) ==
  /\ users < MaxUser
  /\ users' = users + 1
  /\ tree' = [tree EXCEPT ![f] = <<[id |-> New(MaxTurn + 1 + users), kind |-> "func", names |-> {n},
                                    inner |-> {}, body |-> {}]>> \o @]
  /\ raced' = (raced \/ f = plan.file)
  /\ UNCHANGED <<index, mode, apply, pc, turn, req, row, plan, answers, landed, unsure>>

Next ==
  \/ Ask \/ Resolve \/ Unresolved \/ Read \/ Write \/ WriteUnsynced \/ WriteFails
  \/ ReadBack \/ ReadBackFails \/ Emit \/ Die \/ Retry
  \/ \E f \in Files, n \in Names : UserEdits(f, n)

Spec == Init /\ [][Next]_vars

-----------------------------------------------------------------------------
\* An answer is true (ErrAppliedNotDurable, ast.go): what is reported applied
\* is on disk, and what is reported failed, unresolved or a dry run is not -
\* but for a landed write whose error could not be told from a lost one - so
\* that "a client can't retry and double-apply": however often an edit is
\* repeated after a failure, its code is in the files once.
OnDisk(i) == IF mode = "one" THEN landed # {} ELSE i \in landed
Copies(t) == UNION {{<<f, p>> : p \in {x \in DOMAIN tree[f] : tree[f][x].id = New(t)}} : f \in Files}

AnswerIsTrue ==
  /\ \A i \in DOMAIN answers : IF answers[i] \in {"applied", "not durable"} THEN OnDisk(i)
                               ELSE OnDisk(i) => unsure
  /\ \A t \in 1..MaxTurn : unsure \/ Cardinality(Copies(t)) <= 1

\* A landed edit changes one declaration: those of the user and of the batch's
\* earlier requests are in the file as they were and in their order, unless the
\* user saved it between reading and renaming.
Others(c) ==
  LET others == {i \in DOMAIN c : c[i].id \notin {plan.id, New(Mark)}}
  IN {<<c[x[1]], c[x[2]]>> : x \in {y \in others \X others : y[1] <= y[2]}}

OnlyTargetChanges ==
  [][Write \/ WriteUnsynced => raced \/ Others(tree[plan.file]) = Others(tree'[plan.file])]_vars

\* An edit reaches the declaration that the lookup chose, by position, by file
\* or by being the only one, unless a namesake stands ahead of it in the file as
\* it is now; the request carries a name and no line (runEdit, runBatchEdit).
TargetUnlessNamesake ==
  plan # NoPlan =>
    \/ plan.id = row.id
    \/ \E p \in DOMAIN plan.old : /\ Declares(plan.old[p], row.name)
                                  /\ \A q \in DOMAIN plan.old : plan.old[q].id = row.id => p < q

=============================================================================
