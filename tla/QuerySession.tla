----------------------------- MODULE QuerySession -----------------------------
(***************************************************************************)
(* The query commands of cmd as a client meets them: it asks the same      *)
(* question until it has what it wants, each time in a new process that    *)
(* resolves the text again, and an index run may come in between.          *)
(***************************************************************************)
EXTENDS Commands

CONSTANTS
  Start,        \* indexes a session starts with
  Sessions,     \* [verb, arg, how, lim, sel, room, keep, given, text]: what a client may do
  MaxOffset,    \* bounds: no client asks beyond this offset
  MaxLimit,     \* or with a larger limit
  Moving        \* the references that an index run may bring or remove

VARIABLES
  d,        \* the index
  s,        \* the session: one of Sessions, with off, got and pc
  whole,    \* the whole answer, for comparison
  moved     \* an index run has changed the index during it

vars == <<d, s, whole, moved>>

ASSUME SessionsAssumption ==
  /\ Start \subseteq Indexes /\ \A r \in Moving : r \in DOMAIN Refs /\ Refs[r].enc # 0
  /\ \A q \in Sessions : /\ {"verb", "arg", "how", "lim", "sel", "room", "keep", "given", "text"} \subseteq DOMAIN q
                         /\ q.verb \in Verbs /\ q.lim \in Nat \ {0} /\ q.room \in Nat
                         /\ q.given \in BOOLEAN /\ q.text \in BOOLEAN /\ (q.text => q.verb # "pkg")
                         /\ q.sel \in {"all"} \cup DOMAIN Selects /\ q.how \in {"advice", "raise", "stride", "once"}

-----------------------------------------------------------------------------
(* The client.                                                             *)

\* The fields of new, and those of old that new has not.
Over(new, old) == [k \in DOMAIN new \cup DOMAIN old |-> IF k \in DOMAIN new THEN new[k] ELSE old[k]]

Init == /\ d \in Start
        /\ s \in {Over([off |-> 0, got |-> {}, pc |-> "asks"], q) : q \in Sessions}
        /\ whole = Whole(d, s)
        /\ moved = FALSE

Refuse == /\ s.pc = "asks" /\ Refused(d, s)
          /\ s' = [s EXCEPT !.pc = "refused"]
          /\ UNCHANGED <<d, whole, moved>>

\* A way of reading: what the client has afterwards, and where it goes on.
Read(got, off, lim, more) ==
  s' = [s EXCEPT !.got = got, !.off = off, !.lim = lim, !.given = @ \/ lim # s.lim, !.pc = IF more THEN "asks" ELSE "done"]

Ask == /\ s.pc = "asks" /\ ~Refused(d, s) /\ s.off <= MaxOffset /\ s.lim <= MaxLimit
       /\ \E a \in {Answer(d, s, Resolve(d, s.verb, s.arg)[1], s.off)} :
          \E printed \in {IF s.text THEN Printed(s, a) ELSE a.shown} :
            LET rows == Range(printed)
                more == a.truncated \/ (s.text /\ Hidden(a, printed))
            IN CASE s.how = "once"   -> Read(rows, s.off, s.lim, FALSE)
                 [] s.how = "advice" -> Read(s.got \cup rows, s.off + a.total, s.lim, a.truncated)
                 [] s.how = "raise"  -> Read(rows, s.off, IF more THEN 2 * s.lim ELSE s.lim, more)
                 [] s.how = "stride" -> Read(s.got \cup rows, s.off + s.lim, s.lim, rows # {})
       /\ UNCHANGED <<d, whole, moved>>

\* An index run: a reference appears or disappears, with the calls it is of.
Reindex == /\ s.pc = "asks" /\ ~moved
           /\ \E r \in Moving : \E call \in {[from |-> Refs[r].enc, to |-> Refs[r].sym, line |-> Refs[r].line]} :
              \E calls \in {{c \in DOMAIN Calls : Calls[c] = call}} :
              \E db \in {IF r \in d.refs THEN [d EXCEPT !.refs = @ \ {r}, !.calls = @ \ calls]
                        ELSE [d EXCEPT !.refs = @ \cup {r}, !.calls = @ \cup calls]} :
                Consistent(db) /\ d' = db /\ whole' = Whole(db, s)
           /\ moved' = TRUE
           /\ UNCHANGED s

Next == Refuse \/ Ask \/ Reindex

Spec == Init /\ [][Next]_vars

-----------------------------------------------------------------------------
(* What the answers promise.                                               *)

\* The commands and ways of reading that lead to the whole answer.  callers,
\* callees and importers drop repetitions from a page that was cut before, so
\* that a short page need not be the last, and importers the files of the build
\* cache, so that an empty one need not be; lits says that it was truncated on
\* each page but the only one; pkg and def --pkg go on with other packages; def
\* says nothing of a page that is full; filters, selection and budgets take
\* from a page.
Repeats == {"callers", "callees", "importers"}
Exact ==
  /\ s.sel = "all" /\ s.room = 0 /\ s.keep = "" /\ ~s.text
  /\ s.how # "once" /\ s.verb \notin {"impact", "exports"}
  /\ s.verb \in {"callers", "callees", "importers", "file"} => s.how = "stride"
  /\ s.verb = "importers" => \A r \in Range(FindImporters(d, s.arg)) : Imports[r].file \notin Cached
  /\ s.verb = "lits" => s.how # "advice"
  /\ s.verb = "pkg" => s.how = "raise"

Rows     == IF Exact THEN whole ELSE <<>>
Way      == IF Exact THEN s.how ELSE "advice"
Offset   == IF Exact THEN s.off ELSE 0
Limit    == IF Exact THEN s.lim ELSE 1
Holds    == IF Exact THEN s.got ELSE {}
HasEnded == Exact /\ s.pc = "done"
Pages == INSTANCE Pager WITH
  rows <- Rows, how <- Way, off <- Offset, lim <- Limit, got <- Holds, done <- HasEnded, moved <- moved

\* For the commands and ways of Exact, resolving, limit and offset, repeated
\* rows, ranking and Truncated implement the pages of a list, also when an
\* index run changes the answer between two of them.
ImplementsPages == Pages!Spec

\* Who reads the text, and asks with a larger limit as long as a line says
\* that there is more, has the whole answer in the end, although the text cuts
\* code and tests apart from each other and from the page.  (Who goes on at
\* the offset the text names instead has missed what the cap hid.)
TextComplete ==
  /\ s.text /\ s.how = "raise" /\ s.pc = "done" /\ s.verb # "impact"
  /\ s.sel = "all" /\ s.room = 0 /\ s.keep = "" /\ ~moved
  /\ s.verb \notin Repeats \cup {"file", "exports"}
  => s.got = Range(whole)

\* What is true of the index alone is looked at where one kind of question
\* about it is asked.
Reading(verb) == s.verb = verb /\ s.how = "once" /\ s.pc = "asks"

\* Every way of asking for a symbol finds it: the form in which a result
\* shows it, its name with the path of its package (which finds it in that
\* package only), the place of its name and of each of its references.
Shown(i) == [form |-> IF Sym[i].of = 0 THEN "plain" ELSE "paren", pkg |-> <<>>, type |-> Sym[i].of, ptr |-> Sym[i].ptr, name |-> Sym[i].name]
InPackage(i) == [form |-> "path", pkg |-> Sym[i].pkg, type |-> 0, ptr |-> FALSE, name |-> Sym[i].name]
NamesResolve ==
  Reading("refs") =>
  /\ \A i \in d.syms :
       /\ i \in Range(LookupByName(d, Shown(i)))
       /\ LET found == Range(LookupByName(d, InPackage(i)))
          IN i \in found /\ \A j \in found : Sym[j].pkg = Sym[i].pkg
       /\ ResolvePosition(d, [file |-> Sym[i].file, line |-> Sym[i].line, col |-> Sym[i].col]) = i
  /\ \A r \in d.refs : ResolvePosition(d, [file |-> Refs[r].file, line |-> Refs[r].line, col |-> Refs[r].col]) = Refs[r].sym

\* The impact of a type contains that of each of its methods, and all of what
\* is called directly by code or tests is in the impact of what it calls.  An
\* exported symbol that no reference was counted for has no impact but that of
\* its methods, and if tests do not count none in code but by a file that LIKE
\* takes for a test; only a method may be called nevertheless, through an
\* interface.  The limit is one that cuts nothing: a caller is listed once for
\* each path of one or two calls.
Uncut == Len(Sym) + Len(Calls) + Len(Calls) * Len(Calls)
Reach(t, direct) == Range(Impact(d, t, direct, Uncut))
BlastRadius ==
  Reading("impact") => \A t \in d.syms :
    /\ Reach(t, TRUE) \subseteq Reach(t, FALSE)
    /\ \A m \in Targets(d, t) : Reach(m, FALSE) \subseteq Reach(t, FALSE)
    /\ {i \in {Calls[c].from : c \in {c \in d.calls : Calls[c].to = t}} : InCode(i) \/ IsTest(i)} \subseteq Reach(t, FALSE)
    /\ Sym[t].kind # "method" =>
         /\ t \in FindDeadExports(d, TRUE) =>
              FindRefs(d, t) = <<>> /\ Reach(t, FALSE) = UNION {Reach(m, FALSE) : m \in Targets(d, t) \ {t}}
         /\ t \in FindDeadExports(d, FALSE) =>
              \A i \in Range(FindImpactCallers(d, {t}, TRUE)) : Sym[i].file \in LikeTest
=============================================================================
