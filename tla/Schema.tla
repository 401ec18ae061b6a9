------------------------------- MODULE Schema --------------------------------
(***************************************************************************)
(* Opening the index database (internal/store/store.go, schema.go).        *)
(* Every command opens it, whether or not another one is opening it as     *)
(* well, and each open migrates it to the version its binary was built     *)
(* for.  The version is read once, before the loop over the migrations,    *)
(* and outside any transaction; each migration is then one transaction.    *)
(* An open may fail at any statement, and its process die: nothing of an   *)
(* open transaction is kept.                                               *)
(***************************************************************************)
EXTENDS Naturals

CONSTANTS Process,    \* processes, each of which opens the store once
          Latest,     \* version of the newest migration any binary has
          Binaries,   \* schemaVersion of the binaries in use
          Rerunnable  \* migrations that succeed when they are applied again

ASSUME SchemaAssumption == /\ Latest \in Nat \ {0}
                           /\ Binaries \subseteq 1..Latest
                           /\ Rerunnable \subseteq 1..Latest

VARIABLES
  applied,    \* migrations whose tables and columns exist
  recorded,   \* rows of the table "migrations"
  advertised, \* meta "schema_version", 0 if the key is absent
  pc,         \* where each open is
  bin,        \* schemaVersion of each process's binary
  next,       \* the migration each open turns to
  overtaken   \* history: opens during which another process migrated

vars == <<applied, recorded, advertised, pc, bin, next, overtaken>>

Versions == 1..Latest

Steps == {"start", "read", "migrate", "check", "stamp", "open", "refused", "ended"}

\* SELECT COALESCE(MAX(version), 0) FROM migrations, and the same with a
\* failed query taken for an empty table.
Highest == IF recorded = {} THEN 0
           ELSE CHOOSE v \in recorded : \A w \in recorded : w <= v
MutantCurrent == 0
Current == Highest

\* A database that other releases left behind: a prefix of the migrations, and
\* a schema_version unless the release is older than the key.
Init ==
  /\ \E v \in 0..Latest : /\ applied = 1..v
                          /\ recorded = 1..v
                          /\ advertised \in {0, v}
                          /\ advertised = 0 => \A b \in Binaries : v <= b
  /\ pc = [p \in Process |-> "start"]
  /\ bin \in [Process -> Binaries]
  /\ next = [p \in Process |-> 1]
  /\ overtaken = {}

\* Once getCurrentMigrationVersion has run, it does not run again: whoever is
\* past it does not see what others commit.
InProgress == {p \in Process : pc[p] \in {"migrate", "check", "stamp"}}

\* After migration v of p's list: the next one, or none is left.
MutantAfter(p, v) == IF v + 1 < bin[p] THEN "migrate" ELSE "check"
After(p, v) == IF v < bin[p] THEN "migrate" ELSE "check"

\* MkdirAll, sql.Open, the pragmas and CREATE TABLE IF NOT EXISTS migrations:
\* nothing that a second process could undo or observe.
Connect(p) ==
  /\ pc[p] = "start"
  /\ pc' = [pc EXCEPT ![p] = "read"]
  /\ UNCHANGED <<applied, recorded, advertised, bin, next, overtaken>>

\* getCurrentMigrationVersion; migrations up to it are skipped by the loop.
ReadVersion(p) ==
  /\ pc[p] = "read"
  /\ next' = [next EXCEPT ![p] = Current + 1]
  /\ pc' = [pc EXCEPT ![p] = After(p, Current)]
  /\ UNCHANGED <<applied, recorded, advertised, bin, overtaken>>

\* runMigration, committed: DDL, its row and schema_version.
MutantMigrate(p) ==
  /\ pc[p] = "migrate"
  /\ next[p] \notin applied \/ next[p] \in Rerunnable
  /\ applied' = applied \cup {next[p]}
  /\ recorded' = recorded \cup {next[p]}
  /\ advertised' = bin[p]
  /\ next' = [next EXCEPT ![p] = @ + 1]
  /\ pc' = [pc EXCEPT ![p] = After(p, next[p])]
  /\ overtaken' = overtaken \cup (InProgress \ {p})
  /\ UNCHANGED bin

Migrate(p) ==
  /\ pc[p] = "migrate"
  /\ next[p] \notin applied \/ next[p] \in Rerunnable
  /\ applied' = applied \cup {next[p]}
  /\ recorded' = recorded \cup {next[p]}
  /\ advertised' = next[p]
  /\ next' = [next EXCEPT ![p] = @ + 1]
  /\ pc' = [pc EXCEPT ![p] = After(p, next[p])]
  /\ overtaken' = overtaken \cup (InProgress \ {p})
  /\ UNCHANGED bin

\* runMigration, rolled back: ALTER TABLE ... ADD COLUMN finds the column.
Duplicate(p) ==
  /\ pc[p] = "migrate"
  /\ next[p] \in applied \ Rerunnable
  /\ pc' = [pc EXCEPT ![p] = "refused"]
  /\ UNCHANGED <<applied, recorded, advertised, bin, next, overtaken>>

\* After the loop: is there a schema_version at all?
CheckMeta(p) ==
  /\ pc[p] = "check"
  /\ pc' = [pc EXCEPT ![p] = IF advertised = 0 THEN "stamp" ELSE "open"]
  /\ UNCHANGED <<applied, recorded, advertised, bin, next, overtaken>>

\* The bootstrap write, outside any transaction.
Stamp(p) ==
  /\ pc[p] = "stamp"
  /\ advertised' = bin[p]
  /\ pc' = [pc EXCEPT ![p] = "open"]
  /\ UNCHANGED <<applied, recorded, bin, next, overtaken>>

\* Another error (the database is locked, the disk is full) or death at any
\* statement, and the end of the command.
End(p) ==
  /\ pc[p] \notin {"start", "ended"}
  /\ pc' = [pc EXCEPT ![p] = "ended"]
  /\ UNCHANGED <<applied, recorded, advertised, bin, next, overtaken>>

Next == \E p \in Process :
          \/ Connect(p) \/ ReadVersion(p) \/ Migrate(p) \/ Duplicate(p)
          \/ CheckMeta(p) \/ Stamp(p) \/ End(p)

Spec == Init /\ [][Next]_vars

-----------------------------------------------------------------------------
\* Types; schema_version is never one that no binary knows (schema.go, Stamp
\* and runMigration).
TypeOK ==
  /\ applied \subseteq Versions
  /\ recorded \subseteq Versions
  /\ advertised \in 0..Latest
  /\ pc \in [Process -> Steps]
  /\ bin \in [Process -> Binaries]
  /\ next \in [Process -> 1..(Latest + 1)]
  /\ overtaken \subseteq Process

\* "meta is always atomically consistent with the migrations table": the
\* advertised version is the highest one recorded - unless an open went on with
\* a version it had read before another process migrated, and applied a
\* migration of the past again.  No later open repairs that.
AdvertisedUnlessOvertaken == advertised \in {0, Highest} \/ overtaken # {}

\* An open is refused for a column that exists already only if another process
\* migrated meanwhile; no crash and no sequence of opens gets there.
RefusedOnlyIfOvertaken == \A p \in Process : pc[p] = "refused" => p \in overtaken

\* Racing opens look like one process that migrates: see Migrations.
Granted == [p \in Process |-> IF pc[p] = "open" THEN bin[p] ELSE 0]

M == INSTANCE Migrations WITH version <- Highest, granted <- Granted

ImplementsMigrations == M!Spec

=============================================================================
