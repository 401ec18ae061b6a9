----------------------------- MODULE StoreProofs -----------------------------
(***************************************************************************)
(* What the files under .snipe keep true through crashes and races.        *)
(*                                                                         *)
(* The database, for any migrations, binaries and opens at once (Schema):  *)
(* it goes through the migrations in order, and what can go wrong needs an *)
(* open that another one overtook.                                         *)
(*                                                                         *)
(* The lock file (IndexLock, in the second part): what AcquireLock and     *)
(* ReleaseLock guarantee as long as no process acts inside another one's   *)
(* unprotected window, and what they guarantee regardless.                 *)
(*                                                                         *)
(* batch_state.json (BatchEmbed, in the third part): a job that is billed  *)
(* and neither saved nor given up is named by it.                          *)
(***************************************************************************)
EXTENDS Schema, IndexLock, BatchEmbed, TLAPS

\* The database holds migrations 1..h and says so.
Prefix(h) == applied = 1..h /\ recorded = 1..h

\* What an open knows: it is never ahead of the database, and not behind it
\* unless it was overtaken.
KnownInv(h) ==
  \A p \in Process :
    /\ pc[p] = "migrate" => next[p] <= bin[p] /\ next[p] <= h + 1
    /\ pc[p] = "migrate" /\ p \notin overtaken => next[p] = h + 1
    /\ pc[p] \in {"check", "stamp", "open"} => bin[p] <= h
    /\ pc[p] = "refused" => p \in overtaken

\* schema_version trails only after somebody was overtaken; while it is absent
\* no migration has run, so that nobody's binary is older than the database.
AdvertisedInv(h) ==
  /\ advertised \in {0, h} \/ overtaken # {}
  /\ \A p \in Process : advertised = 0 \/ pc[p] = "stamp" =>
       h <= bin[p] \/ overtaken # {}

IInv == /\ TypeOK
        /\ \E h \in 0..Latest : Prefix(h) /\ KnownInv(h) /\ AdvertisedInv(h)

LEMMA HighestOfPrefix ==
  ASSUME NEW h \in Nat, recorded = 1..h
  PROVE  Highest = h
<1>1. CASE h = 0
  <2>1. recorded = {}
    BY <1>1, SMT
  <2> QED BY <2>1, <1>1 DEF Highest
<1>2. CASE h # 0
  <2>1. h \in recorded /\ \A w \in recorded : w <= h
    BY <1>2, SMT
  <2>2. \A v \in recorded : (\A w \in recorded : w <= v) => v = h
    BY <2>1, SMT
  <2> QED BY <2>1, <2>2 DEF Highest
<1> QED BY <1>1, <1>2

LEMMA InitIInv == Init => IInv
<1> SUFFICES ASSUME Init PROVE IInv
  OBVIOUS
<1> USE SchemaAssumption
<1>1. PICK v \in 0..Latest : /\ applied = 1..v /\ recorded = 1..v
                             /\ advertised \in {0, v}
                             /\ advertised = 0 => \A b \in Binaries : v <= b
  BY DEF Init
<1>2. TypeOK
  BY <1>1 DEF Init, TypeOK, Versions, Steps
<1>3. Prefix(v) /\ KnownInv(v)
  BY <1>1 DEF Init, Prefix, KnownInv
<1>4. AdvertisedInv(v)
  BY <1>1 DEF Init, AdvertisedInv
<1> QED BY <1>2, <1>3, <1>4 DEF IInv

LEMMA NextIInv == IInv /\ [Next]_vars => IInv'
<1> SUFFICES ASSUME IInv, [Next]_vars PROVE IInv'
  OBVIOUS
<1> USE SchemaAssumption
<1>0. PICK h \in 0..Latest : Prefix(h) /\ KnownInv(h) /\ AdvertisedInv(h)
  BY DEF IInv
<1>h. h \in Nat /\ Highest = h
  BY <1>0, HighestOfPrefix DEF Prefix
<1>t. /\ TypeOK
      /\ Binaries \subseteq 1..Latest /\ Latest \in Nat
      /\ \A p \in Process : bin[p] \in 1..Latest /\ next[p] \in 1..(Latest + 1)
  BY DEF IInv, TypeOK
<1>1. CASE UNCHANGED vars
  BY <1>t, <1>0, <1>1 DEF IInv, TypeOK, Prefix, KnownInv, AdvertisedInv, vars
<1>2. ASSUME NEW p \in Process, Connect(p) PROVE IInv'
  BY <1>t, <1>0, <1>2 DEF IInv, TypeOK, Steps, Prefix, KnownInv, AdvertisedInv, Connect
<1>3. ASSUME NEW p \in Process, ReadVersion(p) PROVE IInv'
  <2>1. pc'[p] \in {"migrate", "check"} /\ next'[p] = h + 1
    BY <1>t, <1>h, <1>3 DEF TypeOK, ReadVersion, After, Current
  <2>2. pc'[p] = "migrate" => h + 1 <= bin[p]
    BY <1>t, <1>h, <1>3 DEF TypeOK, ReadVersion, After, Current
  <2>3. pc'[p] = "check" => bin[p] <= h
    BY <1>t, <1>h, <1>3 DEF TypeOK, ReadVersion, After, Current
  <2>4. TypeOK'
    BY <1>t, <1>h, <1>3, <2>1 DEF TypeOK, Steps, ReadVersion, After, Current
  <2>5. Prefix(h)' /\ AdvertisedInv(h)'
    BY <1>t, <1>0, <1>3, <2>1 DEF TypeOK, Prefix, AdvertisedInv, ReadVersion
  <2>6. KnownInv(h)'
    BY <1>t, <1>0, <1>3, <2>1, <2>2, <2>3 DEF TypeOK, KnownInv, ReadVersion
  <2> QED BY <1>t, <2>4, <2>5, <2>6 DEF IInv
<1>4. ASSUME NEW p \in Process, Migrate(p) PROVE IInv'
  <2>0. PICK n \in 1..(Latest + 1) : n = next[p]
    BY <1>t
  <2>k. pc[p] = "migrate"
    BY <1>4 DEF Migrate
  <2>1. n \in 1..(h + 1) /\ n <= bin[p] /\ n \in Versions
    <3>1. next[p] <= bin[p] /\ next[p] <= h + 1
      BY <1>0, <2>k DEF KnownInv
    <3> QED BY <1>t, <1>h, <2>0, <3>1 DEF Versions
  <2>2. pc'[p] \in {"migrate", "check"} /\ next'[p] = n + 1
    BY <1>t, <2>0, <1>4 DEF TypeOK, Migrate, After
  <2>3. /\ pc'[p] = "migrate" => n + 1 <= bin[p]
        /\ pc'[p] = "check" => bin[p] = n
    BY <1>t, <2>0, <1>4, <2>1 DEF TypeOK, Migrate, After
  <2>4. TypeOK'
    <3>1. n + 1 \in 1..(Latest + 1) /\ n \in 0..Latest
      BY <1>t, <2>0, <2>1 DEF Versions
    <3>2. applied' \subseteq Versions /\ recorded' \subseteq Versions
      BY <1>t, <2>0, <1>4, <2>1 DEF TypeOK, Migrate
    <3>3. pc' \in [Process -> Steps] /\ next' \in [Process -> 1..(Latest + 1)]
      BY <1>t, <2>0, <1>4, <2>2, <3>1 DEF TypeOK, Steps, Migrate, After
    <3>4. advertised' \in 0..Latest /\ overtaken' \subseteq Process
      BY <1>t, <2>0, <1>4, <3>1 DEF TypeOK, Migrate, InProgress
    <3> QED BY <1>t, <1>4, <3>2, <3>3, <3>4 DEF TypeOK, Migrate
  <2>5. CASE n = h + 1
    <3>1. n \in 0..Latest /\ Prefix(n)'
      BY <1>t, <2>0, <1>0, <1>4, <2>1, <2>5 DEF Prefix, Migrate, Versions
    <3>2. KnownInv(n)'
      <4> SUFFICES ASSUME NEW q \in Process PROVE KnownInv(n)!(q)'
        BY DEF KnownInv
      <4>1. CASE q = p
        BY <1>t, <2>0, <4>1, <1>4, <2>1, <2>2, <2>3, <2>5 DEF Migrate
      <4>2. CASE q # p
        <5>1. pc'[q] = pc[q] /\ next'[q] = next[q] /\ bin' = bin
          BY <1>t, <2>0, <4>2, <1>4 DEF Migrate, TypeOK
        <5>2. pc[q] = "migrate" => q \in overtaken'
          BY <1>t, <2>0, <4>2, <1>4 DEF Migrate, InProgress
        <5>3. overtaken \subseteq overtaken'
          BY <1>t, <2>0, <1>4 DEF Migrate
        <5>4. next[q] \in Nat /\ bin[q] \in Nat
          BY <1>t
        <5> QED BY <1>t, <2>0, <5>1, <5>2, <5>3, <5>4, <1>0, <2>5 DEF KnownInv
      <4> QED BY <4>1, <4>2
    <3>3. AdvertisedInv(n)'
      <4>1. advertised' = n /\ n # 0
        BY <1>t, <2>0, <1>4, <2>1 DEF Migrate
      <4>2. ASSUME NEW q \in Process, pc'[q] = "stamp" PROVE overtaken' # {}
        BY <1>t, <2>0, <1>4, <2>2, <4>2 DEF Migrate, InProgress, TypeOK
      <4> QED BY <1>t, <2>0, <4>1, <4>2, <2>1 DEF AdvertisedInv
    <3> QED BY <1>t, <2>0, <2>4, <3>1, <3>2, <3>3 DEF IInv
  <2>6. CASE n # h + 1
    <3>1. n \in 1..h
      BY <1>h, <2>1, <2>6
    <3>2. p \in overtaken
      BY <1>t, <2>0, <1>0, <1>4, <2>6 DEF KnownInv, Migrate
    <3>3. Prefix(h)'
      BY <1>t, <2>0, <1>0, <1>4, <3>1 DEF Prefix, Migrate
    <3>4. KnownInv(h)'
      <4> SUFFICES ASSUME NEW q \in Process PROVE KnownInv(h)!(q)'
        BY DEF KnownInv
      <4>1. CASE q = p
        BY <1>t, <2>0, <4>1, <1>4, <2>1, <2>2, <2>3, <3>1, <3>2 DEF Migrate
      <4>2. CASE q # p
        BY <1>t, <2>0, <4>2, <1>0, <1>4 DEF Migrate, KnownInv, TypeOK
      <4> QED BY <4>1, <4>2
    <3>5. AdvertisedInv(h)'
      BY <1>t, <2>0, <1>4, <3>2 DEF AdvertisedInv, Migrate
    <3> QED BY <1>t, <2>0, <2>4, <3>3, <3>4, <3>5 DEF IInv
  <2> QED BY <2>5, <2>6
<1>5. ASSUME NEW p \in Process, Duplicate(p) PROVE IInv'
  <2>1. p \in overtaken
    BY <1>t, <1>0, <1>5 DEF Duplicate, KnownInv, Prefix, TypeOK
  <2>2. TypeOK' /\ Prefix(h)' /\ AdvertisedInv(h)'
    BY <1>t, <1>0, <1>5 DEF TypeOK, Steps, Prefix, AdvertisedInv, Duplicate
  <2>3. KnownInv(h)'
    BY <1>t, <1>0, <1>5, <2>1 DEF TypeOK, KnownInv, Duplicate
  <2> QED BY <2>2, <2>3 DEF IInv
<1>6. ASSUME NEW p \in Process, CheckMeta(p) PROVE IInv'
  BY <1>t, <1>0, <1>6 DEF IInv, TypeOK, Steps, Prefix, KnownInv, AdvertisedInv, CheckMeta
<1>7. ASSUME NEW p \in Process, Stamp(p) PROVE IInv'
  <2>1. bin[p] \in 1..Latest /\ bin[p] <= h
    BY <1>t, <1>0, <1>7 DEF Stamp, KnownInv, TypeOK
  <2>2. bin[p] = h \/ overtaken # {}
    BY <1>t, <1>0, <1>7, <2>1 DEF Stamp, AdvertisedInv
  <2>3. TypeOK' /\ Prefix(h)' /\ KnownInv(h)'
    BY <1>t, <1>0, <1>7, <2>1 DEF TypeOK, Steps, Prefix, KnownInv, Stamp
  <2>4. AdvertisedInv(h)'
    BY <1>t, <1>0, <1>7, <2>1, <2>2 DEF AdvertisedInv, Stamp, TypeOK
  <2> QED BY <1>t, <2>3, <2>4 DEF IInv
<1>8. ASSUME NEW p \in Process, End(p) PROVE IInv'
  BY <1>t, <1>0, <1>8 DEF IInv, TypeOK, Steps, Prefix, KnownInv, AdvertisedInv, End
<1> QED BY <1>1, <1>2, <1>3, <1>4, <1>5, <1>6, <1>7, <1>8 DEF Next

LEMMA Inductive == Spec => []IInv
<1> QED BY InitIInv, NextIInv, PTL DEF Spec

-----------------------------------------------------------------------------
\* Types, for any number of processes, migrations and binaries.
THEOREM TypeCorrect == Spec => []TypeOK
<1>1. IInv => TypeOK
  BY DEF IInv
<1> QED BY <1>1, Inductive, PTL

\* schema_version is the highest version recorded as long as no open was
\* overtaken by another process's migration (schema.go, runMigration).
THEOREM AdvertisedConsistent == Spec => []AdvertisedUnlessOvertaken
<1>1. IInv => AdvertisedUnlessOvertaken
  BY HighestOfPrefix DEF IInv, Prefix, AdvertisedInv, AdvertisedUnlessOvertaken
<1> QED BY <1>1, Inductive, PTL

\* The column of a migration exists already only for an open that was overtaken.
THEOREM RefusalNeedsRace == Spec => []RefusedOnlyIfOvertaken
<1>1. IInv => RefusedOnlyIfOvertaken
  BY DEF IInv, KnownInv, RefusedOnlyIfOvertaken
<1> QED BY <1>1, Inductive, PTL

\* Whatever opens race, the database goes through the migrations one by one, in
\* order and none twice, and an open that succeeds finds what its binary needs.
THEOREM Refinement == Spec => ImplementsMigrations
<1> USE SchemaAssumption
<1>1. Init => M!Init
  BY HighestOfPrefix DEF Init, M!Init, Granted
<1>2. IInv /\ [Next]_vars => [M!Next]_M!vars
  <2> SUFFICES ASSUME IInv, [Next]_vars PROVE [M!Next]_M!vars
    OBVIOUS
  <2>0. PICK h \in 0..Latest : Prefix(h) /\ KnownInv(h)
    BY DEF IInv
  <2>h. h \in Nat /\ Highest = h
    BY <2>0, HighestOfPrefix DEF Prefix
  <2>s. ASSUME recorded' = recorded PROVE Highest' = Highest
    BY <2>s DEF Highest
  <2>1. CASE UNCHANGED vars
    BY <2>1, <2>s DEF vars, M!vars, Granted
  <2>2. ASSUME NEW p \in Process,
               Connect(p) \/ ReadVersion(p) \/ Duplicate(p)
        PROVE  UNCHANGED M!vars
    <3>1. Highest' = Highest
      BY <2>2, <2>s DEF Connect, ReadVersion, Duplicate
    <3>2. \A q \in Process : pc'[q] = "open" <=> pc[q] = "open"
      BY <2>2 DEF Connect, ReadVersion, Duplicate, After, IInv, TypeOK
    <3>3. bin' = bin
      BY <2>2 DEF Connect, ReadVersion, Duplicate
    <3> QED BY <3>1, <3>2, <3>3 DEF M!vars, Granted
  <2>3. ASSUME NEW p \in Process, Migrate(p) PROVE M!Apply \/ UNCHANGED M!vars
    <3>0. pc[p] = "migrate"
      BY <2>3 DEF Migrate
    <3>a. next[p] \in Nat \ {0} /\ bin[p] \in 1..Latest
      <4>1. next[p] \in 1..(Latest + 1) /\ bin[p] \in Binaries
        BY DEF IInv, TypeOK
      <4>2. Latest \in Nat /\ Binaries \subseteq 1..Latest
        OBVIOUS
      <4>3. next[p] \in Nat \ {0}
        BY <4>1, <4>2, SMT
      <4>4. bin[p] \in 1..Latest
        BY <4>1, <4>2
      <4> QED BY <4>3, <4>4
    <3>b. next[p] <= bin[p] /\ next[p] <= h + 1
      BY <2>0, <3>0 DEF KnownInv
    <3>1. next[p] \in 1..(h + 1) /\ next[p] <= Latest
      BY <2>h, <3>a, <3>b
    <3>2. Granted' = Granted
      BY <2>3 DEF Migrate, Granted, After, IInv, TypeOK
    <3>3. CASE next[p] = h + 1
      <4>1. recorded' = 1..(h + 1)
        BY <2>0, <2>3, <3>3 DEF Prefix, Migrate
      <4>2. Highest' = h + 1
        <5> DEFINE Top(S) == IF S = {} THEN 0
                             ELSE CHOOSE v \in S : \A w \in S : w <= v
        <5>1. Top(1..(h + 1)) = h + 1
          <6>1. /\ h + 1 \in 1..(h + 1) /\ \A w \in 1..(h + 1) : w <= h + 1
                /\ \A v \in 1..(h + 1) : (\A w \in 1..(h + 1) : w <= v) => v = h + 1
            BY <2>h, SMT
          <6>2. 1..(h + 1) # {}
            BY <6>1
          <6>3. (CHOOSE v \in 1..(h + 1) : \A w \in 1..(h + 1) : w <= v) = h + 1
            BY <6>1, Zenon
          <6> QED BY <6>2, <6>3
        <5>2. Highest' = Top(recorded')
          BY DEF Highest
        <5> HIDE DEF Top
        <5> QED BY <5>1, <5>2, <4>1
      <4> QED BY <2>h, <3>1, <3>2, <3>3, <4>2 DEF M!Apply
    <3>4. CASE next[p] # h + 1
      <4>1. recorded' = recorded
        BY <2>0, <2>3, <3>1, <3>4 DEF Prefix, Migrate
      <4> QED BY <4>1, <2>s, <3>2 DEF M!vars
    <3> QED BY <3>3, <3>4
  <2>4. ASSUME NEW p \in Process, CheckMeta(p) \/ Stamp(p)
        PROVE  M!Grant(p, bin[p]) \/ UNCHANGED M!vars
    <3>1. Highest' = Highest /\ bin' = bin
      BY <2>4, <2>s DEF CheckMeta, Stamp
    <3>2. bin[p] \in 1..Latest /\ bin[p] <= h
      BY <2>0, <2>4 DEF CheckMeta, Stamp, KnownInv, IInv, TypeOK
    <3>3. CASE pc'[p] = "open"
      <4>1. Granted[p] = 0
        BY <2>4 DEF Granted, CheckMeta, Stamp
      <4>2. Granted' = [Granted EXCEPT ![p] = bin[p]]
        BY <2>4, <3>1, <3>3 DEF Granted, CheckMeta, Stamp, IInv, TypeOK
      <4> QED BY <4>1, <4>2, <3>1, <3>2, <2>h DEF M!Grant
    <3>4. CASE pc'[p] # "open"
      BY <2>4, <3>1, <3>4 DEF Granted, CheckMeta, Stamp, IInv, TypeOK, M!vars
    <3> QED BY <3>3, <3>4
  <2>5. ASSUME NEW p \in Process, End(p) PROVE M!Close(p)
    <3>1. Highest' = Highest /\ bin' = bin
      BY <2>5, <2>s DEF End
    <3>2. Granted' = [Granted EXCEPT ![p] = 0]
      BY <2>5, <3>1 DEF End, Granted, IInv, TypeOK
    <3> QED BY <3>1, <3>2 DEF M!Close
  <2>6. \A p \in Process : bin[p] \in 1..Latest
    BY DEF IInv, TypeOK
  <2> QED BY <2>1, <2>2, <2>3, <2>4, <2>5, <2>6 DEF Next, M!Next
<1> QED BY <1>1, <1>2, Inductive, PTL DEF Spec, M!Spec, ImplementsMigrations

-----------------------------------------------------------------------------
(* The lock file, for any number of indexers.                              *)

\* AcquireLock, WritePid and ReleaseLock treat the lock at the path as theirs.
Owning == {"write", "held", "release", "unlink"}

\* A PID in the lock is its creator's, and that process got as far as writing
\* it; unparseable contents are nobody's.
TextInv ==
  lock # NoLock =>
    /\ \A p \in Proc : lock.text = p =>
         /\ lock.by = p
         /\ at[p] \in {"held", "release", "unlink", "dead", "bystander"}
    /\ lock.text = Garbage => lock.by = Nobody

\* A process that believes to own the lock created the file that is there.
OwnerInv ==
  \A p \in Proc : at[p] \in Owning =>
    /\ lock # NoLock
    /\ lock.by = p
    /\ at[p] = "write" => lock.text = Empty
    /\ lock.text \in {Empty, p}

\* A process judged stale stays ended: its PID may be reused, but not by an
\* indexer.
VerdictInv ==
  \A q \in Proc : at[q] \in {"reread", "remove"} /\ observed[q] \in Proc =>
    at[observed[q]] \in {"dead", "bystander"}

\* A process about to unlink is about to unlink the lock of an ended process.
DoomedInv ==
  \A q \in Proc : at[q] = "remove" =>
    /\ lock # NoLock
    /\ \A p \in Proc : lock.by = p => at[p] \notin Owning

LockInv == /\ LockTypeOK
           /\ TextInv
           /\ VerdictInv
           /\ raced \/ (OwnerInv /\ DoomedInv)

-----------------------------------------------------------------------------
\* A lock file that a process creates or fills in is there.
LEMMA LockIsThere == \A p \in Proc : \A t \in {Empty, p} : [by |-> p, text |-> t] # NoLock
BY NoLockAssumption DEF LockFile, Contents

\* Start state: nobody runs, and a lock left behind is a dead process's.
LEMMA LockInitInv == LockInit => LockInv
<1> SUFFICES ASSUME LockInit PROVE LockInv
  OBVIOUS
<1> USE ConstAssumption, NoLockAssumption
<1>1. LockTypeOK
  <2>1. lock \in LockFile \cup {NoLock}
    BY DEF LockInit, LockFile, Contents
  <2>2. at \in [Proc -> LockSteps] /\ observed \in [Proc -> Contents]
    BY DEF LockInit, Contents, LockSteps
  <2> QED BY <2>1, <2>2 DEF LockInit, LockTypeOK
<1>2. TextInv
  BY DEF LockInit, TextInv
<1>3. VerdictInv /\ OwnerInv /\ DoomedInv
  BY DEF LockInit, VerdictInv, OwnerInv, DoomedInv, Owning
<1> QED BY <1>1, <1>2, <1>3 DEF LockInv

\* Every step of every process keeps the variables in their types.
LEMMA LockTypeStep == LockTypeOK /\ [LockNext]_lockVars => LockTypeOK'
<1> SUFFICES ASSUME LockTypeOK, [LockNext]_lockVars PROVE LockTypeOK'
  OBVIOUS
<1> USE ConstAssumption, NoLockAssumption DEF LockTypeOK, Goto
<1>1. CASE UNCHANGED lockVars
  BY <1>1 DEF lockVars
<1>2. ASSUME NEW p \in Proc, Create(p) \/ Retry(p) PROVE LockTypeOK'
  <2>1. raced' \in BOOLEAN
    BY <1>2, Zenon DEF Create, Retry
  <2>2. lock' \in LockFile \cup {NoLock}
    BY <1>2 DEF Create, Retry, LockFile, Contents
  <2>3. at' \in [Proc -> LockSteps] /\ observed' \in [Proc -> Contents]
    BY <1>2 DEF Create, Retry, LockSteps
  <2> QED BY <2>1, <2>2, <2>3
<1>3. ASSUME NEW p \in Proc, Verdict(p) PROVE LockTypeOK'
  BY <1>3 DEF Verdict, Observed, LockFile, Contents, LockSteps
<1>4. ASSUME NEW p \in Proc, Reread(p) \/ Remove(p) PROVE LockTypeOK'
  BY <1>4 DEF Reread, Remove, LockSteps, OtherUnlinking
<1>5. ASSUME NEW p \in Proc, WritePid(p) PROVE LockTypeOK'
  <2>1. raced' \in BOOLEAN
    BY <1>5, Zenon DEF WritePid, Created
  <2>2. lock' \in LockFile \cup {NoLock}
    BY <1>5 DEF WritePid, Created, LockFile, Contents
  <2>3. at' \in [Proc -> LockSteps] /\ observed' \in [Proc -> Contents]
    BY <1>5 DEF WritePid, Created, LockSteps
  <2> QED BY <2>1, <2>2, <2>3
<1>6. ASSUME NEW p \in Proc, ReleaseRead(p) \/ ReleaseUnlink(p) PROVE LockTypeOK'
  BY <1>6 DEF ReleaseRead, ReleaseUnlink, LockSteps, OtherUnlinking
<1>7. ASSUME NEW p \in Proc, Start(p) \/ Finish(p) \/ Die(p) \/ ReusePid(p) PROVE LockTypeOK'
  BY <1>7 DEF Start, Finish, Die, ReusePid, LockSteps
<1> QED BY <1>1, <1>2, <1>3, <1>4, <1>5, <1>6, <1>7 DEF LockNext, Step

\* The inductive step: one case per action of a process.
LEMMA LockStep == LockInv /\ [LockNext]_lockVars => LockInv'
<1> SUFFICES ASSUME LockInv, [LockNext]_lockVars PROVE LockInv'
  OBVIOUS
<1> USE ConstAssumption, NoLockAssumption
<1>0. LockTypeOK'
  BY LockTypeStep DEF LockInv
<1> DEFINE Rest == TextInv /\ VerdictInv /\ (raced \/ (OwnerInv /\ DoomedInv))
<1> SUFFICES Rest'
  BY <1>0 DEF LockInv
<1>1. CASE UNCHANGED lockVars
  BY <1>1 DEF LockInv, lockVars, TextInv, VerdictInv, OwnerInv, DoomedInv
<1>2. ASSUME NEW p \in Proc, Start(p) \/ Finish(p) PROVE Rest'
  BY <1>2 DEF LockInv, LockTypeOK, Start, Finish, Goto, TextInv, VerdictInv, OwnerInv, DoomedInv, Owning
<1>3. ASSUME NEW p \in Proc, Create(p) PROVE Rest'
  <2> USE <1>3 DEF LockInv, LockTypeOK, Create, Goto
  <2>1. TextInv'
    BY LockIsThere DEF TextInv
  <2>2. VerdictInv'
    BY DEF VerdictInv
  <2>3. raced' \/ OwnerInv'
    BY LockIsThere DEF OwnerInv, DoomedInv, Owning
  <2>4. raced' \/ DoomedInv'
    BY LockIsThere DEF OwnerInv, DoomedInv, Owning, OtherUnlinking
  <2> QED BY <2>1, <2>2, <2>3, <2>4
<1>4. ASSUME NEW p \in Proc, Verdict(p) PROVE Rest'
  BY <1>4 DEF LockInv, LockTypeOK, Verdict, Observed, Goto, TextInv, VerdictInv, OwnerInv, DoomedInv, Owning,
              lockHeldByDeadProcess, Stale, Alive, LockFile, Contents
<1>5. ASSUME NEW p \in Proc, Reread(p) PROVE Rest'
  <2> USE <1>5 DEF LockInv, LockTypeOK, Reread, Goto
  <2>1. TextInv'
    BY LockIsThere DEF TextInv
  <2>2. VerdictInv'
    BY DEF VerdictInv
  <2>3. raced' \/ OwnerInv'
    BY LockIsThere DEF OwnerInv, DoomedInv, Owning
  <2>4. raced' \/ DoomedInv'
    <3>1. CASE ~Matches(observed[p])
      BY <3>1 DEF DoomedInv, Owning
    <3>2. CASE raced
      BY <3>2
    <3>3. ASSUME Matches(observed[p]), ~raced, ~raced' PROVE DoomedInv'
      <4>1. lock # NoLock /\ lock' = lock /\ lock.text = observed[p] /\ at' = [at EXCEPT ![p] = "remove"]
        BY <3>3 DEF Matches
      <4>2. lock.text = Empty => \A r \in Proc : lock.by = r => ~Alive(r)
        BY <3>3
      <4>3. ASSUME NEW r \in Proc, lock.by = r PROVE at[r] \notin Owning
        <5>1. CASE lock.text = Empty
          BY <4>2, <4>3, <5>1 DEF Alive, Owning
        <5>2. CASE lock.text = Garbage
          BY <4>1, <4>3, <5>2 DEF TextInv
        <5>3. CASE lock.text \in Proc
          <6>1. r = lock.text
            BY <4>1, <4>3, <5>3 DEF TextInv
          <6> QED BY <4>1, <5>3, <6>1 DEF VerdictInv, Owning
        <5> QED BY <4>1, <5>1, <5>2, <5>3 DEF LockFile, Contents
      <4> QED BY <3>3, <4>1, <4>3 DEF DoomedInv, Owning
    <3> QED BY <3>1, <3>2, <3>3
  <2> QED BY <2>1, <2>2, <2>3, <2>4
<1>6. ASSUME NEW p \in Proc, Remove(p) PROVE Rest'
  BY <1>6 DEF LockInv, LockTypeOK, Remove, Goto, TextInv, VerdictInv, OwnerInv, DoomedInv, Owning, OtherUnlinking
<1>7. ASSUME NEW p \in Proc, Retry(p) PROVE Rest'
  <2> USE <1>7 DEF LockInv, LockTypeOK, Retry, Goto
  <2>1. TextInv'
    BY LockIsThere DEF TextInv
  <2>2. VerdictInv'
    BY DEF VerdictInv
  <2>3. raced' \/ OwnerInv'
    BY LockIsThere DEF OwnerInv, DoomedInv, Owning
  <2>4. raced' \/ DoomedInv'
    BY LockIsThere DEF OwnerInv, DoomedInv, Owning, OtherUnlinking
  <2> QED BY <2>1, <2>2, <2>3, <2>4
<1>8. ASSUME NEW p \in Proc, WritePid(p) PROVE Rest'
  <2> USE <1>8 DEF LockInv, LockTypeOK, WritePid, Created, Goto
  <2>1. TextInv'
    BY LockIsThere DEF TextInv
  <2>2. VerdictInv'
    BY DEF VerdictInv
  <2>3. raced' \/ OwnerInv'
    BY LockIsThere DEF OwnerInv, DoomedInv, Owning
  <2>4. raced' \/ DoomedInv'
    BY LockIsThere DEF OwnerInv, DoomedInv, Owning, OtherUnlinking
  <2> QED BY <2>1, <2>2, <2>3, <2>4
<1>9. ASSUME NEW p \in Proc, ReleaseRead(p) PROVE Rest'
  BY <1>9 DEF LockInv, LockTypeOK, ReleaseRead, Matches, Goto, TextInv, VerdictInv, OwnerInv, DoomedInv, Owning
<1>10. ASSUME NEW p \in Proc, ReleaseUnlink(p) PROVE Rest'
  BY <1>10 DEF LockInv, LockTypeOK, ReleaseUnlink, Goto, TextInv, VerdictInv, OwnerInv, DoomedInv, Owning, OtherUnlinking
<1>11. ASSUME NEW p \in Proc, Die(p) PROVE Rest'
  BY <1>11 DEF LockInv, LockTypeOK, Die, Alive, Goto, TextInv, VerdictInv, OwnerInv, DoomedInv, Owning
<1>12. ASSUME NEW p \in Proc, ReusePid(p) PROVE Rest'
  BY <1>12 DEF LockInv, LockTypeOK, ReusePid, Goto, TextInv, VerdictInv, OwnerInv, DoomedInv, Owning
<1> QED BY <1>1, <1>2, <1>3, <1>4, <1>5, <1>6, <1>7, <1>8, <1>9, <1>10, <1>11, <1>12 DEF LockNext, Step

\* What the protocol keeps true of the lock file and of those who use it.
THEOREM LockInvariance == LockSpec => []LockInv
<1> QED BY LockInitInv, LockStep, PTL DEF LockSpec

-----------------------------------------------------------------------------
\* The lock file, the verdicts and the program counters keep their types.
THEOREM LockTypeCorrect == LockSpec => []LockTypeOK
<1>1. LockInv => LockTypeOK
  BY DEF LockInv
<1> QED BY <1>1, LockInvariance, PTL

\* For any number of `snipe index` processes, two of them are past AcquireLock
\* at once only after a process acted inside one of the two windows.
THEOREM MutualExclusion == LockSpec => []SingleWriterUnlessRaced
<1>1. LockInv => SingleWriterUnlessRaced
  BY DEF LockInv, OwnerInv, SingleWriterUnlessRaced, Writers, Owning
<1> QED BY <1>1, LockInvariance, PTL

\* Under the same proviso IsIndexing is true while a process that wrote its
\* PID writes the index, so OpenStore turns queries away.
THEOREM Visibility == LockSpec => []WriterVisible
<1>1. LockInv => WriterVisible
  BY ConstAssumption, NoLockAssumption
     DEF LockInv, LockTypeOK, OwnerInv, WriterVisible, Writers, Owning, IsIndexing, lockHeldByDeadProcess,
         Stale, Alive, LockFile, Contents
<1> QED BY <1>1, LockInvariance, PTL

\* Whatever races, a process that ends by itself leaves no lock naming it.
THEOREM CleanExit == LockSpec => []NoLockLeftBehind
<1>1. LockInv => NoLockLeftBehind
  BY DEF LockInv, TextInv, NoLockLeftBehind, Matches
<1> QED BY <1>1, LockInvariance, PTL

-----------------------------------------------------------------------------
(* The batch jobs, for any number of jobs, index generations and faults.   *)


Statuses == {"none"} \cup Billed \cup Dead
Fates    == {"open", "saved", "told", "slipped"}

\* The steps of an index run: with the job of the state file, with a new one,
\* and with none.
Inherits == {"verify", "download"}
Creates  == {"breadcrumb", "create"}
Jobless  == {"idle", "clear", "clearSaved", "upload"}

BatchTypeOK ==
  /\ server \in [Batch -> Statuses] /\ broken \subseteq Batch /\ conf \in Confs
  /\ file \in State \cup {NoFile} /\ fate \in [Batch -> Fates]
  /\ ipc \in Inherits \cup Creates \cup Jobless \cup {"drop", "save"}
  /\ job \in State \cup {NoFile}
  /\ ipc \notin Jobless => job # NoFile
  /\ spc \in {"idle", "poll", "save", "download", "clear"}
  /\ sjob \in State \cup {NoFile}
  /\ spc # "idle" => sjob # NoFile
  /\ faults \in Nat

\* A job somebody must still save or speak of.
Owed(b) == server[b] \in Billed /\ fate[b] = "open"

\* What a state file, or the copy of one, says of its job is never ahead of the
\* service: a job that was created exists, one that is dead stays dead.
StateTrue(s) == /\ s.status # "creating" => server[s.batch] # "none"
                /\ s.status \in Dead => server[s.batch] \in Dead
StatesInv == /\ file # NoFile => StateTrue(file)
             /\ spc # "idle" => StateTrue(sjob) /\ server[sjob.batch] # "none"

\* From the breadcrumb on, the state file and embed-status know of the new job
\* by the breadcrumb alone.
NewJobInv ==
  /\ ipc \in Creates => server[job.batch] = "none"
  /\ ipc \in Creates \cup {"save"} =>
       /\ file # NoFile /\ file.batch = job.batch => file.status = "creating"
       /\ spc # "idle" => sjob.batch # job.batch
  /\ ipc \in Creates => job.status = "creating"
  /\ ipc = "save" => StateTrue(job)

\* The breadcrumb of the job that is about to be created is in place, or
\* somebody has written over it.
BreadcrumbInv ==
  ipc = "create" => (file # NoFile /\ file.batch = job.batch) \/ fate[job.batch] # "open"

\* A run that works on a job is about the only job that is owed, and one that
\* clears the state file or is to create a job has seen to it that none is.
OwedInv ==
  /\ ipc \in Inherits \cup {"save"} => \A b \in Batch : Owed(b) => b = job.batch
  /\ ipc \in {"clear", "clearSaved", "upload", "breadcrumb", "create", "drop"} => \A b \in Batch : ~Owed(b)
  /\ spc = "clear" => ~Owed(sjob.batch)

BatchInv == BatchTypeOK /\ StatesInv /\ NewJobInv /\ BreadcrumbInv /\ OwedInv /\ NoSilentOrphan

-----------------------------------------------------------------------------
LEMMA BatchInitInv == BatchInit => BatchInv
<1> SUFFICES ASSUME BatchInit PROVE BatchInv
  OBVIOUS
<1> USE DEF BatchInit
<1>1. BatchTypeOK
  BY DEF BatchTypeOK, Statuses, Fates, Jobless
<1>2. StatesInv /\ NewJobInv /\ BreadcrumbInv
  BY DEF StatesInv, NewJobInv, BreadcrumbInv, Creates
<1>3. OwedInv /\ NoSilentOrphan
  BY DEF OwedInv, NoSilentOrphan, Owed, Billed, Inherits
<1> QED BY <1>1, <1>2, <1>3 DEF BatchInv

\* A step settles at most the fate of one job, and no job that was settled is
\* open again.
LEMMA SettleType ==
  ASSUME fate \in [Batch -> Fates], NEW b \in Batch, NEW as \in Fates \ {"open"}, Settle(b, as)
  PROVE  /\ fate' \in [Batch -> Fates] /\ fate'[b] # "open"
         /\ \A c \in Batch \ {b} : fate'[c] = fate[c]
         /\ \A c \in Batch : fate'[c] = "open" => fate[c] = "open"
BY DEF Settle, Fates

\* The service, time and the index: a job is created by index runs only, and a
\* dead one stays dead.
LEMMA WorldIInv == BatchInv /\ WorldStep => BatchInv'
<1> SUFFICES ASSUME BatchInv, WorldStep PROVE BatchInv'
  OBVIOUS
<1> USE DEF BatchInv
<1>1. ASSUME NEW b \in Batch, Progress(b) PROVE BatchInv'
  <2>1. /\ server' \in [Batch -> Statuses]
        /\ server[b] \in Billed /\ server'[b] \in Billed \cup Dead
        /\ \A c \in Batch \ {b} : server'[c] = server[c]
    BY <1>1 DEF Progress, BatchTypeOK, Statuses, Billed, Dead
  <2>2. UNCHANGED <<broken, conf, file, fate, indexVars, statusVars, faults>>
    BY <1>1 DEF Progress
  <2>3. \A c \in Batch : Owed(c)' => Owed(c)
    BY <2>1, <2>2 DEF Owed
  <2>4. ASSUME NEW s \in State, StateTrue(s) PROVE StateTrue(s)'
    BY <2>1, <2>4 DEF StateTrue, State, Billed, Dead
  <2>5. BatchTypeOK'
    BY <2>1, <2>2 DEF BatchTypeOK, indexVars, statusVars
  <2>6. StatesInv'
    BY <2>1, <2>2, <2>4 DEF StatesInv, BatchTypeOK, State, Billed, Dead, statusVars
  <2>7. NewJobInv' /\ BreadcrumbInv'
    BY <2>1, <2>2, <2>4 DEF NewJobInv, BreadcrumbInv, BatchTypeOK, Creates, Jobless, State, Billed, indexVars, statusVars
  <2>8. OwedInv' /\ NoSilentOrphan'
    BY <2>2, <2>3 DEF OwedInv, NoSilentOrphan, Owed, BatchTypeOK, State, indexVars, statusVars
  <2> QED BY <2>5, <2>6, <2>7, <2>8
<1>2. CASE (\E b \in Batch : Break(b)) \/ \E k \in Confs : Configure(k)
  <2>1. UNCHANGED <<server, file, fate, indexVars, statusVars, faults>>
    BY <1>2 DEF Break, Configure
  <2>2. broken' \subseteq Batch /\ conf' \in Confs
    BY <1>2 DEF Break, Configure, BatchTypeOK
  <2> QED BY <2>1, <2>2 DEF BatchTypeOK, StatesInv, StateTrue, NewJobInv, BreadcrumbInv, OwedInv,
                             NoSilentOrphan, Owed, indexVars, statusVars
<1>3. CASE Age
  <2>1. /\ file \in State /\ file' \in State
        /\ file'.batch = file.batch /\ file'.status = file.status
    BY <1>3 DEF Age, BatchTypeOK, State
  <2>2. UNCHANGED <<worldVars, fate, indexVars, statusVars, faults>>
    BY <1>3 DEF Age
  <2> QED BY <2>1, <2>2, NoFileAssumption
          DEF BatchTypeOK, StatesInv, StateTrue, NewJobInv, BreadcrumbInv, OwedInv,
              NoSilentOrphan, Owed, worldVars, indexVars, statusVars
<1> QED BY <1>1, <1>2, <1>3 DEF WorldStep

-----------------------------------------------------------------------------
(* An index run.                                                           *)

\* A step that leaves the service and embed-status alone and settles no job that
\* is still owed keeps what is known of embed-status.
LEMMA StatusKept ==
  ASSUME BatchInv, UNCHANGED <<server, statusVars>>,
         \A b \in Batch : fate'[b] = "open" => fate[b] = "open"
  PROVE  /\ spc' # "idle" => StateTrue(sjob)' /\ server'[sjob'.batch] # "none"
         /\ spc' = "clear" => ~Owed(sjob.batch)'
         /\ \A b \in Batch : Owed(b)' => Owed(b)
BY DEF BatchInv, StatesInv, StateTrue, OwedInv, Owed, BatchTypeOK, State, statusVars

\* A run that has no job any more, and has left no owed job without a name.
LEMMA JoblessIInv ==
  ASSUME BatchInv, UNCHANGED <<worldVars, statusVars>>, faults' \in Nat,
         file' \in {file, NoFile}, job' \in {job, NoFile},
         fate' \in [Batch -> Fates], \A b \in Batch : fate'[b] = "open" => fate[b] = "open",
         ipc' \in Jobless,
         ipc' # "idle" \/ file' # file => \A b \in Batch : ~Owed(b)'
  PROVE  BatchInv'
<1> USE DEF BatchInv
<1>1. BatchTypeOK'
  BY DEF BatchTypeOK, worldVars, statusVars
<1>2. StatesInv' /\ NewJobInv' /\ BreadcrumbInv'
  BY StatusKept DEF StatesInv, NewJobInv, BreadcrumbInv, StateTrue, Jobless, Creates, worldVars, statusVars
<1>3. OwedInv'
  BY StatusKept DEF OwedInv, Jobless, Inherits, worldVars, statusVars
<1>4. NoSilentOrphan'
  BY StatusKept DEF NoSilentOrphan, Owed, worldVars
<1> QED BY <1>1, <1>2, <1>3, <1>4

\* The branches on the state file.
LEMMA IndexLoadIInv == BatchInv /\ IndexLoad => BatchInv'
<1> SUFFICES ASSUME BatchInv, IndexLoad PROVE BatchInv'
  OBVIOUS
<1>1. /\ UNCHANGED <<worldVars, file, statusVars, faults>> /\ ipc = "idle"
      /\ faults \in Nat /\ fate \in [Batch -> Fates] /\ file \in State \cup {NoFile}
  BY DEF IndexLoad, BatchInv, BatchTypeOK
<1>2. \A b \in Batch : Owed(b) => file # NoFile /\ file.batch = b
  BY DEF BatchInv, NoSilentOrphan, Owed
<1>3. CASE /\ file # NoFile /\ Remember /\ ipc' \in Inherits /\ UNCHANGED fate
  <2>1. job' \in State /\ job'.batch = file.batch
    BY <1>1, <1>3 DEF Remember, State
  <2> QED BY <1>1, <1>2, <1>3, <2>1, NoFileAssumption
          DEF BatchInv, BatchTypeOK, StatesInv, StateTrue, NewJobInv, BreadcrumbInv, OwedInv,
              NoSilentOrphan, Owed, worldVars, statusVars, Inherits, Creates, Jobless
<1>4. CASE /\ file # NoFile /\ (GiveUp(file.batch) \/ Slip(file.batch))
           /\ StartOver("clear") \/ StartOver("upload")
  <2>1. file.batch \in Batch
    BY <1>1, <1>4 DEF State
  <2>2. /\ fate' \in [Batch -> Fates] /\ fate'[file.batch] # "open"
        /\ \A b \in Batch : fate'[b] = "open" => fate[b] = "open"
    BY <1>1, <1>4, <2>1, SettleType DEF GiveUp, Slip, Fates
  <2>3. \A b \in Batch : ~Owed(b)'
    BY <1>1, <1>2, <2>2 DEF Owed, worldVars
  <2> QED BY <1>1, <1>4, <2>2, <2>3, JoblessIInv DEF StartOver, IndexGoto, Jobless
<1>5. CASE /\ file = NoFile \/ file.status \in Dead
           /\ StartOver("upload") /\ UNCHANGED fate
  <2>1. \A b \in Batch : ~Owed(b)
    BY <1>2, <1>5 DEF BatchInv, Owed, StatesInv, StateTrue, Billed, Dead
  <2> QED BY <1>1, <1>5, <2>1, JoblessIInv DEF StartOver, IndexGoto, Jobless, Owed, worldVars
<1> QED BY <1>3, <1>4, <1>5 DEF IndexLoad, IndexGoto, Inherits

\* Verify and Download, with the job the run has inherited.
LEMMA InheritIInv == BatchInv /\ (Verify \/ Download) => BatchInv'
<1> SUFFICES ASSUME BatchInv, Verify \/ Download PROVE BatchInv'
  OBVIOUS
<1>1. /\ UNCHANGED <<worldVars, file, statusVars>> /\ faults' \in Nat
      /\ ipc \in Inherits /\ job \in State /\ job.batch \in Batch /\ fate \in [Batch -> Fates]
  BY BatchAssumption DEF Verify, Download, BatchInv, BatchTypeOK, Jobless, Inherits, State, Fault
<1>2. \A b \in Batch : Owed(b) => b = job.batch
  BY <1>1 DEF BatchInv, OwedInv
<1>3. CASE UNCHANGED fate /\ IndexEnds
  BY <1>1, <1>3, JoblessIInv DEF IndexEnds, Jobless
<1>4. CASE UNCHANGED <<fate, job>> /\ ipc' = "download"
  BY <1>1, <1>2, <1>4
     DEF BatchInv, BatchTypeOK, StatesInv, StateTrue, NewJobInv, BreadcrumbInv, OwedInv,
         NoSilentOrphan, Owed, worldVars, statusVars, Inherits, Creates, Jobless
<1>5. CASE /\ StartOver("clear") \/ StartOver("clearSaved")
           /\ \/ GiveUp(job.batch) \/ Save(job.batch)
              \/ server[job.batch] \in Dead /\ UNCHANGED fate
  <2>1. /\ fate' \in [Batch -> Fates]
        /\ \A b \in Batch : fate'[b] = "open" => fate[b] = "open"
        /\ fate'[job.batch] # "open" \/ server[job.batch] \in Dead
    BY <1>1, <1>5, SettleType DEF GiveUp, Save, Fates
  <2>2. \A b \in Batch : ~Owed(b)'
    BY <1>1, <1>2, <2>1 DEF Owed, worldVars, Billed, Dead
  <2> QED BY <1>1, <1>5, <2>1, <2>2, JoblessIInv DEF StartOver, IndexGoto, Jobless
<1> QED BY <1>3, <1>4, <1>5 DEF Verify, Download, IndexGoto

\* The steps after which the run has no job, or is rid of the state file.
LEMMA LeaveIInv == BatchInv /\ (ClearSaved \/ Clear \/ DropBreadcrumb \/ IndexDies) => BatchInv'
<1> SUFFICES ASSUME BatchInv, ClearSaved \/ Clear \/ DropBreadcrumb \/ IndexDies PROVE BatchInv'
  OBVIOUS
<1>1. /\ UNCHANGED <<worldVars, fate, statusVars>> /\ faults' \in Nat
      /\ fate \in [Batch -> Fates]
      /\ ipc' \in {"idle", "upload"} /\ job' \in {job, NoFile} /\ file' \in {file, NoFile}
  BY BatchAssumption DEF ClearSaved, Clear, DropBreadcrumb, IndexDies, IndexEnds, IndexGoto, ClearState,
     Fault, BatchInv, BatchTypeOK
<1>2. ipc' # "idle" \/ file' # file => \A b \in Batch : ~Owed(b)
  BY DEF ClearSaved, Clear, DropBreadcrumb, IndexDies, IndexEnds, IndexGoto, BatchInv, OwedInv
<1>3. ipc' # "idle" \/ file' # file => \A b \in Batch : ~Owed(b)'
  BY <1>1, <1>2 DEF Owed, worldVars
<1> QED BY <1>1, <1>3, JoblessIInv DEF Jobless

\* A new job: its file is uploaded, its name is on disk, it exists.
LEMMA UploadIInv == BatchInv /\ Upload => BatchInv'
<1> SUFFICES ASSUME BatchInv, Upload PROVE BatchInv'
  OBVIOUS
<1>1. /\ UNCHANGED <<worldVars, file, fate, statusVars, faults>> /\ ipc = "upload"
      /\ fate \in [Batch -> Fates] /\ faults \in Nat /\ conf \in Confs
  BY DEF Upload, BatchInv, BatchTypeOK
<1>2. CASE IndexEnds
  BY <1>1, <1>2, JoblessIInv DEF IndexEnds, Jobless
<1>3. ASSUME NEW b \in Batch, server[b] = "none", job' = NewState(b, "creating"), ipc' = "breadcrumb"
      PROVE  BatchInv'
  <2>1. job' \in State /\ job'.batch = b /\ job'.status = "creating"
    BY <1>1, <1>3 DEF NewState, State
  <2>2. file # NoFile /\ file.batch = b => file.status = "creating"
    BY <1>3 DEF BatchInv, StatesInv, StateTrue
  <2>3. spc # "idle" => sjob.batch # b
    BY <1>3 DEF BatchInv, StatesInv
  <2> QED BY <1>1, <1>3, <2>1, <2>2, <2>3, NoFileAssumption
          DEF BatchInv, BatchTypeOK, StatesInv, StateTrue, NewJobInv, BreadcrumbInv, OwedInv,
              NoSilentOrphan, Owed, worldVars, statusVars, Inherits, Creates, Jobless
<1> QED BY <1>2, <1>3 DEF Upload, IndexGoto

\* Nothing is owed when the new job's name is written over what was there.
LEMMA BreadcrumbIInv == BatchInv /\ Breadcrumb => BatchInv'
<1> SUFFICES ASSUME BatchInv, Breadcrumb PROVE BatchInv'
  OBVIOUS
<1>1. /\ UNCHANGED <<worldVars, job, fate, statusVars, faults>>
      /\ ipc = "breadcrumb" /\ ipc' = "create" /\ file' = job
  BY DEF Breadcrumb, SaveState, IndexGoto
<1>2. job \in State /\ StateTrue(job)
  BY <1>1 DEF BatchInv, BatchTypeOK, Jobless, NewJobInv, Creates, StateTrue, Dead
<1> QED BY <1>1, <1>2, NoFileAssumption
        DEF BatchInv, BatchTypeOK, StatesInv, StateTrue, NewJobInv, BreadcrumbInv, OwedInv,
            NoSilentOrphan, Owed, worldVars, statusVars, Inherits, Creates, Jobless

\* The job exists: it is named by the breadcrumb, or somebody spoke of it.  If
\* the call failed it is not owed, whether it exists or not.
LEMMA CreateBatchIInv == BatchInv /\ CreateBatch => BatchInv'
<1> SUFFICES ASSUME BatchInv, CreateBatch PROVE BatchInv'
  OBVIOUS
<1> DEFINE b == job.batch
<1>1. /\ UNCHANGED <<broken, conf, file, statusVars>> /\ faults' \in Nat /\ ipc = "create"
      /\ job \in State /\ b \in Batch /\ job.status = "creating"
      /\ fate \in [Batch -> Fates] /\ server \in [Batch -> Statuses] /\ server[b] = "none"
  BY BatchAssumption DEF CreateBatch, BatchInv, BatchTypeOK, Jobless, State, Fault, NewJobInv, Creates
<1>2. /\ \A c \in Batch : ~Owed(c)
      /\ file # NoFile /\ file.batch = b => file.status = "creating"
      /\ (file # NoFile /\ file.batch = b) \/ fate[b] # "open"
      /\ spc # "idle" => sjob.batch # b
  BY <1>1 DEF BatchInv, OwedInv, NewJobInv, BreadcrumbInv, Creates
<1>3. CASE server' = [server EXCEPT ![b] = "running"]
  <2>1. /\ server' \in [Batch -> Statuses] /\ server'[b] = "running"
        /\ \A c \in Batch \ {b} : server'[c] = server[c]
    BY <1>1, <1>3 DEF Statuses, Billed
  <2>2. ASSUME NEW s \in State, StateTrue(s) PROVE StateTrue(s)'
    BY <1>1, <2>1, <2>2 DEF StateTrue, State, Dead
  <2>3. StatesInv'
    BY <1>1, <2>1, <2>2 DEF StatesInv, BatchInv, BatchTypeOK, State, statusVars
  <2>4. CASE /\ job' = [job EXCEPT !.status = "running"] /\ ipc' = "save" /\ UNCHANGED <<fate, faults>>
    <3>1. job' \in State /\ job'.batch = b /\ job'.status = "running"
      BY <1>1, <2>4 DEF State, Billed
    <3>2. StateTrue(job)'
      BY <2>1, <3>1 DEF StateTrue, Dead
    <3>3. \A c \in Batch : Owed(c)' => c = b /\ fate[b] = "open"
      BY <1>2, <2>1, <2>4 DEF Owed
    <3>4. BatchTypeOK'
      BY <1>1, <2>1, <2>4, <3>1, NoFileAssumption DEF BatchInv, BatchTypeOK, statusVars, Jobless
    <3>5. NewJobInv' /\ BreadcrumbInv'
      BY <1>1, <1>2, <2>4, <3>1, <3>2 DEF NewJobInv, BreadcrumbInv, statusVars, Creates
    <3>6. OwedInv' /\ NoSilentOrphan'
      BY <1>1, <1>2, <2>4, <3>1, <3>3
         DEF OwedInv, NoSilentOrphan, Owed, BatchInv, BatchTypeOK, statusVars, Inherits, Creates, State
    <3> QED BY <2>3, <3>4, <3>5, <3>6 DEF BatchInv
  <2>5. CASE Slip(b) /\ ipc' = "drop" /\ UNCHANGED job
    <3>1. /\ fate' \in [Batch -> Fates] /\ fate'[b] # "open"
          /\ \A c \in Batch : fate'[c] = "open" => fate[c] = "open"
      BY <1>1, <2>5, SettleType DEF Slip, Fates
    <3>2. \A c \in Batch : ~Owed(c)'
      BY <1>2, <2>1, <3>1 DEF Owed
    <3>3. BatchTypeOK'
      BY <1>1, <2>1, <2>5, <3>1, NoFileAssumption DEF BatchInv, BatchTypeOK, statusVars, Jobless
    <3>4. NewJobInv' /\ BreadcrumbInv'
      BY <2>5 DEF NewJobInv, BreadcrumbInv, Creates
    <3>5. OwedInv' /\ NoSilentOrphan'
      <4>1. spc' = "clear" => sjob'.batch \in Batch
        BY <3>3 DEF BatchTypeOK, State
      <4>2. ipc' \notin Inherits \cup {"save"}
        BY <2>5 DEF Inherits
      <4> QED BY <3>2, <4>1, <4>2 DEF OwedInv, NoSilentOrphan, Owed
    <3> QED BY <2>3, <3>3, <3>4, <3>5 DEF BatchInv
  <2> QED BY <1>1, <2>1, <2>4, <2>5 DEF CreateBatch, IndexGoto
<1>4. CASE UNCHANGED <<server, job, fate>> /\ ipc' = "drop"
  <2>1. BatchTypeOK'
    BY <1>1, <1>4 DEF BatchInv, BatchTypeOK, statusVars, Jobless
  <2>2. StatesInv' /\ NewJobInv' /\ BreadcrumbInv'
    BY <1>1, <1>4 DEF BatchInv, StatesInv, StateTrue, NewJobInv, BreadcrumbInv, statusVars, Creates
  <2>3. OwedInv' /\ NoSilentOrphan'
    BY <1>1, <1>2, <1>4 DEF BatchInv, OwedInv, NoSilentOrphan, Owed, statusVars, Inherits
  <2> QED BY <2>1, <2>2, <2>3 DEF BatchInv
<1> QED BY <1>3, <1>4 DEF CreateBatch, IndexGoto

\* The new job is the only one that may be owed, and gets its name in the file.
LEMMA SaveJobIInv == BatchInv /\ SaveJob => BatchInv'
<1> SUFFICES ASSUME BatchInv, SaveJob PROVE BatchInv'
  OBVIOUS
<1>1. /\ UNCHANGED <<worldVars, fate, statusVars, faults>>
      /\ ipc = "save" /\ ipc' = "idle" /\ job' = NoFile /\ file' = job
      /\ job \in State /\ StateTrue(job)
  BY DEF SaveJob, SaveState, IndexEnds, BatchInv, BatchTypeOK, Jobless, NewJobInv
<1> QED BY <1>1, NoFileAssumption
        DEF BatchInv, BatchTypeOK, StatesInv, StateTrue, NewJobInv, BreadcrumbInv, OwedInv,
            NoSilentOrphan, Owed, worldVars, statusVars, Inherits, Creates, Jobless

-----------------------------------------------------------------------------
(* embed-status.                                                           *)

\* What it takes from the state file is not the job a run is about to create,
\* and it only learns of the service.
LEMMA StatusLooksIInv == BatchInv /\ (StatusLoad \/ StatusPoll \/ StatusDies) => BatchInv'
<1> SUFFICES ASSUME BatchInv, StatusLoad \/ StatusPoll \/ StatusDies PROVE BatchInv'
  OBVIOUS
<1>1. UNCHANGED <<worldVars, file, fate, indexVars>> /\ faults' \in Nat
  BY BatchAssumption DEF StatusLoad, StatusPoll, StatusDies, Fault, BatchInv, BatchTypeOK
<1>2. CASE spc' = "idle" /\ sjob' = NoFile
  BY <1>1, <1>2
     DEF BatchInv, BatchTypeOK, StatesInv, StateTrue, NewJobInv, BreadcrumbInv, OwedInv,
         NoSilentOrphan, Owed, worldVars, indexVars
<1>3. CASE StatusLoad
  <2>1. /\ sjob' \in State /\ sjob'.batch = file.batch /\ sjob'.status = file.status
        /\ spc' = "poll" /\ file # NoFile /\ file.status # "creating"
    BY <1>3 DEF StatusLoad, BatchInv, BatchTypeOK, State
  <2> QED BY <1>1, <2>1, NoFileAssumption
          DEF BatchInv, BatchTypeOK, StatesInv, StateTrue, NewJobInv, BreadcrumbInv, OwedInv,
              NoSilentOrphan, Owed, worldVars, indexVars
<1>4. CASE spc = "poll" /\ spc' = "save" /\ sjob' = [sjob EXCEPT !.status = server[sjob.batch]]
  <2>1. sjob \in State /\ server[sjob.batch] \in Billed \cup Dead
    BY <1>4 DEF BatchInv, BatchTypeOK, StatesInv, State, Statuses
  <2>2. /\ sjob' \in State /\ sjob'.batch = sjob.batch /\ sjob'.status = server[sjob.batch]
    BY <1>4, <2>1 DEF State
  <2> QED BY <1>1, <1>4, <2>1, <2>2, NoFileAssumption
          DEF BatchInv, BatchTypeOK, StatesInv, StateTrue, NewJobInv, BreadcrumbInv, OwedInv,
              NoSilentOrphan, Owed, worldVars, indexVars
<1> QED BY <1>2, <1>3, <1>4 DEF StatusPoll, StatusDies, StatusEnds

\* It writes over the state file: a job that was named there is owed no longer,
\* unless it is the one embed-status has itself.
LEMMA OverwriteSettles ==
  ASSUME BatchInv, spc # "idle", Overwrite, UNCHANGED server
  PROVE  /\ fate' \in [Batch -> Fates]
         /\ \A b \in Batch : fate'[b] = "open" => fate[b] = "open"
         /\ file # NoFile /\ file.batch # sjob.batch => fate'[file.batch] # "open"
         /\ \A b \in Batch : Owed(b)' => Owed(b) /\ b = sjob.batch
<1>1. /\ fate \in [Batch -> Fates]
      /\ \A b \in Batch : Owed(b) => file # NoFile /\ file.batch = b
  BY DEF BatchInv, BatchTypeOK, NoSilentOrphan, Owed
<1>2. CASE file # NoFile /\ file.batch # sjob.batch
  <2>1. Slip(file.batch) /\ file.batch \in Batch
    BY <1>2 DEF Overwrite, BatchInv, BatchTypeOK, State
  <2>2. /\ fate' \in [Batch -> Fates] /\ fate'[file.batch] # "open"
        /\ \A b \in Batch : fate'[b] = "open" => fate[b] = "open"
    BY <1>1, <2>1, SettleType DEF Slip, Fates
  <2> QED BY <1>1, <2>2 DEF Owed
<1>3. CASE ~(file # NoFile /\ file.batch # sjob.batch)
  BY <1>1, <1>3 DEF Overwrite, Owed
<1> QED BY <1>2, <1>3

\* A step of embed-status that writes its state, or removes it, or leaves it.
LEMMA StatusWritesIInv ==
  ASSUME BatchInv, spc # "idle", UNCHANGED <<worldVars, indexVars>>, faults' \in Nat,
         \/ file' = sjob /\ Overwrite
         \/ file' = NoFile /\ Overwrite /\ spc = "clear"
         \/ /\ UNCHANGED file /\ fate' \in [Batch -> Fates]
            /\ \A b \in Batch : fate'[b] = "open" => fate[b] = "open",
         \/ spc' = "idle" /\ sjob' = NoFile
         \/ spc' \in {"poll", "download", "clear"} /\ UNCHANGED sjob,
         spc' = "clear" => server[sjob.batch] \in Dead \/ fate'[sjob.batch] # "open"
  PROVE  BatchInv'
<1>1. /\ sjob \in State /\ StateTrue(sjob) /\ server[sjob.batch] # "none"
      /\ ipc \in Creates \cup {"save"} => sjob.batch # job.batch
  BY DEF BatchInv, BatchTypeOK, StatesInv, NewJobInv
<1>2. /\ fate' \in [Batch -> Fates]
      /\ \A b \in Batch : fate'[b] = "open" => fate[b] = "open"
  BY OverwriteSettles DEF worldVars
<1>3. \A b \in Batch : Owed(b)' => Owed(b)
  BY <1>2 DEF Owed, worldVars
<1>4. BatchTypeOK'
  BY <1>1, <1>2 DEF BatchInv, BatchTypeOK, worldVars, indexVars
<1>5. StatesInv'
  BY <1>1 DEF BatchInv, StatesInv, StateTrue, worldVars
<1>6. NewJobInv'
  BY <1>1, NoFileAssumption DEF BatchInv, NewJobInv, StateTrue, worldVars, indexVars
<1>7. BreadcrumbInv'
  <2> SUFFICES ASSUME ipc = "create", fate'[job.batch] = "open"
               PROVE  file' # NoFile /\ file'.batch = job.batch
    BY DEF BreadcrumbInv, indexVars
  <2>1. job.batch \in Batch /\ job.batch # sjob.batch
    BY <1>1 DEF BatchInv, BatchTypeOK, Jobless, State, Creates
  <2>2. file # NoFile /\ file.batch = job.batch
    BY <1>2, <2>1 DEF BatchInv, BreadcrumbInv
  <2>3. UNCHANGED file
    BY <2>1, <2>2, OverwriteSettles DEF worldVars
  <2> QED BY <2>2, <2>3
<1>8. OwedInv'
  <2>1. spc' = "clear" => ~Owed(sjob.batch)'
    BY DEF Owed, Billed, Dead, worldVars
  <2> QED BY <1>3, <2>1 DEF BatchInv, OwedInv, indexVars
<1>9. NoSilentOrphan'
  <2> SUFFICES ASSUME NEW b \in Batch, Owed(b)' PROVE file' # NoFile /\ file'.batch = b
    BY DEF NoSilentOrphan, Owed
  <2>1. Owed(b) /\ file # NoFile /\ file.batch = b
    BY <1>3 DEF BatchInv, NoSilentOrphan, Owed
  <2>2. UNCHANGED file \/ b = sjob.batch
    BY OverwriteSettles DEF worldVars
  <2> QED BY <1>1, <2>1, <2>2, NoFileAssumption DEF BatchInv, OwedInv
<1> QED BY <1>4, <1>5, <1>6, <1>7, <1>8, <1>9 DEF BatchInv

LEMMA StatusActsIInv == BatchInv /\ (StatusSave \/ StatusDownload \/ StatusClear) => BatchInv'
<1> SUFFICES ASSUME BatchInv, StatusSave \/ StatusDownload \/ StatusClear PROVE BatchInv'
  OBVIOUS
<1>1. /\ spc # "idle" /\ UNCHANGED <<worldVars, indexVars>> /\ faults' \in Nat
      /\ sjob \in State /\ sjob.batch \in Batch /\ fate \in [Batch -> Fates]
  BY BatchAssumption DEF StatusSave, StatusDownload, StatusClear, Fault, BatchInv, BatchTypeOK, State
<1>2. CASE StatusSave
  <2>1. sjob.status = "failed" => server[sjob.batch] \in Dead
    BY <1>1 DEF BatchInv, StatesInv, StateTrue, Dead
  <2> QED BY <1>1, <1>2, <2>1, StatusWritesIInv DEF StatusSave, StatusEnds, SaveState
<1>3. CASE StatusDownload
  <2>1. UNCHANGED fate \/ Save(sjob.batch)
    BY <1>3 DEF StatusDownload
  <2>2. /\ fate' \in [Batch -> Fates]
        /\ \A b \in Batch : fate'[b] = "open" => fate[b] = "open"
        /\ UNCHANGED fate \/ fate'[sjob.batch] # "open"
    BY <1>1, <2>1, SettleType DEF Save, Fates
  <2> QED BY <1>1, <1>3, <2>2, StatusWritesIInv, SettleType DEF StatusDownload, StatusEnds, Save, Fates
<1>4. CASE StatusClear
  BY <1>1, <1>4, StatusWritesIInv DEF StatusClear, StatusEnds, ClearState
<1> QED BY <1>2, <1>3, <1>4

-----------------------------------------------------------------------------
LEMMA BatchStep == BatchInv /\ [BatchNext]_batchVars => BatchInv'
<1> SUFFICES ASSUME BatchInv, [BatchNext]_batchVars PROVE BatchInv'
  OBVIOUS
<1>1. CASE UNCHANGED batchVars
  BY <1>1 DEF batchVars, worldVars, indexVars, statusVars, BatchInv, BatchTypeOK, StatesInv, StateTrue, NewJobInv,
              BreadcrumbInv, OwedInv, NoSilentOrphan, Owed
<1>2. CASE WorldStep
  BY <1>2, WorldIInv
<1>3. CASE IndexLoad \/ IndexStep \/ IndexDies
  BY <1>3, IndexLoadIInv, InheritIInv, LeaveIInv, UploadIInv, BreadcrumbIInv, CreateBatchIInv, SaveJobIInv
     DEF IndexStep
<1>4. CASE StatusLoad \/ StatusStep \/ StatusDies
  BY <1>4, StatusLooksIInv, StatusActsIInv DEF StatusStep
<1> QED BY <1>1, <1>2, <1>3, <1>4 DEF BatchNext

\* The inductive invariant holds of every state of every behaviour.
THEOREM BatchInvariance == BatchSpec => []BatchInv
BY BatchInitInv, BatchStep, PTL DEF BatchSpec

\* Every state file, and every copy of one that a process works with, is a
\* batch state, and the other variables keep their types.
THEOREM BatchTypeCorrect == BatchSpec => []BatchTypeOK
<1>1. BatchInv => BatchTypeOK
  BY DEF BatchInv
<1> QED BY <1>1, BatchInvariance, PTL

\* startBatchEmbeddings and embed-status, with any interleaving of their steps,
\* any number of crashes and failed calls: no job that is billed is lost
\* without a trace, but for those that slipped through a gap named in BatchEmbed.
THEOREM NoJobLost == BatchSpec => []NoSilentOrphan
<1>1. BatchInv => NoSilentOrphan
  BY DEF BatchInv
<1> QED BY <1>1, BatchInvariance, PTL
=============================================================================
