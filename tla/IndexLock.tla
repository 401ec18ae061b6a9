------------------------------ MODULE IndexLock ------------------------------
(***************************************************************************)
(* The lock file .snipe/index.db.lock (internal/store/store.go): how       *)
(* several `snipe index` processes - started by a user, by the watch loop  *)
(* and by self-heal - take turns writing the index.                        *)
(*                                                                         *)
(* Every system call on the lock file is a step of its own.  That is where *)
(* the protocol is delicate: os.OpenFile(O_EXCL) creates an EMPTY file and *)
(* the PID is written by a later call, and os.Remove follows the re-read   *)
(* that justified it.  A process may die between any two steps.            *)
(***************************************************************************)
EXTENDS Naturals, FiniteSets

CONSTANTS Proc,     \* PIDs; each is one `snipe index` process
          Empty,    \* contents of a lock file with no PID in it
          Garbage,  \* contents that do not parse as a positive PID
          Nobody,   \* creator of a lock file no modelled process wrote
          NoLock,   \* there is no lock file
          WriteMayFail \* writing the PID may fail, e.g. on a full disk

ASSUME ConstAssumption == /\ Empty \notin Proc
                          /\ Garbage \notin Proc
                          /\ Empty # Garbage
                          /\ Nobody \notin Proc
                          /\ WriteMayFail \in BOOLEAN

Contents == Proc \cup {Empty, Garbage}
LockFile == [by : Proc \cup {Nobody}, text : Contents]

ASSUME NoLockAssumption == NoLock \notin LockFile

VARIABLES
  lock,      \* the file at LockPath: NoLock, or who created it and what it says
  at,        \* where each process is
  observed,  \* the contents a process based its staleness verdict on
  raced      \* history: a process acted inside another one's unprotected window

lockVars == <<lock, at, observed, raced>>

LockSteps == {"idle", "create", "verdict", "reread", "remove", "retry", "write",
              "held", "release", "unlink", "exited", "failed", "dead", "bystander"}

\* A PID resolves to a running process.  "bystander" is an unrelated program
\* that was given the PID of a dead indexer: Signal(0) succeeds for it too.
Alive(p) == at[p] \notin {"idle", "exited", "failed", "dead"}

\* Processes that passed AcquireLock: the code between AcquireLock and the end
\* of the deferred ReleaseLock, which writes the index.
Writers == {p \in Proc : at[p] \in {"held", "release", "unlink"}}

\* The mutant that never asks whether the process runs, and
\* lockHeldByDeadProcess on contents t of an existing file.
Stale(t) == \/ t \in {Empty, Garbage}
            \/ t \in Proc /\ ~Alive(t)

\* lockHeldByDeadProcess as called by AcquireLock and IsIndexing: a missing
\* file reads as stale with observed contents "".
lockHeldByDeadProcess == lock # NoLock => Stale(lock.text)

\* The predicate that query commands gate on (cmd/root.go, cmd/search.go).
IsIndexing == lock # NoLock /\ ~lockHeldByDeadProcess

\* The file at the path is the one p created.
Created(p) == lock # NoLock /\ lock.by = p

\* What lockHeldByDeadProcess reports to have observed.
Observed == IF lock = NoLock THEN Empty ELSE lock.text

\* The comparison of removeLockIfContentsMatch, and two ways to get it wrong:
\* not made at all, and made with the line as written, newline included.
MutantMatchesAnything(t) == lock # NoLock
MutantMatchesUntrimmed(t) == lock # NoLock /\ lock.text = t /\ t \notin Proc
Matches(t) == lock # NoLock /\ lock.text = t

\* Some other process has matched the contents and is about to unlink.
OtherUnlinking(p) == \E q \in Proc \ {p} : at[q] \in {"remove", "unlink"}

\* Processes that are dead at the start may have left a lock behind, with
\* their PID in it or empty; a file of the old format is empty, and a
\* hand-edited one may hold anything.
LockInit == /\ at \in [Proc -> {"idle", "dead"}]
            /\ lock \in {NoLock}
                 \cup [by : {p \in Proc : at[p] = "dead"}, text : {Empty}]
                 \cup {[by |-> p, text |-> p] : p \in {q \in Proc : at[q] = "dead"}}
                 \cup [by : {Nobody}, text : {Empty, Garbage}]
            /\ observed = [p \in Proc |-> Empty]
            /\ raced = FALSE

-----------------------------------------------------------------------------
Goto(p, s) == at' = [at EXCEPT ![p] = s]

\* A snipe process starts `snipe index` and enters AcquireLock.
Start(p) == /\ at[p] = "idle"
            /\ Goto(p, "create")
            /\ UNCHANGED <<lock, observed, raced>>

\* os.OpenFile(O_CREATE|O_EXCL): creates the file without contents, or fails
\* because it exists.
Create(p) ==
  /\ at[p] = "create"
  /\ \/ /\ lock = NoLock
        /\ lock' = [by |-> p, text |-> Empty]
        /\ raced' = (raced \/ OtherUnlinking(p))
        /\ Goto(p, "write")
     \/ /\ lock # NoLock
        /\ Goto(p, "verdict")
        /\ UNCHANGED <<lock, raced>>
  /\ UNCHANGED observed

\* tryRemoveStaleLock, first half: the verdict of lockHeldByDeadProcess.
Verdict(p) ==
  /\ at[p] = "verdict"
  /\ \/ /\ lockHeldByDeadProcess
        /\ observed' = [observed EXCEPT ![p] = Observed]
        /\ Goto(p, "reread")
     \/ /\ ~lockHeldByDeadProcess
        /\ Goto(p, "failed")
        /\ UNCHANGED observed
  /\ UNCHANGED <<lock, raced>>

\* removeLockIfContentsMatch(path, observed), the re-read.  A file that is
\* gone by now is an error, not a success.
Reread(p) ==
  /\ at[p] = "reread"
  /\ \/ /\ Matches(observed[p])
        /\ raced' = (raced \/ (lock.text = Empty /\ lock.by \in Proc /\ Alive(lock.by)))
        /\ Goto(p, "remove")
     \/ /\ ~Matches(observed[p])
        /\ Goto(p, "failed")
        /\ UNCHANGED raced
  /\ UNCHANGED <<lock, observed>>

\* removeLockIfContentsMatch, os.Remove: unlinks whatever is at the path now,
\* and fails if nothing is.
Remove(p) ==
  /\ at[p] = "remove"
  /\ \/ /\ lock # NoLock
        /\ lock' = NoLock
        /\ raced' = (raced \/ OtherUnlinking(p))
        /\ Goto(p, "retry")
     \/ /\ lock = NoLock
        /\ Goto(p, "failed")
        /\ UNCHANGED <<lock, raced>>
  /\ UNCHANGED observed

\* The one retry of os.OpenFile(O_CREATE|O_EXCL) after the reap.
Retry(p) ==
  /\ at[p] = "retry"
  /\ \/ /\ lock = NoLock
        /\ lock' = [by |-> p, text |-> Empty]
        /\ raced' = (raced \/ OtherUnlinking(p))
        /\ Goto(p, "write")
     \/ /\ lock # NoLock
        /\ Goto(p, "failed")
        /\ UNCHANGED <<lock, raced>>
  /\ UNCHANGED observed

\* fmt.Fprintf(f, "%d\n", pid) through the open descriptor: it reaches the file
\* p created, which may have been unlinked since.  Its error is not looked at,
\* so on a full disk the lock stays empty and AcquireLock still succeeds.
WritePid(p) ==
  /\ at[p] = "write"
  /\ \/ /\ Created(p)
        /\ lock' = [by |-> p, text |-> p]
        /\ raced' = (raced \/ OtherUnlinking(p))
     \/ /\ WriteMayFail \/ ~Created(p)
        /\ UNCHANGED <<lock, raced>>
  /\ Goto(p, "held")
  /\ UNCHANGED observed

\* runIndex returns, with or without an error, and the deferred ReleaseLock runs.
Finish(p) == /\ at[p] = "held"
             /\ Goto(p, "release")
             /\ UNCHANGED <<lock, observed, raced>>

\* A release that is forgotten on some return of runIndex.
MutantNoRelease(p) ==
  /\ at[p] = "release"
  /\ \/ Goto(p, "exited")
     \/ Matches(p) /\ Goto(p, "unlink")
  /\ UNCHANGED <<lock, observed, raced>>

\* ReleaseLock: removeLockIfContentsMatch with the process's own PID.
ReleaseRead(p) ==
  /\ at[p] = "release"
  /\ Goto(p, IF Matches(p) THEN "unlink" ELSE "exited")
  /\ UNCHANGED <<lock, observed, raced>>

ReleaseUnlink(p) ==
  /\ at[p] = "unlink"
  /\ lock' = NoLock
  /\ raced' = (raced \/ OtherUnlinking(p))
  /\ Goto(p, "exited")
  /\ UNCHANGED observed

\* The process is killed, or a system call of AcquireLock fails with an error
\* other than the ones above and the process gives up.
Die(p) == /\ Alive(p)
          /\ at[p] # "bystander"
          /\ Goto(p, "dead")
          /\ UNCHANGED <<lock, observed, raced>>

\* The operating system gives the PID of an ended process to another program.
ReusePid(p) == /\ at[p] \in {"exited", "failed", "dead"}
               /\ Goto(p, "bystander")
               /\ UNCHANGED <<lock, observed, raced>>

Step(p) == \/ Create(p) \/ Verdict(p) \/ Reread(p) \/ Remove(p) \/ Retry(p)
           \/ WritePid(p) \/ Finish(p) \/ ReleaseRead(p) \/ ReleaseUnlink(p)

LockNext == \E p \in Proc : Start(p) \/ Step(p) \/ Die(p) \/ ReusePid(p)

\* A started process keeps running until it ends.
LockFairness == \A p \in Proc : WF_lockVars(Step(p))

LockSpec == LockInit /\ [][LockNext]_lockVars /\ LockFairness

-----------------------------------------------------------------------------
LockTypeOK == /\ lock \in LockFile \cup {NoLock}
              /\ at \in [Proc -> LockSteps]
              /\ observed \in [Proc -> Contents]
              /\ raced \in BOOLEAN

\* What the protocol does guarantee: two writers at once need a process that
\* acted inside one of the two unprotected windows - it matched a lock that
\* its live creator had not written its PID to, or the lock file changed
\* between another process's re-read and its os.Remove.
SingleWriterUnlessRaced == raced \/ \A p, q \in Writers : p = q

\* Likewise a query command cannot take the index for idle while a process
\* that wrote its PID is writing it (IsIndexing gates OpenStore).
WriterVisible ==
  raced \/ \A p \in Writers : lock = [by |-> p, text |-> Empty] \/ IsIndexing

\* A process that ran to its end leaves no lock naming it, whatever raced:
\* ReleaseLock is reached on every return of runIndex and AcquireLock leaves
\* nothing behind when it fails.
NoLockLeftBehind ==
  \A p \in Proc : at[p] \in {"exited", "failed"} => ~Matches(p)

\* A lock nobody alive holds does not stop the next AcquireLock for good: if a
\* process finds one, that lock is gone in the end, or the process was killed.
StaleLockReaped ==
  \A p \in Proc : (at[p] = "verdict" /\ lock # NoLock /\ Stale(lock.text))
                     ~> (lock = NoLock \/ ~Stale(lock.text) \/ at[p] \in {"dead", "bystander"})

=============================================================================
