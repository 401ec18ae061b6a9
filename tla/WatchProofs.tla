----------------------------- MODULE WatchProofs -----------------------------
(***************************************************************************)
(* For any set of files and any number of changes: the watch loop never    *)
(* loses track of a change it was told of, and its final drain indexes     *)
(* those that a run can see, without starting a second reindex next to a   *)
(* running one.  A run cannot see a change that raced with the two looks   *)
(* of a run, and no other.                                                 *)
(***************************************************************************)
EXTENDS Watch, TLAPS

\* The flag and the phase say which children there are.
PhaseInv ==
  /\ phase \in {"loop", "wait"} =>
       /\ indexing <=> child["loop"].st # "none"
       /\ child["drain"].st = "none"
  /\ phase = "run" => /\ child["drain"].st = "running"
                      /\ child["loop"].st # "running"
  /\ phase = "stopped" => child["drain"].st # "running"

\* A child that is not there has no files; one that ended well has written what
\* it covers, and what it covers is in the index.
ChildInv ==
  \A j \in Jobs : /\ child[j].st = "none" => child[j].files = {}
                  /\ child[j].st = "ok" => child[j].at = "written"
                  /\ child[j].at = "written" => child[j].covered \cap stale = {}

\* What raced with the running child's two looks, before it hashes and after.
LooksInv ==
  \A j \in Jobs : Running(j) =>
    /\ child[j].at \in {"detected", "loaded"} => stale \ child[j].covered \subseteq raced
    /\ child[j].at = "hashed" =>
         /\ (stale \cap child[j].stamped) \ child[j].covered \subseteq raced
         /\ matched \subseteq child[j].stamped

\* A file is taken for unchanged while its rows are older only if its last change
\* raced, also when runs fail or are killed after any of their steps.
MaskedOnlyByRaces == stale \cap matched \subseteq raced

\* Who knows of the changes there are, in each phase.
KnownInv ==
  /\ phase \in {"loop", "wait"} =>
       stale \subseteq missed \cup queue \cup pending \cup Underway("loop") \cup Masked
  /\ phase = "run" => stale \subseteq missed \cup queue \cup Underway("drain") \cup Masked
  /\ phase = "stopped" /\ ~drainFailed => stale \subseteq missed \cup queue \cup Masked

IInv == /\ TypeOK /\ PhaseInv /\ ChildInv /\ LooksInv /\ MaskedOnlyByRaces /\ KnownInv
        /\ NoLostWakeup

-----------------------------------------------------------------------------
LEMMA InitIInv == Init => IInv
<1> SUFFICES ASSUME Init PROVE IInv
  OBVIOUS
<1>1. TypeOK
  <2>1. child \in [Jobs -> Child]
    BY DEF Init, Child, NoChild, StartOn
  <2>2. indexing \in BOOLEAN /\ cancelled \in BOOLEAN /\ drainFailed \in BOOLEAN
    BY Zenon DEF Init
  <2>3. edits \in 0..MaxEdits
    BY FilesAssumption DEF Init
  <2> QED BY <2>1, <2>2, <2>3 DEF Init, TypeOK
<1>2. PhaseInv /\ ChildInv /\ LooksInv /\ MaskedOnlyByRaces /\ KnownInv /\ NoLostWakeup
  BY DEF Init, PhaseInv, ChildInv, LooksInv, MaskedOnlyByRaces, KnownInv, NoLostWakeup, NoChild,
         StartOn, Running, Jobs
<1> QED BY <1>1, <1>2 DEF IInv

\* Child records.
LEMMA ChildTypes == NoChild \in Child /\ \A S \in SUBSET Files : StartOn(S) \in Child
BY DEF NoChild, StartOn, Child

\* The two children do not run at once.
LEMMA OneRuns == ASSUME IInv, NEW j \in Jobs, NEW k \in Jobs, Running(j), Running(k)
                 PROVE  j = k
BY DEF IInv, TypeOK, PhaseInv, Running, Jobs

LEMMA EditIInv ==
  ASSUME IInv, NEW f \in Files, NEW sameSecond \in BOOLEAN, Edit(f, sameSecond) PROVE IInv'
<1> USE DEF IInv
<1>1. \A j \in Jobs :
        /\ child'[j] = [child[j] EXCEPT
             !.covered = IF child[j].at = "detected" THEN @ ELSE @ \ {f},
             !.stamped = IF sameSecond THEN @ ELSE @ \ {f}]
        /\ child[j] \in Child
  BY DEF Edit, TypeOK
<1>2. ASSUME NEW j \in Jobs
      PROVE  /\ child'[j].st = child[j].st /\ child'[j].files = child[j].files
             /\ child'[j].at = child[j].at
             /\ child'[j].covered = IF child[j].at = "detected" THEN child[j].covered
                                    ELSE child[j].covered \ {f}
             /\ child'[j].stamped = IF sameSecond THEN child[j].stamped
                                    ELSE child[j].stamped \ {f}
             /\ child'[j] \in Child
  <2> DEFINE c == child[j]
             C == IF c.at = "detected" THEN c.covered ELSE c.covered \ {f}
             S == IF sameSecond THEN c.stamped ELSE c.stamped \ {f}
  <2>1. c \in Child /\ child'[j] = [c EXCEPT !.covered = C, !.stamped = S]
    BY <1>1
  <2>2. C \subseteq Files /\ S \subseteq Files
    BY <2>1 DEF Child
  <2> HIDE DEF c, C, S
  <2>3. /\ child'[j].st = c.st /\ child'[j].files = c.files /\ child'[j].at = c.at
        /\ child'[j].covered = C /\ child'[j].stamped = S /\ child'[j] \in Child
    BY <2>1, <2>2 DEF Child
  <2> QED BY <2>3 DEF c, C, S
<1>3. "loop" \in Jobs /\ "drain" \in Jobs
  BY DEF Jobs
<1>4. /\ stale' = stale \cup {f} /\ f \in missed' \cup queue'
      /\ missed \cup queue \subseteq missed' \cup queue'
      /\ matched' = IF sameSecond THEN matched ELSE matched \ {f}
      /\ raced \ {f} \subseteq raced' /\ raced' \subseteq raced \cup {f}
      /\ sameSecond => f \in raced'
      /\ \A j \in Jobs : Races(j, f) => f \in raced'
      /\ UNCHANGED <<pending, timer, indexing, phase, drainFailed>>
  BY DEF Edit, loopVars
<1>5. TypeOK'
  <2>1. child' \in [Jobs -> Child]
    BY <1>2 DEF Edit
  <2>2. edits' \in 0..MaxEdits
    <3>1. edits < MaxEdits /\ edits' = edits + 1
      BY DEF Edit
    <3>2. edits \in 0..MaxEdits
      BY DEF TypeOK
    <3> QED BY <3>1, <3>2, FilesAssumption
  <2>3. matched' \subseteq Files /\ raced' \subseteq Files /\ stale' \subseteq Files
    BY <1>4 DEF TypeOK
  <2> QED BY <2>1, <2>2, <2>3 DEF Edit, TypeOK, loopVars
<1>6. PhaseInv' /\ NoLostWakeup'
  BY <1>2, <1>3, <1>4 DEF PhaseInv, NoLostWakeup
<1>7. ChildInv'
  BY <1>2, <1>4 DEF ChildInv
<1>8. LooksInv'
  <2> SUFFICES ASSUME NEW j \in Jobs, Running(j)'
               PROVE  /\ child'[j].at \in {"detected", "loaded"} =>
                           stale' \ child'[j].covered \subseteq raced'
                      /\ child'[j].at = "hashed" =>
                           /\ (stale' \cap child'[j].stamped) \ child'[j].covered \subseteq raced'
                           /\ matched' \subseteq child'[j].stamped
    BY DEF LooksInv
  <2>1. Running(j)
    BY <1>2 DEF Running
  <2>2. CASE child[j].at = "detected"
    BY <1>2, <1>4, <2>1, <2>2 DEF LooksInv, Races
  <2>3. CASE child[j].at = "loaded"
    BY <1>2, <1>4, <2>1, <2>3 DEF LooksInv, Races
  <2>4. CASE child[j].at = "hashed"
    BY <1>2, <1>4, <2>1, <2>4 DEF LooksInv
  <2> QED BY <1>2, <2>2, <2>3, <2>4
<1>9. MaskedOnlyByRaces'
  BY <1>4 DEF MaskedOnlyByRaces
<1>10. /\ \A j \in Jobs : Underway(j) \ {f} \subseteq Underway(j)'
       /\ Masked \ {f} \subseteq Masked'
  BY <1>2, <1>4 DEF Underway, Masked
<1>11. KnownInv'
  BY <1>3, <1>4, <1>10 DEF KnownInv
<1> QED BY <1>5, <1>6, <1>7, <1>8, <1>9, <1>11

\* Nothing else outside the loop changes what is known of a stale file.
LEMMA WorldIInv ==
  ASSUME IInv, MakeDir \/ Overflow \/ Expire \/ Cancel PROVE IInv'
<1> USE DEF IInv
<1>1. UNCHANGED <<indexVars, edits, pending, indexing, phase, drainFailed, child>>
  BY DEF MakeDir, Overflow, Expire, Cancel, treeVars, indexVars, loopVars
<1>2. TypeOK'
  BY DEF MakeDir, Overflow, Expire, Cancel, treeVars, indexVars, loopVars, TypeOK
<1>3. PhaseInv' /\ ChildInv' /\ LooksInv' /\ MaskedOnlyByRaces'
  BY <1>1 DEF PhaseInv, ChildInv, LooksInv, MaskedOnlyByRaces, Running, indexVars
<1>4. missed \cup (queue \cap stale) \subseteq missed' \cup queue'
  BY DEF MakeDir, Overflow, Expire, Cancel
<1>5. KnownInv'
  BY <1>1, <1>4 DEF KnownInv, Underway, Masked, indexVars
<1>6. NoLostWakeup'
  BY DEF MakeDir, Overflow, Expire, Cancel, treeVars, loopVars, NoLostWakeup
<1> QED BY <1>2, <1>3, <1>5, <1>6

\* A child detects changes: all that is stale and not masked will be covered.
LEMMA DetectIInv ==
  ASSUME IInv, NEW j \in Jobs, NEW full \in BOOLEAN, Detect(j, full) PROVE IInv'
<1> USE DEF IInv
<1>1. child[j] \in Child /\ child \in [Jobs -> Child] /\ stale \subseteq Files
  BY DEF TypeOK
<1> DEFINE c == child[j]
           changed == IF full THEN Files ELSE stale \ matched
           at == IF changed = {} THEN "written" ELSE "detected"
           d == [c EXCEPT !.at = at, !.covered = changed]
<1>2. child' = [child EXCEPT ![j] = d]
  BY DEF Detect
<1>3. stale \ matched \subseteq changed /\ changed \subseteq Files
  BY <1>1
<1>4. (at = "written" /\ changed = {}) \/ at = "detected"
  OBVIOUS
<1> HIDE DEF changed, at
<1>5. /\ d.st = c.st /\ d.files = c.files /\ d.at = at /\ d.covered = changed
      /\ d.stamped = c.stamped /\ d \in Child
  <2>1. c \in Child
    BY <1>1
  <2> HIDE DEF c
  <2> QED BY <1>3, <1>4, <2>1 DEF Child
<1> HIDE DEF d
<1>6. /\ \A k \in Jobs \ {j} : child'[k] = child[k]
      /\ child'[j] = d
      /\ child' \in [Jobs -> Child]
  BY <1>1, <1>2, <1>5
<1>7. /\ c.st = "running" /\ c.at = "start"
      /\ UNCHANGED <<treeVars, queue, loopVars, cancelled, missed>>
  BY DEF Detect, Running
<1>8. TypeOK'
  BY <1>6, <1>7 DEF TypeOK, treeVars, indexVars, loopVars
<1>9. PhaseInv' /\ NoLostWakeup'
  BY <1>5, <1>6, <1>7 DEF PhaseInv, NoLostWakeup, loopVars, Jobs
<1>10. ChildInv'
  BY <1>4, <1>5, <1>6, <1>7 DEF ChildInv, treeVars, indexVars
<1>11. LooksInv' /\ MaskedOnlyByRaces'
  BY <1>3, <1>4, <1>5, <1>6, <1>7
     DEF LooksInv, MaskedOnlyByRaces, Running, treeVars, indexVars
<1>12. /\ \A k \in Jobs \ {j} : Underway(k)' = Underway(k)
       /\ (c.files \cap stale) \ matched \subseteq Underway(j)'
       /\ Underway(j) \subseteq c.files
  BY <1>3, <1>5, <1>6 DEF Underway
<1>13. Masked' = Masked /\ stale \cap matched \subseteq Masked
  BY <1>7 DEF Masked, MaskedOnlyByRaces, treeVars, indexVars
<1>14. KnownInv'
  BY <1>7, <1>12, <1>13 DEF KnownInv, treeVars, indexVars, loopVars, Jobs
<1> QED BY <1>8, <1>9, <1>10, <1>11, <1>14

\* It loads and hashes: what it has not covered, and hashes, has raced.
LEMMA LoadHashIInv ==
  ASSUME IInv, NEW j \in Jobs, Load(j) \/ HashFiles(j) PROVE IInv'
<1> USE DEF IInv
<1>1. /\ child[j] \in Child /\ child \in [Jobs -> Child]
      /\ stale \subseteq Files /\ matched \subseteq Files
  BY DEF TypeOK
<1> DEFINE c == child[j]
           at == IF c.at = "detected" THEN "loaded" ELSE "hashed"
           stamped == IF c.at = "detected" THEN c.stamped ELSE stale \cup matched
           d == [c EXCEPT !.at = at, !.stamped = stamped]
<1>2. /\ c.st = "running" /\ c.at \in {"detected", "loaded"}
      /\ UNCHANGED <<treeVars, queue, loopVars, cancelled, missed>>
  BY DEF Load, HashFiles, Running
<1>3. child' = [child EXCEPT ![j] = d]
  <2>1. CASE Load(j)
    <3>1. c.at = "detected" /\ child' = [child EXCEPT ![j].at = "loaded"]
      BY <2>1 DEF Load
    <3>2. c \in [st : {"none", "running", "ok", "failed"}, files : SUBSET Files,
                 at : {"start", "detected", "loaded", "hashed", "written"},
                 covered : SUBSET Files, stamped : SUBSET Files]
      BY <1>1 DEF Child
    <3>3. [c EXCEPT !.at = "loaded"] = [c EXCEPT !.at = "loaded", !.stamped = c.stamped]
      BY <3>2
    <3> QED BY <3>1, <3>3
  <2>2. CASE HashFiles(j)
    BY <2>2 DEF HashFiles
  <2> QED BY <2>1, <2>2
<1>4. /\ at \in {"loaded", "hashed"} /\ stamped \subseteq Files
      /\ at = "hashed" => stamped = stale \cup matched
  BY <1>1, <1>2 DEF Child
<1> HIDE DEF at, stamped
<1>5. /\ d.st = c.st /\ d.files = c.files /\ d.at = at /\ d.covered = c.covered
      /\ d.stamped = stamped /\ d \in Child
  <2>1. c \in Child
    BY <1>1
  <2> HIDE DEF c
  <2> QED BY <1>4, <2>1 DEF Child
<1> HIDE DEF d
<1>6. /\ \A k \in Jobs \ {j} : child'[k] = child[k]
      /\ child'[j] = d
      /\ child' \in [Jobs -> Child]
  BY <1>1, <1>3, <1>5
<1>7. TypeOK'
  BY <1>2, <1>6 DEF TypeOK, treeVars, indexVars, loopVars
<1>8. PhaseInv' /\ NoLostWakeup'
  BY <1>2, <1>5, <1>6 DEF PhaseInv, NoLostWakeup, loopVars, Jobs
<1>9. ChildInv'
  BY <1>2, <1>4, <1>5, <1>6 DEF ChildInv, treeVars, indexVars
<1>10. LooksInv' /\ MaskedOnlyByRaces'
  BY <1>2, <1>4, <1>5, <1>6
     DEF LooksInv, MaskedOnlyByRaces, Running, treeVars, indexVars
<1>11. /\ \A k \in Jobs : Underway(k)' = Underway(k)
       /\ Masked' = Masked
  BY <1>2, <1>4, <1>5, <1>6 DEF Underway, Masked, treeVars, indexVars
<1>12. KnownInv'
  BY <1>2, <1>11 DEF KnownInv, treeVars, indexVars, loopVars, Jobs
<1> QED BY <1>7, <1>8, <1>9, <1>10, <1>12

\* It commits: what it covered is no longer stale; what it stamped looks
\* unchanged from now on.
LEMMA WriteFilesIInv == ASSUME IInv, NEW j \in Jobs, WriteFiles(j) PROVE IInv'
<1> USE DEF IInv
<1>1. child[j] \in Child /\ child \in [Jobs -> Child] /\ stale \subseteq Files
  BY DEF TypeOK
<1> DEFINE c == child[j]
           d == [c EXCEPT !.at = "written"]
<1>2. child' = [child EXCEPT ![j] = d]
  BY DEF WriteFiles
<1>3. /\ d.st = c.st /\ d.files = c.files /\ d.at = "written" /\ d.covered = c.covered
      /\ d.stamped = c.stamped /\ d \in Child /\ c.stamped \subseteq Files
  <2>1. c \in Child
    BY <1>1
  <2> HIDE DEF c
  <2> QED BY <2>1 DEF Child
<1> HIDE DEF d
<1>4. /\ \A k \in Jobs \ {j} : child'[k] = child[k]
      /\ child'[j] = d
      /\ child' \in [Jobs -> Child]
  BY <1>1, <1>2, <1>3
<1>5. /\ Running(j) /\ c.st = "running" /\ c.at = "hashed"
      /\ UNCHANGED <<dir, edits, raced, queue, loopVars, cancelled>>
      /\ stale' = stale \ c.covered /\ missed' = missed \ c.covered /\ matched' = c.stamped
  BY DEF WriteFiles, Running
<1>6. TypeOK'
  BY <1>3, <1>4, <1>5 DEF TypeOK, loopVars
<1>7. PhaseInv' /\ NoLostWakeup'
  BY <1>3, <1>4, <1>5 DEF PhaseInv, NoLostWakeup, loopVars, Jobs
<1>8. ChildInv'
  BY <1>3, <1>4, <1>5 DEF ChildInv
<1>9. (stale \cap c.stamped) \ c.covered \subseteq raced /\ matched \subseteq c.stamped
  BY <1>5 DEF LooksInv
<1>10. MaskedOnlyByRaces'
  BY <1>5, <1>9 DEF MaskedOnlyByRaces
<1>11. LooksInv'
  <2>1. \A k \in Jobs \ {j} : ~Running(k)
    BY <1>5, OneRuns
  <2> QED BY <1>3, <1>4, <2>1 DEF LooksInv, Running
<1>12. /\ \A k \in Jobs : Underway(k)' = Underway(k)
       /\ Masked \ c.covered \subseteq Masked'
  BY <1>3, <1>4, <1>5, <1>9 DEF Underway, Masked
<1>13. KnownInv'
  BY <1>5, <1>12 DEF KnownInv, loopVars, Jobs
<1> QED BY <1>6, <1>7, <1>8, <1>10, <1>11, <1>13

\* It ends well: nothing that it covered is stale.
LEMMA SucceedIInv == ASSUME IInv, NEW j \in Jobs, Succeed(j) PROVE IInv'
<1> USE DEF IInv
<1>1. child[j] \in Child /\ child \in [Jobs -> Child]
  BY DEF TypeOK
<1> DEFINE c == child[j]
           d == [c EXCEPT !.st = "ok"]
<1>2. child' = [child EXCEPT ![j] = d]
  BY DEF Succeed
<1>3. /\ d.st = "ok" /\ d.files = c.files /\ d.at = c.at /\ d.covered = c.covered
      /\ d.stamped = c.stamped /\ d \in Child
  <2>1. c \in Child
    BY <1>1
  <2> HIDE DEF c
  <2> QED BY <2>1 DEF Child
<1> HIDE DEF d
<1>4. /\ \A k \in Jobs \ {j} : child'[k] = child[k]
      /\ child'[j] = d
      /\ child' \in [Jobs -> Child]
  BY <1>1, <1>2, <1>3
<1>5. /\ c.st = "running" /\ c.at = "written"
      /\ UNCHANGED <<treeVars, queue, pending, timer, indexing, drainFailed, cancelled, missed>>
      /\ phase' = IF j = "drain" THEN "stopped" ELSE phase
  BY DEF Succeed, Running
<1>6. TypeOK'
  BY <1>4, <1>5 DEF TypeOK, treeVars, indexVars
<1>7. PhaseInv' /\ NoLostWakeup'
  BY <1>3, <1>4, <1>5 DEF PhaseInv, NoLostWakeup, Jobs
<1>8. ChildInv' /\ LooksInv' /\ MaskedOnlyByRaces'
  BY <1>3, <1>4, <1>5
     DEF ChildInv, LooksInv, MaskedOnlyByRaces, Running, treeVars, indexVars
<1>9. /\ \A k \in Jobs : Underway(k)' = Underway(k)
      /\ Underway(j) \cap stale = {} /\ Masked' = Masked
  BY <1>3, <1>4, <1>5 DEF Underway, ChildInv, Masked, treeVars, indexVars
<1>10. KnownInv'
  <2>1. CASE j = "loop"
    BY <1>5, <1>9, <2>1 DEF KnownInv, Jobs, treeVars, indexVars
  <2>2. CASE j = "drain"
    <3>1. phase = "run"
      BY <1>5, <2>2 DEF PhaseInv, TypeOK
    <3> QED BY <1>5, <1>9, <2>2, <3>1 DEF KnownInv, treeVars, indexVars
  <2> QED BY <2>1, <2>2 DEF Jobs
<1> QED BY <1>6, <1>7, <1>8, <1>10

\* A child fails: its files stay its files.
LEMMA FailIInv == ASSUME IInv, NEW j \in Jobs, Fail(j) PROVE IInv'
<1> USE DEF IInv
<1>1. child[j] \in Child /\ child \in [Jobs -> Child]
  BY DEF TypeOK
<1> DEFINE c == child[j]
           d == [StartOn(c.files) EXCEPT !.st = "failed"]
<1>2. child' = [child EXCEPT ![j] = d]
  BY DEF Fail
<1>3. d.st = "failed" /\ d.files = c.files /\ d.at = "start" /\ d \in Child
  <2>1. c.files \subseteq Files
    BY <1>1 DEF Child
  <2> HIDE DEF c
  <2> QED BY <2>1 DEF Child, StartOn
<1> HIDE DEF d
<1>4. /\ \A k \in Jobs \ {j} : child'[k] = child[k]
      /\ child'[j] = d
      /\ child' \in [Jobs -> Child]
  BY <1>1, <1>2, <1>3
<1>5. /\ c.st = "running"
      /\ UNCHANGED <<treeVars, queue, pending, timer, indexing, cancelled, missed>>
      /\ phase' = IF j = "drain" THEN "stopped" ELSE phase
  BY DEF Fail, Running
<1>6. drainFailed' \in BOOLEAN /\ (j = "drain" => drainFailed') /\ (j # "drain" => drainFailed' = drainFailed)
  <2>1. drainFailed \in BOOLEAN /\ drainFailed' = (drainFailed \/ j = "drain")
    BY DEF Fail, TypeOK
  <2> QED BY <2>1, Zenon
<1>8. TypeOK'
  BY <1>4, <1>5, <1>6 DEF TypeOK, treeVars, indexVars
<1>9. PhaseInv' /\ NoLostWakeup'
  BY <1>3, <1>4, <1>5 DEF PhaseInv, NoLostWakeup, Jobs
<1>10. ChildInv' /\ LooksInv' /\ MaskedOnlyByRaces'
  BY <1>3, <1>4, <1>5
     DEF ChildInv, LooksInv, MaskedOnlyByRaces, Running, treeVars, indexVars
<1>11. (\A k \in Jobs : Underway(k) \subseteq Underway(k)') /\ Masked' = Masked
  BY <1>3, <1>4, <1>5 DEF Underway, Masked, treeVars, indexVars
<1>12. KnownInv'
  <2>1. CASE j = "loop"
    BY <1>5, <1>6, <1>11, <2>1 DEF KnownInv, Jobs, treeVars, indexVars
  <2>2. CASE j = "drain"
    BY <1>5, <1>6, <2>2 DEF KnownInv
  <2> QED BY <2>1, <2>2 DEF Jobs
<1> QED BY <1>8, <1>9, <1>10, <1>12

-----------------------------------------------------------------------------
(* The select loop.                                                        *)

LEMMA EventIInv ==
  ASSUME IInv, (\E f \in Files : FileEvent(f)) \/ DirEvent PROVE IInv'
<1> USE DEF IInv
<1>1. UNCHANGED <<indexVars, edits, indexing, phase, drainFailed, child, cancelled, missed>>
  BY DEF FileEvent, DirEvent, loopVars, treeVars, indexVars
<1>2. queue \subseteq queue' \cup pending' \cup {NewDir} /\ pending \subseteq pending'
  BY DEF FileEvent, DirEvent, loopVars
<1>3. TypeOK'
  BY DEF FileEvent, DirEvent, loopVars, treeVars, indexVars, Rearm, TypeOK
<1>4. PhaseInv' /\ ChildInv' /\ LooksInv' /\ MaskedOnlyByRaces'
  BY <1>1 DEF PhaseInv, ChildInv, LooksInv, MaskedOnlyByRaces, Running, indexVars
<1>5. phase = "loop" /\ NewDir \notin stale
  BY FilesAssumption DEF FileEvent, DirEvent, TypeOK
<1>6. KnownInv'
  BY <1>1, <1>2, <1>5 DEF KnownInv, Underway, Masked, indexVars
<1>7. NoLostWakeup'
  BY DEF FileEvent, DirEvent, loopVars, Rearm, NoLostWakeup
<1> QED BY <1>3, <1>4, <1>6, <1>7

\* The pending files become those of a child, or stay.
LEMMA TimerFiresIInv == IInv /\ TimerFires => IInv'
<1> SUFFICES ASSUME IInv, TimerFires PROVE IInv'
  OBVIOUS
<1> USE DEF IInv
<1>1. phase = "loop" /\ UNCHANGED <<treeVars, queue, phase, drainFailed, cancelled, missed>>
  BY DEF TimerFires
<1>2. CASE pending = {} \/ indexing
  <2>1. UNCHANGED <<pending, indexing, child>> /\ timer' = "off"
    BY <1>2 DEF TimerFires
  <2>2. TypeOK' /\ PhaseInv' /\ ChildInv' /\ LooksInv' /\ MaskedOnlyByRaces'
    BY <1>1, <2>1 DEF TypeOK, PhaseInv, ChildInv, LooksInv, MaskedOnlyByRaces, Running, treeVars,
                      indexVars
  <2>3. KnownInv' /\ NoLostWakeup'
    BY <1>1, <1>2, <2>1 DEF KnownInv, NoLostWakeup, Underway, Masked, treeVars, indexVars
  <2> QED BY <2>2, <2>3
<1>3. CASE ~(pending = {} \/ indexing)
  <2>1. /\ pending' = {} /\ indexing' = TRUE /\ timer' = "off"
        /\ child' = [child EXCEPT !["loop"] = StartOn(pending)]
    BY <1>3 DEF TimerFires
  <2>2. /\ child' \in [Jobs -> Child] /\ child'["drain"] = child["drain"]
        /\ child'["loop"] = StartOn(pending)
    BY <2>1, ChildTypes DEF TypeOK, Jobs
  <2>3. child["loop"].st = "none" /\ child["loop"].files = {}
    BY <1>1, <1>3 DEF PhaseInv, ChildInv, Jobs
  <2>4. TypeOK'
    BY <1>1, <2>1, <2>2 DEF TypeOK, treeVars, indexVars
  <2>5. PhaseInv' /\ ChildInv' /\ LooksInv' /\ MaskedOnlyByRaces' /\ NoLostWakeup'
    BY <1>1, <2>1, <2>2 DEF PhaseInv, ChildInv, LooksInv, MaskedOnlyByRaces, NoLostWakeup, StartOn,
                           Running, Jobs, treeVars, indexVars
  <2>6. Underway("loop")' = pending /\ Underway("loop") = {}
    BY <2>2, <2>3 DEF Underway, StartOn
  <2>7. KnownInv'
    BY <1>1, <2>1, <2>6 DEF KnownInv, Masked, treeVars, indexVars
  <2> QED BY <2>4, <2>5, <2>7
<1> QED BY <1>2, <1>3

\* The result of a reindex is taken: covered, or missed if it failed.
LEMMA ReindexDoneIInv == IInv /\ ReindexDone => IInv'
<1> SUFFICES ASSUME IInv, ReindexDone PROVE IInv'
  OBVIOUS
<1> USE DEF IInv
<1>1. /\ phase = "loop" /\ child["loop"].st \in {"ok", "failed"} /\ indexing' = FALSE
      /\ UNCHANGED <<treeVars, queue, pending, phase, drainFailed, cancelled>>
      /\ child' = [child EXCEPT !["loop"] = NoChild]
  BY DEF ReindexDone
<1>2. /\ child' \in [Jobs -> Child] /\ child'["drain"] = child["drain"]
      /\ child'["loop"] = NoChild
  BY <1>1, ChildTypes DEF TypeOK, Jobs
<1>3. missed' \subseteq Files /\ timer' \in {"off", "armed", "fired"}
  BY DEF ReindexDone, RearmIfPending, Rearm, TypeOK
<1>4. TypeOK'
  BY <1>1, <1>2, <1>3 DEF TypeOK, treeVars, indexVars
<1>5. PhaseInv' /\ ChildInv' /\ LooksInv' /\ MaskedOnlyByRaces'
  BY <1>1, <1>2 DEF PhaseInv, ChildInv, LooksInv, MaskedOnlyByRaces, NoChild, StartOn, Running, Jobs,
                    treeVars, indexVars
<1>6. missed \cup (Underway("loop") \cap stale) \subseteq missed'
  BY <1>1 DEF ReindexDone, Underway, ChildInv, Jobs
<1>7. KnownInv'
  BY <1>1, <1>6 DEF KnownInv, Masked, treeVars, indexVars
<1>8. NoLostWakeup'
  BY <1>1 DEF ReindexDone, RearmIfPending, Rearm, NoLostWakeup
<1> QED BY <1>4, <1>5, <1>7, <1>8

-----------------------------------------------------------------------------
(* The drain.                                                              *)

\* Draining with all the files that are known ends, or starts a child on them.
LEMMA DrainWithIInv ==
  ASSUME IInv, NEW S \in SUBSET Files, DrainWith(S), phase \in {"loop", "wait"},
         child["loop"].st # "running",
         stale \subseteq missed \cup queue \cup S \cup Masked,
         UNCHANGED <<treeVars, queue, timer, indexing, drainFailed, cancelled, missed>>
  PROVE  IInv'
<1> USE DEF IInv
<1>1. CASE S = {}
  <2>1. phase' = "stopped" /\ UNCHANGED child /\ pending' = {}
    BY <1>1 DEF DrainWith
  <2>2. TypeOK' /\ PhaseInv' /\ ChildInv' /\ LooksInv' /\ MaskedOnlyByRaces' /\ NoLostWakeup'
    BY <2>1 DEF TypeOK, PhaseInv, ChildInv, LooksInv, MaskedOnlyByRaces, NoLostWakeup, Running,
                treeVars, indexVars
  <2>3. KnownInv'
    BY <1>1, <2>1 DEF KnownInv, Masked, treeVars, indexVars
  <2> QED BY <2>2, <2>3
<1>2. CASE S # {}
  <2>1. phase' = "run" /\ child' = [child EXCEPT !["drain"] = StartOn(S)] /\ pending' = S
    BY <1>2 DEF DrainWith
  <2>2. /\ child' \in [Jobs -> Child] /\ child'["loop"] = child["loop"]
        /\ child'["drain"] = StartOn(S)
    BY <2>1, ChildTypes DEF TypeOK, Jobs
  <2>3. TypeOK'
    BY <2>1, <2>2 DEF TypeOK, treeVars, indexVars
  <2>4. PhaseInv' /\ ChildInv' /\ LooksInv' /\ MaskedOnlyByRaces' /\ NoLostWakeup'
    BY <2>1, <2>2 DEF PhaseInv, ChildInv, LooksInv, MaskedOnlyByRaces, NoLostWakeup, StartOn, Running,
                      Jobs, treeVars, indexVars
  <2>5. Underway("drain")' = S
    BY <2>2 DEF Underway, StartOn
  <2>6. KnownInv'
    BY <2>1, <2>5 DEF KnownInv, Masked, treeVars, indexVars
  <2> QED BY <2>3, <2>4, <2>6
<1> QED BY <1>1, <1>2

LEMMA DrainIInv ==
  ASSUME IInv, BeginDrain \/ DrainResult \/ DrainTimeout PROVE IInv'
<1> USE DEF IInv
<1>1. CASE BeginDrain /\ indexing
  <2>1. /\ phase = "loop" /\ phase' = "wait"
        /\ UNCHANGED <<treeVars, queue, pending, child, timer, indexing, drainFailed, cancelled,
                       missed>>
    BY <1>1 DEF BeginDrain
  <2> QED BY <2>1 DEF TypeOK, PhaseInv, ChildInv, LooksInv, MaskedOnlyByRaces, KnownInv, NoLostWakeup,
                      Underway, Masked, Running, treeVars, indexVars
<1>2. CASE BeginDrain /\ ~indexing
  <2>1. phase = "loop" /\ DrainWith(pending) /\ pending \in SUBSET Files
    BY <1>2 DEF BeginDrain, TypeOK
  <2>2. child["loop"].st = "none" /\ Underway("loop") = {}
    BY <1>2, <2>1 DEF PhaseInv, ChildInv, Underway, Jobs
  <2> QED BY <1>2, <2>1, <2>2, DrainWithIInv DEF BeginDrain, KnownInv
<1>3. CASE DrainResult
  <2>1. phase = "wait" /\ child["loop"].st \in {"ok", "failed"} /\ DrainWith(Fold)
    BY <1>3 DEF DrainResult
  <2>2. child["loop"].files \subseteq Files
    BY DEF TypeOK, Child, Jobs
  <2>3. Fold \in SUBSET Files
    BY <2>2 DEF Fold, TypeOK
  <2>4. pending \cup (Underway("loop") \cap stale) \subseteq Fold
    BY <2>1 DEF Fold, Underway, ChildInv, Jobs
  <2>5. stale \subseteq missed \cup queue \cup Fold \cup Masked
    BY <2>1, <2>4 DEF KnownInv
  <2> QED BY <1>3, <2>1, <2>3, <2>5, DrainWithIInv DEF DrainResult
<1>4. CASE DrainTimeout
  <2>1. /\ phase = "wait" /\ phase' = "stopped" /\ drainFailed' = TRUE
        /\ UNCHANGED <<treeVars, queue, pending, timer, indexing, cancelled, child, missed>>
    BY <1>4 DEF DrainTimeout
  <2>2. TypeOK'
    BY <2>1 DEF TypeOK, treeVars, indexVars
  <2> QED BY <2>1, <2>2 DEF PhaseInv, ChildInv, LooksInv, MaskedOnlyByRaces, KnownInv, NoLostWakeup,
                           Running, treeVars, indexVars
<1> QED BY <1>1, <1>2, <1>3, <1>4

LEMMA NextIInv == IInv /\ [Next]_vars => IInv'
<1> SUFFICES ASSUME IInv, [Next]_vars PROVE IInv'
  OBVIOUS
<1>1. CASE UNCHANGED vars
  BY <1>1 DEF vars, treeVars, indexVars, loopVars, IInv, TypeOK, PhaseInv, ChildInv, LooksInv,
              MaskedOnlyByRaces, KnownInv, NoLostWakeup, Underway, Masked, Running
<1>2. CASE LoopStep
  BY <1>2, EventIInv, TimerFiresIInv, ReindexDoneIInv, DrainIInv DEF LoopStep
<1>3. CASE DrainStep
  BY <1>3, DrainIInv DEF DrainStep
<1>4. CASE WorldStep
  BY <1>4, EditIInv, WorldIInv DEF WorldStep
<1>5. CASE \E j \in Jobs : ChildStep(j)
  BY <1>5, DetectIInv, LoadHashIInv, WriteFilesIInv, SucceedIInv, FailIInv DEF ChildStep
<1> QED BY <1>1, <1>2, <1>3, <1>4, <1>5 DEF Next

-----------------------------------------------------------------------------
\* The inductive invariant holds of every state of every behaviour.
THEOREM Invariance == Spec => []IInv
BY InitIInv, NextIInv, PTL DEF Spec

\* At most one child of the watch loop runs at a time, although the drain does
\* not know whether the in-flight one will ever end.
THEOREM OneChild == Spec => []NoOverlap
<1>1. IInv => NoOverlap
  BY DEF IInv, TypeOK, PhaseInv, NoOverlap, Running
<1> QED BY <1>1, Invariance, PTL

\* While it runs, the loop knows of every change it has not missed.
THEOREM ChangesKnown == Spec => []NoChangeForgotten
<1>1. IInv => NoChangeForgotten
  BY DEF IInv, KnownInv, NoChangeForgotten
<1> QED BY <1>1, Invariance, PTL

\* Pending files never wait for an event that need not come.
THEOREM WakesUp == Spec => []NoLostWakeup
<1>1. IInv => NoLostWakeup
  BY DEF IInv
<1> QED BY <1>1, Invariance, PTL

\* A drain that worked leaves nothing stale that the loop knew of and a run can
\* see: only what raced with a run's two looks is passed over.
THEOREM DrainCovers == Spec => []DrainIsFinal
<1>1. IInv => DrainIsFinal
  BY DEF IInv, KnownInv, DrainIsFinal
<1> QED BY <1>1, Invariance, PTL

\* No run passes over a stale file unless the file's last change raced: not after
\* a failure or a kill between any two steps of a run either.
THEOREM PassedOverOnlyRaces == Spec => []MaskedOnlyByRaces
<1>1. IInv => MaskedOnlyByRaces
  BY DEF IInv
<1> QED BY <1>1, Invariance, PTL

=============================================================================
