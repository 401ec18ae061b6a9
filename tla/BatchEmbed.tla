----------------------------- MODULE BatchEmbed ------------------------------
(***************************************************************************)
(* Batch embedding (cmd/index.go: startBatchEmbeddings; cmd/embed.go:      *)
(* `snipe embed-status`; internal/embed/batch.go).  An index run sends the *)
(* symbols to the Voyage batch API, which bills the job and answers up to  *)
(* twelve hours later.  .snipe/batch_state.json is all that ties the       *)
(* results to the index: a job that is not named there is paid and lost.   *)
(*                                                                         *)
(* Every API call and every write of the state file is a step; the process *)
(* may die between any two, and a call may fail.  At most one index run is *)
(* active (module IndexLock); embed-status takes no lock.                  *)
(***************************************************************************)
EXTENDS Naturals, FiniteSets

CONSTANTS
  Batch,       \* jobs; each is also the identity of its input file
  Confs,       \* index fingerprints
  NoFile,      \* there is no batch_state.json
  MaxFaults    \* bound: crashes and failed calls

ASSUME BatchAssumption == MaxFaults \in Nat

VARIABLES
  server,  \* status of each job at Voyage; "none" before it is created
  broken,  \* jobs whose results cannot be saved in full any more
  file,    \* batch_state.json
  fate,    \* history: what became of each job
  conf,    \* fingerprint of the index
  ipc, job, \* the index run: next step, and the state it works with
  spc, sjob, \* embed-status, likewise
  faults

indexVars  == <<ipc, job>>
statusVars == <<spc, sjob>>
worldVars  == <<server, broken, conf>>
batchVars == <<worldVars, file, fate, indexVars, statusVars, faults>>

-----------------------------------------------------------------------------
\* "running" stands for validating and in_progress, "failed" for cancelled too.
Billed == {"running", "finalizing", "completed"}
Dead  == {"failed", "expired"}

\* BatchState.  old: UpdatedAt is more than batchStaleThreshold ago.
State == [batch : Batch, status : {"creating"} \cup Billed \cup Dead, conf : Confs, old : BOOLEAN]

ASSUME NoFileAssumption == NoFile \notin State

NewState(b, status) == [batch |-> b, status |-> status, conf |-> conf, old |-> FALSE]

\* ClearState and SaveState.
ClearState == file' = NoFile
SaveState(s) == file' = s

\* A job is "saved" once its vectors are all in the index, "told" once the user
\* was told that it is given up, and "slipped" if it was lost in one of the
\* ways the code does not guard against.
Settle(b, as) == fate' = [fate EXCEPT ![b] = IF @ = "saved" THEN @ ELSE as]
GiveUp(b) == Settle(b, "told")
Slip(b) == Settle(b, "slipped")
Save(b) == Settle(b, "saved")

Fault == faults < MaxFaults /\ faults' = faults + 1

BatchInit == /\ server = [b \in Batch |-> "none"] /\ broken = {} /\ conf \in Confs
             /\ file = NoFile /\ fate = [b \in Batch |-> "open"]
             /\ ipc = "idle" /\ job = NoFile /\ spc = "idle" /\ sjob = NoFile
             /\ faults = 0

-----------------------------------------------------------------------------
(* The service, time and the index.                                        *)

Progress(b) ==
  /\ \/ server[b] = "running" /\ server' = [server EXCEPT ![b] = "completed"]
     \/ server[b] = "running" /\ \E d \in Dead : server' = [server EXCEPT ![b] = d]
     \/ server[b] = "running" /\ server' = [server EXCEPT ![b] = "finalizing"]
     \/ server[b] = "finalizing" /\ server' = [server EXCEPT ![b] = "completed"]
  /\ UNCHANGED <<broken, conf, file, fate, indexVars, statusVars, faults>>

\* A symbol of the job is no longer in the index, so that saving its vector
\* violates a foreign key; or the service has deleted the output file.
Break(b) ==
  /\ server[b] = "completed" /\ b \notin broken
  /\ broken' = broken \cup {b}
  /\ UNCHANGED <<server, conf, file, fate, indexVars, statusVars, faults>>

\* Twelve hours pass without a write of the state file.
Age ==
  /\ file # NoFile /\ ~file.old
  /\ file' = [file EXCEPT !.old = TRUE]
  /\ UNCHANGED <<worldVars, fate, indexVars, statusVars, faults>>

\* go.mod or the environment change; the fingerprint is taken once per run.
Configure(k) ==
  /\ ipc = "idle" /\ k # conf
  /\ conf' = k
  /\ UNCHANGED <<server, broken, file, fate, indexVars, statusVars, faults>>

-----------------------------------------------------------------------------
(* startBatchEmbeddings, in an index run.                                  *)

IndexGoto(p) == ipc' = p
IndexEnds == ipc' = "idle" /\ job' = NoFile

\* The job of the state file is worked on; it is of no further use.
Remember == job' = [file EXCEPT !.old = FALSE]
StartOver(p) == IndexGoto(p) /\ job' = NoFile

\* LoadState, and the branch taken on what it says.  A breadcrumb is given up
\* with a warning, as is a job of another index generation.  A run that finds a
\* recent job of its own generation in progress returns at once; a status that
\* no branch names lets it start a new job over the old one.
IndexLoad ==
  /\ ipc = "idle"
  /\ LET is(status) == file # NoFile /\ file.status = status
         discards == \/ is("creating")
                     \/ is("completed") /\ file.conf # conf
                     \/ is("running") /\ ~file.old /\ file.conf # conf
     IN \/ /\ discards
           /\ GiveUp(file.batch) /\ StartOver("clear")
        \/ /\ is("completed") /\ ~discards
           /\ Remember /\ IndexGoto("download") /\ UNCHANGED fate
        \/ /\ is("running") /\ file.old
           /\ Remember /\ IndexGoto("verify") /\ UNCHANGED fate
        \/ /\ file = NoFile \/ \E d \in Dead : is(d)
           /\ StartOver("upload") /\ UNCHANGED fate
        \/ /\ is("finalizing")
           /\ Slip(file.batch) /\ StartOver("upload")
  /\ UNCHANGED <<worldVars, file, statusVars, faults>>

\* A completed job is taken for one that is still running.
MutantVerify ==
  /\ ipc = "verify"
  /\ IF server[job.batch] \in Dead THEN StartOver("clear") ELSE IndexEnds
  /\ UNCHANGED <<worldVars, file, fate, statusVars, faults>>

\* GetBatchStatus for a state that is old.
Verify ==
  /\ ipc = "verify"
  /\ \/ /\ Fault
        /\ GiveUp(job.batch) /\ StartOver("clear")
     \/ /\ server[job.batch] \in Dead
        /\ StartOver("clear") /\ UNCHANGED <<fate, faults>>
     \/ /\ server[job.batch] = "completed" /\ job.conf = conf
        /\ IndexGoto("download") /\ UNCHANGED <<job, fate, faults>>
     \/ /\ server[job.batch] = "completed" /\ job.conf # conf
        /\ GiveUp(job.batch) /\ StartOver("clear") /\ UNCHANGED faults
     \/ /\ server[job.batch] \in {"running", "finalizing"}
        /\ IndexEnds /\ UNCHANGED <<fate, faults>>
  /\ UNCHANGED <<worldVars, file, statusVars>>

\* recoverCompletedBatch: downloadAndSaveEmbeddings.  If a row cannot be saved,
\* or the download fails, the state file is kept and no job is started.
Download ==
  /\ ipc = "download"
  /\ \/ /\ job.batch \notin broken
        /\ Save(job.batch)
        /\ StartOver("clearSaved") /\ UNCHANGED faults
     \/ /\ job.batch \in broken
        /\ IndexEnds /\ UNCHANGED <<fate, faults>>
     \/ /\ Fault
        /\ IndexEnds /\ UNCHANGED fate
  /\ UNCHANGED <<worldVars, file, statusVars>>

\* ClearState after a full save; the run is done.
ClearSaved ==
  /\ ipc = "clearSaved"
  /\ ClearState /\ IndexEnds
  /\ UNCHANGED <<worldVars, fate, statusVars, faults>>

\* ClearState for a job that is given up or dead; a new one follows.
Clear ==
  /\ ipc = "clear"
  /\ ClearState /\ IndexGoto("upload")
  /\ UNCHANGED <<worldVars, job, fate, statusVars, faults>>

\* WriteJSONL and UploadFile, unless no symbol is worth embedding.
Upload ==
  /\ ipc = "upload"
  /\ \/ \E b \in Batch : /\ server[b] = "none"
                         /\ job' = NewState(b, "creating")
                         /\ IndexGoto("breadcrumb")
     \/ IndexEnds
  /\ UNCHANGED <<worldVars, file, fate, statusVars, faults>>

\* The job is created before anything about it is on disk.
MutantBreadcrumb ==
  /\ ipc = "breadcrumb"
  /\ IndexGoto("create")
  /\ UNCHANGED <<worldVars, job, file, fate, statusVars, faults>>

\* SaveState of the "creating" breadcrumb, before CreateBatch.
Breadcrumb ==
  /\ ipc = "breadcrumb"
  /\ SaveState(job) /\ IndexGoto("create")
  /\ UNCHANGED <<worldVars, job, fate, statusVars, faults>>

\* CreateBatch.  An error is taken to mean that no job exists, also when the
\* job was created and only the reply did not get through.
CreateBatch ==
  /\ ipc = "create"
  /\ \/ /\ server' = [server EXCEPT ![job.batch] = "running"]
        /\ job' = [job EXCEPT !.status = "running"]
        /\ IndexGoto("save") /\ UNCHANGED <<fate, faults>>
     \/ /\ Fault
        /\ IndexGoto("drop") /\ UNCHANGED <<server, job, fate>>
     \/ /\ Fault
        /\ server' = [server EXCEPT ![job.batch] = "running"]
        /\ Slip(job.batch)
        /\ IndexGoto("drop") /\ UNCHANGED job
  /\ UNCHANGED <<broken, conf, file, statusVars>>

\* ClearState drops the breadcrumb of a failed CreateBatch.
DropBreadcrumb ==
  /\ ipc = "drop"
  /\ ClearState /\ IndexEnds
  /\ UNCHANGED <<worldVars, fate, statusVars, faults>>

\* SaveState of the new job.
SaveJob ==
  /\ ipc = "save"
  /\ SaveState(job) /\ IndexEnds
  /\ UNCHANGED <<worldVars, fate, statusVars, faults>>

\* The process dies, or a call on the state file or the upload fails and the
\* run gives up embedding.
IndexDies ==
  /\ ipc # "idle" /\ Fault
  /\ IndexEnds
  /\ UNCHANGED <<worldVars, file, fate, statusVars>>

-----------------------------------------------------------------------------
(* runEmbedStatus.                                                         *)

StatusEnds == spc' = "idle" /\ sjob' = NoFile

\* embed-status writes or removes the file it read some time ago; an index run
\* may have put another job there since.
Overwrite == IF file # NoFile /\ file.batch # sjob.batch THEN Slip(file.batch) ELSE UNCHANGED fate

\* LoadState.  A breadcrumb has no batch ID, and asking for it is an error.
StatusLoad ==
  /\ spc = "idle"
  /\ file # NoFile /\ file.status # "creating"
  /\ spc' = "poll" /\ sjob' = [file EXCEPT !.old = FALSE]
  /\ UNCHANGED <<worldVars, file, fate, indexVars, faults>>

\* GetBatchStatus.
StatusPoll ==
  /\ spc = "poll"
  /\ \/ /\ spc' = "save"
        /\ sjob' = [sjob EXCEPT !.status = server[sjob.batch]]
        /\ UNCHANGED faults
     \/ Fault /\ StatusEnds
  /\ UNCHANGED <<worldVars, file, fate, indexVars>>

\* SaveState, a failure of which is only a warning; then on by status.  With
\* --wait a job in progress is polled again.
StatusSave ==
  /\ spc = "save"
  /\ \/ SaveState(sjob) /\ Overwrite /\ UNCHANGED faults
     \/ Fault /\ UNCHANGED <<file, fate>>
  /\ \/ /\ sjob.status = "completed"
        /\ spc' = "download" /\ UNCHANGED sjob
     \/ /\ sjob.status = "failed"
        /\ spc' = "clear" /\ UNCHANGED sjob
     \/ /\ sjob.status \in {"running", "finalizing", "expired"}
        /\ \/ spc' = "poll" /\ UNCHANGED sjob
           \/ StatusEnds
  /\ UNCHANGED <<worldVars, indexVars>>

\* downloadAndSaveEmbeddings; whatever the fingerprint.
StatusDownload ==
  /\ spc = "download"
  /\ \/ /\ sjob.batch \notin broken
        /\ Save(sjob.batch)
        /\ spc' = "clear" /\ UNCHANGED <<sjob, faults>>
     \/ /\ sjob.batch \in broken
        /\ StatusEnds /\ UNCHANGED <<fate, faults>>
     \/ /\ Fault
        /\ StatusEnds /\ UNCHANGED fate
  /\ UNCHANGED <<worldVars, file, indexVars>>

\* ClearState; a failure of it is only a warning.
StatusClear ==
  /\ spc = "clear"
  /\ \/ ClearState /\ Overwrite /\ UNCHANGED faults
     \/ Fault /\ UNCHANGED <<file, fate>>
  /\ StatusEnds
  /\ UNCHANGED <<worldVars, indexVars>>

StatusDies ==
  /\ spc # "idle" /\ Fault
  /\ StatusEnds
  /\ UNCHANGED <<worldVars, file, fate, indexVars>>

-----------------------------------------------------------------------------
IndexStep == \/ Verify \/ Download \/ ClearSaved \/ Clear \/ Upload \/ Breadcrumb
             \/ CreateBatch \/ DropBreadcrumb \/ SaveJob

StatusStep == StatusPoll \/ StatusSave \/ StatusDownload \/ StatusClear

WorldStep == (\E b \in Batch : Progress(b) \/ Break(b)) \/ Age \/ \E k \in Confs : Configure(k)

BatchNext == WorldStep \/ IndexLoad \/ IndexStep \/ IndexDies \/ StatusLoad \/ StatusStep \/ StatusDies

\* A process that runs goes on, and time passes.
BatchFairness == WF_batchVars(IndexStep) /\ WF_batchVars(StatusStep) /\ WF_batchVars(Age)

BatchSpec == BatchInit /\ [][BatchNext]_batchVars /\ BatchFairness

-----------------------------------------------------------------------------
\* A job that is billed and whose results are not in the index is named by the
\* state file, or the user was told that it is given up - unless the reply to
\* its creation was lost, it had a status no branch names, or embed-status
\* overwrote its state with that of an older job.
NoSilentOrphan ==
  \A b \in Batch : server[b] \in Billed /\ fate[b] = "open" =>
                     file # NoFile /\ file.batch = b

\* The state file names job b, with a status that startBatchEmbeddings knows.
Named(b) == file # NoFile /\ file.batch = b /\ file.status \in {"creating", "running", "completed"}

\* If index runs in batch mode keep being started, a completed job does not
\* stay in the state file: it is saved or given up, whichever step a process
\* died in before.  A job that cannot be saved in full does stay.
Recovered ==
  []<>(ipc # "idle") =>
    \A b \in Batch : (Named(b) /\ server[b] = "completed") ~> (b \in broken \/ ~Named(b))

=============================================================================
