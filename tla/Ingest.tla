------------------------------- MODULE Ingest -------------------------------
(***************************************************************************)
(* The media pipeline: the PostgreSQL job queue with its leases            *)
(* (internal/jobs), the worker that probes, downloads, packages, uploads   *)
(* and publishes (internal/ingest), the retry a room may ask for, and the  *)
(* cleaner that removes the packages of abandoned attempts                 *)
(* (internal/mediastore/attempts.go).                                      *)
(*                                                                         *)
(* Every claim of a job is an attempt with a lease token of its own.  An   *)
(* attempt runs concurrently with every other one; each of its database    *)
(* statements (or transactions) is one step.  Time is abstracted: a lease  *)
(* that is not renewed may expire at any moment, and a pending job is      *)
(* claimed at any moment after its backoff.  Statement failures, crashes   *)
(* of a worker and cancellation by the lease watchdog are steps too.       *)
(***************************************************************************)
EXTENDS Naturals, FiniteSets

CONSTANTS
    Media,        \* media rows that may be admitted
    Jobs,         \* rows of the jobs table
    Leases,       \* attempt tokens; uuid.New(), never handed out twice
    Rooms,        \* rooms whose moderators may retry a failed media
    MaxAttempts,  \* ingest.MaxAttempts
    NoLease, NoJob, NoMedia

ASSUME IngestAssumption ==
    /\ MaxAttempts \in Nat \ {0}
    /\ NoLease \notin Leases
    /\ NoJob \notin Jobs
    /\ NoMedia \notin Media

VARIABLES
    media,     \* the media table: status, published prefix, poster
    jobs,      \* the jobs table
    att,       \* the attempt behind each lease token
    objects,   \* what S3 holds under each attempt's prefix
    view,      \* each room's in-memory copy of the media status
    retrying,  \* retries that set the status and have yet to enqueue
    cleaner    \* the periodic PruneAttempts pass

vars == <<media, jobs, att, objects, view, retrying, cleaner>>

-----------------------------------------------------------------------------
(***************************************************************************)
(* Types                                                                   *)
(***************************************************************************)

InProgress == {"queued", "probing", "downloading", "packaging", "uploading"}
MediaStatus == InProgress \cup {"none", "ready", "failed"}
JobStatus == {"none", "pending", "running", "done", "failed"}

\* The steps of process() that move the media status, in order, each with
\* the status it writes, the work that follows and the step after that.
SetSteps == {"setProbing", "setDownloading", "setPackaging", "setUploading"}
WorkSteps == {"probe", "download", "package"}
HandlerSteps == SetSteps \cup WorkSteps
                  \cup {"load", "probed", "upload", "uploading", "publish", "failMedia"}
Steps == HandlerSteps \cup {"idle", "recordFail", "complete", "end"}

StatusOf(s) == CASE s = "setProbing"     -> "probing"
                 [] s = "setDownloading" -> "downloading"
                 [] s = "setPackaging"   -> "packaging"
                 [] s = "setUploading"   -> "uploading"

After(s) == CASE s = "setProbing"     -> "probe"
              [] s = "probe"          -> "probed"
              [] s = "probed"         -> "setDownloading"
              [] s = "setDownloading" -> "download"
              [] s = "download"       -> "setPackaging"
              [] s = "setPackaging"   -> "package"
              [] s = "package"        -> "setUploading"
              [] s = "setUploading"   -> "upload"

MediaRow == [status: MediaStatus, prefix: Leases \cup {NoLease},
             poster: {"none", "source", "ours"}]
JobRow == [status: JobStatus, media: Media \cup {NoMedia}, attempts: 0..MaxAttempts,
           lease: Leases \cup {NoLease}, expired: BOOLEAN]
Attempt == [pc: Steps, job: Jobs \cup {NoJob}, permanent: BOOLEAN, lost: BOOLEAN]

TypeOK ==
    /\ media \in [Media -> MediaRow]
    /\ jobs \in [Jobs -> JobRow]
    /\ att \in [Leases -> Attempt]
    /\ objects \in [Leases -> {"none", "partial", "complete"}]
    /\ view \in [Rooms -> [Media -> MediaStatus]]
    /\ retrying \subseteq Rooms \X Media
    /\ cleaner \in [phase: {"idle", "listed", "deleting"}, prefixes: SUBSET Leases]

Init ==
    /\ media = [m \in Media |-> [status |-> "none", prefix |-> NoLease, poster |-> "none"]]
    /\ jobs = [j \in Jobs |-> [status |-> "none", media |-> NoMedia, attempts |-> 0,
                               lease |-> NoLease, expired |-> FALSE]]
    /\ att = [l \in Leases |-> [pc |-> "idle", job |-> NoJob,
                                permanent |-> FALSE, lost |-> FALSE]]
    /\ objects = [l \in Leases |-> "none"]
    /\ view = [r \in Rooms |-> [m \in Media |-> "none"]]
    /\ retrying = {}
    /\ cleaner = [phase |-> "idle", prefixes |-> {}]

-----------------------------------------------------------------------------
(***************************************************************************)
(* The job queue                                                           *)
(***************************************************************************)

\* A fresh row of the jobs table, as Enqueue inserts it.
Pending(m) == [status |-> "pending", media |-> m, attempts |-> 0,
               lease |-> NoLease, expired |-> FALSE]

\* "id = $1 AND lease = $2 AND status = 'running'": what every write of an
\* attempt is conditional on.
Owned(l) == /\ att[l].job \in Jobs
            /\ jobs[att[l].job].lease = l
            /\ jobs[att[l].job].status = "running"

\* A write that matched renews the lease as well (Renew, Fenced).
Renewed(l) == [jobs EXCEPT ![att[l].job].expired = FALSE]

\* A row that goes back to the queue, or out of it, drops its lease.
Released(j, status) == [jobs[j] EXCEPT !.status = status, !.lease = NoLease,
                                       !.expired = FALSE]

\* The media of the attempt's job.
MediaOf(l) == jobs[att[l].job].media

\* The room admits a link: the media row and its job appear in one
\* transaction (the row existed already: no job, nothing changes).
Create(m, j) ==
    /\ media[m].status = "none"
    /\ jobs[j].status = "none"
    /\ media' = [media EXCEPT ![m].status = "queued"]
    /\ jobs' = [jobs EXCEPT ![j] = Pending(m)]
    /\ UNCHANGED <<att, objects, view, retrying, cleaner>>

\* Claim takes a runnable job and starts an attempt with a fresh lease.
Claim(j, l) ==
    /\ jobs[j].status = "pending"
    /\ att[l].pc = "idle"
    /\ jobs' = [jobs EXCEPT ![j].status = "running", ![j].lease = l,
                            ![j].attempts = @ + 1, ![j].expired = FALSE]
    /\ att' = [att EXCEPT ![l].pc = "load", ![l].job = j]
    /\ UNCHANGED <<media, objects, view, retrying, cleaner>>

\* keepLease runs from the claim until run() has its handler's result, and
\* counts as running until that result is recorded: a lease lost between
\* the handler's return and cancel(nil) drops the result as well.
Kept(l) == att[l].pc \in Steps \ {"idle", "end"} /\ ~att[l].lost

\* keepLease renews while the handler runs and cancels the handler when
\* the attempt no longer owns its job.
Renew(l) ==
    /\ Kept(l)
    /\ \/ /\ Owned(l)
          /\ jobs' = Renewed(l)
          /\ UNCHANGED att
       \/ /\ ~Owned(l)
          /\ att' = [att EXCEPT ![l].lost = TRUE]
          /\ UNCHANGED jobs
    /\ UNCHANGED <<media, objects, view, retrying, cleaner>>

\* The watchdog: no renewal went through for three fifths of the lease.
Watchdog(l) ==
    /\ Kept(l)
    /\ att' = [att EXCEPT ![l].lost = TRUE]
    /\ UNCHANGED <<media, jobs, objects, view, retrying, cleaner>>

\* Time passes without a renewal: locked_at is older than the lease.
Expire(j) ==
    /\ jobs[j].status = "running" /\ ~jobs[j].expired
    /\ jobs' = [jobs EXCEPT ![j].expired = TRUE]
    /\ UNCHANGED <<media, att, objects, view, retrying, cleaner>>

\* Mutated: only jobs with attempts left are recovered.
RecoverStale_Retryable ==
    LET stale == {j \in Jobs : /\ jobs[j].status = "running" /\ jobs[j].expired
                               /\ jobs[j].attempts < MaxAttempts}
    IN /\ stale # {}
       /\ jobs' = [j \in Jobs |-> IF j \in stale THEN Released(j, "pending") ELSE jobs[j]]
       /\ UNCHANGED <<media, att, objects, view, retrying, cleaner>>

\* One statement returns every job whose lease ran out, or fails it when
\* its attempts are used up, and revokes the lease.
RecoverStale ==
    LET stale == {j \in Jobs : jobs[j].status = "running" /\ jobs[j].expired}
    IN /\ stale # {}
       /\ jobs' = [j \in Jobs |->
                    IF j \in stale
                      THEN Released(j, IF jobs[j].attempts >= MaxAttempts
                                         THEN "failed" ELSE "pending")
                      ELSE jobs[j]]
       /\ UNCHANGED <<media, att, objects, view, retrying, cleaner>>

-----------------------------------------------------------------------------
(***************************************************************************)
(* The worker's pipeline: one step per database write or long operation    *)
(***************************************************************************)

Goto(l, step) == att' = [att EXCEPT ![l].pc = step]

\* process() returned an error: Handle marks the media failed next.
Errs(l, permanent) == att' = [att EXCEPT ![l].pc = "failMedia", ![l].permanent = permanent]
Fails(l, permanent) == Errs(l, permanent) /\ UNCHANGED <<media, jobs, objects>>

\* A write went through.  Its answer may be lost all the same (the watchdog
\* or SIGTERM cancels the context while tx.Commit waits for it); the
\* attempt, which may still own the job, then goes on as if it had failed.
Answered(l, step) == Goto(l, step) \/ Errs(l, FALSE)

PipelineOnly == UNCHANGED <<view, retrying, cleaner>>

\* Handle loads the media row.  Any failure to load it is permanent and
\* returns before the code that marks the media failed.
Load(l) ==
    /\ att[l].pc = "load"
    /\ \/ att' = [att EXCEPT ![l].pc = "recordFail", ![l].permanent = TRUE]
       \/ /\ ~att[l].lost
          /\ Goto(l, IF media[MediaOf(l)].status = "ready" THEN "complete" ELSE "setProbing")
    /\ UNCHANGED <<media, jobs, objects>> /\ PipelineOnly

\* Mutated: the status is written without the fence.
SetStatus_Unfenced(l) ==
    /\ att[l].pc \in SetSteps
    /\ \/ /\ ~att[l].lost
          /\ media' = [media EXCEPT ![MediaOf(l)].status = StatusOf(att[l].pc)]
          /\ Answered(l, After(att[l].pc))
          /\ UNCHANGED <<jobs, objects>>
       \/ Fails(l, FALSE)
    /\ PipelineOnly

\* setStatus: fenced by the lease; a cancelled context, a failed statement
\* or a lost lease ends the attempt.
SetStatus(l) ==
    /\ att[l].pc \in SetSteps
    /\ \/ /\ Owned(l) /\ ~att[l].lost
          /\ media' = [media EXCEPT ![MediaOf(l)].status = StatusOf(att[l].pc)]
          /\ jobs' = Renewed(l)
          /\ Answered(l, After(att[l].pc))
          /\ UNCHANGED objects
       \/ Fails(l, FALSE)
    /\ PipelineOnly

\* Probe, download and package run outside the database.  A package that
\* fails, a source without usable formats and a private address are
\* permanent; whatever else goes wrong is retried.
Work(l) ==
    /\ att[l].pc \in WorkSteps
    /\ \/ Goto(l, After(att[l].pc)) /\ UNCHANGED <<media, jobs, objects>>
       \/ att[l].pc # "package" /\ Fails(l, FALSE)
       \/ att[l].pc # "download" /\ Fails(l, TRUE)
    /\ PipelineOnly

\* SetMediaProbed writes title, duration, chapters and the source's poster
\* on the pool: no fence, whoever owns the job by now.
Probed(l) ==
    /\ att[l].pc = "probed"
    /\ \/ /\ ~att[l].lost
          /\ media' = [media EXCEPT ![MediaOf(l)].poster = "source"]
          /\ Answered(l, After("probed"))
          /\ UNCHANGED <<jobs, objects>>
       \/ Fails(l, FALSE)
    /\ PipelineOnly

\* A progress report while downloading or packaging is fenced and renews.
Progress(l) ==
    /\ att[l].pc \in {"download", "package"}
    /\ Owned(l) /\ ~att[l].lost
    /\ jobs' = Renewed(l)
    /\ UNCHANGED <<media, att, objects>> /\ PipelineOnly

\* UploadDir writes object after object under the attempt's own prefix.
BeginUpload(l) ==
    /\ att[l].pc = "upload"
    /\ \/ /\ objects' = [objects EXCEPT ![l] = "partial"]
          /\ Goto(l, "uploading")
          /\ UNCHANGED <<media, jobs>>
       \/ Fails(l, FALSE)
    /\ PipelineOnly

\* What was uploaded before the cleaner removed the prefix stays missing.
FinishUpload(l) ==
    /\ att[l].pc = "uploading"
    /\ \/ /\ objects' = [objects EXCEPT ![l] = IF @ = "partial" THEN "complete" ELSE "partial"]
          /\ Goto(l, "publish")
          /\ UNCHANGED <<media, jobs>>
       \/ Fails(l, FALSE)
    /\ PipelineOnly

\* Mutated: the row becomes ready and does not name the package.
Publish_Unnamed(l) ==
    /\ att[l].pc = "publish"
    /\ \/ /\ Owned(l) /\ ~att[l].lost
          /\ media' = [media EXCEPT ![MediaOf(l)].status = "ready"]
          /\ jobs' = Renewed(l)
          /\ Answered(l, "complete")
          /\ UNCHANGED objects
       \/ Fails(l, FALSE)
    /\ PipelineOnly

\* The package becomes the media's, fenced; the poster is our own copy if
\* the thumbnail was fetched, else what the row holds.
Publish(l) ==
    /\ att[l].pc = "publish"
    /\ \/ /\ Owned(l) /\ ~att[l].lost
          /\ \E poster \in {"ours", media[MediaOf(l)].poster} :
               media' = [media EXCEPT ![MediaOf(l)] =
                          [status |-> "ready", prefix |-> l, poster |-> poster]]
          /\ jobs' = Renewed(l)
          /\ Answered(l, "complete")
          /\ UNCHANGED objects
       \/ Fails(l, FALSE)
    /\ PipelineOnly

\* Mutated: the media is marked failed whoever owns the job by now.
FailMedia_Unfenced(l) ==
    /\ att[l].pc = "failMedia"
    /\ \/ media' = [media EXCEPT ![MediaOf(l)].status = "failed"]
       \/ UNCHANGED media
    /\ Goto(l, "recordFail")
    /\ UNCHANGED <<jobs, objects>> /\ PipelineOnly

\* Handle marks the media failed under the fence, on a context that
\* outlives a lost lease, and whatever the row says by now: also a row this
\* attempt published without hearing so.  Whatever comes of it, run()
\* records the failure.
FailMedia(l) ==
    /\ att[l].pc = "failMedia"
    /\ \/ /\ Owned(l)
          /\ media' = [media EXCEPT ![MediaOf(l)].status = "failed"]
          /\ jobs' = Renewed(l)
       \/ UNCHANGED <<media, jobs>>
    /\ Goto(l, "recordFail")
    /\ UNCHANGED objects /\ PipelineOnly

\* run() records a failure: back to the queue with a backoff, or failed when
\* the attempts are used up or the error is permanent.  A lost lease, a
\* failed statement or a row that is no longer ours records nothing.
RecordFail(l) ==
    /\ att[l].pc = "recordFail"
    /\ \/ /\ Owned(l) /\ ~att[l].lost
          /\ LET j == att[l].job
                 retry == jobs[j].attempts < MaxAttempts /\ ~att[l].permanent
             IN jobs' = [jobs EXCEPT ![j] = Released(j, IF retry THEN "pending" ELSE "failed")]
       \/ UNCHANGED jobs
    /\ Goto(l, "end")
    /\ UNCHANGED <<media, objects>> /\ PipelineOnly

\* run() completes the job, under the same conditions.
Complete(l) ==
    /\ att[l].pc = "complete"
    /\ \/ /\ Owned(l) /\ ~att[l].lost
          /\ jobs' = [jobs EXCEPT ![att[l].job] = Released(att[l].job, "done")]
       \/ UNCHANGED jobs
    /\ Goto(l, "end")
    /\ UNCHANGED <<media, objects>> /\ PipelineOnly

\* The worker process dies; the row keeps its lease until it expires.
Crash(l) ==
    /\ att[l].pc \in Steps \ {"idle", "end"}
    /\ Goto(l, "end")
    /\ UNCHANGED <<media, jobs, objects>> /\ PipelineOnly

-----------------------------------------------------------------------------
(***************************************************************************)
(* Retry from a room                                                       *)
(***************************************************************************)

\* The room queues the media, or hears of a change of its row (a
\* notification, reconciliation).  QueueRetry holds the room's lock.
Refresh(r, m) ==
    /\ view[r][m] # media[m].status
    /\ \A n \in Media : <<r, n>> \notin retrying
    /\ view' = [view EXCEPT ![r][m] = media[m].status]
    /\ UNCHANGED <<media, jobs, att, objects, retrying, cleaner>>

\* QueueRetry looks at the room's copy, not at the row, and Service.Retry
\* first resets the row's status ...
RetryStatus(r, m) ==
    /\ view[r][m] = "failed"
    /\ \A n \in Media : <<r, n>> \notin retrying
    /\ media' = [media EXCEPT ![m].status = "queued"]
    /\ retrying' = retrying \cup {<<r, m>>}
    /\ UNCHANGED <<jobs, att, objects, view, cleaner>>

\* ... and then enqueues a new job, in a statement of its own.  Enqueue
\* fails after its insert when the notification does, and then the room's
\* copy stays failed.
RetryEnqueue(r, m, j) ==
    /\ <<r, m>> \in retrying
    /\ jobs[j].status = "none"
    /\ jobs' = [jobs EXCEPT ![j] = Pending(m)]
    /\ view' \in {view, [view EXCEPT ![r][m] = "queued"]}
    /\ retrying' = retrying \ {<<r, m>>}
    /\ UNCHANGED <<media, att, objects, cleaner>>

\* The insert failed, or the process died: the room's copy stays failed.
RetryFails(r, m) ==
    /\ <<r, m>> \in retrying
    /\ retrying' = retrying \ {<<r, m>>}
    /\ UNCHANGED <<media, jobs, att, objects, view, cleaner>>

-----------------------------------------------------------------------------
(***************************************************************************)
(* The cleaner of abandoned packages                                       *)
(***************************************************************************)

\* Mutated: the leases of running jobs are not looked at.
UnusedMediaAttempts_Unleased(prefixes) ==
    {l \in prefixes : \A m \in Media : media[m].prefix # l}

\* Prefixes that no published media and no running lease references.
UnusedMediaAttempts(prefixes) ==
    {l \in prefixes : /\ \A m \in Media : media[m].prefix # l
                      /\ \A j \in Jobs : ~(jobs[j].status = "running" /\ jobs[j].lease = l)}

\* Mutated: only whole packages are listed.
PruneList_Whole ==
    /\ cleaner.phase = "idle"
    /\ \E prefixes \in SUBSET {l \in Leases : objects[l] = "complete"} :
         /\ prefixes # {}
         /\ cleaner' = [phase |-> "listed", prefixes |-> prefixes]
    /\ UNCHANGED <<media, jobs, att, objects, view, retrying>>

\* List the bucket: the prefixes whose newest object is old enough.
PruneList ==
    /\ cleaner.phase = "idle"
    /\ \E prefixes \in SUBSET {l \in Leases : objects[l] # "none"} :
         /\ prefixes # {}
         /\ cleaner' = [phase |-> "listed", prefixes |-> prefixes]
    /\ UNCHANGED <<media, jobs, att, objects, view, retrying>>

\* Then check what the listed prefixes are referenced by.
PruneCheck ==
    /\ cleaner.phase = "listed"
    /\ cleaner' = [phase |-> "deleting", prefixes |-> UnusedMediaAttempts(cleaner.prefixes)]
    /\ UNCHANGED <<media, jobs, att, objects, view, retrying>>

\* Then delete them one after the other.
PruneDelete(l) ==
    /\ cleaner.phase = "deleting"
    /\ l \in cleaner.prefixes
    /\ objects' = [objects EXCEPT ![l] = "none"]
    /\ cleaner' = [cleaner EXCEPT !.prefixes = @ \ {l}]
    /\ UNCHANGED <<media, jobs, att, view, retrying>>

\* The pass is over, or an error or a crash ended it.
PruneEnd ==
    /\ cleaner.phase # "idle"
    /\ cleaner' = [phase |-> "idle", prefixes |-> {}]
    /\ UNCHANGED <<media, jobs, att, objects, view, retrying>>

-----------------------------------------------------------------------------
AttemptStep(l) ==
    \/ Load(l) \/ SetStatus(l) \/ Work(l) \/ Probed(l) \/ BeginUpload(l) \/ FinishUpload(l)
    \/ Publish(l) \/ FailMedia(l) \/ RecordFail(l) \/ Complete(l)

Next ==
    \/ \E m \in Media, j \in Jobs : Create(m, j)
    \/ \E j \in Jobs, l \in Leases : Claim(j, l)
    \/ \E j \in Jobs : Expire(j)
    \/ RecoverStale
    \/ \E l \in Leases : AttemptStep(l) \/ Progress(l) \/ Renew(l) \/ Watchdog(l) \/ Crash(l)
    \/ \E r \in Rooms, m \in Media :
         Refresh(r, m) \/ RetryStatus(r, m) \/ RetryFails(r, m)
    \/ \E r \in Rooms, m \in Media, j \in Jobs : RetryEnqueue(r, m, j)
    \/ PruneList \/ PruneCheck \/ PruneEnd
    \/ \E l \in Leases : PruneDelete(l)

Spec == Init /\ [][Next]_vars

\* The row's lease runs out once nobody renews it.
DeadExpires(j) ==
    /\ \A l \in Leases : jobs[j].lease = l => att[l].pc = "end" \/ att[l].lost
    /\ Expire(j)

\* A pass that lists every leftover, and goes on to check them.
Leftover == {l \in Leases : objects[l] # "none"}
PruneListAll == PruneList /\ cleaner'.prefixes = Leftover
PruneCheckAll == PruneCheck /\ cleaner.prefixes = Leftover

\* Workers poll, so a runnable job is claimed and a stale one recovered;
\* a running attempt goes on.  The janitor's ticker starts pass after pass;
\* each of them ends, and not all of them fail at the same place.
Fairness ==
    /\ \A j \in Jobs : WF_vars(\E l \in Leases : Claim(j, l)) /\ WF_vars(DeadExpires(j))
    /\ WF_vars(RecoverStale)
    /\ \A l \in Leases : WF_vars(AttemptStep(l)) /\ SF_vars(PruneDelete(l))
    /\ SF_vars(PruneListAll) /\ SF_vars(PruneCheckAll) /\ WF_vars(PruneEnd)

FairSpec == Spec /\ Fairness
-----------------------------------------------------------------------------
(***************************************************************************)
(* Properties                                                              *)
(***************************************************************************)

\* The package a media row points to is whole: every object of the prefix
\* was uploaded, and neither a stale attempt that resumes nor a cleaning
\* pass that decided earlier has removed one (attempts.go: "a new or active
\* upload cannot be mistaken for an abandoned one"; media.go: "an
\* unreferenced attempt cannot become publishable after this check").
PackagePresent ==
    \A m \in Media, l \in Leases : media[m].prefix = l => objects[l] = "complete"

\* A job waiting in the queue has an attempt left: crashes, lost leases and
\* recovery together never buy a job more than MaxAttempts runs (queue.go:
\* "Attempts already count the crashed run").
AttemptLeft == \A j \in Jobs : jobs[j].status = "pending" => jobs[j].attempts < MaxAttempts

\* An attempt that lost its job changes neither the status nor the package
\* of the media (queue.go, Fenced: "Writes that make an attempt's result
\* visible belong here ... a stale attempt's fn never runs").  The probed
\* fields, of which the poster is modelled, it does still write: SetMediaProbed
\* is not fenced.
StaleAttemptSilent ==
    [][\A l \in Leases : att'[l] # att[l] /\ ~Owned(l) =>
         \A m \in Media : /\ media'[m].status = media[m].status
                          /\ media'[m].prefix = media[m].prefix]_vars

\* An ingest that came to its end shows as ready or failed, and so can be
\* watched or retried: a row in progress has a job, or a retry, behind it.
IngestSettles ==
    \A m \in Media : media[m].status \in InProgress =>
        \/ \E j \in Jobs : jobs[j].media = m /\ jobs[j].status \in {"pending", "running"}
        \/ \E r \in Rooms : <<r, m>> \in retrying

\* A job that was queued ends: done or failed, whatever kills its workers
\* (queue.go: "a job that keeps killing its worker eventually fails").
JobsSettle ==
    \A j \in Jobs : jobs[j].status # "none" ~> jobs[j].status \in {"done", "failed"}

\* What an abandoned attempt left in the bucket is removed eventually, also
\* when the attempt resumed its upload after a first cleaning pass.
AbandonedRemoved ==
    \A l \in Leases : att[l].pc = "end" ~>
        (objects[l] = "none" \/ \E m \in Media : media[m].prefix = l)

\* The attempt published and, not having heard so, is about to mark the
\* media failed.
Unheard(m) == /\ media[m].status = "ready"
              /\ \E l \in Leases : media[m].prefix = l /\ att[l].pc = "failMedia"

\* What the pipeline looks like from outside: every step of an ingest is
\* pending, and the package behind a row is what the bucket holds of it.
ShownOf(m) == IF media[m].status \in InProgress THEN "pending"
              ELSE IF Unheard(m) THEN "unheard" ELSE media[m].status
Shown == [m \in Media |-> ShownOf(m)]
Served == [m \in Media |->
             IF media[m].prefix \in Leases /\ objects[media[m].prefix] # "complete" THEN "broken" ELSE media[m].prefix]

Lib == INSTANCE Library WITH Packages <- Leases, NoPackage <- NoLease, Retries <- (Rooms # {}),
                             status <- Shown, package <- Served

\* The pipeline implements the library: whatever the attempts, crashes, lost
\* leases, retries and cleaning passes do, a viewer sees only its steps.
ServesLibrary == Lib!Spec

-----------------------------------------------------------------------------
(***************************************************************************)
(* Why PackagePresent holds: the inductive invariant                       *)
(***************************************************************************)

\* The job row carries a lease.
Leased(l) == \E j \in Jobs : jobs[j].lease = l

\* A lease belongs to one running row, and to the attempt that claimed it.
LeaseInv ==
    /\ \A j \in Jobs : jobs[j].lease # NoLease => jobs[j].status = "running"
    /\ \A j \in Jobs, l \in Leases : jobs[j].lease = l => att[l].job = j

\* A token not handed out yet is referenced by nothing.
FreshInv ==
    \A l \in Leases : att[l].pc = "idle" =>
        /\ ~Leased(l)
        /\ objects[l] = "none"
        /\ l \notin cleaner.prefixes

\* The steps an attempt may be at once it has published.
Over == {"complete", "failMedia", "recordFail", "end"}

\* A published package is whole, and its attempt has nothing left to upload.
PublishedInv ==
    \A m \in Media, l \in Leases : media[m].prefix = l =>
        objects[l] = "complete" /\ att[l].pc \in Over

\* While the attempt holds its lease nobody has removed its objects.
UploadInv ==
    \A l \in Leases : Leased(l) =>
        /\ att[l].pc = "uploading" => objects[l] = "partial"
        /\ att[l].pc = "publish" => objects[l] = "complete"

\* What the cleaner is deleting is neither published nor leased.
CleanerInv ==
    cleaner.phase = "deleting" =>
        \A l \in cleaner.prefixes : ~Leased(l) /\ \A m \in Media : media[m].prefix # l

PackageInv ==
    LeaseInv /\ FreshInv /\ PublishedInv /\ UploadInv /\ CleanerInv

-----------------------------------------------------------------------------
(***************************************************************************)
(* Why the pipeline implements the library                                 *)
(***************************************************************************)

\* A job, a room's copy and a retry under way have a media row behind them,
\* an attempt has a job, and a package is that of its attempt's media.
KnownInv ==
    /\ \A j \in Jobs : jobs[j].status # "none" =>
         jobs[j].media \in Media /\ media[jobs[j].media].status # "none"
    /\ \A l \in Leases : att[l].pc # "idle" =>
         att[l].job \in Jobs /\ jobs[att[l].job].status # "none"
    /\ \A r \in Rooms, m \in Media :
         view[r][m] # "none" \/ <<r, m>> \in retrying => media[m].status # "none"
    /\ \A m \in Media, l \in Leases :
         media[m].prefix = l => att[l].pc # "idle" /\ MediaOf(l) = m

\* The steps of process() after the status was written.
Working == (HandlerSteps \ {"load", "setProbing", "failMedia"})

\* Without retries a media has one job, and the attempt that owns it sees
\* the status as it left it; what it fails and is ready, it published.
OnceInv ==
    Rooms = {} =>
      /\ \A j, k \in Jobs : jobs[j].status # "none" /\ jobs[k].status # "none"
                             /\ jobs[j].media = jobs[k].media => j = k
      /\ \A l \in Leases : Owned(l) =>
           /\ att[l].pc \in Working => media[MediaOf(l)].status \in InProgress
           /\ att[l].pc = "setProbing" => media[MediaOf(l)].status # "ready"
           /\ att[l].pc = "failMedia" /\ media[MediaOf(l)].status = "ready"
                => media[MediaOf(l)].prefix = l
=============================================================================
