---------------------------- MODULE IngestProofs ----------------------------
(***************************************************************************)
(* Theorems about the media pipeline, for any number of media, jobs,       *)
(* attempts and rooms.                                                     *)
(***************************************************************************)
EXTENDS Ingest, TLAPS

\* The steps of an attempt stay inside the pipeline.
LEMMA AfterType ==
    \A s \in SetSteps \cup WorkSteps \cup {"probed"} :
        After(s) \in Steps \ {"idle", "uploading", "publish", "complete", "end"}
BY DEF After, Steps, HandlerSteps, SetSteps, WorkSteps

\* setStatus writes an in-progress status.
LEMMA StatusType == \A s \in SetSteps : StatusOf(s) \in MediaStatus
BY DEF StatusOf, SetSteps, MediaStatus, InProgress

\* The steps named by the actions.
LEMMA StepNames == {"load", "setProbing", "uploading", "publish", "failMedia", "recordFail", "complete", "end"} \subseteq Steps
BY DEF Steps, HandlerSteps, SetSteps, WorkSteps

\* Updating one field of a row leaves it a row.
LEMMA MediaFields ==
    ASSUME NEW r \in MediaRow
    PROVE  /\ \A s \in MediaStatus : [r EXCEPT !.status = s] \in MediaRow
           /\ [r EXCEPT !.poster = "source"] \in MediaRow
           /\ \A l \in Leases, p \in {"ours", r.poster} :
                [status |-> "ready", prefix |-> l, poster |-> p] \in MediaRow
BY DEF MediaRow, MediaStatus, InProgress

\* Updating the fields a claim or a release writes leaves a job a job.
LEMMA JobFields ==
    ASSUME NEW r \in JobRow
    PROVE  /\ \A e \in BOOLEAN : [r EXCEPT !.expired = e] \in JobRow
           /\ \A s \in JobStatus :
                [r EXCEPT !.status = s, !.lease = NoLease, !.expired = FALSE] \in JobRow
BY DEF JobRow

\* Claiming a job that has an attempt left leaves it a job within the budget.
LEMMA ClaimFields ==
    ASSUME NEW r \in JobRow, NEW l \in Leases, r.attempts < MaxAttempts
    PROVE  [r EXCEPT !.status = "running", !.lease = l, !.attempts = @ + 1, !.expired = FALSE] \in JobRow
<1>1. r.attempts + 1 \in 0..MaxAttempts
  BY IngestAssumption DEF JobRow
<1> QED
  BY <1>1 DEF JobRow, JobStatus

\* A freshly enqueued job is well typed and has spent no attempt.
LEMMA PendingType == \A m \in Media : Pending(m) \in JobRow
BY IngestAssumption DEF Pending, JobRow, JobStatus

\* Updating one field of an attempt leaves it an attempt.
LEMMA AttemptFields ==
    ASSUME NEW a \in Attempt
    PROVE  /\ \A s \in Steps : [a EXCEPT !.pc = s] \in Attempt
           /\ \A s \in Steps, p \in BOOLEAN : [[a EXCEPT !.pc = s] EXCEPT !.permanent = p] \in Attempt
           /\ \A s \in Steps, j \in Jobs : [[a EXCEPT !.pc = s] EXCEPT !.job = j] \in Attempt
           /\ [a EXCEPT !.lost = TRUE] \in Attempt
BY DEF Attempt

-----------------------------------------------------------------------------
(***************************************************************************)
(* Types and the attempt budget                                            *)
(***************************************************************************)

\* The inductive invariant behind TypeCorrect and Budget.
BudgetInv == TypeOK /\ AttemptLeft

\* Releasing a job row gives up its lease and keeps its attempts.
LEMMA ReleasedType ==
    ASSUME TypeOK, NEW j \in Jobs, NEW s \in JobStatus
    PROVE  /\ Released(j, s) \in JobRow
           /\ Released(j, s).status = s
           /\ Released(j, s).attempts = jobs[j].attempts
BY JobFields DEF Released, TypeOK, JobRow

\* BudgetInv holds before anything was enqueued.
LEMMA BudgetInit == Init => BudgetInv
<1> SUFFICES ASSUME Init PROVE BudgetInv
  OBVIOUS
<1>1. [status |-> "none", prefix |-> NoLease, poster |-> "none"] \in MediaRow
  BY DEF MediaRow, MediaStatus
<1>2. [status |-> "none", media |-> NoMedia, attempts |-> 0, lease |-> NoLease, expired |-> FALSE] \in JobRow
  BY IngestAssumption DEF JobRow, JobStatus
<1>3. [pc |-> "idle", job |-> NoJob, permanent |-> FALSE, lost |-> FALSE] \in Attempt
  BY DEF Attempt, Steps
<1>4. "none" \in MediaStatus
  BY DEF MediaStatus
<1> QED
  BY <1>1, <1>2, <1>3, <1>4 DEF Init, BudgetInv, TypeOK, AttemptLeft

\* A failing step changes the attempt only.
LEMMA FailsType ==
    ASSUME TypeOK, NEW l \in Leases, NEW p \in BOOLEAN, Fails(l, p)
    PROVE  att' \in [Leases -> Attempt] /\ UNCHANGED <<media, jobs, objects>>
BY AttemptFields, StepNames DEF Fails, Errs, TypeOK

\* Moving an attempt to another step keeps the attempts well typed.
LEMMA GotoType ==
    ASSUME TypeOK, NEW l \in Leases, NEW s \in Steps, Goto(l, s)
    PROVE  att' \in [Leases -> Attempt]
BY AttemptFields DEF Goto, TypeOK

\* Moving an attempt changes its step and nothing else.
LEMMA GotoFields ==
    ASSUME TypeOK, NEW l \in Leases, NEW s, Goto(l, s)
    PROVE  /\ att'[l].pc = s
           /\ \A k \in Leases : att'[k].job = att[k].job
           /\ \A k \in Leases : k # l => att'[k] = att[k]
BY DEF Goto, TypeOK, Attempt

\* A write that went through moves its attempt on, or to its failure.
LEMMA AnsweredType ==
    ASSUME TypeOK, NEW l \in Leases, NEW s \in Steps, Answered(l, s)
    PROVE  att' \in [Leases -> Attempt]
<1>1. CASE Goto(l, s) BY <1>1, GotoType
<1>2. CASE Errs(l, FALSE) BY <1>2, AttemptFields, StepNames DEF Errs, TypeOK
<1> QED BY <1>1, <1>2 DEF Answered

\* It changes nothing else of the attempts.
LEMMA AnsweredFields ==
    ASSUME TypeOK, NEW l \in Leases, NEW s, Answered(l, s)
    PROVE  /\ att'[l].pc \in {s, "failMedia"}
           /\ \A k \in Leases : att'[k].job = att[k].job
           /\ \A k \in Leases : k # l => att'[k] = att[k]
<1>1. CASE Goto(l, s) BY <1>1, GotoFields
<1>2. CASE Errs(l, FALSE) BY <1>2 DEF Errs, TypeOK, Attempt
<1> QED BY <1>1, <1>2 DEF Answered

\* A fenced write renews the lease and leaves the budget alone.
LEMMA RenewedType ==
    ASSUME TypeOK, NEW l \in Leases, Owned(l)
    PROVE  /\ Renewed(l) \in [Jobs -> JobRow]
           /\ \A j \in Jobs : /\ Renewed(l)[j].status = jobs[j].status
                              /\ Renewed(l)[j].attempts = jobs[j].attempts
                              /\ Renewed(l)[j].lease = jobs[j].lease
                              /\ Renewed(l)[j].media = jobs[j].media
<1>1. att[l].job \in Jobs
  BY DEF Owned
<1>2. Renewed(l) \in [Jobs -> JobRow]
  BY <1>1, JobFields DEF Renewed, TypeOK
<1> QED
  BY <1>1, <1>2 DEF Renewed, TypeOK, JobRow

\* Writing a status to one media row keeps the rows well typed.
LEMMA MediaStatusType ==
    ASSUME TypeOK, NEW m, NEW s \in MediaStatus
    PROVE  [media EXCEPT ![m].status = s] \in [Media -> MediaRow]
<1>1. CASE m \in Media
  BY <1>1, MediaFields DEF TypeOK
<1>2. CASE m \notin Media
  BY <1>2 DEF TypeOK
<1> QED
  BY <1>1, <1>2

\* Every action of the pipeline preserves the types and the budget.
LEMMA BudgetStep == BudgetInv /\ [Next]_vars => BudgetInv'
<1> SUFFICES ASSUME BudgetInv, [Next]_vars PROVE BudgetInv'
  OBVIOUS
<1> USE StepNames DEF BudgetInv
<1>0. {"queued", "failed"} \subseteq MediaStatus /\ {"pending", "failed", "done"} \subseteq JobStatus
  BY DEF MediaStatus, InProgress, JobStatus
<1>1. ASSUME NEW m \in Media, NEW j \in Jobs, Create(m, j) PROVE BudgetInv'
  <2>1. media' \in [Media -> MediaRow]
    BY <1>0, <1>1, MediaStatusType DEF Create
  <2>2. Pending(m).attempts < MaxAttempts
    BY IngestAssumption DEF Pending
  <2> QED
    BY <1>1, <2>1, <2>2, PendingType DEF Create, TypeOK, AttemptLeft
<1>2. ASSUME NEW j \in Jobs, NEW l \in Leases, Claim(j, l) PROVE BudgetInv'
  <2>1. jobs' \in [Jobs -> JobRow]
    BY <1>2, ClaimFields DEF Claim, TypeOK, AttemptLeft
  <2>2. att' \in [Leases -> Attempt]
    BY <1>2, AttemptFields DEF Claim, TypeOK
  <2>3. AttemptLeft'
    BY <1>2, <2>1 DEF Claim, TypeOK, AttemptLeft, JobRow
  <2> QED
    BY <1>2, <2>1, <2>2, <2>3 DEF Claim, TypeOK
<1>3. ASSUME NEW j \in Jobs, Expire(j) PROVE BudgetInv'
  <2>1. jobs' \in [Jobs -> JobRow]
    BY <1>3, JobFields DEF Expire, TypeOK
  <2>2. AttemptLeft'
    BY <1>3, <2>1 DEF Expire, TypeOK, AttemptLeft, JobRow
  <2> QED
    BY <1>3, <2>1, <2>2 DEF Expire, TypeOK
<1>4. CASE RecoverStale
  <2> DEFINE next(j) == Released(j, IF jobs[j].attempts >= MaxAttempts THEN "failed" ELSE "pending")
  <2>1. \A j \in Jobs : next(j) \in JobRow /\ (next(j).status = "pending" => next(j).attempts < MaxAttempts)
    BY <1>0, ReleasedType, IngestAssumption DEF TypeOK, JobRow
  <2> HIDE DEF next
  <2>2. \A j \in Jobs : jobs'[j] = next(j) \/ jobs'[j] = jobs[j]
    BY <1>4 DEF RecoverStale, next
  <2>3. jobs' \in [Jobs -> JobRow]
    <3>1. jobs' = [j \in Jobs |-> jobs'[j]]
      BY <1>4 DEF RecoverStale
    <3> QED
      BY <2>1, <2>2, <3>1 DEF TypeOK
  <2> QED
    BY <1>4, <2>1, <2>2, <2>3 DEF RecoverStale, TypeOK, AttemptLeft
<1>5. ASSUME NEW l \in Leases, Load(l) PROVE BudgetInv'
  <2>1. CASE att' = [att EXCEPT ![l].pc = "recordFail", ![l].permanent = TRUE]
    BY <1>5, <2>1, AttemptFields DEF Load, PipelineOnly, TypeOK, AttemptLeft
  <2>2. ASSUME NEW s \in {"complete", "setProbing"}, Goto(l, s) PROVE BudgetInv'
    <3>1. att' \in [Leases -> Attempt]
      BY <2>2, GotoType
    <3> QED
      BY <1>5, <3>1 DEF Load, PipelineOnly, TypeOK, AttemptLeft
  <2> QED
    BY <1>5, <2>1, <2>2 DEF Load
<1>6. ASSUME NEW l \in Leases, SetStatus(l) PROVE BudgetInv'
  <2>1. CASE Fails(l, FALSE)
    BY <1>6, <2>1, FailsType DEF SetStatus, PipelineOnly, TypeOK, AttemptLeft
  <2>2. CASE Owned(l) /\ Answered(l, After(att[l].pc)) /\ jobs' = Renewed(l)
             /\ media' = [media EXCEPT ![MediaOf(l)].status = StatusOf(att[l].pc)] /\ UNCHANGED objects
    <3>1. att' \in [Leases -> Attempt]
      BY <1>6, <2>2, AfterType, AnsweredType DEF SetStatus
    <3>2. media' \in [Media -> MediaRow]
      BY <1>6, <2>2, StatusType, MediaStatusType DEF SetStatus
    <3> QED
      BY <1>6, <2>2, <3>1, <3>2, RenewedType DEF SetStatus, PipelineOnly, TypeOK, AttemptLeft
  <2> QED
    BY <1>6, <2>1, <2>2 DEF SetStatus
<1>7. ASSUME NEW l \in Leases, Work(l) PROVE BudgetInv'
  <2>1. att' \in [Leases -> Attempt] /\ UNCHANGED <<media, jobs, objects>>
    BY <1>7, AfterType, GotoType, FailsType DEF Work
  <2> QED
    BY <1>7, <2>1 DEF Work, PipelineOnly, TypeOK, AttemptLeft
<1>8. ASSUME NEW l \in Leases, Probed(l) PROVE BudgetInv'
  <2>1. att' \in [Leases -> Attempt] /\ UNCHANGED <<jobs, objects>>
    BY <1>8, AfterType, AnsweredType, FailsType DEF Probed
  <2>2. [media EXCEPT ![MediaOf(l)].poster = "source"] \in [Media -> MediaRow]
    <3>1. CASE MediaOf(l) \in Media
      BY <3>1, MediaFields DEF TypeOK
    <3>2. CASE MediaOf(l) \notin Media
      BY <3>2 DEF TypeOK
    <3> QED
      BY <3>1, <3>2
  <2>3. media' \in [Media -> MediaRow]
    BY <1>8, <2>2, FailsType DEF Probed, TypeOK
  <2> QED
    BY <1>8, <2>1, <2>3 DEF Probed, PipelineOnly, TypeOK, AttemptLeft
<1>9. ASSUME NEW l \in Leases, BeginUpload(l) \/ FinishUpload(l) PROVE BudgetInv'
  <2>1. att' \in [Leases -> Attempt] /\ UNCHANGED <<media, jobs>>
    BY <1>9, GotoType, FailsType DEF BeginUpload, FinishUpload
  <2>2. objects' \in [Leases -> {"none", "partial", "complete"}]
    BY <1>9, FailsType DEF BeginUpload, FinishUpload, TypeOK
  <2> QED
    BY <1>9, <2>1, <2>2 DEF BeginUpload, FinishUpload, PipelineOnly, TypeOK, AttemptLeft
<1>10. ASSUME NEW l \in Leases, Publish(l) PROVE BudgetInv'
  <2>1. CASE Fails(l, FALSE)
    BY <1>10, <2>1, FailsType DEF Publish, PipelineOnly, TypeOK, AttemptLeft
  <2>2. CASE ~Fails(l, FALSE)
    <3>1. Owned(l) /\ Answered(l, "complete") /\ jobs' = Renewed(l) /\ UNCHANGED objects
      BY <1>10, <2>2 DEF Publish
    <3>2. att' \in [Leases -> Attempt]
      BY <3>1, AnsweredType
    <3>3. media' \in [Media -> MediaRow]
      <4>1. PICK p \in {"ours", media[MediaOf(l)].poster} :
               media' = [media EXCEPT ![MediaOf(l)] = [status |-> "ready", prefix |-> l, poster |-> p]]
        BY <1>10, <2>2 DEF Publish
      <4>2. CASE MediaOf(l) \in Media
        BY <4>1, <4>2, MediaFields DEF TypeOK
      <4>3. CASE MediaOf(l) \notin Media
        BY <4>1, <4>3 DEF TypeOK
      <4> QED
        BY <4>2, <4>3
    <3> QED
      BY <1>10, <3>1, <3>2, <3>3, RenewedType DEF Publish, PipelineOnly, TypeOK, AttemptLeft
  <2> QED
    BY <2>1, <2>2
<1>11. ASSUME NEW l \in Leases, FailMedia(l) PROVE BudgetInv'
  <2>1. att' \in [Leases -> Attempt]
    BY <1>11, GotoType DEF FailMedia
  <2>0. media \in [Media -> MediaRow]
    BY DEF TypeOK
  <2>2. media' \in [Media -> MediaRow]
    BY <1>0, <1>11, <2>0, MediaStatusType DEF FailMedia
  <2> QED
    BY <1>11, <2>1, <2>2, RenewedType DEF FailMedia, PipelineOnly, TypeOK, AttemptLeft
<1>12. ASSUME NEW l \in Leases, RecordFail(l) \/ Complete(l) PROVE BudgetInv'
  <2>1. att' \in [Leases -> Attempt]
    BY <1>12, GotoType DEF RecordFail, Complete
  <2>2. CASE UNCHANGED jobs
    BY <1>12, <2>1, <2>2 DEF RecordFail, Complete, PipelineOnly, TypeOK, AttemptLeft
  <2>3. CASE jobs' # jobs
    <3>1. PICK s \in {"pending", "failed", "done"} :
            /\ Owned(l)
            /\ jobs' = [jobs EXCEPT ![att[l].job] = Released(att[l].job, s)]
            /\ s = "pending" => jobs[att[l].job].attempts < MaxAttempts
      BY <1>12, <2>3 DEF RecordFail, Complete
    <3>2. att[l].job \in Jobs
      BY <3>1 DEF Owned
    <3> QED
      BY <1>0, <1>12, <2>1, <3>1, <3>2, ReleasedType
         DEF RecordFail, Complete, PipelineOnly, TypeOK, AttemptLeft
  <2> QED
    BY <2>2, <2>3
<1>13. ASSUME NEW l \in Leases, Progress(l) PROVE BudgetInv'
  BY <1>13, RenewedType DEF Progress, PipelineOnly, TypeOK, AttemptLeft
<1>14. ASSUME NEW l \in Leases, Renew(l) \/ Watchdog(l) PROVE BudgetInv'
  <2>1. att' \in [Leases -> Attempt]
    <3>1. [att EXCEPT ![l].lost = TRUE] \in [Leases -> Attempt]
      BY AttemptFields DEF TypeOK
    <3> QED
      BY <1>14, <3>1 DEF Renew, Watchdog, TypeOK
  <2> QED
    BY <1>14, <2>1, RenewedType DEF Renew, Watchdog, TypeOK, AttemptLeft
<1>15. ASSUME NEW l \in Leases, Crash(l) PROVE BudgetInv'
  <2>1. att' \in [Leases -> Attempt]
    BY <1>15, GotoType DEF Crash
  <2> QED
    BY <1>15, <2>1 DEF Crash, PipelineOnly, TypeOK, AttemptLeft
<1>16. ASSUME NEW r \in Rooms, NEW m \in Media, Refresh(r, m) \/ RetryStatus(r, m) \/ RetryFails(r, m) PROVE BudgetInv'
  <2>1. media' \in [Media -> MediaRow]
    BY <1>0, <1>16, MediaStatusType DEF Refresh, RetryStatus, RetryFails, TypeOK
  <2>2. view' \in [Rooms -> [Media -> MediaStatus]]
    <3>1. media[m].status \in MediaStatus
      BY DEF TypeOK, MediaRow
    <3>2. [view EXCEPT ![r][m] = media[m].status] \in [Rooms -> [Media -> MediaStatus]]
      BY <3>1 DEF TypeOK
    <3> QED
      BY <1>16, <3>2 DEF Refresh, RetryStatus, RetryFails, TypeOK
  <2> QED
    BY <1>16, <2>1, <2>2 DEF Refresh, RetryStatus, RetryFails, TypeOK, AttemptLeft
<1>17. ASSUME NEW r \in Rooms, NEW m \in Media, NEW j \in Jobs, RetryEnqueue(r, m, j) PROVE BudgetInv'
  <2>1. Pending(m).attempts < MaxAttempts
    BY IngestAssumption DEF Pending
  <2>2. view' \in [Rooms -> [Media -> MediaStatus]]
    <3>1. [view EXCEPT ![r][m] = "queued"] \in [Rooms -> [Media -> MediaStatus]]
      BY <1>0 DEF TypeOK
    <3> QED
      BY <1>17, <3>1 DEF RetryEnqueue, TypeOK
  <2> QED
    BY <1>17, <2>1, <2>2, PendingType DEF RetryEnqueue, TypeOK, AttemptLeft
<1>18. CASE PruneList \/ PruneCheck \/ PruneEnd
  <2>1. cleaner' \in [phase: {"idle", "listed", "deleting"}, prefixes: SUBSET Leases]
    BY <1>18 DEF PruneList, PruneCheck, PruneEnd, UnusedMediaAttempts, TypeOK
  <2> QED
    BY <1>18, <2>1 DEF PruneList, PruneCheck, PruneEnd, TypeOK, AttemptLeft
<1>19. ASSUME NEW l \in Leases, PruneDelete(l) PROVE BudgetInv'
  BY <1>19 DEF PruneDelete, TypeOK, AttemptLeft
<1>20. CASE UNCHANGED vars
  BY <1>20 DEF vars, TypeOK, AttemptLeft
<1> QED
  BY <1>1, <1>2, <1>3, <1>4, <1>5, <1>6, <1>7, <1>8, <1>9, <1>10, <1>11, <1>12, <1>13,
     <1>14, <1>15, <1>16, <1>17, <1>18, <1>19, <1>20 DEF Next, AttemptStep

\* Every reachable state of the pipeline is well typed; in particular no job
\* is ever run more than MaxAttempts times.
THEOREM TypeCorrect == Spec => []TypeOK
BY BudgetInit, BudgetStep, PTL DEF Spec, BudgetInv

\* A waiting job always has an attempt left, however many workers crashed.
THEOREM Budget == Spec => []AttemptLeft
BY BudgetInit, BudgetStep, PTL DEF Spec, BudgetInv

-----------------------------------------------------------------------------
(***************************************************************************)
(* A published package is never incomplete                                 *)
(***************************************************************************)

\* PackageInv holds before anything was uploaded.
LEMMA PackageInit == Init => PackageInv
BY IngestAssumption
   DEF Init, PackageInv, LeaseInv, FreshInv, PublishedInv, UploadInv, CleanerInv, Leased

\* What a step that neither hands out a lease nor touches a package does:
\* leases are kept or dropped, attempts move on, prefixes stay.
LeasesKept ==
    \A j \in Jobs : \/ jobs'[j].lease = NoLease
                    \/ jobs'[j].lease = jobs[j].lease /\ jobs'[j].status = jobs[j].status
AttemptsMove ==
    \A k \in Leases :
        /\ att'[k].job = att[k].job
        /\ att'[k].pc = "idle" <=> att[k].pc = "idle"
        /\ att[k].pc \in Over => att'[k].pc \in Over
        /\ att'[k].pc \in {"uploading", "publish"} => att'[k].pc = att[k].pc
PrefixesKept == \A m \in Media : media'[m].prefix = media[m].prefix

Routine == LeasesKept /\ AttemptsMove /\ PrefixesKept /\ UNCHANGED <<objects, cleaner>>

\* A step that leaves objects, leases and published prefixes alone preserves PackageInv.
LEMMA RoutineStep == TypeOK /\ PackageInv /\ Routine => PackageInv'
<1> SUFFICES ASSUME TypeOK, PackageInv, Routine PROVE PackageInv'
  OBVIOUS
<1> USE IngestAssumption DEF PackageInv, Routine, LeasesKept, AttemptsMove, PrefixesKept
<1>1. \A l \in Leases : Leased(l)' => Leased(l)
  BY DEF Leased
<1>2. LeaseInv'
  BY DEF LeaseInv
<1>3. FreshInv'
  BY <1>1 DEF FreshInv
<1>4. PublishedInv'
  BY DEF PublishedInv
<1>5. UploadInv'
  BY <1>1 DEF UploadInv
<1>6. CleanerInv'
  <2>1. cleaner.prefixes \subseteq Leases
    BY DEF TypeOK
  <2> QED
    BY <1>1, <2>1 DEF CleanerInv
<1> QED
  BY <1>2, <1>3, <1>4, <1>5, <1>6

\* An attempt that moves to a step other than uploading and publishing.
LEMMA MoveRoutine ==
    ASSUME TypeOK, NEW l \in Leases, NEW s \in Steps \ {"idle", "uploading", "publish"}, NEW p \in BOOLEAN,
           att[l].pc # "idle", att[l].pc \in Over => s \in Over,
           att' = [att EXCEPT ![l].pc = s] \/ att' = [att EXCEPT ![l].pc = s, ![l].permanent = p]
    PROVE  AttemptsMove
<1>0. att \in [Leases -> Attempt]
  BY DEF TypeOK
<1>1. /\ \A k \in Leases : att'[k].job = att[k].job
      /\ \A k \in Leases : k # l => att'[k] = att[k]
      /\ att'[l].pc = s
  <2>1. CASE att' = [att EXCEPT ![l].pc = s]
    BY <1>0, <2>1 DEF Attempt
  <2>2. CASE att' = [att EXCEPT ![l].pc = s, ![l].permanent = p]
    BY <1>0, <2>2 DEF Attempt
  <2> QED
    BY <2>1, <2>2
<1>2. ASSUME NEW k \in Leases
      PROVE  /\ att'[k].pc = "idle" <=> att[k].pc = "idle"
             /\ att[k].pc \in Over => att'[k].pc \in Over
             /\ att'[k].pc \in {"uploading", "publish"} => att'[k].pc = att[k].pc
  <2>1. CASE k = l BY <1>1, <2>1
  <2>2. CASE k # l BY <1>1, <2>2
  <2> QED BY <2>1, <2>2
<1> QED
  BY <1>1, <1>2 DEF AttemptsMove

\* The writes of an attempt to its own job row.
LEMMA JobsRoutine ==
    ASSUME TypeOK, NEW l \in Leases, NEW s,
           \/ jobs' = jobs
           \/ Owned(l) /\ jobs' = Renewed(l)
           \/ Owned(l) /\ jobs' = [jobs EXCEPT ![att[l].job] = Released(att[l].job, s)]
    PROVE  LeasesKept
<1>1. CASE jobs' = jobs
  BY <1>1 DEF LeasesKept
<1>2. CASE Owned(l) /\ jobs' = Renewed(l)
  BY <1>2, RenewedType DEF LeasesKept
<1>3. CASE Owned(l) /\ jobs' = [jobs EXCEPT ![att[l].job] = Released(att[l].job, s)]
  <2>1. \A j \in Jobs : jobs'[j] = Released(att[l].job, s) \/ jobs'[j] = jobs[j]
    BY <1>3 DEF TypeOK
  <2>2. Released(att[l].job, s).lease = NoLease
    BY <1>3 DEF Released, Owned, TypeOK, JobRow
  <2> QED
    BY <2>1, <2>2 DEF LeasesKept
<1> QED
  BY <1>1, <1>2, <1>3

\* The writes to the media row that leave the published package alone.
LEMMA PrefixRoutine ==
    ASSUME TypeOK, NEW m, NEW s,
           \/ media' = media
           \/ media' = [media EXCEPT ![m].status = s]
           \/ media' = [media EXCEPT ![m].poster = s]
    PROVE  PrefixesKept
BY DEF PrefixesKept, TypeOK, MediaRow

\* Every action but Claim, the upload, the publication and the cleaner's.
LEMMA RoutineActions ==
    ASSUME TypeOK, FreshInv, [Next]_vars,
           ~ \E j \in Jobs, l \in Leases : Claim(j, l),
           ~ (PruneList \/ PruneCheck \/ PruneEnd),
           ~ \E l \in Leases : PruneDelete(l) \/ (BeginUpload(l) /\ ~Fails(l, FALSE))
                 \/ (FinishUpload(l) /\ ~Fails(l, FALSE)) \/ (Publish(l) /\ ~Fails(l, FALSE))
    PROVE  Routine
<1> USE DEF Routine
<1>0. /\ jobs' = jobs => LeasesKept
      /\ att' = att => AttemptsMove
      /\ media' = media => PrefixesKept
  BY DEF LeasesKept, AttemptsMove, PrefixesKept
<1>1. ASSUME NEW m \in Media, NEW j \in Jobs, Create(m, j) PROVE Routine
  <2>1. PrefixesKept
    BY <1>1, PrefixRoutine DEF Create
  <2>2. \A k \in Jobs : jobs'[k] = Pending(m) \/ jobs'[k] = jobs[k]
    BY <1>1 DEF Create, TypeOK
  <2>3. LeasesKept
    BY <2>2 DEF Pending, LeasesKept
  <2> QED
    BY <1>0, <1>1, <2>1, <2>3 DEF Create
<1>2. ASSUME NEW j \in Jobs, Expire(j) PROVE Routine
  <2>1. LeasesKept
    BY <1>2 DEF Expire, TypeOK, JobRow, LeasesKept
  <2> QED
    BY <1>0, <1>2, <2>1 DEF Expire
<1>3. CASE RecoverStale
  <2>1. LeasesKept
    BY <1>3 DEF RecoverStale, Released, TypeOK, JobRow, LeasesKept
  <2> QED
    BY <1>0, <1>3, <2>1 DEF RecoverStale
<1>4. ASSUME NEW l \in Leases, Load(l) PROVE Routine
  <2>1. PICK s \in {"recordFail", "complete", "setProbing"} :
          att' = [att EXCEPT ![l].pc = s] \/ att' = [att EXCEPT ![l].pc = s, ![l].permanent = TRUE]
    BY <1>4 DEF Load, Goto
  <2>2. AttemptsMove
    BY <1>4, <2>1, StepNames, MoveRoutine DEF Load, Over
  <2> QED
    BY <1>0, <1>4, <2>2 DEF Load, PipelineOnly
<1>5. ASSUME NEW l \in Leases, NEW p \in BOOLEAN, Fails(l, p), PipelineOnly,
             att[l].pc \in HandlerSteps PROVE Routine
  <2>1. att[l].pc # "idle"
    BY <1>5 DEF HandlerSteps, SetSteps, WorkSteps
  <2>2. AttemptsMove
    BY <1>5, <2>1, StepNames, MoveRoutine DEF Fails, Errs, Over
  <2> QED
    BY <1>0, <1>5, <2>2 DEF Fails, PipelineOnly
<1>6. ASSUME NEW l \in Leases, Answered(l, After(att[l].pc)),
             att[l].pc \in SetSteps \cup WorkSteps \cup {"probed"}
      PROVE  AttemptsMove
  <2>1. att[l].pc # "idle" /\ att[l].pc \notin Over
    BY <1>6 DEF SetSteps, WorkSteps, Over
  <2>2. CASE Goto(l, After(att[l].pc))
    BY <1>6, <2>1, <2>2, AfterType, MoveRoutine DEF Goto
  <2>3. CASE Errs(l, FALSE)
    BY <2>1, <2>3, StepNames, MoveRoutine DEF Errs
  <2> QED
    BY <1>6, <2>2, <2>3 DEF Answered
<1>7. ASSUME NEW l \in Leases, SetStatus(l) PROVE Routine
  <2>1. CASE Fails(l, FALSE)
    BY <1>5, <1>7, <2>1 DEF SetStatus, HandlerSteps
  <2>2. CASE ~Fails(l, FALSE)
    <3>1. PrefixesKept
      BY <1>7, <2>2, PrefixRoutine DEF SetStatus
    <3>2. LeasesKept
      BY <1>7, <2>2, JobsRoutine DEF SetStatus
    <3> QED
      BY <1>6, <1>7, <2>2, <3>1, <3>2 DEF SetStatus, PipelineOnly
  <2> QED
    BY <2>1, <2>2
<1>8. ASSUME NEW l \in Leases, Work(l) PROVE Routine
  <2>1. CASE Goto(l, After(att[l].pc)) /\ UNCHANGED <<media, jobs, objects>>
    BY <1>0, <1>6, <1>8, <2>1 DEF Work, PipelineOnly, Answered
  <2> QED
    BY <1>5, <1>8, <2>1 DEF Work, HandlerSteps
<1>9. ASSUME NEW l \in Leases, Probed(l) PROVE Routine
  <2>1. CASE Fails(l, FALSE)
    BY <1>5, <1>9, <2>1 DEF Probed, HandlerSteps
  <2>2. CASE ~Fails(l, FALSE)
    <3>1. PrefixesKept
      BY <1>9, <2>2, PrefixRoutine DEF Probed
    <3> QED
      BY <1>0, <1>6, <1>9, <2>2, <3>1 DEF Probed, PipelineOnly
  <2> QED
    BY <2>1, <2>2
<1>10. ASSUME NEW l \in Leases, Fails(l, FALSE), BeginUpload(l) \/ FinishUpload(l) \/ Publish(l) PROVE Routine
  BY <1>5, <1>10 DEF BeginUpload, FinishUpload, Publish, HandlerSteps
<1>11. ASSUME NEW l \in Leases, FailMedia(l) PROVE Routine
  <2>1. PrefixesKept
    BY <1>11, PrefixRoutine DEF FailMedia
  <2>2. LeasesKept
    BY <1>11, JobsRoutine DEF FailMedia
  <2>3. AttemptsMove
    BY <1>11, StepNames, MoveRoutine DEF FailMedia, Goto, Over
  <2> QED
    BY <1>11, <2>1, <2>2, <2>3 DEF FailMedia, PipelineOnly
<1>12. ASSUME NEW l \in Leases, RecordFail(l) \/ Complete(l) PROVE Routine
  <2>1. PICK s \in JobStatus :
          jobs' = jobs \/ (Owned(l) /\ jobs' = [jobs EXCEPT ![att[l].job] = Released(att[l].job, s)])
    BY <1>12 DEF RecordFail, Complete, JobStatus
  <2>2. LeasesKept
    BY <2>1, JobsRoutine
  <2>3. AttemptsMove
    BY <1>12, StepNames, MoveRoutine DEF RecordFail, Complete, Goto, Over
  <2> QED
    BY <1>0, <1>12, <2>2, <2>3 DEF RecordFail, Complete, PipelineOnly
<1>13. ASSUME NEW l \in Leases, Progress(l) PROVE Routine
  BY <1>0, <1>13, JobsRoutine DEF Progress, PipelineOnly
<1>14. ASSUME NEW l \in Leases, Renew(l) \/ Watchdog(l) PROVE Routine
  <2>1. AttemptsMove
    <3>1. att' = att \/ att' = [att EXCEPT ![l].lost = TRUE]
      BY <1>14 DEF Renew, Watchdog
    <3> QED
      BY <3>1 DEF TypeOK, Attempt, AttemptsMove
  <2> QED
    BY <1>0, <1>14, <2>1, JobsRoutine DEF Renew, Watchdog
<1>15. ASSUME NEW l \in Leases, Crash(l) PROVE Routine
  <2>1. AttemptsMove
    BY <1>15, StepNames, MoveRoutine DEF Crash, Goto, Over
  <2> QED
    BY <1>0, <1>15, <2>1 DEF Crash, PipelineOnly
<1>16. ASSUME NEW r \in Rooms, NEW m \in Media, Refresh(r, m) \/ RetryStatus(r, m) \/ RetryFails(r, m) PROVE Routine
  <2>1. PrefixesKept
    BY <1>16, PrefixRoutine DEF Refresh, RetryStatus, RetryFails
  <2> QED
    BY <1>0, <1>16, <2>1 DEF Refresh, RetryStatus, RetryFails
<1>17. ASSUME NEW r \in Rooms, NEW m \in Media, NEW j \in Jobs, RetryEnqueue(r, m, j) PROVE Routine
  <2>1. \A k \in Jobs : jobs'[k] = Pending(m) \/ jobs'[k] = jobs[k]
    BY <1>17 DEF RetryEnqueue, TypeOK
  <2>2. LeasesKept
    BY <2>1 DEF Pending, LeasesKept
  <2> QED
    BY <1>0, <1>17, <2>2 DEF RetryEnqueue
<1>18. CASE UNCHANGED vars
  BY <1>0, <1>18 DEF vars
<1> QED
  BY <1>1, <1>2, <1>3, <1>4, <1>7, <1>8, <1>9, <1>10, <1>11, <1>12, <1>13, <1>14, <1>15,
     <1>16, <1>17, <1>18 DEF Next, AttemptStep

\* The invariant under every step: the five actions that are not routine.
LEMMA PackageStep == TypeOK /\ PackageInv /\ [Next]_vars => PackageInv'
<1> SUFFICES ASSUME TypeOK, PackageInv, [Next]_vars PROVE PackageInv'
  OBVIOUS
<1> USE IngestAssumption DEF PackageInv
<1>0. cleaner.prefixes \subseteq Leases
  BY DEF TypeOK
<1>1. ASSUME NEW j \in Jobs, NEW l \in Leases, Claim(j, l) PROVE PackageInv'
  <2>1. /\ jobs'[j].lease = l /\ jobs'[j].status = "running"
        /\ \A i \in Jobs : i # j => jobs'[i] = jobs[i]
    BY <1>1 DEF Claim, TypeOK, JobRow
  <2>2. /\ att'[l].pc = "load" /\ att'[l].job = j /\ att[l].pc = "idle"
        /\ \A k \in Leases : k # l => att'[k] = att[k]
        /\ UNCHANGED <<media, objects, cleaner>>
    BY <1>1 DEF Claim, TypeOK, Attempt
  <2>3. \A k \in Leases : k # l /\ Leased(k)' => Leased(k)
    BY <2>1 DEF Leased
  <2>4. ~Leased(l) /\ objects[l] = "none" /\ l \notin cleaner.prefixes
    BY <2>2 DEF FreshInv
  <2>5. LeaseInv'
    BY <2>1, <2>2, <2>4 DEF LeaseInv, Leased
  <2>6. FreshInv'
    BY <2>2, <2>3 DEF FreshInv
  <2>7. PublishedInv'
    BY <2>2 DEF PublishedInv, Over
  <2>8. UploadInv'
    BY <2>2, <2>3 DEF UploadInv
  <2>9. CleanerInv'
    BY <1>0, <2>2, <2>3, <2>4 DEF CleanerInv
  <2> QED
    BY <2>5, <2>6, <2>7, <2>8, <2>9
<1>2. ASSUME NEW l \in Leases, BeginUpload(l) \/ FinishUpload(l), ~Fails(l, FALSE) PROVE PackageInv'
  <2>1. /\ UNCHANGED <<media, jobs, cleaner>>
        /\ \A k \in Leases : att'[k].job = att[k].job
        /\ \A k \in Leases : k # l => att'[k] = att[k] /\ objects'[k] = objects[k]
        /\ \/ att[l].pc = "upload" /\ att'[l].pc = "uploading" /\ objects'[l] = "partial"
           \/ /\ att[l].pc = "uploading" /\ att'[l].pc = "publish"
              /\ objects[l] = "partial" => objects'[l] = "complete"
    <3>1. CASE BeginUpload(l)
      BY <1>2, <3>1, GotoFields DEF BeginUpload, PipelineOnly, TypeOK
    <3>2. CASE FinishUpload(l)
      <4>1. /\ objects' = [objects EXCEPT ![l] = IF @ = "partial" THEN "complete" ELSE "partial"]
            /\ Goto(l, "publish") /\ UNCHANGED <<media, jobs, cleaner>> /\ att[l].pc = "uploading"
        BY <1>2, <3>2 DEF FinishUpload, PipelineOnly
      <4>2. /\ objects[l] = "partial" => objects'[l] = "complete"
            /\ \A k \in Leases : k # l => objects'[k] = objects[k]
        BY <4>1 DEF TypeOK
      <4> QED
        BY <4>1, <4>2, GotoFields
    <3> QED
      BY <1>2, <3>1, <3>2
  <2>2. \A k \in Leases : Leased(k)' <=> Leased(k)
    BY <2>1 DEF Leased
  <2>3. LeaseInv'
    BY <2>1 DEF LeaseInv
  <2>4. FreshInv'
    BY <2>1, <2>2 DEF FreshInv
  <2>5. PublishedInv'
    BY <2>1 DEF PublishedInv, Over
  <2>6. UploadInv'
    BY <2>1, <2>2 DEF UploadInv
  <2>7. CleanerInv'
    BY <1>0, <2>1, <2>2 DEF CleanerInv
  <2> QED
    BY <2>3, <2>4, <2>5, <2>6, <2>7
<1>3. ASSUME NEW l \in Leases, Publish(l), ~Fails(l, FALSE) PROVE PackageInv'
  <2>1. /\ Owned(l) /\ jobs' = Renewed(l) /\ UNCHANGED <<objects, cleaner>>
        /\ att[l].pc = "publish"
    BY <1>3 DEF Publish, PipelineOnly
  <2>2. /\ att'[l].pc \in {"complete", "failMedia"}
        /\ \A k \in Leases : att'[k].job = att[k].job
        /\ \A k \in Leases : k # l => att'[k] = att[k]
    BY <1>3, AnsweredFields DEF Publish
  <2>3. \A m \in Media : media'[m].prefix = l \/ media'[m].prefix = media[m].prefix
    <3>1. PICK p : media' = [media EXCEPT ![MediaOf(l)] = [status |-> "ready", prefix |-> l, poster |-> p]]
      BY <1>3 DEF Publish
    <3> QED
      BY <3>1 DEF TypeOK
  <2>4. \A j \in Jobs : jobs'[j].lease = jobs[j].lease /\ jobs'[j].status = jobs[j].status
    BY <2>1, RenewedType
  <2>5. Leased(l) /\ \A k \in Leases : Leased(k)' <=> Leased(k)
    BY <2>1, <2>4 DEF Leased, Owned
  <2>6. LeaseInv'
    BY <2>2, <2>4 DEF LeaseInv
  <2>7. FreshInv'
    BY <2>1, <2>2, <2>5 DEF FreshInv
  <2>8. PublishedInv'
    BY <2>1, <2>2, <2>3, <2>5 DEF PublishedInv, UploadInv, Over
  <2>9. UploadInv'
    BY <2>1, <2>2, <2>5 DEF UploadInv
  <2>10. CleanerInv'
    BY <1>0, <2>1, <2>3, <2>5 DEF CleanerInv
  <2> QED
    BY <2>6, <2>7, <2>8, <2>9, <2>10
<1>4. CASE PruneList \/ PruneCheck \/ PruneEnd
  <2>1. UNCHANGED <<media, jobs, att, objects>>
    BY <1>4 DEF PruneList, PruneCheck, PruneEnd
  <2>2. \A l \in Leases : Leased(l)' <=> Leased(l)
    BY <2>1 DEF Leased
  <2>3. LeaseInv' /\ PublishedInv' /\ UploadInv'
    BY <2>1, <2>2 DEF LeaseInv, PublishedInv, UploadInv
  <2>4. \A l \in cleaner'.prefixes : l \in cleaner.prefixes \/ objects[l] # "none"
    <3>1. \/ cleaner'.prefixes \subseteq {l \in Leases : objects[l] # "none"}
          \/ cleaner'.prefixes = UnusedMediaAttempts(cleaner.prefixes)
          \/ cleaner'.prefixes = {}
      BY <1>4 DEF PruneList, PruneCheck, PruneEnd
    <3> QED
      BY <3>1 DEF UnusedMediaAttempts
  <2>5. FreshInv'
    <3>1. SUFFICES ASSUME NEW l \in Leases, att[l].pc = "idle" PROVE l \notin cleaner'.prefixes
      BY <2>1, <2>2 DEF FreshInv
    <3>2. objects[l] = "none" /\ l \notin cleaner.prefixes
      BY <3>1 DEF FreshInv
    <3> QED
      BY <2>4, <3>2
  <2>6. CleanerInv'
    <3>1. SUFFICES ASSUME cleaner'.phase = "deleting" PROVE CleanerInv'
      BY DEF CleanerInv
    <3>2. cleaner'.prefixes = UnusedMediaAttempts(cleaner.prefixes)
      BY <1>4, <3>1 DEF PruneList, PruneCheck, PruneEnd
    <3>3. \A l \in cleaner'.prefixes : ~Leased(l)
      BY <1>0, <3>2 DEF UnusedMediaAttempts, Leased, LeaseInv
    <3> QED
      BY <1>0, <2>1, <2>2, <3>2, <3>3 DEF CleanerInv, UnusedMediaAttempts
  <2> QED
    BY <2>3, <2>5, <2>6
<1>5. ASSUME NEW l \in Leases, PruneDelete(l) PROVE PackageInv'
  <2>1. /\ UNCHANGED <<media, jobs, att>>
        /\ \A k \in Leases : k # l => objects'[k] = objects[k]
        /\ objects'[l] = "none"
        /\ cleaner'.prefixes \subseteq cleaner.prefixes /\ cleaner'.phase = cleaner.phase
    BY <1>5 DEF PruneDelete, TypeOK
  <2>2. ~Leased(l) /\ \A m \in Media : media[m].prefix # l
    BY <1>5 DEF PruneDelete, CleanerInv
  <2>3. \A k \in Leases : Leased(k)' <=> Leased(k)
    BY <2>1 DEF Leased
  <2>4. LeaseInv' /\ FreshInv' /\ PublishedInv' /\ UploadInv'
    BY <2>1, <2>2, <2>3 DEF LeaseInv, FreshInv, PublishedInv, UploadInv
  <2>5. CleanerInv'
    BY <1>0, <2>1, <2>3 DEF CleanerInv
  <2> QED
    BY <2>4, <2>5
<1> QED
  BY <1>1, <1>2, <1>3, <1>4, <1>5, RoutineActions, RoutineStep

\* The package a media row points to is complete in the object store, for
\* every interleaving of attempts, recoveries, retries and cleaning passes.
THEOREM PackageSafe == Spec => []PackagePresent
<1>1. PackageInv => PackagePresent
  BY DEF PackageInv, PublishedInv, PackagePresent
<1> QED
  BY <1>1, BudgetInit, BudgetStep, PackageInit, PackageStep, PTL DEF Spec, BudgetInv

-----------------------------------------------------------------------------
(***************************************************************************)
(* The fence                                                               *)
(***************************************************************************)

\* The visible part of the media rows is left alone.
Visible == \A m \in Media : media'[m].status = media[m].status /\ media'[m].prefix = media[m].prefix
Silent == \A l \in Leases : att'[l] # att[l] /\ ~Owned(l) => Visible

\* Every action but the three fenced writes of a handler and the probe's is
\* silent because it leaves the rows, or the attempts, alone.
LEMMA SilentActions ==
    ASSUME TypeOK, [Next]_vars,
           \A l \in Leases : ~SetStatus(l) /\ ~Probed(l) /\ ~Publish(l) /\ ~FailMedia(l)
    PROVE  Silent
<1> DEFINE Quiet == UNCHANGED media \/ UNCHANGED att
<1>1. Quiet => Silent
  BY DEF Silent, Visible
<1>2. CASE \E m \in Media, j \in Jobs : Create(m, j)
  <2>1. PICK m \in Media, j \in Jobs : Create(m, j)
    BY <1>2
  <2>2. UNCHANGED att
    BY <2>1 DEF Create
  <2> QED
    BY <2>2, <1>1
<1>3. CASE \E j \in Jobs, l \in Leases : Claim(j, l)
  BY <1>1, <1>3 DEF Claim
<1>4. CASE (\E j \in Jobs : Expire(j)) \/ RecoverStale
  BY <1>1, <1>4 DEF Expire, RecoverStale
<1>5. CASE \E l \in Leases : Progress(l) \/ Renew(l) \/ Watchdog(l) \/ Crash(l)
  BY <1>1, <1>5 DEF Progress, Renew, Watchdog, Crash
<1>6. CASE \E l \in Leases : Load(l) \/ Work(l) \/ BeginUpload(l) \/ FinishUpload(l)
                              \/ RecordFail(l) \/ Complete(l)
  BY <1>1, <1>6 DEF Load, Work, BeginUpload, FinishUpload, RecordFail, Complete, Fails
<1>7. CASE \E r \in Rooms, m \in Media : Refresh(r, m) \/ RetryStatus(r, m) \/ RetryFails(r, m)
  <2>1. PICK r \in Rooms, m \in Media : Refresh(r, m) \/ RetryStatus(r, m) \/ RetryFails(r, m)
    BY <1>7
  <2>2. UNCHANGED att
    BY <2>1 DEF Refresh, RetryStatus, RetryFails
  <2> QED
    BY <2>2, <1>1
<1>8. CASE \E r \in Rooms, m \in Media, j \in Jobs : RetryEnqueue(r, m, j)
  BY <1>1, <1>8 DEF RetryEnqueue
<1>9. CASE PruneList \/ PruneCheck \/ PruneEnd \/ \E l \in Leases : PruneDelete(l)
  BY <1>1, <1>9 DEF PruneList, PruneCheck, PruneEnd, PruneDelete
<1>10. CASE UNCHANGED vars
  BY <1>1, <1>10 DEF vars
<1> QED
  BY <1>2, <1>3, <1>4, <1>5, <1>6, <1>7, <1>8, <1>9, <1>10 DEF Next, AttemptStep

\* A handler's writes are silent unless it owns its job.
LEMMA FencedSilent ==
    ASSUME TypeOK, NEW l \in Leases, SetStatus(l) \/ Publish(l) \/ FailMedia(l)
    PROVE  Silent
<1>1. \A k \in Leases : k # l => att'[k] = att[k]
  BY DEF SetStatus, Publish, FailMedia, Fails, Errs, Answered, Goto, TypeOK
<1>2. Owned(l) \/ UNCHANGED media
  BY DEF SetStatus, Publish, FailMedia, Fails
<1> QED
  BY <1>1, <1>2 DEF Silent, Visible

\* The probe's write is not fenced, and touches neither status nor package.
LEMMA ProbedSilent ==
    ASSUME TypeOK, NEW l \in Leases, Probed(l)
    PROVE  Silent
<1>1. CASE UNCHANGED media
  BY <1>1 DEF Silent, Visible
<1>2. CASE media' = [media EXCEPT ![MediaOf(l)].poster = "source"]
  <2>1. \A m \in Media : media[m] \in MediaRow
    BY DEF TypeOK
  <2>2. ASSUME NEW m \in Media
        PROVE  media'[m] = media[m] \/ media'[m] = [media[m] EXCEPT !.poster = "source"]
    BY <1>2 DEF TypeOK
  <2> QED
    BY <2>1, <2>2 DEF Silent, Visible, MediaRow
<1> QED
  BY <1>1, <1>2 DEF Probed, Fails

\* An attempt without its job changes neither the status nor the package of
\* a media: the fence holds for every write but the probe's.
THEOREM FenceHolds == Spec => StaleAttemptSilent
<1>1. TypeOK /\ [Next]_vars => [Silent]_vars
  BY SilentActions, FencedSilent, ProbedSilent
<1>2. Silent => \A l \in Leases : att'[l] # att[l] /\ ~Owned(l) =>
                   \A m \in Media : /\ media'[m].status = media[m].status
                                    /\ media'[m].prefix = media[m].prefix
  BY DEF Silent, Visible
<1> QED
  BY <1>1, <1>2, TypeCorrect, PTL DEF Spec, StaleAttemptSilent
-----------------------------------------------------------------------------
(***************************************************************************)
(* The media pipeline implements the library                               *)
(***************************************************************************)

\* What most steps do: rows of jobs and attempts stay whose they are, leases
\* are kept or dropped, and no room learns anything.
Frame ==
    /\ \A j \in Jobs : /\ jobs'[j].media = jobs[j].media
                       /\ jobs'[j].status = "none" <=> jobs[j].status = "none"
    /\ LeasesKept
    /\ \A l \in Leases : /\ att'[l].job = att[l].job
                         /\ att'[l].pc = "idle" <=> att[l].pc = "idle"
    /\ view' = view
    /\ retrying' \subseteq retrying

\* A row is never taken back.
RowsStay == \A m \in Media : media[m].status # "none" => media'[m].status # "none"

\* A row names the package of an attempt of its own.
Named == \A m \in Media, l \in Leases :
    media'[m].prefix = l => media[m].prefix = l \/ (att[l].pc # "idle" /\ MediaOf(l) = m)

\* What a viewer sees of the rows does not change.
RowsQuiet == \A m \in Media : media'[m].status = media[m].status /\ media'[m].prefix = media[m].prefix

\* An attempt starts working only by writing a status, and begins its first
\* step only on a media that is not ready.
Calm == \A l \in Leases :
    /\ att'[l].pc \in Working => att[l].pc \in Working
    /\ att'[l].pc = "setProbing" =>
         att[l].pc \in Working \cup {"setProbing"} \/ media[MediaOf(l)].status # "ready"
    /\ att'[l].pc = "failMedia" => att[l].pc \in Working \cup {"setProbing", "failMedia"}

\* An attempt writes the row of its media, under its lease.
Writes(l) ==
    /\ Owned(l)
    /\ \A m \in Media : m # MediaOf(l) => media'[m] = media[m]
    /\ \A k \in Leases : k # l => att'[k] = att[k]

-----------------------------------------------------------------------------
\* The handler's steps are steps of a running attempt.
LEMMA Stepping ==
    /\ \A s \in SetSteps \cup WorkSteps \cup {"probed"} : After(s) \in Working /\ After(s) # "idle"
    /\ \A s \in SetSteps : StatusOf(s) \in InProgress
    /\ SetSteps \subseteq Working \cup {"setProbing"}
    /\ {"probed", "upload", "uploading", "publish"} \cup WorkSteps \subseteq Working
    /\ {"idle", "load", "setProbing", "failMedia", "recordFail", "complete", "end"} \cap Working = {}
BY DEF After, StatusOf, InProgress, Working, HandlerSteps, SetSteps, WorkSteps

\* A job row that an owner renews or gives back stays the row it is.
LEMMA JobsFrame ==
    ASSUME TypeOK, NEW l \in Leases, NEW s \in JobStatus \ {"none"},
           \/ jobs' = jobs
           \/ Owned(l) /\ jobs' = Renewed(l)
           \/ Owned(l) /\ jobs' = [jobs EXCEPT ![att[l].job] = Released(att[l].job, s)]
    PROVE  /\ LeasesKept
           /\ \A j \in Jobs : /\ jobs'[j].media = jobs[j].media
                              /\ jobs'[j].status = "none" <=> jobs[j].status = "none"
<1>1. LeasesKept BY JobsRoutine
<1>2. CASE jobs' = jobs BY <1>1, <1>2
<1>3. CASE Owned(l) /\ jobs' = Renewed(l) BY <1>1, <1>3, RenewedType
<1>4. CASE Owned(l) /\ jobs' = [jobs EXCEPT ![att[l].job] = Released(att[l].job, s)]
  BY <1>1, <1>4 DEF Released, Owned, TypeOK, JobRow
<1> QED BY <1>2, <1>3, <1>4

\* Moving an attempt that runs to a step that is not idle.
LEMMA MoveFrame ==
    ASSUME TypeOK, NEW l \in Leases, NEW s, s # "idle", NEW p, att[l].pc # "idle",
           \/ att' = [att EXCEPT ![l].pc = s]
           \/ att' = [att EXCEPT ![l].pc = s, ![l].permanent = p]
    PROVE  /\ \A k \in Leases : /\ att'[k].job = att[k].job
                                /\ att'[k].pc = "idle" <=> att[k].pc = "idle"
                                /\ k # l => att'[k] = att[k]
           /\ att'[l].pc = s
BY DEF TypeOK, Attempt

\* An attempt that fails, or that has lost its lease, leaves the rows alone.
LEMMA FailsQuiet ==
    ASSUME TypeOK, NEW l \in Leases, NEW p \in BOOLEAN, Fails(l, p), PipelineOnly,
           att[l].pc \in Working \cup {"setProbing"}
    PROVE  Frame /\ RowsQuiet /\ Calm
<1>1. att[l].pc # "idle" BY Stepping
<1>2. /\ \A k \in Leases : /\ att'[k].job = att[k].job
                           /\ att'[k].pc = "idle" <=> att[k].pc = "idle"
                           /\ k # l => att'[k] = att[k]
      /\ att'[l].pc = "failMedia"
  BY <1>1, MoveFrame DEF Fails, Errs
<1>3. Calm BY <1>2, Stepping DEF Calm
<1>4. media' = media /\ jobs' = jobs /\ view' = view /\ retrying' = retrying BY DEF Fails, PipelineOnly
<1> QED BY <1>2, <1>3, <1>4 DEF Frame, LeasesKept, RowsQuiet

\* The steps of an attempt that write no status.
LEMMA AttemptQuiet ==
    ASSUME TypeOK, NEW l \in Leases,
           \/ Load(l) \/ Work(l) \/ Probed(l) \/ BeginUpload(l) \/ FinishUpload(l) \/ RecordFail(l)
           \/ Complete(l) \/ Progress(l) \/ Renew(l) \/ Watchdog(l) \/ Crash(l)
           \/ SetStatus(l) /\ Fails(l, FALSE)
           \/ Publish(l) /\ Fails(l, FALSE)
           \/ FailMedia(l) /\ media' = media
    PROVE  Frame /\ RowsQuiet /\ Calm
<1>1. UNCHANGED <<view, retrying>>
  BY DEF Load, Work, Probed, BeginUpload, FinishUpload, RecordFail, Complete, Progress, Renew, Watchdog,
         Crash, SetStatus, Publish, FailMedia, PipelineOnly
<1>2. ASSUME NEW s \in Steps \ {"idle"}, NEW p \in BOOLEAN, att[l].pc # "idle",
             att' = [att EXCEPT ![l].pc = s] \/ att' = [att EXCEPT ![l].pc = s, ![l].permanent = p],
             jobs' = jobs, RowsQuiet,
             \/ s \in Working \cup {"failMedia"} /\ att[l].pc \in Working
             \/ s \notin Working \cup {"setProbing", "failMedia"}
             \/ s = "setProbing" /\ media[MediaOf(l)].status # "ready"
      PROVE  Frame /\ RowsQuiet /\ Calm
  <2>1. /\ \A k \in Leases : /\ att'[k].job = att[k].job
                             /\ att'[k].pc = "idle" <=> att[k].pc = "idle"
                             /\ k # l => att'[k] = att[k]
        /\ att'[l].pc = s
    BY <1>2 DEF TypeOK, Attempt
  <2>2. Calm BY <1>2, <2>1, Stepping DEF Calm
  <2> QED BY <1>1, <1>2, <2>1, <2>2 DEF Frame, LeasesKept
<1>3. media' = media => RowsQuiet BY DEF RowsQuiet
<1>4. CASE Load(l)
  <2>1. CASE att' = [att EXCEPT ![l].pc = "recordFail", ![l].permanent = TRUE]
    <3>1. att[l].pc # "idle" /\ RowsQuiet /\ jobs' = jobs BY <1>3, <1>4 DEF Load
    <3>2. "recordFail" \in Steps \ {"idle"} /\ "recordFail" \notin Working \cup {"setProbing", "failMedia"}
      BY Stepping, StepNames
    <3> QED BY <1>2, <2>1, <3>1, <3>2
  <2>2. CASE Goto(l, IF media[MediaOf(l)].status = "ready" THEN "complete" ELSE "setProbing")
    <3> DEFINE s == IF media[MediaOf(l)].status = "ready" THEN "complete" ELSE "setProbing"
    <3>1. att[l].pc # "idle" /\ RowsQuiet /\ jobs' = jobs BY <1>3, <1>4 DEF Load
    <3>2. /\ s \in Steps \ {"idle"}
          /\ \/ s \notin Working \cup {"setProbing", "failMedia"}
             \/ s = "setProbing" /\ media[MediaOf(l)].status # "ready"
      BY Stepping, StepNames
    <3>3. att' = [att EXCEPT ![l].pc = s] BY <2>2 DEF Goto
    <3> HIDE DEF s
    <3> QED BY <1>2, <3>1, <3>2, <3>3
  <2> QED BY <1>4, <2>1, <2>2 DEF Load
<1>5. CASE Work(l)
  <2>1. att[l].pc \in Working BY <1>5, Stepping DEF Work
  <2>2. CASE Goto(l, After(att[l].pc)) /\ UNCHANGED <<media, jobs, objects>>
    <3>1. After(att[l].pc) \in Working /\ After(att[l].pc) \in Steps \ {"idle"}
      BY <1>5, AfterType, Stepping DEF Work
    <3>2. att' = [att EXCEPT ![l].pc = After(att[l].pc)] BY <2>2 DEF Goto
    <3> QED BY <1>2, <1>3, <2>1, <2>2, <3>1, <3>2, Stepping
  <2> QED BY <1>5, <2>1, <2>2, FailsQuiet DEF Work
<1>6. CASE Probed(l)
  <2>1. att[l].pc \in Working BY <1>6, Stepping DEF Probed
  <2>2. CASE Fails(l, FALSE) BY <1>6, <2>1, <2>2, FailsQuiet DEF Probed
  <2>3. CASE ~Fails(l, FALSE)
    <3>1. RowsQuiet
      <4>1. media' = [media EXCEPT ![MediaOf(l)].poster = "source"] BY <1>6, <2>3 DEF Probed
      <4> QED BY <4>1 DEF RowsQuiet, TypeOK, MediaRow
    <3>2. After("probed") \in Working /\ After("probed") \in Steps \ {"idle"}
      BY AfterType, Stepping
    <3>3. /\ jobs' = jobs
          /\ \/ att' = [att EXCEPT ![l].pc = After("probed")]
             \/ att' = [att EXCEPT ![l].pc = "failMedia", ![l].permanent = FALSE]
      BY <1>6, <2>3 DEF Probed, Answered, Goto, Errs
    <3> QED BY <1>2, <2>1, <3>1, <3>2, <3>3, Stepping, StepNames
  <2> QED BY <2>2, <2>3
<1>7. CASE BeginUpload(l) \/ FinishUpload(l)
  <2>1. att[l].pc \in Working BY <1>7, Stepping DEF BeginUpload, FinishUpload
  <2>2. CASE Fails(l, FALSE) BY <1>7, <2>1, <2>2, FailsQuiet DEF BeginUpload, FinishUpload
  <2>3. CASE ~Fails(l, FALSE)
    <3>1. PICK s \in {"uploading", "publish"} : att' = [att EXCEPT ![l].pc = s]
      BY <1>7, <2>3 DEF BeginUpload, FinishUpload, Goto
    <3>2. media' = media /\ jobs' = jobs BY <1>7, <2>3 DEF BeginUpload, FinishUpload
    <3> QED BY <1>2, <1>3, <2>1, <3>1, <3>2, Stepping, StepNames
  <2> QED BY <2>2, <2>3
<1>8. ASSUME NEW s \in JobStatus \ {"none"},
             \/ jobs' = jobs
             \/ Owned(l) /\ jobs' = Renewed(l)
             \/ Owned(l) /\ jobs' = [jobs EXCEPT ![att[l].job] = Released(att[l].job, s)],
             att' = att \/ (att[l].pc # "idle" /\ Goto(l, "recordFail")) \/ (att[l].pc # "idle" /\ Goto(l, "end"))
               \/ att' = [att EXCEPT ![l].lost = TRUE],
             media' = media
      PROVE  Frame /\ RowsQuiet /\ Calm
  <2>1. CASE att' = att \/ att' = [att EXCEPT ![l].lost = TRUE]
    <3>1. \A k \in Leases : att'[k].job = att[k].job /\ att'[k].pc = att[k].pc
      BY <2>1 DEF TypeOK, Attempt
    <3>2. Calm BY <3>1 DEF Calm
    <3> QED BY <1>1, <1>3, <1>8, <3>1, <3>2, JobsFrame DEF Frame
  <2>2. ASSUME NEW t \in {"recordFail", "end"}, att[l].pc # "idle", Goto(l, t) PROVE Frame /\ RowsQuiet /\ Calm
    <3>1. /\ \A k \in Leases : /\ att'[k].job = att[k].job
                               /\ att'[k].pc = "idle" <=> att[k].pc = "idle"
                               /\ k # l => att'[k] = att[k]
          /\ att'[l].pc = t
      BY <2>2, MoveFrame DEF Goto
    <3>2. Calm BY <3>1, <2>2, Stepping DEF Calm
    <3> QED BY <1>1, <1>3, <1>8, <3>1, <3>2, JobsFrame DEF Frame
  <2> QED BY <1>8, <2>1, <2>2
<1>9. {"pending", "failed", "done"} \subseteq JobStatus \ {"none"} BY DEF JobStatus
<1>10. CASE RecordFail(l)
  <2>1. PICK s \in {"pending", "failed"} :
          jobs' = jobs \/ (Owned(l) /\ jobs' = [jobs EXCEPT ![att[l].job] = Released(att[l].job, s)])
    BY <1>10 DEF RecordFail
  <2> QED BY <1>8, <1>9, <1>10, <2>1 DEF RecordFail
<1>11. CASE Complete(l) BY <1>8, <1>9, <1>11 DEF Complete
<1>12. CASE Progress(l) \/ Renew(l) \/ Watchdog(l) BY <1>8, <1>9, <1>12 DEF Progress, Renew, Watchdog
<1>13. CASE Crash(l) BY <1>8, <1>9, <1>13 DEF Crash
<1>14. CASE FailMedia(l) /\ media' = media BY <1>8, <1>9, <1>14 DEF FailMedia
<1>15. CASE (SetStatus(l) \/ Publish(l)) /\ Fails(l, FALSE)
  BY <1>15, FailsQuiet, Stepping DEF SetStatus, Publish
<1> QED BY <1>4, <1>5, <1>6, <1>7, <1>10, <1>11, <1>12, <1>13, <1>14, <1>15

\* The steps that neither write a status nor begin an ingest, a claim or a retry.
LEMMA QuietActions ==
    ASSUME TypeOK, [Next]_vars,
           ~ \E m \in Media, j \in Jobs : Create(m, j),
           ~ \E j \in Jobs, l \in Leases : Claim(j, l),
           ~ \E r \in Rooms, m \in Media : Refresh(r, m) \/ RetryStatus(r, m),
           ~ \E r \in Rooms, m \in Media, j \in Jobs : RetryEnqueue(r, m, j),
           ~ \E l \in Leases : \/ (SetStatus(l) \/ Publish(l)) /\ ~Fails(l, FALSE)
                               \/ FailMedia(l) /\ media' # media
    PROVE  Frame /\ RowsQuiet /\ Calm
<1>1. (media' = media => RowsQuiet) /\ (att' = att => Calm) BY DEF RowsQuiet, Calm
<1>2. ASSUME NEW j \in Jobs, Expire(j) PROVE Frame /\ RowsQuiet /\ Calm
  BY <1>1, <1>2 DEF Expire, Frame, LeasesKept, TypeOK, JobRow
<1>3. CASE RecoverStale
  <2>1. \A j \in Jobs : \/ jobs'[j] = jobs[j]
                        \/ /\ jobs[j].status = "running"
                           /\ \E s \in {"failed", "pending"} : jobs'[j] = Released(j, s)
    BY <1>3 DEF RecoverStale
  <2>2. \A j \in Jobs, s \in {"failed", "pending"} :
          /\ Released(j, s).media = jobs[j].media
          /\ Released(j, s).status = s
          /\ Released(j, s).lease = NoLease
    BY DEF Released, TypeOK, JobRow
  <2>3. \A j \in Jobs : /\ jobs'[j].media = jobs[j].media
                        /\ jobs'[j].status = "none" <=> jobs[j].status = "none"
    BY <2>1, <2>2
  <2>4. LeasesKept BY <2>1, <2>2 DEF LeasesKept
  <2> QED BY <1>1, <1>3, <2>3, <2>4 DEF RecoverStale, Frame
<1>4. CASE PruneList \/ PruneCheck \/ PruneEnd \/ \E l \in Leases : PruneDelete(l)
  BY <1>1, <1>4 DEF PruneList, PruneCheck, PruneEnd, PruneDelete, Frame, LeasesKept
<1>5. ASSUME NEW r \in Rooms, NEW m \in Media, RetryFails(r, m) PROVE Frame /\ RowsQuiet /\ Calm
  BY <1>1, <1>5 DEF RetryFails, Frame, LeasesKept
<1>6. CASE UNCHANGED vars BY <1>1, <1>6 DEF vars, Frame, LeasesKept
<1> QED BY <1>2, <1>3, <1>4, <1>5, <1>6, AttemptQuiet DEF Next, AttemptStep

\* The three steps that write a status under the lease, and what they write.
LEMMA OwnerWrites ==
    ASSUME TypeOK, KnownInv, NEW l \in Leases,
           \/ (SetStatus(l) \/ Publish(l)) /\ ~Fails(l, FALSE)
           \/ FailMedia(l) /\ media' # media
    PROVE  /\ Frame /\ Writes(l) /\ MediaOf(l) \in Media /\ media[MediaOf(l)].status # "none"
           /\ \/ /\ att[l].pc \in Working \cup {"setProbing"} /\ att'[l].pc \in Working \cup {"failMedia"}
                 /\ media'[MediaOf(l)].status \in InProgress
                 /\ media'[MediaOf(l)].prefix = media[MediaOf(l)].prefix
              \/ /\ att[l].pc = "failMedia" /\ att'[l].pc = "recordFail"
                 /\ media'[MediaOf(l)].status = "failed"
                 /\ media'[MediaOf(l)].prefix = media[MediaOf(l)].prefix
              \/ /\ att[l].pc = "publish" /\ att'[l].pc \in {"complete", "failMedia"}
                 /\ media'[MediaOf(l)].status = "ready"
                 /\ media'[MediaOf(l)].prefix = l
<1> DEFINE m == MediaOf(l)
<1>1. Owned(l) BY DEF SetStatus, Publish, FailMedia
<1>2. att[l].pc # "idle" BY Stepping DEF SetStatus, Publish, FailMedia
<1>3. m \in Media /\ media[m].status # "none" BY <1>2 DEF KnownInv, MediaOf
<1>4. /\ LeasesKept
      /\ \A j \in Jobs : /\ jobs'[j].media = jobs[j].media
                         /\ jobs'[j].status = "none" <=> jobs[j].status = "none"
  <2>1. jobs' = Renewed(l) \/ jobs' = jobs BY DEF SetStatus, Publish, FailMedia
  <2>2. "pending" \in JobStatus \ {"none"} BY DEF JobStatus
  <2> QED BY <1>1, <2>1, <2>2, JobsFrame
<1>5. view' = view /\ retrying' = retrying BY DEF SetStatus, Publish, FailMedia, PipelineOnly
<1>6. ASSUME NEW s, s # "idle", Answered(l, s)
      PROVE  /\ Frame /\ att'[l].pc \in {s, "failMedia"}
             /\ \A k \in Leases : k # l => att'[k] = att[k]
  <2>1. /\ \A k \in Leases : /\ att'[k].job = att[k].job
                             /\ att'[k].pc = "idle" <=> att[k].pc = "idle"
                             /\ k # l => att'[k] = att[k]
        /\ att'[l].pc \in {s, "failMedia"}
    BY <1>2, <1>6, AnsweredFields
  <2> QED BY <1>4, <1>5, <2>1 DEF Frame
<1>7. media[m] \in MediaRow BY <1>3 DEF TypeOK
<1>8. CASE SetStatus(l) /\ ~Fails(l, FALSE)
  <2>1. /\ After(att[l].pc) \in Working /\ After(att[l].pc) # "idle"
        /\ StatusOf(att[l].pc) \in InProgress
        /\ att[l].pc \in Working \cup {"setProbing"}
    BY <1>8, Stepping DEF SetStatus
  <2>2. media' = [media EXCEPT ![m].status = StatusOf(att[l].pc)] /\ Answered(l, After(att[l].pc))
    BY <1>8 DEF SetStatus
  <2>3. /\ media'[m].status = StatusOf(att[l].pc) /\ media'[m].prefix = media[m].prefix
        /\ \A n \in Media : n # m => media'[n] = media[n]
    BY <1>3, <1>7, <2>2 DEF TypeOK, MediaRow
  <2> HIDE DEF m
  <2>4. Frame /\ att'[l].pc \in {After(att[l].pc), "failMedia"} /\ \A k \in Leases : k # l => att'[k] = att[k]
    BY <1>6, <2>1, <2>2
  <2> QED BY <1>1, <1>3, <2>1, <2>3, <2>4 DEF Writes, m
<1>9. CASE FailMedia(l) /\ media' # media
  <2>1. media' = [media EXCEPT ![m].status = "failed"] /\ Goto(l, "recordFail") /\ att[l].pc = "failMedia"
    BY <1>9 DEF FailMedia
  <2>2. /\ media'[m].status = "failed" /\ media'[m].prefix = media[m].prefix
        /\ \A n \in Media : n # m => media'[n] = media[n]
    BY <1>3, <1>7, <2>1 DEF TypeOK, MediaRow
  <2> HIDE DEF m
  <2>3. att'[l].pc = "recordFail" /\ Answered(l, "recordFail") BY <2>1 DEF Answered, Goto, TypeOK, Attempt
  <2>4. Frame /\ \A k \in Leases : k # l => att'[k] = att[k]
    BY <1>6, <2>3
  <2> QED BY <1>1, <1>3, <2>1, <2>2, <2>3, <2>4 DEF Writes, m
<1>10. CASE Publish(l) /\ ~Fails(l, FALSE)
  <2>1. PICK poster : media' = [media EXCEPT ![m] = [status |-> "ready", prefix |-> l, poster |-> poster]]
    BY <1>10 DEF Publish
  <2>2. Answered(l, "complete") /\ att[l].pc = "publish" BY <1>10 DEF Publish
  <2>3. /\ media'[m].status = "ready" /\ media'[m].prefix = l
        /\ \A n \in Media : n # m => media'[n] = media[n]
    BY <1>3, <2>1 DEF TypeOK
  <2> HIDE DEF m
  <2>4. Frame /\ att'[l].pc \in {"complete", "failMedia"} /\ \A k \in Leases : k # l => att'[k] = att[k]
    BY <1>6, <2>2
  <2> QED BY <1>1, <1>3, <2>2, <2>3, <2>4 DEF Writes, m
<1> QED BY <1>8, <1>9, <1>10

\* Every step that begins something, writes a status, or is quiet.
LEMMA StepKinds ==
    ASSUME TypeOK, KnownInv, [Next]_vars
    PROVE  \/ \E m \in Media, j \in Jobs : Create(m, j)
           \/ \E j \in Jobs, l \in Leases : Claim(j, l)
           \/ \E r \in Rooms, m \in Media : Refresh(r, m) \/ RetryStatus(r, m)
           \/ \E r \in Rooms, m \in Media, j \in Jobs : RetryEnqueue(r, m, j)
           \/ \E l \in Leases : \/ (SetStatus(l) \/ Publish(l)) /\ ~Fails(l, FALSE)
                                \/ FailMedia(l) /\ media' # media
           \/ Frame /\ RowsQuiet /\ Calm
BY QuietActions

-----------------------------------------------------------------------------
\* A step in which rows stay and nothing begins keeps everything known.
LEMMA FrameKnown ==
    ASSUME KnownInv, Frame, RowsStay, Named
    PROVE  KnownInv'
<1>1. \A m \in Media, l \in Leases :
        media'[m].prefix = l => att'[l].pc # "idle" /\ jobs'[att'[l].job].media = m
  <2> SUFFICES ASSUME NEW m \in Media, NEW l \in Leases, media'[m].prefix = l
               PROVE  att'[l].pc # "idle" /\ jobs'[att'[l].job].media = m
    OBVIOUS
  <2>1. att[l].pc # "idle" /\ jobs[att[l].job].media = m BY DEF Named, KnownInv, MediaOf
  <2>2. att[l].job \in Jobs BY <2>1 DEF KnownInv
  <2> QED BY <2>1, <2>2 DEF Frame
<1>2. /\ \A j \in Jobs : jobs'[j].status # "none" =>
           jobs'[j].media \in Media /\ media'[jobs'[j].media].status # "none"
      /\ \A l \in Leases : att'[l].pc # "idle" =>
           att'[l].job \in Jobs /\ jobs'[att'[l].job].status # "none"
      /\ \A r \in Rooms, m \in Media :
           view'[r][m] # "none" \/ <<r, m>> \in retrying' => media'[m].status # "none"
  BY DEF KnownInv, Frame, RowsStay
<1> QED BY <1>1, <1>2 DEF KnownInv, MediaOf

\* Nothing is known before anything is ingested.
LEMMA KnownInit == Init => KnownInv
BY IngestAssumption DEF Init, KnownInv

\* KnownInv is inductive: a status never goes back to none.
LEMMA KnownStep == TypeOK /\ KnownInv /\ [Next]_vars => KnownInv'
<1> SUFFICES ASSUME TypeOK, KnownInv, [Next]_vars PROVE KnownInv' OBVIOUS
<1>1. ASSUME NEW m \in Media, NEW j \in Jobs, Create(m, j) PROVE KnownInv'
  <2>1. /\ jobs'[j].status # "none" /\ jobs'[j].media = m
        /\ \A k \in Jobs : k # j => jobs'[k] = jobs[k]
    BY <1>1 DEF Create, Pending, TypeOK
  <2>2. /\ media'[m].status # "none"
        /\ \A n \in Media : n # m => media'[n] = media[n]
    BY <1>1 DEF Create, TypeOK, MediaRow
  <2>3. /\ \A n \in Media : media'[n].prefix = media[n].prefix
        /\ att' = att /\ view' = view /\ retrying' = retrying /\ jobs[j].status = "none"
    BY <1>1 DEF Create, TypeOK, MediaRow
  <2>4. \A l \in Leases : att[l].pc # "idle" => att[l].job \in Jobs /\ att[l].job # j
    BY <2>3 DEF KnownInv
  <2>5. \A n \in Media, l \in Leases :
          media'[n].prefix = l => att[l].pc # "idle" /\ jobs'[att[l].job].media = n
    BY <2>1, <2>3, <2>4 DEF KnownInv, MediaOf
  <2>6. /\ \A k \in Jobs : jobs'[k].status # "none" =>
             jobs'[k].media \in Media /\ media'[jobs'[k].media].status # "none"
        /\ \A l \in Leases : att[l].pc # "idle" =>
             att[l].job \in Jobs /\ jobs'[att[l].job].status # "none"
        /\ \A q \in Rooms, n \in Media :
             view[q][n] # "none" \/ <<q, n>> \in retrying => media'[n].status # "none"
    BY <2>1, <2>2, <2>4 DEF KnownInv
  <2> QED BY <2>3, <2>5, <2>6 DEF KnownInv, MediaOf
<1>2. ASSUME NEW j \in Jobs, NEW l \in Leases, Claim(j, l) PROVE KnownInv'
  <2>1. /\ jobs'[j].status = "running" /\ jobs'[j].media = jobs[j].media
        /\ \A k \in Jobs : k # j => jobs'[k] = jobs[k]
    BY <1>2 DEF Claim, TypeOK, JobRow
  <2>2. att'[l].job = j /\ \A k \in Leases : k # l => att'[k] = att[k]
    BY <1>2 DEF Claim, TypeOK, Attempt
  <2>3. media' = media /\ view' = view /\ retrying' = retrying /\ jobs[j].status # "none" BY <1>2 DEF Claim
  <2>4. \A k \in Jobs : jobs'[k].status # "none" => jobs'[k].media \in Media /\ media[jobs'[k].media].status # "none"
    BY <2>1, <2>3 DEF KnownInv
  <2>5. \A k \in Leases : att'[k].pc # "idle" => att'[k].job \in Jobs /\ jobs'[att'[k].job].status # "none"
    BY <2>1, <2>2 DEF KnownInv
  <2>6. att[l].pc = "idle" BY <1>2 DEF Claim
  <2>7. \A n \in Media, k \in Leases :
          media[n].prefix = k => att'[k].pc # "idle" /\ jobs'[att'[k].job].media = n
    BY <2>1, <2>2, <2>6 DEF KnownInv, MediaOf
  <2> QED BY <2>3, <2>4, <2>5, <2>7 DEF KnownInv, MediaOf
<1>3. ASSUME NEW r \in Rooms, NEW m \in Media, Refresh(r, m) PROVE KnownInv'
  <2>1. \A q \in Rooms, n \in Media : view'[q][n] \in {view[q][n], media[n].status}
    BY <1>3 DEF Refresh, TypeOK
  <2>2. media' = media /\ jobs' = jobs /\ att' = att /\ retrying' = retrying BY <1>3 DEF Refresh
  <2>3. \A q \in Rooms, n \in Media : view'[q][n] # "none" \/ <<q, n>> \in retrying => media[n].status # "none"
    BY <2>1 DEF KnownInv
  <2> QED BY <2>2, <2>3 DEF KnownInv, MediaOf
<1>4. ASSUME NEW r \in Rooms, NEW m \in Media, RetryStatus(r, m) PROVE KnownInv'
  <2>1. /\ media'[m].status # "none"
        /\ \A n \in Media : n # m => media'[n] = media[n]
    BY <1>4 DEF RetryStatus, TypeOK, MediaRow
  <2>2. \A q \in Rooms, n \in Media : <<q, n>> \in retrying' => <<q, n>> \in retrying \/ n = m
    BY <1>4 DEF RetryStatus
  <2>3. view' = view /\ jobs' = jobs /\ att' = att BY <1>4 DEF RetryStatus
  <2>4. \A q \in Rooms, n \in Media : view[q][n] # "none" \/ <<q, n>> \in retrying' => media'[n].status # "none"
    BY <2>1, <2>2 DEF KnownInv
  <2>5. \A k \in Jobs : jobs[k].status # "none" => jobs[k].media \in Media /\ media'[jobs[k].media].status # "none"
    BY <2>1 DEF KnownInv
  <2>6. \A n \in Media : media'[n].prefix = media[n].prefix
    BY <1>4 DEF RetryStatus, TypeOK, MediaRow
  <2> QED BY <2>3, <2>4, <2>5, <2>6 DEF KnownInv, MediaOf
<1>5. ASSUME NEW r \in Rooms, NEW m \in Media, NEW j \in Jobs, RetryEnqueue(r, m, j) PROVE KnownInv'
  <2>1. /\ jobs'[j].status # "none" /\ jobs'[j].media = m
        /\ \A k \in Jobs : k # j => jobs'[k] = jobs[k]
    BY <1>5 DEF RetryEnqueue, Pending, TypeOK
  <2>2. media[m].status # "none" BY <1>5 DEF RetryEnqueue, KnownInv
  <2>3. \A q \in Rooms, n \in Media : view'[q][n] # view[q][n] => n = m
    BY <1>5 DEF RetryEnqueue, TypeOK
  <2>4. retrying' \subseteq retrying /\ media' = media /\ att' = att BY <1>5 DEF RetryEnqueue
  <2>5. \A q \in Rooms, n \in Media : view'[q][n] # "none" \/ <<q, n>> \in retrying' => media[n].status # "none"
    BY <2>2, <2>3, <2>4 DEF KnownInv
  <2>6. \A k \in Jobs : jobs'[k].status # "none" => jobs'[k].media \in Media /\ media[jobs'[k].media].status # "none"
    BY <2>1, <2>2 DEF KnownInv
  <2>7. \A l \in Leases : att[l].pc # "idle" => att[l].job \in Jobs /\ jobs'[att[l].job].status # "none"
    BY <2>1 DEF KnownInv
  <2>8. \A n \in Media, l \in Leases :
          media[n].prefix = l => att[l].pc # "idle" /\ jobs'[att[l].job].media = n
    <3>1. jobs[j].status = "none" BY <1>5 DEF RetryEnqueue
    <3> QED BY <2>1, <3>1 DEF KnownInv, MediaOf
  <2> QED BY <2>4, <2>5, <2>6, <2>7, <2>8 DEF KnownInv, MediaOf
<1>6. ASSUME NEW l \in Leases, \/ (SetStatus(l) \/ Publish(l)) /\ ~Fails(l, FALSE)
                               \/ FailMedia(l) /\ media' # media
      PROVE  KnownInv'
  <2>1. Frame /\ Writes(l) /\ media'[MediaOf(l)].status # "none"
    BY <1>6, OwnerWrites DEF InProgress
  <2>2. RowsStay BY <2>1 DEF RowsStay, Writes
  <2>3. \A m \in Media : media'[m].prefix # media[m].prefix => m = MediaOf(l) /\ media'[m].prefix = l
    <3>1. media'[MediaOf(l)].prefix \in {l, media[MediaOf(l)].prefix} BY <1>6, OwnerWrites
    <3>2. \A m \in Media : m # MediaOf(l) => media'[m] = media[m] BY <2>1 DEF Writes
    <3> QED BY <3>1, <3>2
  <2>4. att[l].pc # "idle" BY <1>6, Stepping DEF SetStatus, Publish, FailMedia
  <2>5. Named BY <2>3, <2>4 DEF Named
  <2> QED BY <2>1, <2>2, <2>5, FrameKnown
<1>7. CASE Frame /\ RowsQuiet /\ Calm
  <2>1. RowsStay BY <1>7 DEF RowsQuiet, RowsStay
  <2>2. Named BY <1>7 DEF RowsQuiet, Named
  <2> QED BY <1>7, <2>1, <2>2, FrameKnown
<1> QED BY <1>1, <1>2, <1>3, <1>4, <1>5, <1>6, <1>7, StepKinds

-----------------------------------------------------------------------------
\* At the start no job exists and nobody owns one.
LEMMA OnceInit == Init => OnceInv
BY DEF Init, OnceInv, Owned

\* A step that hands out no lease makes nobody an owner.
LEMMA FrameOwned ==
    ASSUME Frame, NEW l \in Leases, Owned(l)'
    PROVE  Owned(l) /\ MediaOf(l)' = MediaOf(l)
BY IngestAssumption DEF Frame, LeasesKept, Owned, MediaOf

\* OnceInv is inductive: an ingest without retries has one job, and its
\* owner is alone with the row.
LEMMA OnceStep == TypeOK /\ KnownInv /\ OnceInv /\ [Next]_vars => OnceInv'
<1> SUFFICES ASSUME TypeOK, KnownInv, OnceInv, [Next]_vars, Rooms = {} PROVE OnceInv'
  BY DEF OnceInv
<1> DEFINE OneJob == \A j, k \in Jobs : jobs[j].status # "none" /\ jobs[k].status # "none"
                                          /\ jobs[j].media = jobs[k].media => j = k
           Sees(l) == /\ att[l].pc \in Working => media[MediaOf(l)].status \in InProgress
                      /\ att[l].pc = "setProbing" => media[MediaOf(l)].status # "ready"
                      /\ att[l].pc = "failMedia" /\ media[MediaOf(l)].status = "ready"
                           => media[MediaOf(l)].prefix = l
<1>0. OneJob /\ \A l \in Leases : Owned(l) => Sees(l) BY DEF OnceInv
<1>a. OneJob' /\ (\A l \in Leases : Owned(l)' => Sees(l)') => OnceInv' BY DEF OnceInv
<1>1. ASSUME NEW m \in Media, NEW j \in Jobs, Create(m, j) PROVE OnceInv'
  <2>1. /\ jobs'[j].media = m /\ jobs'[j].lease = NoLease
        /\ \A k \in Jobs : k # j => jobs'[k] = jobs[k]
    BY <1>1 DEF Create, Pending, TypeOK
  <2>2. /\ \A n \in Media : n # m => media'[n] = media[n]
        /\ media[m].status = "none" /\ att' = att /\ jobs[j].status = "none"
    BY <1>1 DEF Create, TypeOK
  <2>3. \A k \in Jobs : jobs[k].status # "none" => jobs[k].media \in Media \ {m}
    BY <2>2 DEF KnownInv
  <2>4. OneJob' BY <1>0, <2>1, <2>3
  <2>5. ASSUME NEW l \in Leases, Owned(l)' PROVE Sees(l)'
    <3>1. att[l].job # j /\ Owned(l) BY <2>1, <2>2, <2>5, IngestAssumption DEF Owned
    <3>2. MediaOf(l)' = MediaOf(l) BY <2>1, <2>2, <2>5, <3>1 DEF MediaOf, Owned
    <3>3. media'[MediaOf(l)] = media[MediaOf(l)] BY <2>2, <2>3, <3>1 DEF MediaOf, Owned
    <3> QED BY <1>0, <2>2, <3>1, <3>2, <3>3
  <2> QED BY <1>a, <2>4, <2>5
<1>2. ASSUME NEW j \in Jobs, NEW l \in Leases, Claim(j, l) PROVE OnceInv'
  <2>1. /\ jobs'[j].lease = l /\ jobs'[j].media = jobs[j].media
        /\ \A k \in Jobs : k # j => jobs'[k] = jobs[k]
        /\ jobs[j].status # "none" /\ media' = media
    BY <1>2 DEF Claim, TypeOK, JobRow
  <2>2. att'[l].pc = "load" /\ \A k \in Leases : k # l => att'[k] = att[k]
    BY <1>2 DEF Claim, TypeOK, Attempt
  <2>3. OneJob' BY <1>0, <2>1
  <2>4. ASSUME NEW k \in Leases, Owned(k)' PROVE Sees(k)'
    <3>1. CASE k = l BY <2>2, <3>1, Stepping
    <3>2. CASE k # l
      <4>1. att'[k] = att[k] BY <2>2, <3>2
      <4>2. att[k].job # j /\ Owned(k) BY <2>1, <2>4, <3>2, <4>1 DEF Owned
      <4>3. MediaOf(k)' = MediaOf(k) BY <2>1, <4>1, <4>2 DEF MediaOf, Owned
      <4> QED BY <1>0, <2>1, <4>1, <4>2, <4>3
    <3> QED BY <3>1, <3>2
  <2> QED BY <1>a, <2>3, <2>4
<1>3. Frame => OneJob' BY <1>0 DEF Frame
<1>4. ASSUME NEW l \in Leases, \/ (SetStatus(l) \/ Publish(l)) /\ ~Fails(l, FALSE)
                               \/ FailMedia(l) /\ media' # media
      PROVE  OnceInv'
  <2>1. Frame /\ Writes(l) BY <1>4, OwnerWrites
  <2>2. Sees(l)'
    <3>1. MediaOf(l)' = MediaOf(l) BY <2>1 DEF Frame, Writes, MediaOf, Owned
    <3>2. media'[MediaOf(l)].status \in InProgress => media'[MediaOf(l)].status # "ready" BY DEF InProgress
    <3>3. /\ att'[l].pc \in Working => media'[MediaOf(l)].status \in InProgress
          /\ att'[l].pc # "setProbing"
          /\ att'[l].pc = "failMedia" /\ media'[MediaOf(l)].status = "ready" => media'[MediaOf(l)].prefix = l
      BY <1>4, <3>2, OwnerWrites, Stepping
    <3> QED BY <3>1, <3>3
  <2>3. ASSUME NEW k \in Leases, k # l, Owned(k)' PROVE Sees(k)'
    <3>1. Owned(k) /\ MediaOf(k)' = MediaOf(k) BY <2>1, <2>3, FrameOwned
    <3>2. att'[k] = att[k] /\ Owned(l) BY <2>1, <2>3 DEF Writes
    <3>3. MediaOf(k) # MediaOf(l) BY <1>0, <2>3, <3>1, <3>2 DEF Owned, MediaOf
    <3>4. MediaOf(k) \in Media BY <3>1 DEF Owned, MediaOf, KnownInv
    <3>5. media'[MediaOf(k)] = media[MediaOf(k)] BY <2>1, <3>3, <3>4 DEF Writes
    <3> QED BY <1>0, <3>1, <3>2, <3>5
  <2> QED BY <1>3, <1>a, <2>1, <2>2, <2>3
<1>5. CASE Frame /\ RowsQuiet /\ Calm
  <2>1. ASSUME NEW l \in Leases, Owned(l)' PROVE Sees(l)'
    <3>1. Owned(l) /\ MediaOf(l)' = MediaOf(l) BY <1>5, <2>1, FrameOwned
    <3>2. MediaOf(l) \in Media BY <3>1 DEF Owned, MediaOf, KnownInv
    <3>3. /\ media'[MediaOf(l)].status = media[MediaOf(l)].status
          /\ media'[MediaOf(l)].prefix = media[MediaOf(l)].prefix
      BY <1>5, <3>2 DEF RowsQuiet
    <3>4. "ready" \notin InProgress BY DEF InProgress
    <3>5. Sees(l) BY <1>0, <3>1
    <3>6. att'[l].pc \in Working => media'[MediaOf(l)].status \in InProgress BY <1>5, <3>3, <3>5 DEF Calm
    <3>7. att'[l].pc = "failMedia" => att[l].pc \in Working \cup {"setProbing", "failMedia"}
      BY <1>5 DEF Calm
    <3>8. att'[l].pc = "setProbing" => media'[MediaOf(l)].status # "ready"
      <4>1. att'[l].pc = "setProbing" =>
              att[l].pc \in Working \cup {"setProbing"} \/ media[MediaOf(l)].status # "ready"
        BY <1>5 DEF Calm
      <4> QED BY <3>3, <3>4, <3>5, <4>1
    <3>9. att'[l].pc = "failMedia" /\ media'[MediaOf(l)].status = "ready" => media'[MediaOf(l)].prefix = l
      BY <3>3, <3>4, <3>5, <3>7
    <3> QED BY <3>1, <3>6, <3>8, <3>9
  <2> QED BY <1>3, <1>5, <1>a, <2>1
<1> QED BY <1>1, <1>2, <1>4, <1>5, StepKinds

-----------------------------------------------------------------------------
(***************************************************************************)
(* The refinement                                                          *)
(***************************************************************************)

\* While packages are whole, what is served is what the row names.
LEMMA ServedWhole == PackagePresent => Served = [m \in Media |-> media[m].prefix]
BY DEF PackagePresent, Served

\* What is shown of a row.
LEMMA ShownRow ==
    ASSUME TypeOK, NEW m \in Media
    PROVE  /\ ShownOf(m) \in {"none", "pending", "ready", "unheard", "failed"}
           /\ ShownOf(m) = "none" <=> media[m].status = "none"
           /\ ShownOf(m) \in {"ready", "unheard"} <=> media[m].status = "ready"
           /\ ShownOf(m) = "pending" <=> media[m].status \in InProgress
           /\ ShownOf(m) = "unheard" <=> Unheard(m)
<1>1. media[m].status \in InProgress \cup {"none", "ready", "failed"} BY DEF TypeOK, MediaRow, MediaStatus
<1>2. Unheard(m) => media[m].status = "ready" BY DEF Unheard
<1> HIDE DEF Unheard
<1> QED BY <1>1, <1>2 DEF ShownOf, InProgress

\* An empty pipeline is an empty library.
LEMMA LibraryInit == Init => Lib!Init
<1> SUFFICES ASSUME Init PROVE Lib!Init OBVIOUS
<1>1. \A m \in Media : media[m].status = "none" BY DEF Init
<1>2. \A m \in Media : ShownOf(m) = "none" BY <1>1 DEF ShownOf, InProgress, Unheard
<1>3. Shown = [m \in Media |-> "none"] BY <1>2 DEF Shown
<1>4. Served = [m \in Media |-> NoLease] BY IngestAssumption DEF Init, Served
<1> QED BY <1>3, <1>4 DEF Lib!Init

-----------------------------------------------------------------------------
\* No step moves two attempts.
OneMoves == \A k, l \in Leases : att'[k] # att[k] /\ att'[l] # att[l] => k = l

\* No step of the pipeline moves two attempts.
LEMMA OneAttempt == TypeOK /\ [Next]_vars => OneMoves
<1> SUFFICES ASSUME TypeOK, [Next]_vars PROVE OneMoves OBVIOUS
<1>1. (att' = att) => OneMoves BY DEF OneMoves
<1>2. (\E l \in Leases : \A k \in Leases : k # l => att'[k] = att[k]) => OneMoves BY DEF OneMoves
<1>3. ASSUME NEW l \in Leases, AttemptStep(l) \/ Progress(l) \/ Renew(l) \/ Watchdog(l) \/ Crash(l)
      PROVE  OneMoves
  <2>1. CASE Load(l) \/ Work(l) \/ BeginUpload(l) \/ FinishUpload(l) \/ FailMedia(l)
             \/ RecordFail(l) \/ Complete(l)
    BY <1>2, <2>1 DEF Load, Work, BeginUpload, FinishUpload, FailMedia, RecordFail, Complete,
                      Goto, Fails, Errs, TypeOK
  <2>2. CASE SetStatus(l) \/ Probed(l) \/ Publish(l)
    BY <1>2, <2>2 DEF SetStatus, Probed, Publish, Answered, Goto, Fails, Errs, TypeOK
  <2>3. CASE Progress(l) \/ Renew(l) \/ Watchdog(l) \/ Crash(l)
    BY <1>1, <1>2, <2>3 DEF Progress, Renew, Watchdog, Crash, Goto, TypeOK
  <2> QED BY <1>3, <2>1, <2>2, <2>3 DEF AttemptStep
<1>4. ASSUME NEW j \in Jobs, NEW l \in Leases, Claim(j, l) PROVE OneMoves
  BY <1>2, <1>4 DEF Claim, TypeOK
<1>5. CASE \/ \E m \in Media, j \in Jobs : Create(m, j)
           \/ \E j \in Jobs : Expire(j)
           \/ RecoverStale
  BY <1>1, <1>5 DEF Create, Expire, RecoverStale
<1>6. ASSUME NEW r \in Rooms, NEW m \in Media, Refresh(r, m) \/ RetryStatus(r, m) \/ RetryFails(r, m)
      PROVE  OneMoves
  BY <1>1, <1>6 DEF Refresh, RetryStatus, RetryFails
<1>7. CASE \E r \in Rooms, m \in Media, j \in Jobs : RetryEnqueue(r, m, j)
  BY <1>1, <1>7 DEF RetryEnqueue
<1>8. CASE PruneList \/ PruneCheck \/ PruneEnd \/ \E l \in Leases : PruneDelete(l)
  BY <1>1, <1>8 DEF PruneList, PruneCheck, PruneEnd, PruneDelete
<1>9. CASE UNCHANGED vars BY <1>1, <1>9 DEF vars
<1> QED BY <1>3, <1>4, <1>5, <1>6, <1>7, <1>8, <1>9 DEF Next

\* A step in which nothing is published and no attempt comes to fail a
\* media it published: at most one publication settles.
LEMMA QuietLibrary ==
    ASSUME TypeOK, TypeOK', KnownInv, PublishedInv, PackagePresent, PackagePresent', OneMoves, RowsQuiet,
           \A l \in Leases : att'[l].pc = "failMedia" /\ att[l].pc \in Over => att[l].pc = "failMedia"
    PROVE  Lib!Next \/ UNCHANGED Lib!vars
<1>1. Served' = Served
  BY ServedWhole DEF RowsQuiet, Served, PackagePresent
<1>2. \A m \in Media : media'[m].status = media[m].status BY DEF RowsQuiet
<1>3. ASSUME NEW m \in Media, Unheard(m)' PROVE Unheard(m)
  <2>1. PICK l \in Leases : media'[m].prefix = l /\ att'[l].pc = "failMedia" BY <1>3 DEF Unheard
  <2>2. media[m].prefix = l BY <2>1 DEF RowsQuiet
  <2>3. att[l].pc = "failMedia" BY <2>1, <2>2 DEF PublishedInv
  <2>4. media[m].status = "ready" BY <1>2, <1>3 DEF Unheard
  <2> QED BY <2>2, <2>3, <2>4 DEF Unheard
<1>4. ASSUME NEW m \in Media, Unheard(m)' <=> Unheard(m) PROVE ShownOf(m)' = ShownOf(m)
  BY <1>2, <1>4 DEF ShownOf
<1>5. ASSUME NEW m \in Media, Unheard(m), ~Unheard(m)'
      PROVE  \E l \in Leases : media[m].prefix = l /\ MediaOf(l) = m /\ att'[l] # att[l]
  <2>1. PICK l \in Leases : media[m].prefix = l /\ att[l].pc = "failMedia" BY <1>5 DEF Unheard
  <2>2. media'[m].prefix = l /\ media'[m].status = "ready" BY <1>5, <2>1 DEF RowsQuiet, Unheard
  <2>3. att'[l].pc # "failMedia" BY <1>5, <2>2 DEF Unheard
  <2> QED BY <2>1, <2>3 DEF KnownInv
<1>6. CASE \A m \in Media : Unheard(m)' <=> Unheard(m)
  <2>1. Shown' = Shown BY <1>4, <1>6 DEF Shown
  <2> QED BY <1>1, <2>1 DEF Lib!vars
<1>7. CASE \E m \in Media : Unheard(m) /\ ~Unheard(m)'
  <2>1. PICK m \in Media : Unheard(m) /\ ~Unheard(m)' BY <1>7
  <2>2. ASSUME NEW n \in Media, n # m PROVE Unheard(n)' <=> Unheard(n)
    <3>1. SUFFICES ASSUME Unheard(n), ~Unheard(n)' PROVE FALSE BY <1>3
    <3>2. PICK l \in Leases : MediaOf(l) = n /\ att'[l] # att[l] BY <1>5, <3>1
    <3>3. PICK k \in Leases : MediaOf(k) = m /\ att'[k] # att[k] BY <1>5, <2>1
    <3> QED BY <2>2, <3>2, <3>3 DEF OneMoves
  <2>3. \A n \in Media : n # m => ShownOf(n)' = ShownOf(n) BY <1>4, <2>2
  <2>4. ShownOf(m) = "unheard" BY <2>1, ShownRow
  <2>5. ShownOf(m)' = "ready"
    <3>1. media'[m].status = "ready" BY <1>2, <2>1 DEF Unheard
    <3> QED BY <2>1, <3>1 DEF ShownOf, InProgress
  <2>6. Shown' = [Shown EXCEPT ![m] = "ready"] /\ Shown[m] = "unheard" BY <2>3, <2>4, <2>5 DEF Shown
  <2>7. Lib!Settle(m) BY <1>1, <2>6 DEF Lib!Settle
  <2> QED BY <2>7 DEF Lib!Next
<1> QED BY <1>3, <1>6, <1>7

\* Every step of the pipeline is a step of the library, or none at all.
LEMMA LibraryStep ==
    TypeOK /\ PackageInv /\ KnownInv /\ OnceInv /\ TypeOK' /\ PackageInv' /\ [Next]_vars
        => [Lib!Next]_(Lib!vars)
<1> SUFFICES ASSUME TypeOK, PackageInv, KnownInv, OnceInv, TypeOK', PackageInv', [Next]_vars
             PROVE  Lib!Next \/ UNCHANGED Lib!vars
  OBVIOUS
<1>1. PackagePresent /\ PackagePresent' BY DEF PackageInv, PublishedInv, PackagePresent
<1>2. /\ Served = [m \in Media |-> media[m].prefix]
      /\ Served' = [m \in Media |-> media'[m].prefix]
  BY <1>1, ServedWhole DEF Served, PackagePresent
<1>3. ASSUME NEW m \in Media
      PROVE  /\ Shown[m] = ShownOf(m)
             /\ ShownOf(m) \in {"none", "pending", "ready", "unheard", "failed"}
             /\ ShownOf(m) = "none" <=> media[m].status = "none"
             /\ ShownOf(m) \in {"ready", "unheard"} <=> media[m].status = "ready"
             /\ ShownOf(m) = "pending" <=> media[m].status \in InProgress
             /\ ShownOf(m) = "unheard" <=> Unheard(m)
  <2>1. Shown[m] = ShownOf(m) BY DEF Shown
  <2> QED BY <2>1, ShownRow
<1>4. ASSUME NEW m \in Media, NEW s, ShownOf(m)' = s,
             \A n \in Media : n # m => media'[n] = media[n] /\ (Unheard(n)' <=> Unheard(n))
      PROVE  Shown' = [Shown EXCEPT ![m] = s]
  <2>1. \A n \in Media : n # m => ShownOf(n)' = ShownOf(n) BY <1>4 DEF ShownOf
  <2> QED BY <1>4, <2>1 DEF Shown
<1>5. ASSUME \A m \in Media : media'[m].prefix = media[m].prefix PROVE Served' = Served
  BY <1>2, <1>5
<1>a. ASSUME NEW m \in Media, media'[m].status \in InProgress PROVE ShownOf(m)' = "pending"
  BY <1>a DEF ShownOf
<1>b. ASSUME NEW m \in Media, media'[m] = media[m], att' = att PROVE Unheard(m)' <=> Unheard(m)
  BY <1>b DEF Unheard
<1>6. ASSUME NEW m \in Media, NEW j \in Jobs, Create(m, j) PROVE Lib!Next
  <2>1. /\ media[m].status = "none" /\ media'[m].status = "queued" /\ att' = att
        /\ \A n \in Media : media'[n].prefix = media[n].prefix /\ (n # m => media'[n] = media[n])
    BY <1>6 DEF Create, TypeOK, MediaRow
  <2>2. ShownOf(m)' = "pending" BY <1>a, <2>1 DEF InProgress
  <2>3. Shown' = [Shown EXCEPT ![m] = "pending"] BY <1>4, <1>b, <2>1, <2>2
  <2>4. Lib!Admit(m) BY <1>3, <1>5, <2>1, <2>3 DEF Lib!Admit
  <2> QED BY <2>4 DEF Lib!Next
<1>7. ASSUME NEW r \in Rooms, NEW m \in Media, RetryStatus(r, m) PROVE Lib!Next
  <2>1. /\ media[m].status # "none" /\ media'[m].status = "queued" /\ att' = att
        /\ \A n \in Media : media'[n].prefix = media[n].prefix /\ (n # m => media'[n] = media[n])
    BY <1>7 DEF RetryStatus, TypeOK, MediaRow, KnownInv
  <2>2. ShownOf(m)' = "pending" BY <1>a, <2>1 DEF InProgress
  <2>3. Shown' = [Shown EXCEPT ![m] = "pending"] BY <1>4, <1>b, <2>1, <2>2
  <2>4. Shown[m] \in {"pending", "failed", "unheard", "ready"} BY <1>3, <2>1
  <2>5. Lib!Work(m) BY <1>5, <1>7, <2>1, <2>3, <2>4 DEF Lib!Work, Lib!Moves
  <2> QED BY <2>5 DEF Lib!Next
<1>8. ASSUME NEW l \in Leases, NEW m \in Media, MediaOf(l) = m,
             \/ (SetStatus(l) \/ Publish(l)) /\ ~Fails(l, FALSE)
             \/ FailMedia(l) /\ media' # media
      PROVE  Lib!Next
  <2>1. /\ media[m].status # "none" /\ Owned(l)
        /\ \A n \in Media : n # m => media'[n] = media[n]
        /\ \A k \in Leases : k # l => att'[k] = att[k]
    <3>1. Writes(l) /\ media[MediaOf(l)].status # "none" BY <1>8, OwnerWrites
    <3> QED BY <1>8, <3>1 DEF Writes
  <2>2. Rooms = {} => /\ att[l].pc \in Working => media[m].status \in InProgress
                      /\ att[l].pc = "setProbing" => media[m].status # "ready"
                      /\ att[l].pc = "failMedia" /\ media[m].status = "ready" => media[m].prefix = l
    BY <1>8, <2>1 DEF OnceInv
  <2>0. ASSUME NEW n \in Media, n # m PROVE Unheard(n)' <=> Unheard(n)
    <3>1. \A k \in Leases : media[n].prefix = k => att'[k] = att[k]
      BY <1>8, <2>0, <2>1 DEF KnownInv
    <3>2. media'[n] = media[n] BY <2>0, <2>1
    <3> QED BY <3>1, <3>2 DEF Unheard
  <2>3. CASE /\ att[l].pc \in Working \cup {"setProbing"}
             /\ media'[m].status \in InProgress /\ media'[m].prefix = media[m].prefix
    <3>1. ShownOf(m)' = "pending" BY <1>a, <2>1, <2>3
    <3>2. Shown' = [Shown EXCEPT ![m] = "pending"] /\ Served' = Served
      BY <1>4, <1>5, <2>0, <2>1, <2>3, <3>1
    <3>3. Rooms = {} => media[m].status # "ready" BY <2>2, <2>3 DEF InProgress
    <3>4. Shown[m] \in {"pending", "failed"} \/ (Rooms # {} /\ Shown[m] \in {"unheard", "ready"})
      BY <1>3, <2>1, <3>3
    <3>5. Lib!Work(m) BY <3>2, <3>4 DEF Lib!Work, Lib!Moves
    <3> QED BY <2>1, <3>5 DEF Lib!Next
  <2>4. CASE /\ att[l].pc = "failMedia" /\ media'[m].status = "failed"
             /\ media'[m].prefix = media[m].prefix
    <3>1. ShownOf(m)' = "failed" BY <2>4 DEF ShownOf, InProgress, Unheard
    <3>2. Shown' = [Shown EXCEPT ![m] = "failed"] /\ Served' = Served
      BY <1>4, <1>5, <2>0, <2>1, <2>4, <3>1
    <3>3. Rooms = {} => (media[m].status = "ready" => Unheard(m)) BY <2>2, <2>4 DEF Unheard
    <3>4. Shown[m] \in {"pending", "failed", "unheard"} \/ (Rooms # {} /\ Shown[m] = "ready")
      BY <1>3, <2>1, <3>3
    <3>5. Lib!Fail(m) BY <3>2, <3>4 DEF Lib!Fail, Lib!Moves
    <3> QED BY <2>1, <3>5 DEF Lib!Next
  <2>5. CASE /\ att[l].pc = "publish" /\ media'[m].status = "ready" /\ media'[m].prefix = l
    <3>1. PICK s \in {"ready", "unheard"} : ShownOf(m)' = s BY <2>5 DEF ShownOf, InProgress
    <3>2. Shown' = [Shown EXCEPT ![m] = s] BY <1>4, <2>0, <2>1, <3>1
    <3>3. Served' = [Served EXCEPT ![m] = l] BY <1>2, <2>1, <2>5
    <3>4. \A n \in Media : Served[n] # l BY <1>2, <2>5 DEF PackageInv, PublishedInv, Over
    <3>5. Shown[m] # "none" /\ (Rooms # {} \/ Shown[m] = "pending") BY <1>3, <2>1, <2>2, <2>5, Stepping
    <3>6. Lib!Publish(m, l) BY <3>2, <3>3, <3>4, <3>5 DEF Lib!Publish
    <3> QED BY <2>1, <3>6 DEF Lib!Next
  <2> QED BY <1>8, <2>3, <2>4, <2>5, OwnerWrites
<1>9. ASSUME RowsQuiet,
             \A l \in Leases : att'[l].pc = "failMedia" /\ att[l].pc \in Over => att[l].pc = "failMedia"
      PROVE  Lib!Next \/ UNCHANGED Lib!vars
  <2>1. OneMoves BY OneAttempt
  <2> QED BY <1>1, <1>9, <2>1, QuietLibrary DEF PackageInv
<1>10. Over \cap (Working \cup {"setProbing"}) = {} BY Stepping DEF Over
<1>11. Calm => \A l \in Leases : att'[l].pc = "failMedia" /\ att[l].pc \in Over => att[l].pc = "failMedia"
  BY <1>10 DEF Calm
<1>12. ASSUME \/ \E j \in Jobs, l \in Leases : Claim(j, l)
              \/ \E r \in Rooms, m \in Media : Refresh(r, m)
              \/ \E r \in Rooms, m \in Media, j \in Jobs : RetryEnqueue(r, m, j)
       PROVE  /\ RowsQuiet
              /\ \A l \in Leases : att'[l].pc = "failMedia" => att[l].pc = "failMedia"
  <2>1. CASE \E j \in Jobs, l \in Leases : Claim(j, l)
    BY <2>1 DEF Claim, RowsQuiet, TypeOK, Attempt
  <2>2. CASE \E r \in Rooms, m \in Media : Refresh(r, m)
    BY <2>2 DEF Refresh, RowsQuiet
  <2>3. CASE \E r \in Rooms, m \in Media, j \in Jobs : RetryEnqueue(r, m, j)
    BY <2>3 DEF RetryEnqueue, RowsQuiet
  <2> QED BY <1>12, <2>1, <2>2, <2>3
<1>13. ASSUME NEW l \in Leases, \/ (SetStatus(l) \/ Publish(l)) /\ ~Fails(l, FALSE)
                                \/ FailMedia(l) /\ media' # media
       PROVE  Lib!Next
  <2>1. MediaOf(l) \in Media BY <1>13, OwnerWrites
  <2> QED BY <1>8, <1>13, <2>1
<1> QED BY <1>6, <1>7, <1>9, <1>11, <1>12, <1>13, StepKinds

\* The pipeline, whatever its attempts, crashes, retries and cleaning passes
\* do, serves a library: packages are whole and, once published, never gone,
\* and without retries only an attempt that did not hear of its own
\* publication marks a media failed that is ready.
THEOREM Implements == Spec => ServesLibrary
<1>1. Spec => [](TypeOK /\ PackageInv /\ KnownInv /\ OnceInv)
  BY BudgetInit, BudgetStep, PackageInit, PackageStep, KnownInit, KnownStep, OnceInit, OnceStep, PTL
  DEF Spec, BudgetInv
<1> QED BY <1>1, LibraryInit, LibraryStep, PTL DEF Spec, ServesLibrary, Lib!Spec
==============================================================================
