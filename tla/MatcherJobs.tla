----------------------------- MODULE MatcherJobs -----------------------------
(***************************************************************************)
(* The matching service behind the batch executor: jobs in a collection    *)
(* that several matcher processes share, the prover's output directory of  *)
(* each batch, and the client that posts a job and polls it.               *)
(*                                                                         *)
(* A process loads the store when it works on a job, so what it matches    *)
(* depends on the moment: "view" is the part of the store that changes     *)
(* between two readings without changing the job's identity (the funding   *)
(* index of the market).  The output directory is named after the batch    *)
(* alone and keeps its proof.                                              *)
(***************************************************************************)
EXTENDS BatchMatcher

CONSTANTS
  Processes,       \* matcher processes
  Jobs,            \* posted inputs, by their digest
  BatchOf,         \* the batch a job asks for
  Books,           \* the books a job may find in the store
  AttemptLimit,    \* a failed job is queued again below it (5 in the code)
  MaxView,         \* bound: changes of the view
  MaxCrashes,      \* bound: crashes of all processes together
  MaxFailures      \* bound: failures of the prover itself

\* A job is a digest.
ASSUME JobsAssumption == "none" \notin Jobs /\ MaxView \in Nat

VARIABLES
  book,      \* the orders each job selects, and their match
  view,      \* the state of the market besides its orders
  jobs,      \* the shared collection
  work,      \* what each process is doing for each job
  up,        \* the processes that run
  proofs,    \* batch -> the digest its output directory holds a proof of
  client,    \* what the poster of each job knows
  crashes, failures

jobVars == <<book, view, jobs, work, up, proofs, client, crashes, failures>>

NoProof == [job |-> "none", view |-> 0]

Draft(j, seen) == [job |-> j, view |-> seen]

Drafts == [job : Jobs, view : 0..MaxView]

NoJob == [status |-> "absent", attempts |-> 0, retry |-> "none", result |-> NoProof]

\* The orders a job selects with what becomes of them, a pure function of the
\* orders that is evaluated once for each job.
Selected(orders) ==
  [orders |-> orders, refusal |-> Refusal(orders), match |-> Match(orders)]

Idle == [step |-> "idle", draft |-> NoProof]

JobStates ==
  [status : {"absent", "queued", "proving", "completed", "failed"}, attempts : Nat,
   retry : {"none", "later", "due"}, result : Drafts \cup {NoProof}]

WorkStates == [step : {"idle", "claiming", "proving"}, draft : Drafts \cup {NoProof}]

JobsTypeOK ==
  /\ DOMAIN book = Jobs
  /\ view \in 0..MaxView
  /\ jobs \in [Jobs -> JobStates]
  /\ work \in [Processes -> [Jobs -> WorkStates]]
  /\ up \subseteq Processes
  /\ proofs \in [{BatchOf[j] : j \in Jobs} -> Drafts \cup {NoProof}]
  /\ client \in [Jobs -> {"idle", "polling", "answered", "refused"}]

JobsStart(orders, running) ==
  /\ book = [j \in Jobs |-> Selected(orders[j])]
  /\ up = running
  /\ view = 0
  /\ jobs = [j \in Jobs |-> NoJob]
  /\ work = [p \in Processes |-> [j \in Jobs |-> Idle]]
  /\ proofs = [b \in {BatchOf[j] : j \in Jobs} |-> NoProof]
  /\ client = [j \in Jobs |-> "idle"]
  /\ crashes = 0 /\ failures = 0

JobsInit ==
  \E orders \in [Jobs -> Books], running \in SUBSET Processes \ {{}} : JobsStart(orders, running)

-----------------------------------------------------------------------------
(* The client.                                                             *)

Kicked(works, S) ==
  [j \in Jobs |-> IF j \in S /\ works[j].step = "idle"
                  THEN [works[j] EXCEPT !.step = "claiming"] ELSE works[j]]

\* Inserted if it is new; queued again if it failed, its delay is over and
\* attempts are left; and in either case given to the process that was asked.
Enqueued(job) ==
  CASE job.status = "absent" -> [job EXCEPT !.status = "queued"]
    [] job.status = "failed" /\ job.attempts < AttemptLimit /\ job.retry = "due" ->
         [job EXCEPT !.status = "queued", !.retry = "none"]
    [] OTHER -> job

Enqueue(j, p) ==
  /\ p \in up /\ client[j] # "polling"
  /\ jobs' = [jobs EXCEPT ![j] = Enqueued(@)]
  /\ work' = [work EXCEPT ![p] = Kicked(@, {j})]
  /\ client' = [client EXCEPT ![j] = "polling"]
  /\ UNCHANGED <<book, view, up, proofs, crashes, failures>>

\* The client asks until the job is completed or failed; a failed answer ends
\* the executor's run, which will post the same input again.
Poll(j) ==
  /\ client[j] = "polling" /\ up # {}
  /\ jobs[j].status \in {"completed", "failed"}
  /\ client' = [client EXCEPT ![j] = IF jobs[j].status = "completed" THEN "answered" ELSE "refused"]
  /\ UNCHANGED <<book, view, jobs, work, up, proofs, crashes, failures>>

\* No process answers the request: the run fails.
PollFails(j) ==
  /\ client[j] = "polling" /\ up = {}
  /\ client' = [client EXCEPT ![j] = "refused"]
  /\ UNCHANGED <<book, view, jobs, work, up, proofs, crashes, failures>>

-----------------------------------------------------------------------------
(* A process.                                                              *)

\* The claim is one conditional update: only a queued job is taken.  The store
\* is read next and the orders matched; the match is drafted for the prover.
Claim(p, j) ==
  /\ work[p][j].step = "claiming"
  /\ IF jobs[j].status = "queued"
     THEN /\ jobs' = [jobs EXCEPT ![j].status = "proving", ![j].attempts = @ + 1]
          /\ work' = [work EXCEPT ![p][j] = [step |-> "proving", draft |-> Draft(j, view)]]
     ELSE /\ work' = [work EXCEPT ![p][j] = Idle]
          /\ UNCHANGED jobs
  /\ UNCHANGED <<book, view, up, proofs, client, crashes, failures>>

\* Completion and failure are written only over a job that is being proved,
\* whichever process is proving it.
CompleteJob(job, draft) ==
  IF job.status = "proving" THEN [job EXCEPT !.status = "completed", !.result = draft] ELSE job

FailJob_Always(job) == [job EXCEPT !.status = "failed", !.retry = "later"]

FailJob(job) ==
  IF job.status = "proving" THEN [job EXCEPT !.status = "failed", !.retry = "later"] ELSE job

\* The directory's proof if it holds one, else a new proof of this draft.
ProofFor(j, draft) ==
  IF proofs[BatchOf[j]] # NoProof THEN proofs[BatchOf[j]] ELSE draft

ProverAnswers_AnyProof(p, j) ==
  /\ work[p][j].step = "proving"
  /\ book[j].refusal = ""
  /\ LET draft == work[p][j].draft
     IN  /\ proofs' = [proofs EXCEPT ![BatchOf[j]] = ProofFor(j, draft)]
         /\ jobs' = [jobs EXCEPT ![j] = CompleteJob(@, draft)]
  /\ work' = [work EXCEPT ![p][j] = Idle]
  /\ UNCHANGED <<book, view, up, client, crashes, failures>>

\* The journal of the proof must be the draft's own.
ProverAnswers(p, j) ==
  /\ work[p][j].step = "proving"
  /\ book[j].refusal = ""
  /\ LET draft == work[p][j].draft
         proof == ProofFor(j, draft)
     IN  /\ proofs' = [proofs EXCEPT ![BatchOf[j]] = proof]
         /\ jobs' = [jobs EXCEPT ![j] = IF proof = draft THEN CompleteJob(@, draft) ELSE FailJob(@)]
  /\ work' = [work EXCEPT ![p][j] = Idle]
  /\ UNCHANGED <<book, view, up, client, crashes, failures>>

MatchIsRefused(p, j) ==
  /\ work[p][j].step = "proving"
  /\ book[j].refusal # ""
  /\ jobs' = [jobs EXCEPT ![j] = FailJob(@)]
  /\ work' = [work EXCEPT ![p][j] = Idle]
  /\ UNCHANGED <<book, view, up, proofs, client, crashes, failures>>

ProverFails(p, j) ==
  /\ work[p][j].step = "proving" /\ failures < MaxFailures
  /\ jobs' = [jobs EXCEPT ![j] = FailJob(@)]
  /\ work' = [work EXCEPT ![p][j] = Idle]
  /\ failures' = failures + 1
  /\ UNCHANGED <<book, view, up, proofs, client, crashes>>

\* The delay after a failure ends (5 minutes to 4 hours).
RetryComesDue(j) ==
  /\ jobs[j].retry = "later"
  /\ jobs' = [jobs EXCEPT ![j].retry = "due"]
  /\ UNCHANGED <<book, view, work, up, proofs, client, crashes, failures>>

-----------------------------------------------------------------------------
(* The environment.                                                        *)

ViewMoves ==
  /\ view < MaxView
  /\ view' = view + 1
  /\ UNCHANGED <<book, jobs, work, up, proofs, client, crashes, failures>>

ProcessCrashes(p) ==
  /\ p \in up /\ crashes < MaxCrashes
  /\ crashes' = crashes + 1
  /\ up' = up \ {p}
  /\ work' = [work EXCEPT ![p] = [j \in Jobs |-> Idle]]
  /\ UNCHANGED <<book, view, jobs, proofs, client, failures>>

ProcessStarts_KeepsProving(p) ==
  /\ p \notin up
  /\ up' = up \cup {p}
  /\ work' = [work EXCEPT ![p] = Kicked(@, {j \in Jobs : jobs[j].status = "queued"})]
  /\ UNCHANGED <<book, view, jobs, proofs, client, crashes, failures>>

\* A starting process queues every job that is being proved, by itself before
\* its end or by another that is still at it, and takes on every queued job.
ProcessStarts(p) ==
  /\ p \notin up
  /\ up' = up \cup {p}
  /\ jobs' = [j \in Jobs |-> IF jobs[j].status = "proving"
                             THEN [jobs[j] EXCEPT !.status = "queued"] ELSE jobs[j]]
  /\ work' = [work EXCEPT ![p] = Kicked(@, {j \in Jobs : jobs'[j].status = "queued"})]
  /\ UNCHANGED <<book, view, proofs, client, crashes, failures>>

ProcessStep(p, j) ==
  Claim(p, j) \/ ProverAnswers(p, j) \/ MatchIsRefused(p, j) \/ ProverFails(p, j)

JobsNext ==
  \/ \E j \in Jobs : Poll(j) \/ PollFails(j) \/ RetryComesDue(j)
  \/ \E j \in Jobs, p \in Processes : Enqueue(j, p)
  \/ \E j \in Jobs, p \in Processes : ProcessStep(p, j)
  \/ ViewMoves
  \/ \E p \in Processes : ProcessCrashes(p) \/ ProcessStarts(p)

\* A claimed job is worked on to its end, a process that died is started again
\* and the client keeps polling.
JobsFairness ==
  /\ \A p \in Processes, j \in Jobs : WF_jobVars(ProcessStep(p, j))
  /\ \A p \in Processes : WF_jobVars(ProcessStarts(p))
  /\ \A j \in Jobs : WF_jobVars(Poll(j) \/ PollFails(j))

JobsSpec == JobsInit /\ [][JobsNext]_jobVars /\ JobsFairness

-----------------------------------------------------------------------------
\* Whatever a completed job answers was proved: its digest is the one the
\* directory of its batch holds a proof of, although directories are shared by
\* jobs, processes and views of the market.
ResultIsProved ==
  \A j \in Jobs : jobs[j].status = "completed" => proofs[BatchOf[j]] = jobs[j].result
=============================================================================
