------------------------------- MODULE JobSync -------------------------------
(***************************************************************************)
(* Job-set reconciliation and job lifecycle signals of the FL server       *)
(* (nvflare/private/fed/server/fed_server.py):                             *)
(*   _sync_client_jobs      the job-set part of client_heartbeat,          *)
(*   notify_dead_client     the job part of logout_client,                 *)
(*   _listen_command        the parent listener of the job cells           *)
(*                          (UPDATE_RUN_STATUS, HEARTBEAT), and            *)
(*   _set_job_aborted.                                                     *)
(* These handlers read engine.run_processes, a plain dict, without a lock  *)
(* while the engine's threads add and remove jobs.  _sync_client_jobs     *)
(* takes the keys, then indexes the dict job by job; notify_dead_client    *)
(* iterates over its items, and a dict that changes size during that       *)
(* iteration raises RuntimeError at the next step.  The engine, the job    *)
(* cells and the clients' job runners are not under src/: they are the     *)
(* environment, with the behaviour the spec gives them (4.3, 4.4).         *)
(* The rest of client_heartbeat and logout_client is in ClientRegistry.    *)
(***************************************************************************)
EXTENDS Naturals, FiniteSets

CONSTANTS
    Client,   \* client tokens - model values
    Job       \* job ids - model values

VARIABLES
    runProcs,    \* the keys of engine.run_processes
    parts,       \* run_processes[j][PARTICIPANTS]: tokens of its clients
    jobStatus,   \* job store: status of each job
    runFinished, \* jobs whose entry has PROCESS_FINISHED set
    exeErr,      \* the keys of engine.exception_run_processes
    cellUp,      \* jobs whose job cell (server job process) runs
    cellHb,      \* jobs with a HEARTBEAT of their job cell in flight
    registered,  \* client_manager.clients (tokens)
    cjobs,       \* client side: jobs running on each client (JOB_IDS header)
    cstarted,    \* history: jobs each client has started
    hbPc,        \* client_heartbeat of each client: "idle" or "sync"
    hbAbort,     \* its jobs_need_abort
    hbOrphans,   \* its jobs_on_server_but_not_on_client not yet processed
    lgPc,        \* logout_client of each client: "idle" or "notify"
    lgSeen,      \* notify_dead_client: jobs its iteration has visited
    lgSize,      \* len(run_processes) when that iteration began
    deadNotes,   \* history: "client dead" notifications per job and client
    missNotes    \* history: <<job, client>> of "missing job on client" ones

jsVars == <<runProcs, parts, jobStatus, runFinished, exeErr, cellUp, cellHb,
            registered, cjobs, cstarted, hbPc, hbAbort, hbOrphans, lgPc,
            lgSeen, lgSize, deadNotes, missNotes>>

Status == {"Submitted", "Running", "Finished", "Aborted"}

JobSyncTypeOK ==
    /\ runProcs \subseteq Job
    /\ parts \in [Job -> SUBSET Client]
    /\ jobStatus \in [Job -> Status]
    /\ runFinished \subseteq Job /\ exeErr \subseteq Job
    /\ cellUp \subseteq Job /\ cellHb \subseteq Job
    /\ registered \subseteq Client
    /\ cjobs \in [Client -> SUBSET Job]
    /\ cstarted \in [Client -> SUBSET Job]
    /\ hbPc \in [Client -> {"idle", "sync"}]
    /\ hbAbort \in [Client -> SUBSET Job]
    /\ hbOrphans \in [Client -> SUBSET Job]
    /\ lgPc \in [Client -> {"idle", "notify"}]
    /\ lgSeen \in [Client -> SUBSET Job]
    /\ lgSize \in [Client -> 0..Cardinality(Job)]
    /\ deadNotes \in [Job -> [Client -> Nat]]
    /\ missNotes \subseteq Job \X Client

JobSyncInit ==
    /\ runProcs = {}
    /\ parts = [j \in Job |-> {}]
    /\ jobStatus = [j \in Job |-> "Submitted"]
    /\ runFinished = {} /\ exeErr = {}
    /\ cellUp = {} /\ cellHb = {}
    /\ registered = Client
    /\ cjobs = [c \in Client |-> {}]
    /\ cstarted = [c \in Client |-> {}]
    /\ hbPc = [c \in Client |-> "idle"]
    /\ hbAbort = [c \in Client |-> {}]
    /\ hbOrphans = [c \in Client |-> {}]
    /\ lgPc = [c \in Client |-> "idle"]
    /\ lgSeen = [c \in Client |-> {}]
    /\ lgSize = [c \in Client |-> 0]
    /\ deadNotes = [j \in Job |-> [c \in Client |-> 0]]
    /\ missNotes = {}

-----------------------------------------------------------------------------
(* client_heartbeat -> _sync_client_jobs *)

\* Fault variant of HbBegin: the two set differences taken the wrong way
\* round.
HbBeginSwapped(c) ==
    /\ hbPc[c] = "idle"
    /\ hbAbort' = [hbAbort EXCEPT ![c] = runProcs \ cjobs[c]]
    /\ hbOrphans' = [hbOrphans EXCEPT ![c] = cjobs[c] \ runProcs]
    /\ hbPc' = [hbPc EXCEPT ![c] = "sync"]
    /\ UNCHANGED <<runProcs, parts, jobStatus, runFinished, exeErr, cellUp,
                   cellHb, registered, cjobs, cstarted, lgPc, lgSeen, lgSize,
                   deadNotes, missNotes>>

\* The heartbeat, past its state gate, compares the JOB_IDS the client
\* reports with the keys of run_processes: the client must abort the jobs
\* the server does not run; the jobs the server runs without the client are
\* processed one by one.  The sync runs whether or not the client manager
\* still knows the token.
HbBegin(c) ==
    /\ hbPc[c] = "idle"
    /\ hbAbort' = [hbAbort EXCEPT ![c] = cjobs[c] \ runProcs]
    /\ hbOrphans' = [hbOrphans EXCEPT ![c] = runProcs \ cjobs[c]]
    /\ hbPc' = [hbPc EXCEPT ![c] = "sync"]
    /\ UNCHANGED <<runProcs, parts, jobStatus, runFinished, exeErr, cellUp,
                   cellHb, registered, cjobs, cstarted, lgPc, lgSeen, lgSize,
                   deadNotes, missNotes>>

\* Fault variant of HbNotify: _notify_dead_job gets job and client in the
\* wrong order.
HbNotifySwapped(c, j) ==
    /\ hbPc[c] = "sync"
    /\ j \in hbOrphans[c]
    /\ j \in runProcs
    /\ missNotes' = IF c \in parts[j] THEN missNotes \cup {<<c, j>>}
                                      ELSE missNotes
    /\ hbOrphans' = [hbOrphans EXCEPT ![c] = @ \ {j}]
    /\ UNCHANGED <<runProcs, parts, jobStatus, runFinished, exeErr, cellUp,
                   cellHb, registered, cjobs, cstarted, hbPc, hbAbort, lgPc,
                   lgSeen, lgSize, deadNotes>>

\* run_processes[job_id]: if the client is a participant of the job, the
\* engine is told the job is missing on that client.
HbNotify(c, j) ==
    /\ hbPc[c] = "sync"
    /\ j \in hbOrphans[c]
    /\ j \in runProcs
    /\ missNotes' = IF c \in parts[j] THEN missNotes \cup {<<j, c>>}
                                      ELSE missNotes
    /\ hbOrphans' = [hbOrphans EXCEPT ![c] = @ \ {j}]
    /\ UNCHANGED <<runProcs, parts, jobStatus, runFinished, exeErr, cellUp,
                   cellHb, registered, cjobs, cstarted, hbPc, hbAbort, lgPc,
                   lgSeen, lgSize, deadNotes>>

\* The job left run_processes after its key was read: run_processes[job_id]
\* raises KeyError, which ends client_heartbeat; the abort list is lost.
HbKeyError(c, j) ==
    /\ hbPc[c] = "sync"
    /\ j \in hbOrphans[c]
    /\ j \notin runProcs
    /\ hbPc' = [hbPc EXCEPT ![c] = "idle"]
    /\ hbAbort' = [hbAbort EXCEPT ![c] = {}]
    /\ hbOrphans' = [hbOrphans EXCEPT ![c] = {}]
    /\ UNCHANGED <<runProcs, parts, jobStatus, runFinished, exeErr, cellUp,
                   cellHb, registered, cjobs, cstarted, lgPc, lgSeen, lgSize,
                   deadNotes, missNotes>>

\* The reply carries ABORT_JOBS; the client aborts those jobs.
HbReply(c) ==
    /\ hbPc[c] = "sync"
    /\ hbOrphans[c] = {}
    /\ cjobs' = [cjobs EXCEPT ![c] = @ \ hbAbort[c]]
    /\ hbPc' = [hbPc EXCEPT ![c] = "idle"]
    /\ hbAbort' = [hbAbort EXCEPT ![c] = {}]
    /\ UNCHANGED <<runProcs, parts, jobStatus, runFinished, exeErr, cellUp,
                   cellHb, registered, cstarted, hbOrphans, lgPc, lgSeen,
                   lgSize, deadNotes, missNotes>>

-----------------------------------------------------------------------------
(* logout_client -> notify_dead_client *)

\* Fault variant of LogoutBegin: remove_client leaves the record in place.
LogoutBeginNoRemove(c) ==
    /\ lgPc[c] = "idle"
    /\ c \in registered
    /\ IF runProcs = {}
          THEN UNCHANGED <<lgPc, lgSeen, lgSize>>
          ELSE /\ lgPc' = [lgPc EXCEPT ![c] = "notify"]
               /\ lgSeen' = [lgSeen EXCEPT ![c] = {}]
               /\ lgSize' = [lgSize EXCEPT ![c] = Cardinality(runProcs)]
    /\ UNCHANGED <<runProcs, parts, jobStatus, runFinished, exeErr, cellUp,
                   cellHb, registered, cjobs, cstarted, hbPc, hbAbort,
                   hbOrphans, deadNotes, missNotes>>

\* A quit or the dead-client sweep logs the client out: remove_client, then
\* notify_dead_client returns at once if run_processes is empty and
\* otherwise starts iterating over its items.
LogoutBegin(c) ==
    /\ lgPc[c] = "idle"
    /\ c \in registered
    /\ registered' = registered \ {c}
    /\ IF runProcs = {}
          THEN UNCHANGED <<lgPc, lgSeen, lgSize>>
          ELSE /\ lgPc' = [lgPc EXCEPT ![c] = "notify"]
               /\ lgSeen' = [lgSeen EXCEPT ![c] = {}]
               /\ lgSize' = [lgSize EXCEPT ![c] = Cardinality(runProcs)]
    /\ UNCHANGED <<runProcs, parts, jobStatus, runFinished, exeErr, cellUp,
                   cellHb, cjobs, cstarted, hbPc, hbAbort, hbOrphans,
                   deadNotes, missNotes>>

\* One item of the iteration: a job the client participates in is
\* notified "client dead" (_notify_dead_job swallows the engine's errors).
NotifyJob(c, j) ==
    /\ lgPc[c] = "notify"
    /\ Cardinality(runProcs) = lgSize[c]
    /\ j \in runProcs \ lgSeen[c]
    /\ deadNotes' = IF c \in parts[j]
                       THEN [deadNotes EXCEPT ![j][c] = @ + 1]
                       ELSE deadNotes
    /\ lgSeen' = [lgSeen EXCEPT ![c] = @ \cup {j}]
    /\ UNCHANGED <<runProcs, parts, jobStatus, runFinished, exeErr, cellUp,
                   cellHb, registered, cjobs, cstarted, hbPc, hbAbort,
                   hbOrphans, lgPc, lgSize, missNotes>>

\* The iteration ends.
NotifyDone(c) ==
    /\ lgPc[c] = "notify"
    /\ Cardinality(runProcs) = lgSize[c]
    /\ runProcs \subseteq lgSeen[c]
    /\ lgPc' = [lgPc EXCEPT ![c] = "idle"]
    /\ UNCHANGED <<runProcs, parts, jobStatus, runFinished, exeErr, cellUp,
                   cellHb, registered, cjobs, cstarted, hbPc, hbAbort,
                   hbOrphans, lgSeen, lgSize, deadNotes, missNotes>>

\* run_processes changed size during the iteration: the next step raises
\* RuntimeError out of logout_client; the remaining jobs are not notified.
NotifyRaises(c) ==
    /\ lgPc[c] = "notify"
    /\ Cardinality(runProcs) # lgSize[c]
    /\ lgPc' = [lgPc EXCEPT ![c] = "idle"]
    /\ UNCHANGED <<runProcs, parts, jobStatus, runFinished, exeErr, cellUp,
                   cellHb, registered, cjobs, cstarted, hbPc, hbAbort,
                   hbOrphans, lgSeen, lgSize, deadNotes, missNotes>>

-----------------------------------------------------------------------------
(* _listen_command: the parent listener of the job cells *)

\* UPDATE_RUN_STATUS, under self.lock: the entry of a job still in
\* run_processes is marked finished, and on an execution error also
\* recorded in exception_run_processes.
UpdateRunStatus(j, err) ==
    /\ j \in cellUp
    /\ j \in runProcs
    /\ runFinished' = runFinished \cup {j}
    /\ exeErr' = IF err THEN exeErr \cup {j} ELSE exeErr
    /\ UNCHANGED <<runProcs, parts, jobStatus, cellUp, cellHb, registered,
                   cjobs, cstarted, hbPc, hbAbort, hbOrphans, lgPc, lgSeen,
                   lgSize, deadNotes, missNotes>>

\* Fault variant of ParentHeartbeat: the abort_app_on_server call left out,
\* only the job's status is set.
ParentHeartbeatNoAbortApp(j) ==
    /\ j \in cellHb
    /\ cellHb' = cellHb \ {j}
    /\ jobStatus' = IF j \notin runProcs /\ jobStatus[j] = "Running"
                       THEN [jobStatus EXCEPT ![j] = "Aborted"]
                       ELSE jobStatus
    /\ UNCHANGED <<cellUp, runProcs, parts, runFinished, exeErr, registered,
                   cjobs, cstarted, hbPc, hbAbort, hbOrphans, lgPc, lgSeen,
                   lgSize, deadNotes, missNotes>>

\* HEARTBEAT of a job cell: a job not in run_processes should not be
\* running: abort_app_on_server stops its cell and _set_job_aborted marks
\* the job FINISHED_ABORTED if the store still has it RUNNING.
ParentHeartbeat(j) ==
    /\ j \in cellHb
    /\ cellHb' = cellHb \ {j}
    /\ IF j \notin runProcs
          THEN /\ cellUp' = cellUp \ {j}
               /\ jobStatus' = IF jobStatus[j] = "Running"
                                  THEN [jobStatus EXCEPT ![j] = "Aborted"]
                                  ELSE jobStatus
          ELSE UNCHANGED <<cellUp, jobStatus>>
    /\ UNCHANGED <<runProcs, parts, runFinished, exeErr, registered, cjobs,
                   cstarted, hbPc, hbAbort, hbOrphans, lgPc, lgSeen, lgSize,
                   deadNotes, missNotes>>

\* process_job_failure: a REPORT_JOB_FAILURE with a job_id and the code
\* UNSAFE_COMPONENT makes job_runner.stop_run drop the job's entry while
\* its cell still runs (other codes, and payloads without a job_id, are
\* only logged).  The reporting ORIGIN is not checked to be a participant,
\* or a registered client at all.
ReportJobFailure(j) ==
    /\ j \in runProcs
    /\ runProcs' = runProcs \ {j}
    /\ UNCHANGED <<parts, jobStatus, runFinished, exeErr, cellUp, cellHb,
                   registered, cjobs, cstarted, hbPc, hbAbort, hbOrphans,
                   lgPc, lgSeen, lgSize, deadNotes, missNotes>>

-----------------------------------------------------------------------------
(* Environment: the engine, the job cells and the clients' job runners *)

\* The job runner starts a submitted job with some registered clients: its
\* job cell starts and run_processes gets the entry with the participants.
StartRun(j) ==
    /\ jobStatus[j] = "Submitted"
    /\ \E p \in SUBSET registered :
          /\ p # {}
          /\ parts' = [parts EXCEPT ![j] = p]
    /\ runProcs' = runProcs \cup {j}
    /\ cellUp' = cellUp \cup {j}
    /\ jobStatus' = [jobStatus EXCEPT ![j] = "Running"]
    /\ UNCHANGED <<runFinished, exeErr, cellHb, registered, cjobs, cstarted,
                   hbPc, hbAbort, hbOrphans, lgPc, lgSeen, lgSize, deadNotes,
                   missNotes>>

\* A running job cell sends its periodic HEARTBEAT (fire and forget).
CellHeartbeat(j) ==
    /\ j \in cellUp
    /\ cellHb' = cellHb \cup {j}
    /\ UNCHANGED <<runProcs, parts, jobStatus, runFinished, exeErr, cellUp,
                   registered, cjobs, cstarted, hbPc, hbAbort, hbOrphans,
                   lgPc, lgSeen, lgSize, deadNotes, missNotes>>

\* The job cell process ends.
CellExit(j) ==
    /\ j \in cellUp
    /\ cellUp' = cellUp \ {j}
    /\ UNCHANGED <<runProcs, parts, jobStatus, runFinished, exeErr, cellHb,
                   registered, cjobs, cstarted, hbPc, hbAbort, hbOrphans,
                   lgPc, lgSeen, lgSize, deadNotes, missNotes>>

\* The engine sees the process gone: the entry leaves run_processes and a
\* job still RUNNING in the store is marked finished.
EndRun(j) ==
    /\ j \in runProcs
    /\ j \notin cellUp
    /\ runProcs' = runProcs \ {j}
    /\ jobStatus' = IF jobStatus[j] = "Running"
                       THEN [jobStatus EXCEPT ![j] = "Finished"]
                       ELSE jobStatus
    /\ UNCHANGED <<parts, runFinished, exeErr, cellUp, cellHb, registered,
                   cjobs, cstarted, hbPc, hbAbort, hbOrphans, lgPc, lgSeen,
                   lgSize, deadNotes, missNotes>>

\* The engine drops the entry while the job cell still runs (an admin's
\* abort, or run_processes rebuilt after a restart): the cell is the one the
\* HEARTBEAT branch of _listen_command says "should not be running".
DropRun(j) ==
    /\ j \in runProcs
    /\ j \in cellUp
    /\ runProcs' = runProcs \ {j}
    /\ UNCHANGED <<parts, jobStatus, runFinished, exeErr, cellUp, cellHb,
                   registered, cjobs, cstarted, hbPc, hbAbort, hbOrphans,
                   lgPc, lgSeen, lgSize, deadNotes, missNotes>>

\* A participant's job runner starts its part of a running job.
ClientStartJob(c, j) ==
    /\ j \in runProcs
    /\ c \in parts[j]
    /\ j \notin cstarted[c]
    /\ cjobs' = [cjobs EXCEPT ![c] = @ \cup {j}]
    /\ cstarted' = [cstarted EXCEPT ![c] = @ \cup {j}]
    /\ UNCHANGED <<runProcs, parts, jobStatus, runFinished, exeErr, cellUp,
                   cellHb, registered, hbPc, hbAbort, hbOrphans, lgPc, lgSeen,
                   lgSize, deadNotes, missNotes>>

\* A client's part of a job ends on its own.
ClientEndJob(c, j) ==
    /\ j \in cjobs[c]
    /\ cjobs' = [cjobs EXCEPT ![c] = @ \ {j}]
    /\ UNCHANGED <<runProcs, parts, jobStatus, runFinished, exeErr, cellUp,
                   cellHb, registered, cstarted, hbPc, hbAbort, hbOrphans,
                   lgPc, lgSeen, lgSize, deadNotes, missNotes>>

JobSyncNext ==
    \/ \E c \in Client :
          \/ HbBegin(c) \/ HbReply(c) \/ LogoutBegin(c)
          \/ NotifyDone(c) \/ NotifyRaises(c)
          \/ \E j \in Job : HbNotify(c, j) \/ HbKeyError(c, j) \/ NotifyJob(c, j)
    \/ \E j \in Job :
          \/ \E err \in BOOLEAN : UpdateRunStatus(j, err)
          \/ ParentHeartbeat(j)
          \/ StartRun(j) \/ CellHeartbeat(j) \/ CellExit(j) \/ EndRun(j)
          \/ DropRun(j) \/ ReportJobFailure(j)
    \/ \E c \in Client, j \in Job : ClientStartJob(c, j) \/ ClientEndJob(c, j)

\* Clients keep heartbeating, and a heartbeat request runs to its end; a
\* running cell's start_run loop sends a HEARTBEAT every
\* check_engine_frequency, and the transport delivers the job cells'
\* heartbeats.
JobSyncFairness ==
    /\ \A c \in Client :
          /\ WF_jsVars(HbBegin(c))
          /\ WF_jsVars(HbReply(c))
          /\ \A j \in Job : WF_jsVars(HbNotify(c, j) \/ HbKeyError(c, j))
    /\ \A j \in Job : WF_jsVars(CellHeartbeat(j)) /\ WF_jsVars(ParentHeartbeat(j))

JobSyncSpec == JobSyncInit /\ [][JobSyncNext]_jsVars /\ JobSyncFairness

-----------------------------------------------------------------------------
(* Properties *)

\* "The next liveness sweep ... triggers exactly one dead-job notification
\* per job they participated in" (spec 7): logout_client never notifies a
\* job twice that the same client is dead.
DeadClientNotifiedOnce ==
    \A j \in Job, c \in Client : deadNotes[j][c] <= 1

\* Once logout_client has returned for a client, every job still in
\* run_processes that lists the client as participant has been notified
\* that the client is dead.
DeadClientJobsNotified ==
    \A c \in Client :
        (c \notin registered /\ lgPc[c] = "idle")
            => \A j \in runProcs : c \in parts[j] => deadNotes[j][c] >= 1

\* _sync_client_jobs finishes: a heartbeat's reconciliation ends only after
\* it processed every job the server runs without the client.
SyncCompletes ==
    [][\A c \in Client :
          (hbPc[c] = "sync" /\ hbPc'[c] = "idle") => hbOrphans[c] = {}]_jsVars

\* A job cell whose job has left run_processes while it still runs (the
\* job runner's stop_run, a REPORT_JOB_FAILURE from any origin, or a
\* restart) is eventually stopped: its heartbeat loop keeps sending, and
\* the HEARTBEAT branch of _listen_command calls abort_app_on_server.
OrphanCellStopped ==
    \A j \in Job : (j \in cellUp /\ j \notin runProcs) ~> (j \notin cellUp)

\* Reconciliation converges: a job a client runs but the server no longer
\* runs is eventually gone from the client, through the ABORT_JOBS of a
\* later heartbeat reply.
ClientJobsConverge ==
    \A c \in Client, j \in Job :
        (j \in cjobs[c] /\ j \notin runProcs) ~> (j \notin cjobs[c])
=============================================================================
