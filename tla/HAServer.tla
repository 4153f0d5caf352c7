------------------------------ MODULE HAServer ------------------------------
(***************************************************************************)
(* The hot/cold state machine of one FL server (fed_server.py):            *)
(*   overseer_callback / _check_server_state   one poll of the overseer,   *)
(*   _turn_to_hot   snapshot restore of unfinished runs, then HotState,    *)
(*   _turn_to_cold  ColdState, then pause of the server's jobs.            *)
(* The overseer agent calls overseer_callback from its polling thread; the *)
(* callback runs _check_server_state to its end before the next poll, so  *)
(* the busy flag checking_server_state is modelled by haPc # "idle".       *)
(* The environment is the overseer (which server is primary, and its       *)
(* service session id) and the job runner: jobs started and finished here  *)
(* while Hot, and by the peer server while the overseer designates it.     *)
(* The job store (status per job) and the snapshot store are shared with   *)
(* the peer.                                                               *)
(***************************************************************************)
EXTENDS Naturals, FiniteSets, ServerState

CONSTANTS
    Job,             \* job ids - model values
    HAModes,         \* the deployments checked: ha_mode TRUE and/or FALSE
    MaxSsid,         \* bound: service sessions the overseer issues
    MaxRestoreFail   \* bound: failed snapshot restores

VARIABLES
    serverState,  \* FederatedServer.server_state
    haMode,       \* ha_mode: the overseer agent is an HttpOverseerAgent
    spPrimary,    \* overseer: designated primary SP, "Me", "Other" or "None"
    spSsid,       \* overseer: service_session_id of the current primary
    myGrants,     \* history: session ids issued while this server was primary
    haPc,         \* callback thread: "idle", "retrieve", "restore", "cold"
    toRestore,    \* _turn_to_hot: incomplete runs of the retrieved snapshot
    restored,     \* _turn_to_hot: restored_job_ids
    restoreFails, \* number of failed restores so far
    runProcs,     \* engine.run_processes: jobs running on this server
    jobStatus,    \* job store: status of each job
    snapshot      \* snapshot store: "none", "incomplete" or "complete" per job

haVars == <<haMode, spPrimary, spSsid, myGrants, haPc, toRestore, restored,
            restoreFails, runProcs, jobStatus, snapshot>>

Status == {"Submitted", "Running", "Finished", "Abnormal"}

HATypeOK ==
    /\ haMode \in BOOLEAN
    /\ serverState \in [kind : Kinds, ssid : 0..MaxSsid]
    /\ spPrimary \in {"Me", "Other", "None"}
    /\ spSsid \in 1..MaxSsid
    /\ myGrants \subseteq 1..MaxSsid
    /\ haPc \in {"idle", "retrieve", "restore", "cold"}
    /\ toRestore \subseteq Job /\ restored \subseteq Job
    /\ restoreFails \in 0..MaxRestoreFail
    /\ runProcs \subseteq Job
    /\ jobStatus \in [Job -> Status]
    /\ snapshot \in [Job -> {"none", "incomplete", "complete"}]

\* The server starts Cold (FederatedServer.__init__), deployed with or
\* without ha_mode (fixed for its lifetime); the overseer may
\* already designate either server, or none, under its first session id.
HAInit ==
    /\ haMode \in HAModes
    /\ serverState = MkState("Cold", NoSsid)
    /\ spPrimary \in {"Me", "Other", "None"}
    /\ spSsid = 1
    /\ myGrants = IF spPrimary = "Me" THEN {1} ELSE {}
    /\ haPc = "idle"
    /\ toRestore = {} /\ restored = {}
    /\ restoreFails = 0
    /\ runProcs = {}
    /\ jobStatus = [j \in Job |-> "Submitted"]
    /\ snapshot = [j \in Job |-> "none"]

-----------------------------------------------------------------------------
(* The overseer callback thread *)

\* Fault variant of CheckServerState: a Cold2HotState is stored but
\* _turn_to_hot is not called.
CheckServerStateNoTurn ==
    /\ haPc = "idle"
    /\ LET next == HandleSdCallback(serverState, spPrimary, spSsid) IN
       /\ serverState' = next
       /\ haPc' = IF next.kind = "Hot2Cold" THEN "cold" ELSE "idle"
    /\ UNCHANGED <<haMode, spPrimary, spSsid, myGrants, toRestore, restored,
                   restoreFails, runProcs, jobStatus, snapshot>>

\* overseer_callback -> _check_server_state: under self.lock, the state
\* computes its successor from the overseer's primary SP; a Cold2HotState
\* goes on to _turn_to_hot, a Hot2ColdState to _turn_to_cold.
CheckServerState ==
    /\ haPc = "idle"
    /\ LET next == HandleSdCallback(serverState, spPrimary, spSsid) IN
       /\ serverState' = next
       /\ haPc' = CASE next.kind = "Cold2Hot" -> "retrieve"
                    [] next.kind = "Hot2Cold" -> "cold"
                    [] OTHER                  -> "idle"
    /\ UNCHANGED <<haMode, spPrimary, spSsid, myGrants, toRestore, restored,
                   restoreFails, runProcs, jobStatus, snapshot>>

\* _turn_to_hot in HA mode: under snapshot_lock, retrieve the snapshot and
\* list its incomplete runs.
RetrieveSnapshot ==
    /\ haPc = "retrieve"
    /\ haMode
    /\ toRestore' = {j \in Job : snapshot[j] = "incomplete"}
    /\ restored' = {}
    /\ haPc' = "restore"
    /\ UNCHANGED <<haMode, serverState, spPrimary, spSsid, myGrants, restoreFails,
                   runProcs, jobStatus, snapshot>>

\* One incomplete run: unzip its workspace and hand the job to
\* job_runner.restore_running_job.
RestoreJob(j) ==
    /\ haPc = "restore"
    /\ j \in toRestore
    /\ runProcs' = runProcs \cup {j}
    /\ restored' = restored \cup {j}
    /\ toRestore' = toRestore \ {j}
    /\ UNCHANGED <<haMode, serverState, spPrimary, spSsid, myGrants, haPc,
                   restoreFails, jobStatus, snapshot>>

\* Restoring a run raises (a bad archive, a failing restore): the exception
\* ends _turn_to_hot and is logged by overseer_callback; the state stays
\* Cold2Hot and the jobs already restored keep running.
RestoreJobFails(j) ==
    /\ haPc = "restore"
    /\ j \in toRestore
    /\ restoreFails < MaxRestoreFail
    /\ restoreFails' = restoreFails + 1
    /\ haPc' = "idle"
    /\ toRestore' = {}
    /\ UNCHANGED <<haMode, serverState, spPrimary, spSsid, myGrants, restored,
                   runProcs, jobStatus, snapshot>>

\* Fault variant of FinishTurnToHot: the HotState takes the overseer's
\* current ssid instead of the one of the Cold2HotState.
FinishTurnToHotSpSsid ==
    /\ haPc = "restore"
    /\ toRestore = {}
    /\ jobStatus' = [j \in Job |->
                       IF jobStatus[j] = "Running" /\ j \notin restored
                          THEN "Abnormal" ELSE jobStatus[j]]
    /\ serverState' = MkState("Hot", spSsid)
    /\ haPc' = "idle"
    /\ UNCHANGED <<haMode, spPrimary, spSsid, myGrants, toRestore, restored,
                   restoreFails, runProcs, snapshot>>

\* All runs restored: update_abnormal_finished_jobs marks every other job
\* the store has as running finished-abnormal; then HotState under the lock,
\* keeping the ssid of the Cold2HotState.
FinishTurnToHot ==
    /\ haPc = "restore"
    /\ toRestore = {}
    /\ jobStatus' = [j \in Job |->
                       IF jobStatus[j] = "Running" /\ j \notin restored
                          THEN "Abnormal" ELSE jobStatus[j]]
    /\ serverState' = MkState("Hot", serverState.ssid)
    /\ haPc' = "idle"
    /\ UNCHANGED <<haMode, spPrimary, spSsid, myGrants, toRestore, restored,
                   restoreFails, runProcs, snapshot>>

\* Fault variant of TurnToHotNoHA: the jobs are finished but the state is
\* left Cold2Hot.
TurnToHotNoHAStuck ==
    /\ haPc = "retrieve"
    /\ ~haMode
    /\ snapshot' = [j \in Job |-> "none"]
    /\ jobStatus' = [j \in Job |->
                       IF jobStatus[j] = "Running" THEN "Abnormal" ELSE jobStatus[j]]
    /\ haPc' = "idle"
    /\ UNCHANGED <<haMode, serverState, spPrimary, spSsid, myGrants, toRestore,
                   restored, restoreFails, runProcs>>

\* _turn_to_hot outside HA mode: delete the snapshot, mark every unfinished
\* job finished (update_unfinished_jobs), then HotState.
TurnToHotNoHA ==
    /\ haPc = "retrieve"
    /\ ~haMode
    /\ snapshot' = [j \in Job |-> "none"]
    /\ jobStatus' = [j \in Job |->
                       IF jobStatus[j] = "Running" THEN "Abnormal" ELSE jobStatus[j]]
    /\ serverState' = MkState("Hot", serverState.ssid)
    /\ haPc' = "idle"
    /\ UNCHANGED <<haMode, spPrimary, spSsid, myGrants, toRestore, restored,
                   restoreFails, runProcs>>

\* Fault variant of TurnToCold: ColdState without pause_server_jobs.
TurnToColdNoPause ==
    /\ haPc = "cold"
    /\ serverState' = MkState("Cold", NoSsid)
    /\ haPc' = "idle"
    /\ UNCHANGED <<haMode, spPrimary, spSsid, myGrants, toRestore, restored,
                   restoreFails, runProcs, jobStatus, snapshot>>

\* _turn_to_cold: ColdState (no ssid) under the lock, the state broadcast to
\* the job cells, then engine.pause_server_jobs stops this server's jobs.
TurnToCold ==
    /\ haPc = "cold"
    /\ serverState' = MkState("Cold", NoSsid)
    /\ runProcs' = {}
    /\ haPc' = "idle"
    /\ UNCHANGED <<haMode, spPrimary, spSsid, myGrants, toRestore, restored,
                   restoreFails, jobStatus, snapshot>>

-----------------------------------------------------------------------------
(* Environment: the overseer and the job runners *)

\* The overseer designates a primary under a new service session id.
OverseerElect(p) ==
    /\ spSsid < MaxSsid
    /\ spPrimary' = p
    /\ spSsid' = spSsid + 1
    /\ myGrants' = IF p = "Me" THEN myGrants \cup {spSsid + 1} ELSE myGrants
    /\ UNCHANGED <<haMode, serverState, haPc, toRestore, restored, restoreFails,
                   runProcs, jobStatus, snapshot>>

\* The overseer loses its primary.
OverseerNoPrimary ==
    /\ spPrimary # "None"
    /\ spPrimary' = "None"
    /\ UNCHANGED <<haMode, serverState, spSsid, myGrants, haPc, toRestore, restored,
                   restoreFails, runProcs, jobStatus, snapshot>>

\* This server's job runner starts a submitted job (only while Hot); its
\* run snapshot is persisted as incomplete.
StartJob(j) ==
    /\ serverState.kind = "Hot"
    /\ jobStatus[j] = "Submitted"
    /\ jobStatus' = [jobStatus EXCEPT ![j] = "Running"]
    /\ runProcs' = runProcs \cup {j}
    /\ snapshot' = [snapshot EXCEPT ![j] = "incomplete"]
    /\ UNCHANGED <<haMode, serverState, spPrimary, spSsid, myGrants, haPc, toRestore,
                   restored, restoreFails>>

\* A job running on this server completes.
FinishJob(j) ==
    /\ j \in runProcs
    /\ runProcs' = runProcs \ {j}
    /\ jobStatus' = [jobStatus EXCEPT ![j] = "Finished"]
    /\ snapshot' = [snapshot EXCEPT ![j] = "complete"]
    /\ UNCHANGED <<haMode, serverState, spPrimary, spSsid, myGrants, haPc, toRestore,
                   restored, restoreFails>>

\* The peer server, while designated, starts or completes a job in the
\* shared stores.
PeerStartJob(j) ==
    /\ spPrimary = "Other"
    /\ jobStatus[j] = "Submitted"
    /\ jobStatus' = [jobStatus EXCEPT ![j] = "Running"]
    /\ snapshot' = [snapshot EXCEPT ![j] = "incomplete"]
    /\ UNCHANGED <<haMode, serverState, spPrimary, spSsid, myGrants, haPc, toRestore,
                   restored, restoreFails, runProcs>>

PeerFinishJob(j) ==
    /\ spPrimary = "Other"
    /\ jobStatus[j] = "Running"
    /\ jobStatus' = [jobStatus EXCEPT ![j] = "Finished"]
    /\ snapshot' = [snapshot EXCEPT ![j] = "complete"]
    /\ UNCHANGED <<haMode, serverState, spPrimary, spSsid, myGrants, haPc, toRestore,
                   restored, restoreFails, runProcs>>

HANext ==
    \/ CheckServerState \/ RetrieveSnapshot \/ FinishTurnToHot
    \/ TurnToHotNoHA \/ TurnToCold
    \/ \E j \in Job : RestoreJob(j) \/ RestoreJobFails(j)
    \/ \E p \in {"Me", "Other"} : OverseerElect(p)
    \/ OverseerNoPrimary
    \/ \E j \in Job : StartJob(j) \/ FinishJob(j) \/ PeerStartJob(j) \/ PeerFinishJob(j)

\* The overseer agent keeps polling, and each poll runs to its end.
HAFairness ==
    /\ WF_<<serverState, haVars>>(CheckServerState)
    /\ WF_<<serverState, haVars>>(RetrieveSnapshot \/ TurnToHotNoHA)
    /\ WF_<<serverState, haVars>>(FinishTurnToHot)
    /\ WF_<<serverState, haVars>>(TurnToCold)
    /\ \A j \in Job : WF_<<serverState, haVars>>(RestoreJob(j) \/ RestoreJobFails(j))

HASpec == HAInit /\ [][HANext]_<<serverState, haVars>> /\ HAFairness

-----------------------------------------------------------------------------
(* Properties *)

\* Failover: once the overseer keeps designating this server, it ends up Hot
\* for good (through Cold2Hot and the snapshot restore, whose failures are
\* retried by the next polls).
PrimaryBecomesHot ==
    <>[](spPrimary = "Me") => <>[](serverState.kind = "Hot")

\* Failback: once the overseer keeps designating the other server, this one
\* ends up Cold with none of its jobs still running.
OtherBecomesCold ==
    <>[](spPrimary = "Other") => <>[](serverState.kind = "Cold" /\ runProcs = {})

\* _turn_to_hot restores each unfinished run once: restore_running_job is
\* never handed a job that already runs on this server.
NoDoubleRestore ==
    [][\A j \in Job : RestoreJob(j) => j \notin runProcs]_<<serverState, haVars>>
=============================================================================
