----------------------------- MODULE ServerCells -----------------------------
(***************************************************************************)
(* The parent server's HA state machine (HAServer) together with the job  *)
(* cells it launches (CommandAgent).  The two share no memory: a cell     *)
(* learns the parent's state when it is launched and afterwards only from *)
(* the SERVER_STATE broadcast of _notify_state_change, which _turn_to_cold *)
(* sends (optional, 5 s timeout) to the jobs of run_processes before       *)
(* pause_server_jobs; _check_server_state's other state changes send      *)
(* nothing.                                                                *)
(* The launch of a job's cell is not under src/: the cell is taken to      *)
(* start Hot under the parent's ssid, both for a new job (StartJob) and    *)
(* for a run restored by _turn_to_hot (RestoreJob).                        *)
(***************************************************************************)
EXTENDS Naturals, ServerState

CONSTANTS Job, HAModes, MaxSsid, MaxRestoreFail, AbortTimeout

VARIABLES
    serverState, haMode, spPrimary, spSsid, myGrants, haPc, toRestore,
    restored, restoreFails, runProcs, jobStatus, snapshot,
    cellUp, cellState, stateMsgs, runPc, engPc, engStatus, abortPc, abortWait,
    served, auxDone

HA == INSTANCE HAServer
CA == INSTANCE CommandAgent

haVars == <<haMode, spPrimary, spSsid, myGrants, haPc, toRestore, restored,
            restoreFails, runProcs, jobStatus, snapshot>>
caVars == <<cellUp, cellState, stateMsgs, runPc, engPc, engStatus, abortPc,
            abortWait, served, auxDone>>
vars == <<serverState, haVars, caVars>>

\* The state a launched cell starts in.
LaunchState == MkState("Hot", serverState.ssid)

\* The job runner starts a job: its cell is launched.
StartJobCell(j) == HA!StartJob(j) /\ CA!CellLaunch(j, LaunchState)

\* _turn_to_hot restores a run: restore_running_job launches its cell.
RestoreJobCell(j) == HA!RestoreJob(j) /\ CA!CellLaunch(j, LaunchState)

\* _turn_to_cold with its _notify_state_change to run_processes' cells.
TurnToColdNotify ==
    HA!TurnToCold /\ CA!Broadcast(runProcs, MkState("Cold", NoSsid))

\* A cell ends once its job is no longer in run_processes (finished, or
\* paused by pause_server_jobs).
CellExitDone(j) == j \notin runProcs /\ CA!CellExit(j)

CellsInit == HA!HAInit /\ CA!CAInit

\* Steps of the parent that touch no cell.
ParentStep ==
    \/ HA!CheckServerState \/ HA!RetrieveSnapshot \/ HA!FinishTurnToHot
    \/ HA!TurnToHotNoHA
    \/ \E j \in Job : HA!RestoreJobFails(j) \/ HA!FinishJob(j)
                      \/ HA!PeerStartJob(j) \/ HA!PeerFinishJob(j)
    \/ \E p \in {"Me", "Other"} : HA!OverseerElect(p)
    \/ HA!OverseerNoPrimary

\* Steps of a cell alone, among them the requests of clients.
CellStep ==
    \/ \E j \in Job, tok \in CA!TokenKinds, s \in 0..MaxSsid :
          CA!GetTask(j, tok, s) \/ CA!SubmitUpdate(j, tok, s)
    \/ \E j \in Job, s \in 0..MaxSsid : CA!AuxCommunicate(j, s)
    \/ \E m \in stateMsgs : CA!DeliverState(m) \/ CA!DropState(m)
    \/ \E j \in Job : \/ CA!AbortBegin(j) \/ CA!AbortTick(j) \/ CA!AbortDone(j)
                      \/ CA!StartRun(j) \/ CA!StartRunSetStarted(j)
                      \/ CA!StartRunAskedToStop(j) \/ CA!StartRunDone(j)
                      \/ CA!RunEngine(j) \/ CA!RunEngineEnd(j)

CellsNext ==
    \/ ParentStep /\ UNCHANGED caVars
    \/ CellStep /\ UNCHANGED <<serverState, haVars>>
    \/ \E j \in Job : StartJobCell(j) \/ RestoreJobCell(j)
    \/ TurnToColdNotify
    \/ \E j \in Job : CellExitDone(j) /\ UNCHANGED <<serverState, haVars>>

\* The parent's overseer polls run to their end (HAFairness); a pending
\* SERVER_STATE request is delivered or times out; the abort loop keeps
\* ticking; a cell whose job left run_processes ends.
CellsFairness ==
    /\ WF_vars(HA!CheckServerState /\ UNCHANGED caVars)
    /\ WF_vars((HA!RetrieveSnapshot \/ HA!TurnToHotNoHA) /\ UNCHANGED caVars)
    /\ WF_vars(HA!FinishTurnToHot /\ UNCHANGED caVars)
    /\ WF_vars(TurnToColdNotify)
    /\ \A j \in Job :
          WF_vars(RestoreJobCell(j) \/ (HA!RestoreJobFails(j) /\ UNCHANGED caVars))
    /\ \A j \in Job :
          WF_vars((CA!AbortTick(j) \/ CA!AbortDone(j)) /\ UNCHANGED <<serverState, haVars>>)
    /\ \A j \in Job : WF_vars(CellExitDone(j) /\ UNCHANGED <<serverState, haVars>>)
    /\ \A m \in [to : Job, st : CA!States] :
          WF_vars((CA!DeliverState(m) \/ CA!DropState(m)) /\ UNCHANGED <<serverState, haVars>>)

CellsSpec == CellsInit /\ [][CellsNext]_vars /\ CellsFairness

-----------------------------------------------------------------------------
(* Refinement: the parent's HA state machine implements HAAbstract, with  *)
(* Cold2Hot seen as Cold and Hot2Cold still as Hot.                        *)

AbsView ==
    IF serverState.kind \in {"Cold", "Cold2Hot"}
       THEN [kind |-> "Cold", ssid |-> NoSsid]
       ELSE [kind |-> "Hot", ssid |-> serverState.ssid]

AbsHA == INSTANCE HAAbstract WITH absState <- AbsView, grants <- myGrants,
                                  Ssid <- 1..MaxSsid

-----------------------------------------------------------------------------
(* Properties *)

CellsTypeOK == HA!HATypeOK /\ CA!CATypeOK

\* The server is Hot only under an ssid the overseer granted it, leaves Hot
\* only to Cold, and only through the poll of _check_server_state.
HAImplementsAbstract == AbsHA!AbsSpec

\* A cell serves a GET_TASK or SUBMIT_UPDATE only for a request carrying a
\* session id the overseer issued to this server, even when the cell's
\* state is stale.
ServedUnderOwnGrant == \A x \in served : x[3] \in myGrants

\* AbortCommand always answers: the wait loop ends once the engine stops,
\* or after its 30 s even when the runner never stops.
AbortReplies == \A j \in Job : abortPc[j] = "wait" ~> abortPc[j] = "idle"

\* A cell still serving while the parent is Cold stops serving: the Cold
\* broadcast reaches it, or the paused job's cell ends (the broadcast is
\* optional and may be lost), unless the parent leaves Cold first.
ColdCellsQuiesce ==
    \A j \in Job :
        (serverState.kind = "Cold" /\ j \in cellUp /\ cellState[j].kind = "Hot")
           ~> (j \notin cellUp \/ cellState[j].kind # "Hot" \/ serverState.kind # "Cold")

\* Failover and failback of HAServer hold with the cells attached.
PrimaryBecomesHot == HA!PrimaryBecomesHot
OtherBecomesCold == HA!OtherBecomesCold

\* aux_communicate dispatches only requests that passed its state check
\* and authentication_check.
AuxOnlyAuthenticated == \A a \in auxDone : a[2]
=============================================================================
