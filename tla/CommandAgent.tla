---------------------------- MODULE CommandAgent ----------------------------
(***************************************************************************)
(* The command side of the job cells (server job processes, "SJ"):        *)
(*   ServerCommandAgent.execute_command / aux_communicate                  *)
(*     (server_command_agent.py),                                          *)
(*   the command processors GetTask, SubmitUpdate, ServerState and Abort    *)
(*     (server_commands.py),                                               *)
(*   FederatedServer.authentication_check, start_run and run_engine of the  *)
(*     FederatedServer object inside the job cell (fed_server.py).         *)
(* Each job cell keeps its own server_state: it starts as the ColdState of *)
(* FederatedServer.__init__ and is only changed by a SERVER_STATE command, *)
(* which the parent sends from _notify_state_change as an optional         *)
(* broadcast with a 5 s timeout.  How a cell is launched, and the          *)
(* server runner's work, are not under src/: the launcher hands the cell   *)
(* the parent's state, and the runner stops when it likes.  Requests carry *)
(* a token (known to the cell, unknown, or missing) and an ssid.           *)
(***************************************************************************)
EXTENDS Naturals, ServerState

CONSTANTS
    Job,           \* job ids - model values
    MaxSsid,       \* bound: the ssids a request can carry are 0..MaxSsid
    AbortTimeout   \* bound: AbortCommand's 30 s wait, in one-second ticks

VARIABLES
    cellUp,     \* jobs whose cell process runs
    cellState,  \* engine.server.server_state inside each cell
    stateMsgs,  \* SERVER_STATE requests in flight: [to, st]
    runPc,      \* start_run's thread: "none" (no server runner yet),
                \* "spawned" (engine thread started), "loop", "done"
    engPc,      \* run_engine's thread: "idle", "running", "ended"
    engStatus,  \* engine.engine_info.status: "STARTED" or "STOPPED"
    abortPc,    \* AbortCommand.process of each cell: "idle" or "wait"
    abortWait,  \* seconds it has waited
    served,     \* history: <<job, op, ssid>> of client commands processed
    auxDone     \* history: <<job, passed authentication_check>> dispatched

caVars == <<cellUp, cellState, stateMsgs, runPc, engPc, engStatus, abortPc,
            abortWait, served, auxDone>>

States == [kind : Kinds, ssid : 0..MaxSsid]
TokenKinds == {"known", "unknown", "missing"}

\* ServerCommands.client_request_commands_names: the commands that need a
\* known client and pass authentication_check.
ClientRequestCommands == {"get_task", "submit_result"}

CATypeOK ==
    /\ cellUp \subseteq Job
    /\ cellState \in [Job -> States]
    /\ stateMsgs \subseteq [to : Job, st : States]
    /\ runPc \in [Job -> {"none", "spawned", "loop", "done"}]
    /\ engPc \in [Job -> {"idle", "running", "ended"}]
    /\ engStatus \in [Job -> {"STARTED", "STOPPED"}]
    /\ abortPc \in [Job -> {"idle", "wait"}]
    /\ abortWait \in [Job -> 0..AbortTimeout]
    /\ served \subseteq Job \X ClientRequestCommands \X (0..MaxSsid)
    /\ auxDone \subseteq Job \X BOOLEAN

CAInit ==
    /\ cellUp = {}
    /\ cellState = [j \in Job |-> MkState("Cold", NoSsid)]
    /\ stateMsgs = {}
    /\ runPc = [j \in Job |-> "none"]
    /\ engPc = [j \in Job |-> "idle"]
    /\ engStatus = [j \in Job |-> "STOPPED"]
    /\ abortPc = [j \in Job |-> "idle"]
    /\ abortWait = [j \in Job |-> 0]
    /\ served = {}
    /\ auxDone = {}

\* Fault variant of AuthenticationCheck: the ssid comparison left out.
AuthenticationCheckStateOnly(st, op, s) == InService(st, op)

\* authentication_check with the state check of the command: no error iff
\* the state serves the operation and the request carries the state's ssid.
AuthenticationCheck(st, op, s) ==
    /\ InService(st, op)
    /\ s = st.ssid

-----------------------------------------------------------------------------
(* Requests to the cell *)

\* execute_command for GET_TASK or SUBMIT_UPDATE: the token must name a
\* client of the cell, then authentication_check on the cell's own state;
\* a failure is an AUTHENTICATION_ERROR reply and changes nothing.
ClientCommand(j, op, tok, s) ==
    /\ j \in cellUp
    /\ tok = "known"
    /\ AuthenticationCheck(cellState[j], op, s)
    /\ served' = served \cup {<<j, op, s>>}
    /\ UNCHANGED <<cellUp, cellState, stateMsgs, runPc, engPc, engStatus, abortPc, abortWait,
                   auxDone>>

\* GetTaskCommand: with no server runner yet the client is told TRY_AGAIN
\* (no state change); otherwise the runner hands out a task.
GetTask(j, tok, s) ==
    /\ runPc[j] # "none"
    /\ ClientCommand(j, "get_task", tok, s)

\* SubmitUpdateCommand: the runner takes the submission (with no runner the
\* call raises and the reply is an execution error).
SubmitUpdate(j, tok, s) ==
    /\ runPc[j] # "none"
    /\ ClientCommand(j, "submit_result", tok, s)

\* aux_communicate: the state check and authentication_check are computed
\* but their error reply is not returned, so the request is dispatched to
\* the engine whatever the check says (SERVICE_UNAVAILABLE only while the
\* cell's engine is not set up).
AuxCommunicate(j, s) ==
    /\ j \in cellUp
    /\ runPc[j] # "none"
    /\ auxDone' = auxDone \cup
                    {<<j, AuthenticationCheck(cellState[j], "aux_communicate", s)>>}
    /\ UNCHANGED <<cellUp, cellState, stateMsgs, runPc, engPc, engStatus, abortPc, abortWait,
                   served>>

\* ServerStateCommand: the cell replaces its server_state by the payload.
DeliverState(m) ==
    /\ m \in stateMsgs
    /\ m.to \in cellUp
    /\ cellState' = [cellState EXCEPT ![m.to] = m.st]
    /\ stateMsgs' = stateMsgs \ {m}
    /\ UNCHANGED <<cellUp, runPc, engPc, engStatus, abortPc, abortWait, served,
                   auxDone>>

\* The optional request times out or finds no cell: it is dropped.
DropState(m) ==
    /\ m \in stateMsgs
    /\ stateMsgs' = stateMsgs \ {m}
    /\ UNCHANGED <<cellUp, cellState, runPc, engPc, engStatus, abortPc, abortWait, served,
                   auxDone>>

\* AbortCommand with a server runner: runner.abort, then the wait loop
\* (with no runner the reply is immediate and nothing changes).
AbortBegin(j) ==
    /\ j \in cellUp
    /\ abortPc[j] = "idle"
    /\ runPc[j] # "none"
    /\ abortPc' = [abortPc EXCEPT ![j] = "wait"]
    /\ abortWait' = [abortWait EXCEPT ![j] = 0]
    /\ UNCHANGED <<cellUp, cellState, stateMsgs, runPc, engPc, engStatus, served, auxDone>>

\* Fault variant of AbortTick: the loop without its 30 s break.
AbortTickNoTimeout(j) ==
    /\ abortPc[j] = "wait"
    /\ engStatus[j] # "STOPPED"
    /\ abortWait' = [abortWait EXCEPT ![j] = IF @ < AbortTimeout THEN @ + 1 ELSE @]
    /\ UNCHANGED <<cellUp, cellState, stateMsgs, runPc, engPc, engStatus, abortPc, served,
                   auxDone>>

\* Fault variant of AbortTick: the wait may pass the bound by one.
AbortTickOffByOne(j) ==
    /\ abortPc[j] = "wait"
    /\ engStatus[j] # "STOPPED"
    /\ IF abortWait[j] <= AbortTimeout
          THEN /\ abortWait' = [abortWait EXCEPT ![j] = @ + 1]
               /\ UNCHANGED abortPc
          ELSE /\ abortPc' = [abortPc EXCEPT ![j] = "idle"]
               /\ UNCHANGED abortWait
    /\ UNCHANGED <<cellUp, cellState, stateMsgs, runPc, engPc, engStatus, served, auxDone>>

\* One round of the loop while the engine is not STOPPED: sleep one second,
\* and break out with "Aborted the run" once 30 s have passed.
AbortTick(j) ==
    /\ abortPc[j] = "wait"
    /\ engStatus[j] # "STOPPED"
    /\ IF abortWait[j] < AbortTimeout
          THEN /\ abortWait' = [abortWait EXCEPT ![j] = @ + 1]
               /\ UNCHANGED abortPc
          ELSE /\ abortPc' = [abortPc EXCEPT ![j] = "idle"]
               /\ UNCHANGED abortWait
    /\ UNCHANGED <<cellUp, cellState, stateMsgs, runPc, engPc, engStatus, served, auxDone>>

\* The engine reached STOPPED: the loop ends and "Aborted the run" is sent.
AbortDone(j) ==
    /\ abortPc[j] = "wait"
    /\ engStatus[j] = "STOPPED"
    /\ abortPc' = [abortPc EXCEPT ![j] = "idle"]
    /\ UNCHANGED <<cellUp, cellState, stateMsgs, runPc, engPc, engStatus, abortWait, served,
                   auxDone>>

-----------------------------------------------------------------------------
(* The cell's life, and the parent's side of the broadcast *)

\* The parent launches the job's cell, handing it state st; a relaunch of
\* the same job replaces the old cell by a fresh process, whose engine
\* status (EngineInfo, not under src/) starts STOPPED.
CellLaunch(j, st) ==
    /\ cellUp' = cellUp \cup {j}
    /\ cellState' = [cellState EXCEPT ![j] = st]
    /\ runPc' = [runPc EXCEPT ![j] = "none"]
    /\ engPc' = [engPc EXCEPT ![j] = "idle"]
    /\ engStatus' = [engStatus EXCEPT ![j] = "STOPPED"]
    /\ abortPc' = [abortPc EXCEPT ![j] = "idle"]
    /\ UNCHANGED <<stateMsgs, abortWait, served, auxDone>>

\* start_run up to engine_thread.start(): the run manager and the server
\* runner are created (RUNNER is set in the context), asked_to_stop is
\* cleared, and run_engine's thread is started.
StartRun(j) ==
    /\ j \in cellUp
    /\ runPc[j] = "none"
    /\ runPc' = [runPc EXCEPT ![j] = "spawned"]
    /\ UNCHANGED <<cellUp, cellState, stateMsgs, engPc, engStatus, abortPc,
                   abortWait, served, auxDone>>

\* start_run, after starting the thread: status = STARTED, and the loop.
StartRunSetStarted(j) ==
    /\ runPc[j] = "spawned"
    /\ runPc' = [runPc EXCEPT ![j] = "loop"]
    /\ engStatus' = [engStatus EXCEPT ![j] = "STARTED"]
    /\ UNCHANGED <<cellUp, cellState, stateMsgs, engPc, abortPc, abortWait,
                   served, auxDone>>

\* The loop finds engine.asked_to_stop set (by the engine, not under src/)
\* and writes STOPPED itself.
StartRunAskedToStop(j) ==
    /\ runPc[j] = "loop"
    /\ engStatus[j] # "STOPPED"
    /\ engStatus' = [engStatus EXCEPT ![j] = "STOPPED"]
    /\ UNCHANGED <<cellUp, cellState, stateMsgs, runPc, engPc, abortPc,
                   abortWait, served, auxDone>>

\* The loop sees STOPPED and ends; the finally writes STOPPED again.
StartRunDone(j) ==
    /\ runPc[j] = "loop"
    /\ engStatus[j] = "STOPPED"
    /\ runPc' = [runPc EXCEPT ![j] = "done"]
    /\ UNCHANGED <<cellUp, cellState, stateMsgs, engPc, engStatus, abortPc,
                   abortWait, served, auxDone>>

\* run_engine begins: status = STARTED, then server_runner.run().
RunEngine(j) ==
    /\ runPc[j] \in {"spawned", "loop", "done"}
    /\ engPc[j] = "idle"
    /\ engPc' = [engPc EXCEPT ![j] = "running"]
    /\ engStatus' = [engStatus EXCEPT ![j] = "STARTED"]
    /\ UNCHANGED <<cellUp, cellState, stateMsgs, runPc, abortPc, abortWait,
                   served, auxDone>>

\* server_runner.run returns or raises (the runner's work, and its reaction
\* to abort, are not under src/); run_engine ends with status = STOPPED.
RunEngineEnd(j) ==
    /\ engPc[j] = "running"
    /\ engPc' = [engPc EXCEPT ![j] = "ended"]
    /\ engStatus' = [engStatus EXCEPT ![j] = "STOPPED"]
    /\ UNCHANGED <<cellUp, cellState, stateMsgs, runPc, abortPc, abortWait,
                   served, auxDone>>

\* The cell process ends.
CellExit(j) ==
    /\ j \in cellUp
    /\ cellUp' = cellUp \ {j}
    /\ abortPc' = [abortPc EXCEPT ![j] = "idle"]
    /\ UNCHANGED <<cellState, stateMsgs, runPc, engPc, engStatus, abortWait, served, auxDone>>

\* _notify_state_change: when the state's class changed, the parent sends
\* its state st to the cells of the jobs in run_processes (none if empty).
Broadcast(keys, st) ==
    /\ stateMsgs' = stateMsgs \cup {[to |-> j, st |-> st] : j \in keys}
    /\ UNCHANGED <<cellUp, cellState, runPc, engPc, engStatus, abortPc, abortWait, served,
                   auxDone>>
=============================================================================
