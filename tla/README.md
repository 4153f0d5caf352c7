# TLA+ models of the NVFlare FL server control plane

This directory holds TLA+ models of the coordination engine of the NVFlare
federated-learning server. The models cover:
- client registration and its challenge-response handshake;
- heartbeat-driven liveness and dead-client eviction;
- the hot/cold high-availability (HA) state machine driven by an overseer;
- job-set reconciliation on heartbeats, the dead-client notification of
  the jobs, and the parent listener of the job cells;
- the command layer of the job cells and the state broadcast that keeps
  their copy of the HA state, composed with the HA state machine;
- an abstract HA specification that the HA state machine refines.

Each model also has the TLC configurations that check it. The sources are
under `src/`, mainly:
- `nvflare/private/fed/server/fed_server.py`
- `server_command_agent.py`
- `server_commands.py`

`PROJECT.json` lists every component, every run, the fault variants
(mutants) that each property must reject, the map from each definition to
the source lines it translates, the findings, and the hazards.

## 1. The system

### Parts and the state they keep

| Part | Code | State |
|---|---|---|
| Registration | `client_challenge`, `register_client`, `_check_regs` | `name_to_reg` (origin -> pending `ClientRegSession` with its nonce and start time), guarded by `reg_lock`; `ClientManager.clients` (token -> client record) |
| Liveness monitor | `client_cleanup`, `remove_dead_clients`, `logout_client` | `last_remove_time`; the records' `last_connect_time`; `self.tokens` (token -> task meta info) |
| Client requests | `client_heartbeat`, `quit_client`, `process_job_failure` | the same records and `self.tokens` |
| Job-set reconciler | `_sync_client_jobs`, `notify_dead_client`, `_notify_dead_job` | `engine.run_processes` (job -> participants), read only |
| HA state machine | `overseer_callback`, `_check_server_state`, `_turn_to_hot`, `_turn_to_cold`, `_notify_state_change` | `server_state` (Cold, Cold2Hot, Hot, Hot2Cold, with an ssid), `checking_server_state`, snapshot store, job store |
| Parent listener | `_listen_command`, `_set_job_aborted` | `run_processes`, `exception_run_processes`, the job store |
| Job-cell command dispatcher | `ServerCommandAgent.execute_command`, `aux_communicate`, the `ServerCommands` processors, `authentication_check` | the job cell's copy of `server_state`; the server runner |
| Run engine | `start_run`, `run_engine`, `abort_run`, `fl_shutdown`, `close` | `engine_info.status`, `asked_to_stop`, `shutdown` |

### How they interact

- **Request threads.** Every request (Challenge, Register, Heartbeat, Quit)
  runs on its own transport thread. These threads read `server_state`
  without `self.lock`.
- **Background threads.** There are three:
  - the HA callback, the only writer of `server_state`, under `self.lock`;
  - `client_cleanup`, the dead-client sweep;
  - `_check_regs`, the expiry of registration sessions.
- **Job cells.** Each job runs as a separate process, the job cell. It
  receives the state of the parent server by an optional broadcast.
  - It serves the clients' GetTask and SubmitUpdate, gated by its own copy
    of the state and by `authentication_check`.
  - It sends heartbeats to the parent listener, which may abort it.

### The hard behaviours

Every handler that these behaviours depend on is split where the code
releases a lock or reads shared state twice:
- `register_client` releases `reg_lock` before it authenticates and reads
  the ssid.
- `remove_dead_clients` collects the expired tokens and logs them out
  later.
- `client_heartbeat` writes `self.tokens` after the client manager has
  answered.
- `_turn_to_hot` restores jobs one at a time, and any one of the restores
  can raise.
- `start_run` and its `run_engine` thread both write
  `engine_info.status`, and the loop of `start_run` reads it.
- `fl_shutdown` sets the flag that ends `client_cleanup`, then waits for
  the clients, and `close()` ends the overseer agent.

The other threads run in those gaps. Time is relative: records and sessions
carry an age in ticks.

### What makes each part correct

- **Registration.** One challenge yields at most one token
  (`SessionSingleUse`). Abandoned handshakes expire (`SessionAgeBounded`).
  A record is created only while Hot (`RegisteredOnlyWhenHot`).
- **Job-cell heartbeat.** A cell whose job left `run_processes` while it
  still runs is eventually stopped by the HEARTBEAT branch of
  `_listen_command` (`OrphanCellStopped`).
- **Liveness monitor.** Only expired clients are evicted
  (`NoLiveClientEvicted`). Every expired client is eventually evicted
  (`ExpiredClientsEvicted`).
- **HA.**
  - The server is Hot only under an ssid issued to this server, and moves
    only Cold -> Hot -> (Hot under a newer grant)* -> Cold
    (`HAImplementsAbstract`); the ssid a client receives was issued to this
    server (`ClientSsidGranted`).
  - Failover ends Hot (`PrimaryBecomesHot`), and failback ends Cold with
    the jobs paused (`OtherBecomesCold`).
  - A run is restored once (`NoDoubleRestore`).
  - A stale ssid is rejected (`HeartbeatSsidChecked`).
- **Job cells.** A cell serves only ssids granted to this server
  (`ServedUnderOwnGrant`); aux requests pass the check
  (`AuxOnlyAuthenticated`); an abort always answers (`AbortReplies`); the
  cells of a Cold server stop serving (`ColdCellsQuiesce`).
- **App commands.** Whatever the order of the registrations, the first
  registration of a topic stays, an exact topic wins over `"*"`, and a
  missing or unknown topic is a bad request (`AppCommandMatchesSpec`).

## 2. Modules

| Module | Models | State variables | Actions |
|---|---|---|---|
| `ServerState` | `server_state.py`, which is not under `src/` and is modelled from the spec (sections 3 and 4.4): the next state depends on (state, primary) only, and the ssid changes only on the Cold->Hot turn | none (operators only) | `HandleSdCallback` (the successor state), `InService` (the gate) |
| `ClientRegistry` | registration, heartbeat, quit, both sweeps | `nameToReg`, `clients`, `tokens`, counters of nonces and tokens, `removeWait`, `regWait`, `cleanupAlive`, `toDelete`, the program counter and popped nonce of each `register_client`, `hbTok` (a heartbeat between its two steps), the client's nonce, token and ssid, the history `granted`, `shutPc` and `shutWait` (`fl_shutdown`'s flag and wait) | `ClientChallenge`, `RegisterBegin`, `RegisterEnd`, `CheckRegs`, `ClientHeartbeat`, `HeartbeatTokens`, `QuitClient`, `CollectDeadClients`, `RemoveDeadClient`, `RemoveDeadClientCrash`, `Tick`, `FlShutdown`, `ShutdownClose` |
| `HAServer` | the overseer callback and the two turns, with the overseer and the job runners as environment | `serverState`, `spPrimary`, `spSsid`, `myGrants`, `haPc`, `toRestore`, `restored`, `restoreFails`, `runProcs`, `jobStatus`, `snapshot` | `CheckServerState`, `RetrieveSnapshot`, `RestoreJob`, `RestoreJobFails`, `FinishTurnToHot`, `TurnToHotNoHA`, `TurnToCold`; environment: `OverseerElect`, `OverseerNoPrimary`, `StartJob`, `FinishJob`, `PeerStartJob`, `PeerFinishJob` |
| `JobSync` | `_sync_client_jobs`, `notify_dead_client`, `_listen_command` (`UPDATE_RUN_STATUS`, `HEARTBEAT`), `_set_job_aborted`, the heartbeat loop of `start_run`; the engine and the clients' job runners as environment | `runProcs`, `parts`, `jobStatus`, `runFinished`, `exeErr`, `cellUp`, `cellHb`, `registered`, `cjobs`, the program counter, abort list and pending orphans of each heartbeat, the program counter, visited jobs and starting size of each logout's iteration, the histories `cstarted`, `deadNotes`, `missNotes` | `HbBegin`, `HbNotify`, `HbKeyError`, `HbReply`, `LogoutBegin`, `NotifyJob`, `NotifyDone`, `NotifyRaises`, `UpdateRunStatus`, `ParentHeartbeat`, `CellHeartbeat`, `CellExit`, `ReportJobFailure` (`process_job_failure`); environment: `StartRun`, `EndRun`, `DropRun`, `ClientStartJob`, `ClientEndJob` |
| `CommandAgent` | the job cell: `execute_command` with `_get_client`, `aux_communicate`, `authentication_check`, `GetTaskCommand`, `SubmitUpdateCommand`, `ServerStateCommand`, `AbortCommand`, `start_run` and its `run_engine` thread; the parent's `_notify_state_change` | `cellUp`, `cellState` (the cell's `server_state`), `stateMsgs` (SERVER_STATE requests in flight), `runPc` (`start_run`), `engPc` (`run_engine`), `engStatus` (`engine_info.status`), `abortPc`, `abortWait`, the histories `served` and `auxDone` | `GetTask`, `SubmitUpdate` (both through `ClientCommand`), `AuxCommunicate`, `DeliverState`, `DropState`, `AbortBegin`, `AbortTick`, `AbortDone`, `StartRun`, `StartRunSetStarted`, `StartRunAskedToStop`, `StartRunDone`, `RunEngine`, `RunEngineEnd`, `CellExit`, `Broadcast`; spec-modelled: `CellLaunch` |
| `HAAbstract` | what the HA state machine promises: Cold or Hot under a granted ssid | `absState`, `grants` | `Grant`, `GoHot`, `GoCold` (the ssid is fixed while Hot) |
| `ServerCells` | composes `HAServer` and `CommandAgent`: a job start or restore launches the job's cell, `_turn_to_cold` broadcasts to the cells of `run_processes`, a cell ends once its job left `run_processes`; maps `HAServer` onto `HAAbstract` | all of `HAServer` and `CommandAgent` | `StartJobCell`, `RestoreJobCell`, `TurnToColdNotify`, `CellExitDone`, and the other steps of both, interleaved |
| `AppCommands` | `ServerCommands.register_app_command`, `get_app_command`, `AppCommandProcessor.process` as pure operators: the registry after a sequence of registrations, the lookup with its `"*"` fallback, the reply's return code | none (operators only) | `RegisterAppCommand` (one call), `AppCmdRegistry` (a sequence of calls), `GetAppCommand`, `AppCommandReply`; checked against `SpecAppReply`, spec 4.5 |
| `FedServer` | composes `ClientRegistry` and `HAServer` on a shared `serverState`; after `close()` (`OverseerEnded`) the overseer no longer polls | all of the above | the two next-state relations, interleaved |
| `MC*` | instantiate the above for TLC (symmetry over the client origins) | | |

### How the code maps to the models

- **Splits.** A handler is split into two actions only where another thread
  can run between the two parts and change what the second part does.
  - `RegisterBegin`/`RegisterEnd` split at the release of `reg_lock`.
  - `CollectDeadClients`/`RemoveDeadClient` split between the two loops of
    `remove_dead_clients`.
  - `ClientHeartbeat`/`HeartbeatTokens` split at the return of
    `client_manager.heartbeat`.
  - `RetrieveSnapshot`/`RestoreJob`/`FinishTurnToHot` are the parts of
    `_turn_to_hot`.
  - `HbBegin`/`HbNotify`/`HbReply` are the parts of `_sync_client_jobs`:
    the key read, each indexing of `run_processes`, and the reply.
    `HbKeyError` is the indexing of a job that left in between.
  - `LogoutBegin`/`NotifyJob`/`NotifyDone` are the steps of the iteration
    in `notify_dead_client`. `NotifyRaises` is the `RuntimeError` that a
    Python dict raises at the next step once its size changed.
- **Rejected requests.** A request that is rejected without changing state
  is a stutter and is not written as an action.
- **Job cells.** A cell has its own `server_state`. It starts from the
  state handed over at launch (the launcher is not under `src/`: taken to
  be Hot under the parent's ssid) and changes only by `ServerStateCommand`.
  The parent sends one only from `_turn_to_cold`, as an optional request
  with a 5 s timeout, to the jobs then in `run_processes`. `DropState` is
  a request that times out or finds no cell. A client request carries a
  token (known, unknown, missing) and an ssid in `0..MaxSsid`; a rejected
  one is a stutter. `AbortTick` is one second of the wait loop: with
  `AbortTimeout` = T it breaks on the (T+1)-th tick, as `> 30.0` does after
  31 one-second sleeps.
- **Engine loop.** `StartRun` is `start_run` up to
  `engine_thread.start()`. `StartRunSetStarted` is its write of STARTED,
  and `StartRunDone` is the loop seeing STOPPED. `RunEngine` and
  `RunEngineEnd` are the engine thread's STARTED and STOPPED.
  `StartRunAskedToStop` is the loop finding `asked_to_stop`; the engine,
  not under `src/`, sets it whenever it likes. A fresh cell's status
  (`EngineInfo`, not under `src/`) is taken to start STOPPED.
- **Shutdown.** `FlShutdown` is `FederatedServer.fl_shutdown` setting the
  flag. `ShutdownClose` is the wait ending, with no client left or after
  `ShutdownPeriod` ticks, followed by `close()`. While the flag is set,
  `CollectDeadClients` is disabled, because `client_cleanup`'s loop has
  ended. `Tick` cannot pass the wait's timeout check.
  `engine.stop_all_jobs` and the `SYSTEM_END` event belong to the engine
  and are left out.
- **Refinement.** `ServerCells` instantiates `HAAbstract` with
  `absState <- AbsView` (Cold2Hot seen as Cold without ssid, Hot2Cold as
  Hot with its ssid), `grants <- myGrants`, `Ssid <- 1..MaxSsid`, and
  checks `AbsHA!AbsSpec` as the property `HAImplementsAbstract`.
- **HA mode.** `haMode` is chosen in `HAInit` from `HAModes` and never
  changes, so one run covers the deployments with and without HA.
- **Busy flag.** The overseer agent calls `overseer_callback` from a single
  polling thread. The busy flag `checking_server_state` is therefore
  `haPc # "idle"`, and a failed poll returns to `idle` (the `finally`).
- **Sweep crash.** `RemoveDeadClientCrash` is the exception of
  `client.name` on the `None` that `remove_client` returns for a token
  already removed. `client_cleanup` has no handler, so `cleanupAlive`
  becomes FALSE.
- **Environment.** The overseer, the job runner and the peer server are
  spec-modelled environment actions.
  - The overseer issues a new service session id with each designation.
  - The job runner starts jobs only while Hot.
  - The peer starts and finishes jobs in the shared stores while it is
    designated.

## 3. Runs

| Run | Config | Expect | Checks |
|---|---|---|---|
| `registry_evict` | `MCClientRegistry_evict.cfg` | violation | `NoLiveClientEvicted` |
| `registry_live` | `MCClientRegistry_live.cfg` | violation | `ExpiredClientsEvicted` under the sweeps' weak fairness |
| `ha_restore` | `MCHAServer_restore.cfg` | violation | `NoDoubleRestore` |
| `mc_fed` | `MCFedServer.cfg` | pass | `TypeOK`, `ClientSsidGranted`, `SessionSingleUse`, `SessionAgeBounded`, and `ShutdownCompletes` under the registry's fairness, with registry, HA and shutdown together (about 550 k states) |
| `fed_reghot` | `MCFedServer_reghot.cfg` | violation | `RegisteredOnlyWhenHot` |
| `fed_hbssid` | `MCFedServer_hbssid.cfg` | violation | `HeartbeatSsidChecked` |
| `mc_jobsync` | `MCJobSync.cfg` | pass | `JobSyncTypeOK`, `DeadClientNotifiedOnce`, `OrphanCellStopped`, `ClientJobsConverge` with two clients and one job (about 550 k states) |
| `jobsync_deadnotify` | `MCJobSync_DeadClientJobsNotified.cfg` | violation | `DeadClientJobsNotified` |
| `jobsync_keyerror` | `MCJobSync_SyncCompletes.cfg` | violation | `SyncCompletes` |
| `mc_cells` | `MCServerCells.cfg` | pass | `CellsTypeOK`, `ServedUnderOwnGrant`, `AppCommandMatchesSpec`, `HAImplementsAbstract`, `AbortReplies`, `ColdCellsQuiesce`, `PrimaryBecomesHot`, `OtherBecomesCold`, with and without HA mode, one job, the engine loop's two threads (about 170 k states) |
| `cells_aux` | `MCServerCells_AuxOnlyAuthenticated.cfg` | violation | `AuxOnlyAuthenticated` |

### What the violations show (details in `PROJECT.json` "findings")

- **`registry_evict`.** A heartbeat between the collection and the logout
  of `remove_dead_clients` does not save the client.
- **`registry_live`.** A client quits while it is on the sweep's delete
  list.
  - `client.name` then raises on `None`, and the `client_cleanup` thread
    dies.
  - From then on, expired clients stay registered forever.
- **`ha_restore`.** A restore exception leaves the server Cold2Hot. The
  next poll then re-runs the whole restore and restores jobs that already
  run.
- **`fed_reghot`.** `register_client` passes its Hot gate, the HA thread
  turns the server Cold, and the record is created anyway.
- **`fed_hbssid`.** `client_heartbeat` never compares the request's ssid.
  The spec's scenario, a heartbeat with ssid S1 after the server moved to
  S2, is accepted.
- **`jobsync_deadnotify`.** A client is logged out while one job runs, and
  a second job starts before the iteration of `run_processes` reaches it.
  The iteration raises `RuntimeError` and the running job is never told
  that its participant is dead.
- **`jobsync_keyerror`.** A job leaves `run_processes` between the key read
  of `_sync_client_jobs` and its indexing. The `KeyError` ends the
  heartbeat, and the reply with `ABORT_JOBS` is lost for that round.

- **`cells_aux`.** `aux_communicate` builds the `AUTHENTICATION_ERROR`
  reply without returning it, and a request from a cell in Cold, or with
  the wrong ssid, is dispatched.

Two further races are reachable in the models and listed as hazards
without a run:
- The heartbeat's unlocked write of `self.tokens` re-inserts a token that
  a quit or the sweep has just popped (`ClientHeartbeat`, then
  `QuitClient`, then `HeartbeatTokens`). The stale entry is a leak.
- A client heartbeating between the start of a job on the server and its
  start on the client is reported "missing job on client" (`StartRun`,
  `HbBegin`, `HbNotify`).

### Bounds and why they are enough

- **Two origins, symmetric.** Two clients are enough for every race
  between one client's request and another's quit or the sweep. At most
  three tokens and four nonces are issued. Every interleaving of two
  handshakes, including a lost challenge reply and a replayed Register,
  fits in these bounds.
- **Timeouts in ticks.** `HBTimeout` = 1 or 2, `RemoveInterval` = 1,
  `MaxRegDuration` = 1, `RegCheckInterval` = 2. These make expiry happen
  both before and after a sweep.
- **Two jobs, four ssids, one restore failure.** These allow:
  - a failover with one job restored and the other failing;
  - a new election by the overseer during the restore;
  - a failback with jobs running.
- **Job cells: one job, `AbortTimeout` = 1.** One cell is enough for
  every gap between the parent's state and the cell's copy: a lost
  broadcast, a restore. It is also enough for every
  order of `start_run`'s and `run_engine`'s status writes.
  - The full check has ssids 0..2. Two grants let the server fail
    back and take over again under a new ssid.
  - The violation runs have ssids 0..3.
  One tick of abort wait already separates "stopped in time" from "timed
  out".
- **Composition.** The composed model uses one origin, one job, one nonce
  and `ShutdownPeriod` = 1 to keep the product of the two components small.
  One nonce still lets a replayed Register reuse a popped session. The
  shutdown can begin in any state, so it meets a pending handshake, a
  crashed sweep and a client that never quits. The races it looks for involve
  one client and the HA thread.

- **Job sync: two clients, one or two jobs.** The full check has one job:
  its start, end and drop still race every heartbeat and logout. The
  violation runs have two jobs, because a dict size change during the
  iteration needs a second job to start or end while the first is
  visited.

- **App commands: one topic and `"*"`, two functions, up to three
  registrations.** Every order of a topic, the default and a duplicate of
  either fits in three calls. The requests cover that topic, an
  unregistered one and a missing topic, and each of the function's three
  outcomes. `AppCommandMatchesSpec` is a constant-level invariant over all
  of them, so it is evaluated once.

### Fairness

- **Registry.** Weak fairness on:
  - `CheckRegs`;
  - `CollectDeadClients`;
  - each `RemoveDeadClient`/`RemoveDeadClientCrash`;
  - `Tick`;
  - `ShutdownClose`.

  The sweeps are daemon loops that always wake up again, and time passes.
  Client requests get no fairness: clients may stop sending. The wait of
  `fl_shutdown` is a loop that sleeps 0.1 s, so it runs. `FedSpec` adds
  this fairness to `FedServer`, and `ShutdownCompletes` is checked under it.
- **HA.** Weak fairness on every step of the callback thread. The overseer
  agent keeps polling, and a poll runs to its end, since its exceptions
  are caught in `overseer_callback`. The overseer and the job runners get
  no fairness.
- **Job sync.** Weak fairness on each client's heartbeat steps and on the
  sending and delivery of a job cell's heartbeat: the clients' heartbeat
  loop keeps running, a request runs to its end, and `start_run`'s loop
  sends a HEARTBEAT every `check_engine_frequency` while the cell runs
  (871-876). `OrphanCellStopped` is checked under this fairness. The engine and the job runners
  get none.
- **Job cells.** Weak fairness on the abort loop (`time.sleep` returns),
  on the end of a cell whose job left `run_processes`, and on each pending
  SERVER_STATE request being delivered or dropped (the 5 s timeout). Client
  requests, the engine threads' steps and the launch of jobs get none: a runner
  may never stop, which is why the abort loop has its 30 s break.
- **Liveness properties** are stated as "if the overseer eventually keeps
  designating X, then ...", which is the only way the code can promise
  anything.
- **Tick's guard.** `Tick` cannot pass a sweep that is due. This models
  the sleeps (0.2 s, 5 s) being short compared with the timeouts.

## 4. Plan and what is left

1. **Done.** `ClientRegistry`, `HAServer`, `FedServer`, `JobSync`,
   `CommandAgent`, `HAAbstract` and `ServerCells`, with the runs above.
   This includes `fl_shutdown`/`close`, the two threads of the engine
   loop, and `process_job_failure`. Also done: the map, one mutant per
   property of each passing run, and the hazards.
   - The engine-loop race is reached but not checked as a property; see
     the hazard at `fed_server.py:870`. STOPPED written by `run_engine` is
     overwritten by `start_run`'s STARTED.
   - Whether the loop then ends depends on the engine's `asked_to_stop`,
     which is not under `src/`.
   - `AppCommands`: the app-command indirection of the dispatcher, checked
     against spec 4.5 inside `mc_cells`.
2. **Composing `JobSync`** with `ClientRegistry`, so that the sweep's and
   the quit's logouts drive `LogoutBegin`, and the heartbeats' token
   check and job sync are one handler.
3. **An abstract registry** in which records come and go atomically, with
   `ClientRegistry` refining it.
4. **Two servers.** Two `HAServer` instances sharing one overseer and one
   snapshot store, for the question of whether both can be Hot and both
   restore one run.

### Not modelled

- **Deployment and cryptography.** Deployment, cell creation, the
  auth-header filters and the token signatures are configuration and
  cryptography, with no concurrency to check. A signature is assumed valid
  or invalid as a whole.
- **Other code.** Log streaming, the client JSON config, the provisioner,
  the examples and the tests are outside the control plane.
- **Lock hand-off in `close()`.** `BaseServer.close` releases `self.lock`
  without holding it. The models take each `self.lock` region as one
  atomic step, so a release from outside the region is not expressed (see
  the hazard at `fed_server.py:153`).
- **The other command processors** of the job cell (Bye, GetRunInfo,
  HandleDeadJob, ShowStats, errors, job log) only read or forward to the
  server runner, whose state is not under `src/`. The app-command
  indirection is modelled in `AppCommands`, but the functions it calls
  are registered by components that are not under `src/`.
- **`ClientManager`, the engine, the job runner and the overseer agent.**
  None of them is under `src/`, so only what the spec says of them is
  modelled.
