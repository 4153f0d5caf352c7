------------------------------ MODULE FedServer ------------------------------
(***************************************************************************)
(* The FL server's control plane: the client registry (handshake, expiry, *)
(* heartbeat, quit, dead-client sweep) running concurrently with the HA    *)
(* state machine, which is the only writer of server_state.  The request   *)
(* threads read server_state without self.lock, in every gap the handlers  *)
(* leave (register_client reads it at its gate and again for the ssid of   *)
(* its reply).  fl_shutdown runs beside both: it stops the dead-client  *)
(* sweep, waits (bounded) for the clients to log out, and close() ends the *)
(* overseer agent, whose callback drives the HA thread.                    *)
(***************************************************************************)
EXTENDS Naturals, ServerState

CONSTANTS
    Origin, SecureMode, HBTimeout, RemoveInterval, MaxRegDuration,
    RegCheckInterval, MaxNonce, MaxToken, ShutdownPeriod,
    Job, HAModes, MaxSsid, MaxRestoreFail

VARIABLES
    serverState,
    nameToReg, clients, tokens, nextNonce, nextToken, removeWait, regWait,
    cleanupAlive, toDelete, regPc, regNonce, cnonce, ctoken, cssid, granted, hbTok,
    shutPc, shutWait,
    haMode, spPrimary, spSsid, myGrants, haPc, toRestore, restored, restoreFails,
    runProcs, jobStatus, snapshot

Reg == INSTANCE ClientRegistry
HA  == INSTANCE HAServer

regVars == <<nameToReg, clients, tokens, nextNonce, nextToken, removeWait,
             regWait, cleanupAlive, toDelete, regPc, regNonce, cnonce,
             ctoken, cssid, granted, hbTok, shutPc, shutWait>>
haVars == <<haMode, spPrimary, spSsid, myGrants, haPc, toRestore, restored,
            restoreFails, runProcs, jobStatus, snapshot>>
vars == <<serverState, regVars, haVars>>

Init == Reg!RegInit /\ HA!HAInit

\* close() has run overseer_agent.end(): no callback polls the state again.
OverseerEnded == shutPc = "closed"

Next ==
    \/ Reg!RegNext /\ UNCHANGED haVars
    \/ HA!HANext /\ ~HA!CheckServerState /\ UNCHANGED regVars
    \/ HA!CheckServerState /\ ~OverseerEnded /\ UNCHANGED regVars

Spec == Init /\ [][Next]_vars

\* The registry's threads are scheduled (RegFairness): the sweeps, the
\* wait loop of fl_shutdown, and the passing of time.
FedSpec == Spec /\ Reg!RegFairness

TypeOK == Reg!RegTypeOK /\ HA!HATypeOK

\* Replay protection of the handshake, with the HA thread changing the
\* state under it: one server nonce yields at most one token.
SessionSingleUse == Reg!SessionSingleUse

\* _check_regs drops stale handshakes whatever the HA state does: no
\* pending reg session outlives max_reg_duration plus one expiry period.
SessionAgeBounded == Reg!SessionAgeBounded

\* "Registration is permitted in Hot only" (spec 4.4): a client record is
\* created by register_client only while the server is Hot.
RegisteredOnlyWhenHot ==
    [][\A t \in Reg!Token :
          (t \notin DOMAIN clients /\ t \in DOMAIN clients')
             => InService(serverState, "register")]_vars

\* The ssid register_client returns with a token (read from server_state
\* after the state gate, while the HA thread may be changing it) is always
\* a session id the overseer issued to this server, or none at all.
ClientSsidGranted ==
    \A o \in Origin : cssid[o] # NoSsid => cssid[o] \in myGrants

\* "Client's next Heartbeat using ssid S1 is rejected with 'invalid client
\* SSID'" (spec 6): client_heartbeat refreshes a record only for a request
\* that carries the ssid of the state in force.
HeartbeatSsidChecked ==
    [][\A o \in Origin :
          Reg!ClientHeartbeat(o) => cssid[o] = serverState.ssid]_vars

\* "Graceful shutdown waits for all tracked clients to log out, bounded by
\* a shutdown timeout, after which forced shutdown proceeds regardless"
\* (spec 5): once fl_shutdown has set the flag, close() is reached, even
\* though the flag has stopped the dead-client sweep, so a crashed client
\* stays in client_manager.clients, and registrations still go on.
ShutdownCompletes == shutPc = "waiting" ~> shutPc = "closed"
=============================================================================
