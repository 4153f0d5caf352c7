--------------------------- MODULE ClientRegistry ---------------------------
(***************************************************************************)
(* Registration, authentication handshake and liveness tracking of the FL  *)
(* server (nvflare/private/fed/server/fed_server.py):                      *)
(*   client_challenge / register_client   the two-phase handshake,         *)
(*   _check_regs                          expiry of pending reg sessions,  *)
(*   client_heartbeat / quit_client       requests of registered clients,  *)
(*   client_cleanup / remove_dead_clients / logout_client                  *)
(*                                        the dead-client sweep thread.    *)
(* Every request runs on its own transport thread; the two sweeps are      *)
(* background threads.  register_client is split at the points where it   *)
(* releases reg_lock, remove_dead_clients between collecting the expired   *)
(* tokens and logging them out: other threads run in those gaps.           *)
(* Time is relative: each record and session keeps its age in ticks.       *)
(* Requests that are rejected without changing any state are stuttering   *)
(* steps and are not written as actions.                                   *)
(***************************************************************************)
EXTENDS Naturals, FiniteSets, Functions, TLC, ServerState

CONSTANTS
    Origin,           \* client sites (the ORIGIN header of their requests)
    SecureMode,       \* FLContextKey.SECURE_MODE
    HBTimeout,        \* heart_beat_timeout, in ticks
    RemoveInterval,   \* remove_interval of client_cleanup, in ticks
    MaxRegDuration,   \* max_reg_duration, in ticks
    RegCheckInterval, \* the sleep between two passes of _check_regs
    MaxNonce,         \* bound: reg sessions created (each one a fresh nonce)
    MaxToken,         \* bound: tokens issued by successful registrations
    ShutdownPeriod    \* shutdown_period of fl_shutdown, in ticks

VARIABLES
    serverState,  \* FederatedServer.server_state (written by the HA thread)
    nameToReg,    \* name_to_reg: origin -> [nonce, age] of its ClientRegSession
    clients,      \* client_manager.clients: token -> [name, age of last contact]
    tokens,       \* the keys of FederatedServer.tokens
    nextNonce,    \* last nonce handed out
    nextToken,    \* last token handed out
    removeWait,   \* ticks since last_remove_time of client_cleanup
    regWait,      \* ticks since the last pass of _check_regs
    cleanupAlive, \* the client_cleanup thread is still running
    toDelete,     \* remove_dead_clients: tokens collected, not yet logged out
    regPc,        \* register_client of each origin: "idle" or "popped"
    regNonce,     \* nonce of the session register_client popped
    cnonce,       \* client side: server nonce of the last challenge reply
    ctoken,       \* client side: token held (0: none)
    cssid,        \* client side: ssid returned with the token
    granted,      \* history: [nonce, token] of each successful registration
    hbTok,        \* client_heartbeat of each origin: token of a heartbeat
                  \* between client_manager.heartbeat and the tokens write
    shutPc,       \* fl_shutdown: "running" (shutdown flag not set), "waiting"
                  \* for the clients to log out, "closed" after close()
    shutWait      \* ticks fl_shutdown has waited

regVars == <<nameToReg, clients, tokens, nextNonce, nextToken, removeWait,
             regWait, cleanupAlive, toDelete, regPc, regNonce, cnonce,
             ctoken, cssid, granted, hbTok, shutPc, shutWait>>

Token == 1..MaxToken
Nonce == 1..MaxNonce
\* Ages stop growing once they can no longer change a decision.
ClientAgeCap  == HBTimeout + 1
SessionAgeCap == MaxRegDuration + RegCheckInterval + 1

Expired(t) == clients[t].age > HBTimeout

RegTypeOK ==
    /\ DOMAIN nameToReg \subseteq Origin
    /\ \A o \in DOMAIN nameToReg :
          nameToReg[o] \in [nonce : Nonce, age : 0..SessionAgeCap]
    /\ DOMAIN clients \subseteq Token
    /\ \A t \in DOMAIN clients :
          clients[t] \in [name : Origin, age : 0..ClientAgeCap]
    /\ tokens \subseteq Token
    /\ nextNonce \in 0..MaxNonce /\ nextToken \in 0..MaxToken
    /\ removeWait \in 0..RemoveInterval + 1
    /\ regWait \in 0..RegCheckInterval
    /\ cleanupAlive \in BOOLEAN
    /\ toDelete \subseteq Token
    /\ regPc \in [Origin -> {"idle", "popped"}]
    /\ regNonce \in [Origin -> 0..MaxNonce]
    /\ cnonce \in [Origin -> 0..MaxNonce]
    /\ ctoken \in [Origin -> 0..MaxToken]
    /\ cssid \in [Origin -> Nat]
    /\ granted \subseteq [nonce : 0..MaxNonce, token : Token]
    /\ hbTok \in [Origin -> 0..MaxToken]
    /\ shutPc \in {"running", "waiting", "closed"}
    /\ shutWait \in 0..ShutdownPeriod + 1

RegInit ==
    /\ nameToReg = <<>>
    /\ clients = <<>>
    /\ tokens = {}
    /\ nextNonce = 0 /\ nextToken = 0
    /\ removeWait = 0 /\ regWait = 0
    /\ cleanupAlive = TRUE
    /\ toDelete = {}
    /\ regPc = [o \in Origin |-> "idle"]
    /\ regNonce = [o \in Origin |-> 0]
    /\ cnonce = [o \in Origin |-> 0]
    /\ ctoken = [o \in Origin |-> 0]
    /\ cssid = [o \in Origin |-> NoSsid]
    /\ granted = {}
    /\ hbTok = [o \in Origin |-> 0]
    /\ shutPc = "running" /\ shutWait = 0

\* remove_client_data: tokens.pop(token, None), a no-op for a token that
\* has no task meta info.
RemoveClientData(t) == tokens' = tokens \ {t}

\* logout_client(token): remove the record and the token's task meta info.
Logout(t) ==
    /\ clients' = Restrict(clients, DOMAIN clients \ {t})
    /\ RemoveClientData(t)

-----------------------------------------------------------------------------
(* Registration handshake *)

\* client_challenge: under reg_lock, a fresh session replaces any pending
\* one of the same origin; its nonce goes back in the reply, which may be
\* lost or overtaken, so the client may keep the nonce it had.
ClientChallenge(o) ==
    /\ InService(serverState, "register")
    /\ SecureMode
    /\ nextNonce < MaxNonce
    /\ nextNonce' = nextNonce + 1
    /\ nameToReg' = (o :> [nonce |-> nextNonce + 1, age |-> 0])
                       @@ Restrict(nameToReg, DOMAIN nameToReg \ {o})
    /\ \E delivered \in BOOLEAN :
          cnonce' = [cnonce EXCEPT ![o] = IF delivered THEN nextNonce + 1
                                                       ELSE @]
    /\ UNCHANGED <<serverState, shutPc, shutWait, hbTok, clients, tokens, nextToken, removeWait, regWait,
                   cleanupAlive, toDelete, regPc, regNonce, ctoken, cssid,
                   granted>>

\* Fault variant of RegisterBegin: the session is read, not popped, so it
\* stays available to a repeated Register.
RegisterBeginNoPop(o) ==
    /\ regPc[o] = "idle"
    /\ nextToken + Cardinality({p \in Origin : regPc[p] = "popped"}) < MaxToken
    /\ InService(serverState, "register")
    /\ SecureMode => o \in DOMAIN nameToReg
    /\ regPc' = [regPc EXCEPT ![o] = "popped"]
    /\ regNonce' = IF SecureMode THEN [regNonce EXCEPT ![o] = nameToReg[o].nonce]
                                 ELSE regNonce
    /\ UNCHANGED <<serverState, shutPc, shutWait, hbTok, nameToReg, clients, tokens, nextNonce, nextToken, removeWait,
                   regWait, cleanupAlive, toDelete, cnonce, ctoken, cssid,
                   granted>>

\* register_client up to the release of reg_lock: state gate, then (secure
\* mode) pop the origin's session; without one the request is refused.
RegisterBegin(o) ==
    /\ regPc[o] = "idle"
    /\ nextToken + Cardinality({p \in Origin : regPc[p] = "popped"}) < MaxToken
    /\ InService(serverState, "register")
    /\ SecureMode => o \in DOMAIN nameToReg
    /\ regPc' = [regPc EXCEPT ![o] = "popped"]
    /\ IF SecureMode
          THEN /\ regNonce' = [regNonce EXCEPT ![o] = nameToReg[o].nonce]
               /\ nameToReg' = Restrict(nameToReg, DOMAIN nameToReg \ {o})
          ELSE UNCHANGED <<regNonce, nameToReg>>
    /\ UNCHANGED <<serverState, shutPc, shutWait, hbTok, clients, tokens, nextNonce, nextToken, removeWait,
                   regWait, cleanupAlive, toDelete, cnonce, ctoken, cssid,
                   granted>>

\* Fault variant of RegisterEnd: the new token is the counter read before
\* its increment (token 0 first, and the last token again afterwards).
RegisterEndTokenReuse(o) ==
    /\ regPc[o] = "popped"
    /\ regPc' = [regPc EXCEPT ![o] = "idle"]
    /\ regNonce' = [regNonce EXCEPT ![o] = 0]
    /\ IF ~SecureMode \/ cnonce[o] = regNonce[o]
          THEN /\ clients' = (nextToken :> [name |-> o, age |-> 0]) @@ clients
               /\ tokens' = tokens \cup {nextToken}
               /\ ctoken' = [ctoken EXCEPT ![o] = nextToken]
               /\ cssid' = [cssid EXCEPT ![o] = serverState.ssid]
               /\ granted' = granted \cup {[nonce |-> regNonce[o], token |-> nextToken]}
          ELSE UNCHANGED <<clients, tokens, ctoken, cssid, granted>>
    /\ UNCHANGED <<serverState, shutPc, shutWait, hbTok, nameToReg, nextNonce, nextToken, removeWait, regWait,
                   cleanupAlive, toDelete, cnonce>>

\* The rest of register_client: client_manager.authenticate verifies the
\* client's signature over the popped session's nonce and allocates a new
\* token; the reply carries the token and the ssid of the state in force
\* now.  A NotAuthenticated failure leaves no state behind.
RegisterEnd(o) ==
    /\ regPc[o] = "popped"
    /\ regPc' = [regPc EXCEPT ![o] = "idle"]
    /\ regNonce' = [regNonce EXCEPT ![o] = 0]
    /\ IF ~SecureMode \/ cnonce[o] = regNonce[o]
          THEN LET t == nextToken + 1 IN
               /\ nextToken' = t
               /\ clients' = (t :> [name |-> o, age |-> 0]) @@ clients
               /\ tokens' = tokens \cup {t}
               /\ ctoken' = [ctoken EXCEPT ![o] = t]
               /\ cssid' = [cssid EXCEPT ![o] = serverState.ssid]
               /\ granted' = granted \cup {[nonce |-> regNonce[o], token |-> t]}
          ELSE UNCHANGED <<nextToken, clients, tokens, ctoken, cssid, granted>>
    /\ UNCHANGED <<serverState, shutPc, shutWait, hbTok, nameToReg, nextNonce, removeWait, regWait, cleanupAlive,
                   toDelete, cnonce>>

\* Fault variant of CheckRegs: a session is dropped only once it is older
\* than max_reg_duration plus one tick (a boundary off by one).
CheckRegsLate ==
    /\ regWait = RegCheckInterval
    /\ nameToReg' = RestrictDomain(nameToReg,
                        LAMBDA o : nameToReg[o].age <= MaxRegDuration + 1)
    /\ regWait' = 0
    /\ UNCHANGED <<serverState, shutPc, shutWait, hbTok, clients, tokens, nextNonce, nextToken, removeWait,
                   cleanupAlive, toDelete, regPc, regNonce, cnonce, ctoken,
                   cssid, granted>>

\* _check_regs: under reg_lock, drop every session older than
\* max_reg_duration; then sleep.
CheckRegs ==
    /\ regWait = RegCheckInterval
    /\ nameToReg' = RestrictDomain(nameToReg,
                        LAMBDA o : nameToReg[o].age <= MaxRegDuration)
    /\ regWait' = 0
    /\ UNCHANGED <<serverState, shutPc, shutWait, hbTok, clients, tokens, nextNonce, nextToken, removeWait,
                   cleanupAlive, toDelete, regPc, regNonce, cnonce, ctoken,
                   cssid, granted>>

-----------------------------------------------------------------------------
(* Requests of registered clients *)

\* client_heartbeat up to client_manager.heartbeat: state gate, then the
\* record of the token the request carries gets its last contact time
\* refreshed.  The request's ssid is not looked at.
ClientHeartbeat(o) ==
    /\ hbTok[o] = 0
    /\ ctoken[o] \in DOMAIN clients
    /\ InService(serverState, "heartbeat")
    /\ clients' = [clients EXCEPT ![ctoken[o]].age = 0]
    /\ hbTok' = [hbTok EXCEPT ![o] = ctoken[o]]
    /\ UNCHANGED <<serverState, shutPc, shutWait, nameToReg, tokens, nextNonce, nextToken, removeWait,
                   regWait, cleanupAlive, toDelete, regPc, regNonce, cnonce,
                   ctoken, cssid, granted>>

\* The rest of client_heartbeat: client_manager.heartbeat returned True, so
\* self.tokens[token] is (re)written, without any lock.
HeartbeatTokens(o) ==
    /\ hbTok[o] # 0
    /\ tokens' = tokens \cup {hbTok[o]}
    /\ hbTok' = [hbTok EXCEPT ![o] = 0]
    /\ UNCHANGED <<serverState, shutPc, shutWait, nameToReg, clients, nextNonce, nextToken, removeWait,
                   regWait, cleanupAlive, toDelete, regPc, regNonce, cnonce,
                   ctoken, cssid, granted>>

\* quit_client: a token the client manager still knows is logged out; the
\* client process ends and forgets its token either way.
QuitClient(o) ==
    /\ ctoken[o] # 0
    /\ IF ctoken[o] \in DOMAIN clients
          THEN Logout(ctoken[o])
          ELSE UNCHANGED <<clients, tokens>>
    /\ ctoken' = [ctoken EXCEPT ![o] = 0]
    /\ cssid' = [cssid EXCEPT ![o] = NoSsid]
    /\ UNCHANGED <<serverState, shutPc, shutWait, hbTok, nameToReg, nextNonce, nextToken, removeWait, regWait,
                   cleanupAlive, toDelete, regPc, regNonce, cnonce, granted>>

-----------------------------------------------------------------------------
(* The dead-client sweep *)

\* client_cleanup finds remove_interval elapsed; remove_dead_clients lists
\* the tokens whose last contact is older than heart_beat_timeout.
CollectDeadClients ==
    /\ cleanupAlive
    /\ shutPc = "running"
    /\ toDelete = {}
    /\ removeWait > RemoveInterval
    /\ toDelete' = {t \in DOMAIN clients : Expired(t)}
    /\ removeWait' = 0
    /\ UNCHANGED <<serverState, shutPc, shutWait, hbTok, nameToReg, clients, tokens, nextNonce, nextToken, regWait,
                   cleanupAlive, regPc, regNonce, cnonce, ctoken, cssid,
                   granted>>

\* remove_dead_clients logs out one listed token.
RemoveDeadClient(t) ==
    /\ t \in toDelete
    /\ t \in DOMAIN clients
    /\ Logout(t)
    /\ toDelete' = toDelete \ {t}
    /\ UNCHANGED <<serverState, shutPc, shutWait, hbTok, nameToReg, nextNonce, nextToken, removeWait, regWait,
                   cleanupAlive, regPc, regNonce, cnonce, ctoken, cssid,
                   granted>>

\* A listed token was logged out meanwhile: client_manager.remove_client
\* returns no client and client.name raises; client_cleanup has no
\* handler, so the thread ends.
RemoveDeadClientCrash(t) ==
    /\ t \in toDelete
    /\ t \notin DOMAIN clients
    /\ cleanupAlive' = FALSE
    /\ toDelete' = {}
    /\ UNCHANGED <<serverState, shutPc, shutWait, hbTok, nameToReg, clients, tokens, nextNonce, nextToken,
                   removeWait, regWait, regPc, regNonce, cnonce, ctoken,
                   cssid, granted>>

\* Time passes.  The sweeps wake up on time: a tick never passes a due
\* pass of _check_regs, of a client_cleanup still looping, or the timeout
\* check of fl_shutdown's wait.
Tick ==
    /\ toDelete = {}
    /\ regWait < RegCheckInterval
    /\ cleanupAlive /\ shutPc = "running" => removeWait <= RemoveInterval
    /\ shutPc = "waiting" => shutWait <= ShutdownPeriod
    /\ clients' = [t \in DOMAIN clients |->
                     [clients[t] EXCEPT !.age = IF @ < ClientAgeCap THEN @ + 1 ELSE @]]
    /\ nameToReg' = [o \in DOMAIN nameToReg |->
                     [nameToReg[o] EXCEPT !.age = IF @ < SessionAgeCap THEN @ + 1 ELSE @]]
    /\ removeWait' = IF removeWait <= RemoveInterval THEN removeWait + 1 ELSE removeWait
    /\ regWait' = regWait + 1
    /\ shutWait' = IF shutPc = "waiting" THEN shutWait + 1 ELSE shutWait
    /\ UNCHANGED <<serverState, shutPc, hbTok, tokens, nextNonce, nextToken, cleanupAlive, toDelete,
                   regPc, regNonce, cnonce, ctoken, cssid, granted>>

-----------------------------------------------------------------------------
(* Shutdown *)

\* fl_shutdown sets the shutdown flag, which ends client_cleanup's loop,
\* and starts waiting for client_manager.clients to empty.
FlShutdown ==
    /\ shutPc = "running"
    /\ shutPc' = "waiting"
    /\ shutWait' = 0
    /\ UNCHANGED <<serverState, hbTok, nameToReg, clients, tokens, nextNonce, nextToken,
                   removeWait, regWait, cleanupAlive, toDelete, regPc, regNonce,
                   cnonce, ctoken, cssid, granted>>

\* Fault variant of ShutdownClose: the wait without its timeout break.
ShutdownCloseNoTimeout ==
    /\ shutPc = "waiting"
    /\ DOMAIN clients = {}
    /\ shutPc' = "closed"
    /\ UNCHANGED <<serverState, shutWait, hbTok, nameToReg, clients, tokens, nextNonce,
                   nextToken, removeWait, regWait, cleanupAlive, toDelete, regPc,
                   regNonce, cnonce, ctoken, cssid, granted>>

\* The wait ends when no client is left, or with "shutdown the server after
\* timeout" once shutdown_period has passed; then close() (shutdown flag,
\* overseer_agent.end, release of self.lock) and executor.shutdown.
ShutdownClose ==
    /\ shutPc = "waiting"
    /\ DOMAIN clients = {} \/ shutWait > ShutdownPeriod
    /\ shutPc' = "closed"
    /\ UNCHANGED <<serverState, shutWait, hbTok, nameToReg, clients, tokens, nextNonce,
                   nextToken, removeWait, regWait, cleanupAlive, toDelete, regPc,
                   regNonce, cnonce, ctoken, cssid, granted>>

RegNext ==
    \/ \E o \in Origin :
          \/ ClientChallenge(o) \/ RegisterBegin(o) \/ RegisterEnd(o)
          \/ ClientHeartbeat(o) \/ HeartbeatTokens(o) \/ QuitClient(o)
    \/ CheckRegs
    \/ CollectDeadClients
    \/ \E t \in Token : RemoveDeadClient(t) \/ RemoveDeadClientCrash(t)
    \/ Tick
    \/ FlShutdown \/ ShutdownClose

\* The server threads are scheduled: the sweeps and the passing of time.
RegFairness ==
    /\ WF_regVars(CheckRegs)
    /\ WF_regVars(CollectDeadClients)
    /\ \A t \in Token : WF_regVars(RemoveDeadClient(t) \/ RemoveDeadClientCrash(t))
    /\ WF_regVars(Tick)
    /\ WF_regVars(ShutdownClose)

\* A server that is Hot from the start and stays Hot: a deployment without
\* failover, where the registry runs on its own.
RegHotInit == RegInit /\ serverState = MkState("Hot", 1)

RegSpec == RegHotInit /\ [][RegNext]_<<serverState, regVars>>

RegLiveSpec == RegSpec /\ RegFairness

-----------------------------------------------------------------------------
(* Properties *)

\* Replay protection of the handshake (register_client pops the session
\* under reg_lock): one challenge, i.e. one server nonce, yields at most
\* one token, however the client repeats or reorders its Register calls.
SessionSingleUse ==
    \A g1, g2 \in granted : g1.nonce = g2.nonce => g1 = g2

\* Stale handshakes are dropped (_check_regs): no pending reg session is ever
\* older than max_reg_duration plus one period of the expiry thread, so no
\* registration can complete on such a session.
SessionAgeBounded ==
    \A o \in DOMAIN nameToReg :
        nameToReg[o].age <= MaxRegDuration + RegCheckInterval

\* remove_dead_clients evicts only clients whose last contact is older than
\* heart_beat_timeout at the moment it logs them out.
NoLiveClientEvicted ==
    [][\A t \in Token : RemoveDeadClient(t) => Expired(t)]_<<serverState, regVars>>

\* Every client whose heartbeat has expired is eventually removed by the
\* dead-client sweep, unless it contacts the server again or quits first,
\* or fl_shutdown sets the flag that ends the sweep.
ExpiredClientsEvicted ==
    \A t \in Token :
        (t \in DOMAIN clients /\ Expired(t))
            ~> (t \notin DOMAIN clients \/ ~Expired(t) \/ shutPc # "running")

=============================================================================
