----------------------------- MODULE ServerState -----------------------------
(***************************************************************************)
(* The HA server states ColdState, Cold2HotState, HotState, Hot2ColdState  *)
(* of nvflare/private/fed/server/server_state.py.  That file is not part   *)
(* of the sources under src/, so these operators follow the spec (3, 4.4): *)
(* a state is a kind and the session id (ssid) the overseer issued; the    *)
(* gate of every client operation admits it only in Hot; the overseer      *)
(* callback computes the next state from the current one and from which   *)
(* server the overseer designates primary.                                 *)
(***************************************************************************)
EXTENDS Naturals

\* ssid 0 stands for the empty ssid of a ColdState built without one
\* (fed_server.py:1085).
NoSsid == 0

Kinds == {"Cold", "Cold2Hot", "Hot", "Hot2Cold"}

\* The operations whose handlers ask the state for a state check.
Ops == {"register", "heartbeat", "get_task", "submit_result", "aux_communicate"}

MkState(kind, ssid) == [kind |-> kind, ssid |-> ssid]

\* ServerState.register/heartbeat/get_task/submit_result/aux_communicate:
\* IN_SERVICE when Hot, NOT_IN_SERVICE or ABORT_THE_RUN otherwise (both of
\* which _handle_state_check and authentication_check treat as an error).
InService(st, op) == st.kind = "Hot"

\* handle_sd_callback(sp): primary is "Me", "Other" or "None" (no primary
\* SP known to the overseer); spSsid is the overseer's service session id.
\* The transitional states are returned unchanged: FederatedServer drives
\* them to Hot or Cold itself (_turn_to_hot, _turn_to_cold).  The next
\* state depends on (state, whether this server is primary) only, and the
\* ssid changes only on the Cold -> Hot turn (spec 3): a Hot server the
\* overseer designates again stays in its HotState.
HandleSdCallback(st, primary, spSsid) ==
    CASE st.kind = "Cold" /\ primary = "Me"    -> MkState("Cold2Hot", spSsid)
      [] st.kind = "Hot"  /\ primary = "Other" -> MkState("Hot2Cold", st.ssid)
      [] OTHER                                  -> st
=============================================================================
