----------------------------- MODULE HAAbstract -----------------------------
(***************************************************************************)
(* What the HA state machine of one FL server promises (spec 3, 4.4), with *)
(* the transitional states left out: the server is Cold (standby, no       *)
(* session id) or Hot, and it is Hot only under a service session id the   *)
(* overseer granted to it.  The ssid is fixed while Hot (spec 3: it        *)
(* changes on the Cold -> Hot turn); leaving Hot drops it.  The overseer's *)
(* grants only accumulate.                                                 *)
(* HAServer implements this under the mapping in ServerCells: Cold2Hot is  *)
(* still Cold, and Hot2Cold is still Hot.                                  *)
(***************************************************************************)
EXTENDS Naturals

CONSTANTS
    Ssid,     \* the session ids the overseer can issue
    NoSsid    \* the empty ssid of a ColdState

VARIABLES
    absState, \* [kind |-> "Cold" or "Hot", ssid |-> ...]
    grants    \* the ssids issued while this server was designated primary

absVars == <<absState, grants>>

AbsInit ==
    /\ absState = [kind |-> "Cold", ssid |-> NoSsid]
    /\ grants \subseteq Ssid

\* The overseer designates this server under a new session id.
Grant(s) ==
    /\ s \notin grants
    /\ grants' = grants \cup {s}
    /\ UNCHANGED absState

\* The server takes over, under one of its grants.
GoHot(s) ==
    /\ absState.kind = "Cold"
    /\ s \in grants
    /\ absState' = [kind |-> "Hot", ssid |-> s]
    /\ UNCHANGED grants

\* The server stands down and forgets its session id.
GoCold ==
    /\ absState.kind = "Hot"
    /\ absState' = [kind |-> "Cold", ssid |-> NoSsid]
    /\ UNCHANGED grants

AbsNext ==
    \/ \E s \in Ssid : Grant(s) \/ GoHot(s)
    \/ GoCold

AbsSpec == AbsInit /\ [][AbsNext]_absVars
=============================================================================
