---------------------------- MODULE OrderStream ----------------------------
(* useOrderStatusStream: the live connection of one page visit, from mount  *)
(* to unmount.  The browser's WebSocket, its one reconnect timer and the    *)
(* phase the page shows.  API Gateway checks the token when a connection is *)
(* opened, and never again.                                                 *)
EXTENDS Naturals

\* The pages that use the hook.
Kinds == {"detail", "list", "desk"}

\* Bound: how often a connection, a message or the token is lost in a visit.
CONSTANT MaxFaults

VARIABLES
  kind,      \* the page
  mounted,   \* the page is on the screen (cancelledRef is its negation)
  token,     \* the access token the page was rendered with: "valid", "expired"
  socket,    \* socketRef: "none", "opening", "open", "closing"
  timer,     \* reconnectTimerRef has a connect() to come
  phase,     \* WsPhase
  faults

streamVars == <<kind, mounted, token, socket, timer, phase>>

ASSUME StreamAssumption == MaxFaults \in [Kinds -> Nat]

StreamTypeOK ==
  /\ mounted \in BOOLEAN
  /\ token \in {"valid", "expired"}
  /\ socket \in {"none", "opening", "open", "closing"}
  /\ timer \in BOOLEAN
  /\ phase \in {"connecting", "connected", "dropped"}
  /\ kind \in Kinds /\ faults \in 0..MaxFaults[kind]

\* The effect runs connect() when the page mounts.
StreamInit ==
  /\ kind \in Kinds /\ mounted = TRUE /\ token = "valid"
  /\ socket = "opening" /\ timer = FALSE /\ phase = "connecting"
  /\ faults = 0

Fault == faults < MaxFaults[kind] /\ faults' = faults + 1

\* "open": the authorizer accepted the token and $connect wrote the registry row.
Open ==
  /\ mounted /\ socket = "opening" /\ token = "valid"
  /\ socket' = "open" /\ phase' = "connected"
  /\ UNCHANGED <<kind, mounted, token, timer, faults>>

\* The "close" handler: a page that is gone stays quiet, another one retries.
CloseHandler ==
  /\ socket' = "none"
  /\ IF mounted THEN phase' = "dropped" /\ timer' = TRUE ELSE UNCHANGED <<phase, timer>>
  /\ UNCHANGED <<kind, mounted, token>>

\* The handshake is refused, or the page's own close() completes.
Refused == socket = "opening" /\ token = "expired" /\ CloseHandler /\ UNCHANGED faults
Closed == socket = "closing" /\ CloseHandler /\ UNCHANGED faults

\* The network or the gateway (idle or two-hour limit) ends the connection.
Dropped == socket \in {"opening", "open"} /\ Fault /\ CloseHandler

\* Seeded mistake: the timer shows "connecting" and opens nothing.
ReconnectNever ==
  /\ timer /\ timer' = FALSE /\ phase' = "connecting"
  /\ UNCHANGED <<kind, mounted, token, socket, faults>>

\* The timer fires: connect().  Its delay doubles up to 30 s.
Reconnect ==
  /\ timer
  /\ timer' = FALSE
  /\ IF mounted THEN phase' = "connecting" /\ socket' = "opening" ELSE UNCHANGED <<phase, socket>>
  /\ UNCHANGED <<kind, mounted, token, faults>>

\* Cognito's sixty minutes are over; nothing hands the page another token.
Expire ==
  /\ mounted /\ token = "valid" /\ Fault /\ token' = "expired"
  /\ UNCHANGED <<kind, mounted, socket, timer, phase>>

\* The effect's cleanup.
Unmount ==
  /\ mounted /\ mounted' = FALSE
  /\ timer' = FALSE
  /\ socket' = IF socket = "none" THEN "none" ELSE "closing"
  /\ UNCHANGED <<kind, token, phase, faults>>

\* A visit has one connection or one timer that will make one, never both; a
\* page that was left keeps no timer, whatever close events are still to come.
OneConnection ==
  /\ ~(timer /\ socket # "none")
  /\ ~mounted => ~timer /\ socket \in {"none", "closing"}

\* The page says it is live only while it has an open connection.
LiveIsOpen == mounted => (phase = "connected" <=> socket = "open")

\* Dropped connections come back, as long as the token lasts and the page stays.
Reconnects == (timer /\ mounted) ~> (socket = "open" \/ token = "expired" \/ ~mounted)
=============================================================================
