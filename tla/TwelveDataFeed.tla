----------------------------- MODULE TwelveDataFeed -----------------------------
(***************************************************************************)
(* TwelveDataMarketProvider: the WebSocket that brings the prices of the   *)
(* global symbols, its heartbeat, and how it is opened again after it      *)
(* closes.  A socket that fails emits "error" and then "close", as events  *)
(* of their own.  The random walk of the symbols that Twelve Data does not *)
(* cover is the interval mockInterval.  MARKET_API_KEY is taken as set.    *)
(***************************************************************************)
EXTENDS Integers, FiniteSets

CONSTANTS
    Sockets,        \* WebSocket objects that connect() may create
    NoSocket,
    MaxDelay        \* reconnectAttempt beyond which the delay grows no more

ASSUME DelayAssumption == MaxDelay \in Nat
ASSUME SocketAssumption == NoSocket \notin Sockets

VARIABLES
    started,        \* start() was called
    mockInterval,   \* set or not
    socket,         \* each object: "new", "connecting", "open", "erring", "closed"
    ws,             \* the current one
    heartbeatTimer, reconnectTimer,     \* set or not
    reconnectAttempt,                   \* which stops at MaxDelay here
    closed,         \* stop() was called
    subscribed,     \* sockets that sent their subscription
    reachable       \* the world: Twelve Data accepts connections

loop == <<started, mockInterval>>
vars == <<loop, socket, ws, heartbeatTimer, reconnectTimer, reconnectAttempt, closed,
          subscribed, reachable>>

Alive == {s \in Sockets : socket[s] \in {"connecting", "open", "erring"}}

\* connect(): objects that have closed are reused, for those to come.
connect(s) ==
    /\ IF closed THEN UNCHANGED <<socket, ws, subscribed>>
       ELSE /\ socket[s] \in {"new", "closed"}
            /\ socket' = [socket EXCEPT ![s] = "connecting"]
            /\ ws' = s /\ subscribed' = subscribed \ {s}

\* Mutant: the random walk of the other symbols is not started.
start_noFallback(s) ==
    /\ ~started /\ started' = TRUE /\ UNCHANGED mockInterval
    /\ connect(s)
    /\ UNCHANGED <<heartbeatTimer, reconnectTimer, reconnectAttempt, closed, reachable>>

\* Called once Redis has been seeded, which may be after stop().
start(s) ==
    /\ ~started /\ started' = TRUE /\ mockInterval' = TRUE
    /\ connect(s)
    /\ UNCHANGED <<heartbeatTimer, reconnectTimer, reconnectAttempt, closed, reachable>>

\* Mutant: subscribes only the first time.
onOpen_subscribesOnce(s) ==
    /\ socket[s] = "connecting" /\ reachable
    /\ socket' = [socket EXCEPT ![s] = "open"]
    /\ subscribed' = IF reconnectAttempt = 0 THEN subscribed \cup {s} ELSE subscribed
    /\ reconnectAttempt' = 0 /\ heartbeatTimer' = TRUE
    /\ UNCHANGED <<loop, ws, reconnectTimer, closed, reachable>>

onOpen(s) ==
    /\ socket[s] = "connecting" /\ reachable
    /\ socket' = [socket EXCEPT ![s] = "open"]
    /\ reconnectAttempt' = 0
    /\ subscribed' = subscribed \cup {s}
    /\ heartbeatTimer' = TRUE
    /\ UNCHANGED <<loop, ws, reconnectTimer, closed, reachable>>

\* Mutant: the error handler reconnects, and the close that follows does again.
onError_reconnects(s) ==
    /\ socket[s] = "open" \/ (socket[s] = "connecting" /\ ~reachable)
    /\ socket' = [socket EXCEPT ![s] = "erring"]
    /\ reconnectTimer' = TRUE /\ heartbeatTimer' = FALSE
    /\ UNCHANGED <<loop, ws, reconnectAttempt, closed, subscribed, reachable>>

\* The error is logged.
onError(s) ==
    /\ socket[s] = "open" \/ (socket[s] = "connecting" /\ ~reachable)
    /\ socket' = [socket EXCEPT ![s] = "erring"]
    /\ UNCHANGED <<loop, ws, heartbeatTimer, reconnectTimer, reconnectAttempt, closed, subscribed,
                   reachable>>

\* Mutant: the heartbeat goes on.
scheduleReconnect_keepsHeartbeat ==
    /\ reconnectTimer' = TRUE /\ UNCHANGED heartbeatTimer
    /\ reconnectAttempt' = IF reconnectAttempt < MaxDelay THEN reconnectAttempt + 1 ELSE MaxDelay

scheduleReconnect ==
    /\ heartbeatTimer' = FALSE
    /\ reconnectTimer' = TRUE
    /\ reconnectAttempt' = IF reconnectAttempt < MaxDelay THEN reconnectAttempt + 1 ELSE MaxDelay

onClose(s) ==
    /\ socket[s] \in {"open", "erring"}
    /\ socket' = [socket EXCEPT ![s] = "closed"]
    /\ IF closed THEN UNCHANGED <<heartbeatTimer, reconnectTimer, reconnectAttempt>>
       ELSE scheduleReconnect
    /\ UNCHANGED <<loop, ws, closed, subscribed, reachable>>

reconnectTimerFires(s) ==
    /\ reconnectTimer /\ reconnectTimer' = FALSE
    /\ connect(s)
    /\ UNCHANGED <<loop, heartbeatTimer, reconnectAttempt, closed, reachable>>

\* stop(): the listeners are removed, so what the socket still does is not heard.
stop ==
    /\ ~closed /\ closed' = TRUE
    /\ heartbeatTimer' = FALSE /\ reconnectTimer' = FALSE
    /\ socket' = [s \in Sockets |-> IF s = ws THEN "closed" ELSE socket[s]]
    /\ ws' = NoSocket
    /\ mockInterval' = FALSE
    /\ UNCHANGED <<started, reconnectAttempt, subscribed, reachable>>

networkChanges ==
    /\ reachable' = ~reachable
    /\ UNCHANGED <<loop, socket, ws, heartbeatTimer, reconnectTimer, reconnectAttempt, closed, subscribed>>

Init ==
    /\ started = FALSE /\ mockInterval = FALSE
    /\ socket = [s \in Sockets |-> "new"] /\ ws = NoSocket
    /\ heartbeatTimer = FALSE /\ reconnectTimer = FALSE
    /\ reconnectAttempt = 0 /\ closed = FALSE
    /\ subscribed = {} /\ reachable \in BOOLEAN

Next ==
    \/ \E s \in Sockets : \/ start(s) \/ onOpen(s) \/ onError(s) \/ onClose(s)
                          \/ reconnectTimerFires(s)
    \/ stop \/ networkChanges

\* The timer fires; a handshake ends, well or not; "error" is followed by "close".
Fairness ==
    /\ WF_vars(\E s \in Sockets : reconnectTimerFires(s))
    /\ \A s \in Sockets :
          /\ WF_vars(socket[s] = "connecting" /\ (onOpen(s) \/ onError(s)))
          /\ WF_vars(socket[s] = "erring" /\ onClose(s))

Spec == Init /\ [][Next]_vars

-----------------------------------------------------------------------------
(* Properties *)

\* Types of the variables; and the heartbeat runs while the current socket is
\* open or its error has not closed it yet, never while one is waited for.
TypeOK ==
    /\ started \in BOOLEAN /\ mockInterval \in BOOLEAN
    /\ socket \in [Sockets -> {"new", "connecting", "open", "erring", "closed"}]
    /\ ws \in Sockets \cup {NoSocket}
    /\ heartbeatTimer \in BOOLEAN /\ reconnectTimer \in BOOLEAN
    /\ heartbeatTimer => ws # NoSocket /\ socket[ws] \in {"open", "erring"}
    /\ reconnectAttempt \in 0 .. MaxDelay
    /\ closed \in BOOLEAN /\ subscribed \subseteq Sockets /\ reachable \in BOOLEAN

\* From start() to stop() there is one socket or one reconnection waiting, never
\* both or two, however errors and closes follow each other; and none after.
OneFeed ==
    /\ Alive \subseteq {ws}
    /\ Cardinality(Alive) + (IF reconnectTimer THEN 1 ELSE 0)
         = (IF started /\ ~closed THEN 1 ELSE 0)

\* Prices come: the current socket is open and has sent its subscription.
Delivering == ws # NoSocket /\ socket[ws] = "open" /\ ws \in subscribed
=============================================================================
