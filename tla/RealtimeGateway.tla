--------------------------- MODULE RealtimeGateway ---------------------------
(***************************************************************************)
(* RealtimeGateway on top of QuoteStore: browsers connect while ticks come,*)
(* get one snapshot of the quotes from memory and every tick that the      *)
(* throttle lets through, and lose the connection at any time.             *)
(***************************************************************************)
EXTENDS QuoteStore

CONSTANTS
    Clients,        \* sockets, used again once gone
    Calls           \* other calls that read quotes or visible symbols

ASSUME ReadersAssumption == Readers = Clients \cup Calls /\ Clients \cap Calls = {}

VARIABLES
    conn,       \* "gone", "verifying", "reading" the visible symbols, "live",
                \* or "blind": live with a snapshot that left the symbol out
    admins,     \* the room admin
    newest,     \* the newest quote each socket was sent; Expired: none
    ticked,     \* the newest tick sent to the room market since the start
    throttled   \* TICK_THROTTLE_MS have not passed since the last one sent

gatewayVars == <<conn, admins, newest, ticked, throttled>>
vars == <<storeVars, gatewayVars>>

market == {c \in Clients : conn[c] \in {"reading", "live", "blind"}}

Newer(a, b) == IF a > b THEN a ELSE b

-----------------------------------------------------------------------------
(* handleConnection, and a browser that leaves *)

handleConnection(c) ==
    /\ phase # "down" /\ conn[c] = "gone" /\ ~Waiting(c)
    /\ conn' = [conn EXCEPT ![c] = "verifying"]
    /\ newest' = [newest EXCEPT ![c] = Expired]
    /\ UNCHANGED <<storeVars, admins, ticked, throttled>>

\* No token, or one that does not verify.
tokenRejected(c) ==
    /\ conn[c] = "verifying"
    /\ conn' = [conn EXCEPT ![c] = "gone"]
    /\ UNCHANGED <<storeVars, admins, newest, ticked, throttled>>

\* The rooms are joined before the visible symbols are asked for.
tokenVerified(c) ==
    /\ conn[c] = "verifying" /\ request("VISIBLE", c)
    /\ conn' = [conn EXCEPT ![c] = "reading"]
    /\ \E isAdmin \in BOOLEAN : admins' = IF isAdmin THEN admins \cup {c} ELSE admins
    /\ UNCHANGED <<newest, ticked, throttled>>

\* Mutant: the snapshot is read from Redis.
sendSnapshot_fromRedis(c) ==
    /\ getReplied("VISIBLE") /\ Head(commands).by = c
    /\ conn' = IF conn[c] = "gone" THEN conn
               ELSE [conn EXCEPT ![c] = IF Head(commands).value # 0 THEN "live" ELSE "blind"]
    /\ newest' = [newest EXCEPT ![c] = Newer(@, store)]
    /\ UNCHANGED <<admins, ticked, throttled>>

\* A socket that has gone meanwhile is sent nothing.
sendSnapshot(c) ==
    /\ getReplied("VISIBLE") /\ Head(commands).by = c
    /\ LET shown == Head(commands).value # 0 IN
       IF conn[c] = "gone" THEN UNCHANGED <<conn, newest>>
       ELSE /\ conn' = [conn EXCEPT ![c] = IF shown THEN "live" ELSE "blind"]
            /\ newest' = IF shown THEN [newest EXCEPT ![c] = Newer(@, state)] ELSE newest
    /\ UNCHANGED <<admins, ticked, throttled>>

disconnects(c) ==
    /\ conn[c] # "gone"
    /\ conn' = [conn EXCEPT ![c] = "gone"] /\ admins' = admins \ {c}
    /\ UNCHANGED <<storeVars, newest, ticked, throttled>>

-----------------------------------------------------------------------------
(* Ticks and exposure *)

broadcastTick(q) ==
    /\ ticked' = Newer(ticked, q)
    /\ newest' = [c \in Clients |-> IF c \in market THEN Newer(newest[c], q) ELSE newest[c]]

onMessage ==
    /\ subscriberReceives
    /\ throttled' = TRUE
    /\ IF throttled THEN UNCHANGED <<ticked, newest>> ELSE broadcastTick(Head(inbox))
    /\ UNCHANGED <<conn, admins>>

throttleEnds ==
    /\ throttled /\ throttled' = FALSE
    /\ UNCHANGED <<storeVars, conn, admins, newest, ticked>>

\* Every five seconds, whether or not the call before has ended.
broadcastExposure(k) == admins # {} /\ request("QUOTE", k) /\ UNCHANGED gatewayVars

\* MarketService, and the orders and closes of TradingService.
listQuotes(k) == request("QUOTE", k) /\ UNCHANGED gatewayVars
listSymbols(k) == request("VISIBLE", k) /\ UNCHANGED gatewayVars

\* The quote goes into admin:tick, an answer or a trade.
callAnswered ==
    /\ \/ getReplied("QUOTE")
       \/ getReplied("VISIBLE") /\ Head(commands).by \in Calls
    /\ UNCHANGED gatewayVars

-----------------------------------------------------------------------------
(* Failures that both sides notice *)

\* Mutant: a failure to read the visible symbols is not caught.
commandsRejected_notCaught ==
    /\ commandsGivenUp
    /\ UNCHANGED gatewayVars

\* handleConnection catches the rejection and disconnects.
commandsRejected ==
    /\ commandsGivenUp
    /\ LET failed == {c \in Clients : Waiting(c)} IN
       /\ conn' = [c \in Clients |-> IF c \in failed THEN "gone" ELSE conn[c]]
       /\ admins' = admins \ failed
    /\ UNCHANGED <<newest, ticked, throttled>>

processCrashes ==
    /\ crash
    /\ conn' = [c \in Clients |-> "gone"] /\ admins' = {}
    /\ ticked' = Expired /\ throttled' = FALSE
    /\ UNCHANGED newest

-----------------------------------------------------------------------------
Init ==
    /\ StoreInit
    /\ conn = [c \in Clients |-> "gone"] /\ admins = {}
    /\ newest = [c \in Clients |-> Expired] /\ ticked = Expired /\ throttled = FALSE

Next ==
    \/ StoreStep /\ UNCHANGED gatewayVars
    \/ \E c \in Clients : \/ handleConnection(c) \/ tokenRejected(c) \/ tokenVerified(c)
                          \/ sendSnapshot(c) \/ disconnects(c)
    \/ onMessage \/ throttleEnds \/ callAnswered
    \/ \E k \in Calls : broadcastExposure(k) \/ listQuotes(k) \/ listSymbols(k)
    \/ commandsRejected \/ processCrashes

Spec == Init /\ [][Next]_vars

\* Redis executes what it is sent, replies come, a token is verified or not.
Fairness ==
    /\ WF_vars(redisExecutes /\ UNCHANGED gatewayVars)
    /\ WF_vars(setReplied /\ UNCHANGED gatewayVars)
    /\ WF_vars(callAnswered)
    /\ \A c \in Clients : /\ WF_vars(sendSnapshot(c))
                          /\ WF_vars(tokenRejected(c) \/ tokenVerified(c))

FairSpec == Spec /\ Fairness

-----------------------------------------------------------------------------
(* Properties *)

\* Types of the variables; the rooms hold sockets that are connected.
TypeOK ==
    /\ StoreTypeOK
    /\ conn \in [Clients -> {"gone", "verifying", "reading", "live", "blind"}]
    /\ admins \subseteq market
    /\ newest \in [Clients -> Expired .. MaxQuotes]
    /\ ticked \in Expired .. MaxQuotes /\ throttled \in BOOLEAN

\* A browser whose snapshot showed the symbol has been sent a quote at least as new
\* as every tick ever sent to the room, those from before it connected and those
\* that came while it waited for the snapshot included: nothing falls between the
\* snapshot and the ticks.
NothingMissed ==
    \A c \in Clients : conn[c] = "live" => newest[c] >= ticked

\* A browser that has connected gets its snapshot or is disconnected, although
\* commands are sent again, given up, and the process restarts.
Served == \A c \in Clients : conn[c] = "verifying" ~> conn[c] \notin {"verifying", "reading"}
=============================================================================
