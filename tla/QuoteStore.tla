------------------------------ MODULE QuoteStore ------------------------------
(***************************************************************************)
(* BaseMarketProvider: where the quote of a symbol is kept, for one symbol.*)
(* publishTick writes it to memory, then to Redis, then to the channel on  *)
(* which the positions engine and the gateway listen; reads go to Redis    *)
(* first.  Calls overlap.  Each connection executes its commands in order, *)
(* and after a reconnect the client sends again every command that has had *)
(* no reply, or gives them all up after too many attempts.                 *)
(***************************************************************************)
EXTENDS Integers, Sequences, SequencesExt

CONSTANTS
    Readers,        \* calls that read a quote, or which symbols are visible
    MaxQuotes,      \* bound on ticks
    MaxLosses,      \* bound on connections lost
    MaxCrashes      \* bound on restarts

ASSUME BoundsAssumption == MaxQuotes \in Nat \ {0} /\ MaxLosses \in Nat /\ MaxCrashes \in Nat

VARIABLES
    phase,      \* "seeding" until start(), then "running"; "failed", "down"
    state,      \* the quote in memory; quotes are numbered in the order they come
    store,      \* quote:<symbol> in Redis
    visible,    \* market:visibility:<symbol>: 1 or 0
    commands,   \* commands of the connection redis without a reply
    pubs,       \* PUBLISHes without a reply, on the connection publisher
    inbox,      \* messages on their way to the subscribers
    heard,      \* the newest tick a subscriber has received since the start
    dropped,    \* quotes whose SET was given up
    last,       \* number of quotes so far
    losses, crashes

connections == <<commands, pubs, inbox>>
faults == <<losses, crashes>>
storeVars == <<phase, state, store, visible, connections, heard, dropped, last, faults>>

Seed == 0           \* startPrice
Expired == -1       \* the key has reached its TTL

\* A command: done once Redis has executed it, value then what a GET has found.
Set(q) == [op |-> "SET", by |-> "provider", value |-> q, done |-> FALSE]
Get(op, r) == [op |-> op, by |-> r, value |-> Expired, done |-> FALSE]

Waiting(r) == \E i \in DOMAIN commands : commands[i].by = r

\* The index of the next command that Redis executes.
NextOf(queue) == SelectInSeq(queue, LAMBDA c : ~c.done)

-----------------------------------------------------------------------------
\* Mutants: the tick is announced without waiting for the store, or memory is
\* not written.
publishTick_doesNotWait ==
    /\ phase = "running" /\ last < MaxQuotes
    /\ last' = last + 1 /\ state' = last'
    /\ commands' = Append(commands, Set(last')) /\ pubs' = Append(pubs, Set(last'))
    /\ UNCHANGED <<phase, store, visible, inbox, heard, dropped, faults>>
publishTick_keepsState ==
    /\ phase = "running" /\ last < MaxQuotes
    /\ last' = last + 1
    /\ commands' = Append(commands, Set(last'))
    /\ UNCHANGED <<phase, state, store, visible, pubs, inbox, heard, dropped, faults>>

\* Up to the first await.
publishTick ==
    /\ phase = "running" /\ last < MaxQuotes
    /\ last' = last + 1 /\ state' = last'
    /\ commands' = Append(commands, Set(last'))
    /\ UNCHANGED <<phase, store, visible, pubs, inbox, heard, dropped, faults>>

\* The GETs of getQuoteFromCache and of getVisibleSymbols.
request(op, r) ==
    /\ phase # "down" /\ ~Waiting(r)
    /\ commands' = Append(commands, Get(op, r))
    /\ UNCHANGED <<phase, state, store, visible, pubs, inbox, heard, dropped, last, faults>>

redisExecutes ==
    LET i == NextOf(commands)
        found == CASE commands[i].op = "SET" -> commands[i].value
                   [] commands[i].op = "QUOTE" -> store
                   [] commands[i].op = "VISIBLE" -> visible
    IN  /\ i # 0
        /\ store' = IF commands[i].op = "SET" THEN commands[i].value ELSE store
        /\ commands' = [commands EXCEPT ![i] = [@ EXCEPT !.done = TRUE, !.value = found]]
        /\ UNCHANGED <<phase, state, visible, pubs, inbox, heard, dropped, last, faults>>

Replied(op) == commands # <<>> /\ Head(commands).done /\ Head(commands).op = op

\* Mutant: the seed is announced like a tick.
setReplied_announcesSeed ==
    /\ Replied("SET")
    /\ commands' = Tail(commands) /\ pubs' = Append(pubs, Set(Head(commands).value))
    /\ phase' = "running"
    /\ UNCHANGED <<state, store, visible, inbox, heard, dropped, last, faults>>

\* The reply to a SET: publishTick goes on to publish, bootstrap to start().
setReplied ==
    /\ Replied("SET")
    /\ commands' = Tail(commands)
    /\ IF phase = "seeding" THEN phase' = "running" /\ UNCHANGED pubs
       ELSE pubs' = Append(pubs, Set(Head(commands).value)) /\ UNCHANGED phase
    /\ UNCHANGED <<state, store, visible, inbox, heard, dropped, last, faults>>

\* What getQuoteFromCache returns when its GET is answered.
getQuoteFromCache ==
    IF Head(commands).value # Expired THEN Head(commands).value ELSE state

getReplied(op) ==
    /\ Replied(op) /\ commands' = Tail(commands)
    /\ UNCHANGED <<phase, state, store, visible, pubs, inbox, heard, dropped, last, faults>>

redisPublish ==
    /\ NextOf(pubs) # 0
    /\ inbox' = Append(inbox, pubs[NextOf(pubs)].value)
    /\ pubs' = [pubs EXCEPT ![NextOf(pubs)].done = TRUE]
    /\ UNCHANGED <<phase, state, store, visible, commands, heard, dropped, last, faults>>

pubReplied ==
    /\ pubs # <<>> /\ Head(pubs).done /\ pubs' = Tail(pubs)
    /\ UNCHANGED <<phase, state, store, visible, commands, inbox, heard, dropped, last, faults>>

subscriberReceives ==
    /\ inbox # <<>> /\ inbox' = Tail(inbox)
    /\ heard' = IF Head(inbox) > heard THEN Head(inbox) ELSE heard
    /\ UNCHANGED <<phase, state, store, visible, commands, pubs, dropped, last, faults>>

-----------------------------------------------------------------------------
(* What goes wrong, and the administrator *)

Resend(queue) == [i \in DOMAIN queue |-> [queue[i] EXCEPT !.done = FALSE]]

connectionLost ==
    /\ phase # "down" /\ losses < MaxLosses /\ losses' = losses + 1
    /\ \/ commands' = Resend(commands) /\ UNCHANGED <<pubs, inbox>>
       \/ pubs' = Resend(pubs) /\ UNCHANGED <<commands, inbox>>
       \/ inbox' = <<>> /\ UNCHANGED <<commands, pubs>>     \* a subscriber's
    /\ UNCHANGED <<phase, state, store, visible, heard, dropped, last, crashes>>

\* Too many attempts: every command under way fails.  publishTick ends there with
\* a rejection that is logged, and bootstrap with a provider that does not start.
commandsGivenUp ==
    /\ commands # <<>> /\ losses < MaxLosses /\ losses' = losses + 1
    /\ commands' = <<>>
    /\ dropped' = dropped \cup {c.value : c \in {d \in Range(commands) : d.op = "SET"}}
    /\ phase' = IF phase = "seeding" THEN "failed" ELSE phase
    /\ UNCHANGED <<state, store, visible, pubs, inbox, heard, last, crashes>>

\* 24 hours without a SET; a command is given up long before that.
keyExpires ==
    /\ store # Expired /\ commands = <<>> /\ store' = Expired
    /\ UNCHANGED <<phase, state, visible, connections, heard, dropped, last, faults>>

crash ==
    /\ phase # "down" /\ crashes < MaxCrashes
    /\ phase' = "down" /\ crashes' = crashes + 1
    /\ commands' = <<>> /\ pubs' = <<>> /\ inbox' = <<>> /\ heard' = Seed
    /\ UNCHANGED <<state, store, visible, dropped, last, losses>>

\* onModuleInit and the first command of bootstrap.
onModuleInit ==
    /\ phase = "down" /\ phase' = "seeding"
    /\ state' = Seed /\ commands' = <<Set(Seed)>> /\ dropped' = {}
    /\ UNCHANGED <<store, visible, pubs, inbox, heard, last, faults>>

\* On a connection of AdminService.
setSymbolVisibility ==
    /\ visible' = 1 - visible
    /\ UNCHANGED <<phase, state, store, connections, heard, dropped, last, faults>>

-----------------------------------------------------------------------------
StoreInit ==
    /\ phase = "down" /\ state = Seed /\ store = Expired /\ visible = 1
    /\ commands = <<>> /\ pubs = <<>> /\ inbox = <<>> /\ heard = Seed
    /\ dropped = {} /\ last = 0 /\ losses = 0 /\ crashes = 0

\* The steps that concern nobody else.
StoreStep ==
    \/ publishTick \/ redisExecutes \/ setReplied \/ redisPublish \/ pubReplied
    \/ connectionLost \/ keyExpires \/ onModuleInit \/ setSymbolVisibility

-----------------------------------------------------------------------------
(* Properties *)

Commands == [op : {"SET", "QUOTE", "VISIBLE"}, by : Readers \cup {"provider"},
             value : Expired .. MaxQuotes, done : BOOLEAN]

\* Types of the variables; Redis executes each queue from its front.
StoreTypeOK ==
    /\ phase \in {"down", "seeding", "running", "failed"}
    /\ state \in Seed .. MaxQuotes /\ store \in Expired .. MaxQuotes
    /\ visible \in {0, 1}
    /\ commands \in Seq(Commands) /\ pubs \in Seq(Commands)
    /\ inbox \in Seq(1 .. MaxQuotes) /\ heard \in Seed .. MaxQuotes
    /\ dropped \subseteq Seed .. MaxQuotes
    /\ \A queue \in {commands, pubs} :
          \A i, j \in DOMAIN queue : i < j /\ queue[j].done => queue[i].done
    /\ last \in 0 .. MaxQuotes /\ losses \in 0 .. MaxLosses /\ crashes \in 0 .. MaxCrashes

\* Who reads the quote when its GET is answered finds one at least as new as every
\* tick that any subscriber has heard by then, although the answer was on its way
\* while ticks came, commands are sent again and the key expires: a close that a
\* tick triggers does not execute at a price from before that tick, and an admin
\* is not sent an exposure quote behind the ticks.
AnswerIsFresh == Replied("QUOTE") => getQuoteFromCache >= heard

\* With no write under way memory and Redis hold the same quote, unless the write
\* of just that quote was given up: the next tick mends what a failure left.
StoreAgrees ==
    /\ phase = "running" /\ state \notin dropped /\ store # Expired
    /\ \A c \in Range(commands) : c.op # "SET"
    => store = state

=============================================================================
