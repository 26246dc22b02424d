------------------------------ MODULE PositionBook ------------------------------
(***************************************************************************)
(* Open positions live twice: as rows of the positions table and as        *)
(* entries of PositionRegistry, the in-memory copy that PositionsEngine    *)
(* reads on every tick to execute stop-losses and take-profits.  Between   *)
(* the database and the copy stands one Node process: a handler runs until *)
(* it awaits, and what it does after an await is an action of its own.     *)
(*                                                                         *)
(* Rows change inside the transactions of WalletLedger; here a close that  *)
(* may not commit any more (its snapshot of the row is stale) is marked,   *)
(* and any transaction may fail.  Bid and ask are one price.               *)
(***************************************************************************)
EXTENDS Integers, Sequences, FiniteSets

CONSTANTS
    Positions,
    Shorts,         \* the positions with side SELL; the others are BUY
    Closers,        \* calls of closeInternal that may be running
    Updaters,       \* calls of updateSlTp that may be running
    Prices,         \* prices of the one symbol traded
    StartPrice,     \* its startPrice, the quote every boot writes
    Levels,         \* stop-loss and take-profit prices users may choose
    NoLevel,        \* no stop-loss, or no take-profit
    NoPosition,
    MaxTicks,       \* bound on ticks published and not yet handled
    MaxCrashes      \* bound on crashes of the process

ASSUME PricesAssumption ==
    Prices \cup Levels \subseteq Int /\ StartPrice \in Prices /\ NoLevel \notin Int
ASSUME PositionsAssumption == Shorts \subseteq Positions /\ NoPosition \notin Positions
ASSUME BoundsAssumption == MaxTicks \in Nat /\ MaxCrashes \in Nat

VARIABLES
    row,        \* the positions table
    registry,   \* PositionRegistry.bySymbol
    closing,    \* PositionRegistry.closing: the positions locked for a close
    opening,    \* committed openPosition calls that have not reached registry.add
    closer,     \* the calls of closeInternal
    updater,    \* the calls of updateSlTp
    quote,      \* the quote in Redis
    ticks,      \* market.ticks messages on their way to the engine
    up,         \* the process is running
    crashes

vars == <<row, registry, closing, opening, closer, updater, quote, ticks, up, crashes>>

NoRow == [status |-> "NONE", stop |-> NoLevel, take |-> NoLevel, reason |-> "NONE"]
NoEntry == [stop |-> NoLevel, take |-> NoLevel, contractSize |-> "none"]
IdleCloser == [stage |-> "idle", pos |-> NoPosition, reason |-> "NONE", valid |-> TRUE]
IdleUpdater == [stage |-> "idle", pos |-> NoPosition, stop |-> NoLevel, take |-> NoLevel]

Entry(r, size) == [stop |-> r.stop, take |-> r.take, contractSize |-> size]

-----------------------------------------------------------------------------
(* Opening *)

\* The transaction of openPosition commits ...
commitOpen(p, s, t) ==
    /\ up /\ row[p] = NoRow
    /\ row' = [row EXCEPT ![p] = [status |-> "OPEN", stop |-> s, take |-> t, reason |-> "NONE"]]
    /\ opening' = [opening EXCEPT ![p] = Entry(row'[p], "symbol")]
    /\ UNCHANGED <<registry, closing, closer, updater, quote, ticks, up, crashes>>

\* ... and the call goes on to registry.add, with the row as it was created.
add(p) ==
    /\ opening[p] # NoEntry
    /\ registry' = [registry EXCEPT ![p] = opening[p]]
    /\ opening' = [opening EXCEPT ![p] = NoEntry]
    /\ UNCHANGED <<row, closing, closer, updater, quote, ticks, up, crashes>>

-----------------------------------------------------------------------------
(* Closing *)

\* Mutant: the lock is taken without looking at it.
StartClose_lockNotTested(c, p, reason) ==
    closer[c] = IdleCloser
    /\ closing' = closing \cup {p}
    /\ closer' = [closer EXCEPT ![c] = [stage |-> "locked", pos |-> p, reason |-> reason,
                                        valid |-> TRUE]]

\* tryLockForClose: a closeInternal that finds the lock taken throws at once.
StartClose(c, p, reason) ==
    closer[c] = IdleCloser /\ p \notin closing
    /\ closing' = closing \cup {p}
    /\ closer' = [closer EXCEPT ![c] = [stage |-> "locked", pos |-> p, reason |-> reason,
                                        valid |-> TRUE]]

\* closePosition and an admin's forceClose.  The id may be of any row.
requestClose(c, p, reason) ==
    /\ up /\ row[p] # NoRow
    /\ StartClose(c, p, reason)
    /\ UNCHANGED <<row, registry, opening, updater, quote, ticks, up, crashes>>

\* Mutant: the status is not looked at again inside the transaction.
readForClose_statusNotChecked(c) ==
    /\ closer[c].stage = "locked"
    /\ closer' = [closer EXCEPT ![c].stage = "read"]
    /\ UNCHANGED <<row, registry, closing, opening, updater, quote, ticks, up, crashes>>

\* Inside the transaction: a row that is not OPEN ends it with an exception.
readForClose(c) ==
    /\ closer[c].stage = "locked"
    /\ closer' = [closer EXCEPT
          ![c].stage = IF row[closer[c].pos].status = "OPEN" THEN "read" ELSE "failed"]
    /\ UNCHANGED <<row, registry, closing, opening, updater, quote, ticks, up, crashes>>

\* A write of row p makes the snapshots that hold it stale.
Stale(p) == [c \in Closers |->
                IF closer[c].stage = "read" /\ closer[c].pos = p
                THEN [closer[c] EXCEPT !.valid = FALSE] ELSE closer[c]]

\* Mutant: the close reason is not written.
commitClose_noReason(c) ==
    LET p == closer[c].pos IN
    /\ closer[c].stage = "read" /\ closer[c].valid
    /\ row' = [row EXCEPT ![p].status = "CLOSED"]
    /\ closer' = [Stale(p) EXCEPT ![c].stage = "committed"]
    /\ UNCHANGED <<registry, closing, opening, updater, quote, ticks, up, crashes>>

commitClose(c) ==
    LET p == closer[c].pos IN
    /\ closer[c].stage = "read" /\ closer[c].valid
    /\ row' = [row EXCEPT ![p] = [status |-> "CLOSED", stop |-> row[p].stop,
                               take |-> row[p].take, reason |-> closer[c].reason]]
    /\ closer' = [Stale(p) EXCEPT ![c].stage = "committed"]
    /\ UNCHANGED <<registry, closing, opening, updater, quote, ticks, up, crashes>>

\* Serialization failure, time-out, no quote, lost connection.
failClose(c) ==
    /\ closer[c].stage \in {"locked", "read"}
    /\ closer' = [closer EXCEPT ![c].stage = "failed"]
    /\ UNCHANGED <<row, registry, closing, opening, updater, quote, ticks, up, crashes>>

\* Mutants: the entry is removed in the finally block, or the lock released only
\* after a commit.
finishClose_removesAlways(c) ==
    /\ closer[c].stage \in {"committed", "failed"}
    /\ registry' = [registry EXCEPT ![closer[c].pos] = NoEntry]
    /\ closing' = closing \ {closer[c].pos}
    /\ closer' = [closer EXCEPT ![c] = IdleCloser]
    /\ UNCHANGED <<row, opening, updater, quote, ticks, up, crashes>>
finishClose_keepsLockOnError(c) ==
    LET p == closer[c].pos IN
    /\ closer[c].stage \in {"committed", "failed"}
    /\ IF closer[c].stage = "committed"
       THEN registry' = [registry EXCEPT ![p] = NoEntry] /\ closing' = closing \ {p}
       ELSE UNCHANGED <<registry, closing>>
    /\ closer' = [closer EXCEPT ![c] = IdleCloser]
    /\ UNCHANGED <<row, opening, updater, quote, ticks, up, crashes>>

\* After the transaction: remove the entry when it committed; unlock in any case.
finishClose(c) ==
    LET p == closer[c].pos IN
    /\ closer[c].stage \in {"committed", "failed"}
    /\ registry' = IF closer[c].stage = "committed" THEN [registry EXCEPT ![p] = NoEntry]
                   ELSE registry
    /\ closing' = closing \ {p}
    /\ closer' = [closer EXCEPT ![c] = IdleCloser]
    /\ UNCHANGED <<row, opening, updater, quote, ticks, up, crashes>>

-----------------------------------------------------------------------------
(* Changing the levels: three statements with an await between them *)

readForUpdate(u, p) ==
    /\ up /\ updater[u] = IdleUpdater /\ row[p].status = "OPEN"
    /\ updater' = [updater EXCEPT ![u] = [stage |-> "checked", pos |-> p,
                                          stop |-> NoLevel, take |-> NoLevel]]
    /\ UNCHANGED <<row, registry, closing, opening, closer, quote, ticks, up, crashes>>

\* A level the request leaves out keeps its value.  The status is not read again.
writeUpdate(u) ==
    LET p == updater[u].pos IN
    /\ updater[u].stage = "checked"
    /\ \E s \in Levels \cup {NoLevel, row[p].stop}, t \in Levels \cup {NoLevel, row[p].take} :
          /\ row' = [row EXCEPT ![p] = [status |-> row[p].status, stop |-> s, take |-> t,
                                    reason |-> row[p].reason]]
          /\ updater' = [updater EXCEPT ![u] = [stage |-> "written", pos |-> p,
                                                stop |-> s, take |-> t]]
    /\ closer' = Stale(p)
    /\ UNCHANGED <<registry, closing, opening, quote, ticks, up, crashes>>

\* registry.updateSlTp, with the row that the update returned.
mirrorUpdate(u) ==
    LET p == updater[u].pos IN
    /\ updater[u].stage = "written"
    /\ registry' = IF registry[p] = NoEntry THEN registry
                   ELSE [registry EXCEPT ![p] = Entry(updater[u], registry[p].contractSize)]
    /\ updater' = [updater EXCEPT ![u] = IdleUpdater]
    /\ UNCHANGED <<row, closing, opening, closer, quote, ticks, up, crashes>>

\* The database call fails: the request ends with an error.
failUpdate(u) ==
    /\ updater[u].stage = "checked"
    /\ updater' = [updater EXCEPT ![u] = IdleUpdater]
    /\ UNCHANGED <<row, registry, closing, opening, closer, quote, ticks, up, crashes>>

-----------------------------------------------------------------------------
(* Ticks *)

\* publishTick writes the quote and then publishes it.
publishTick(x) ==
    /\ up /\ Len(ticks) < MaxTicks
    /\ quote' = x /\ ticks' = Append(ticks, x)
    /\ UNCHANGED <<row, registry, closing, opening, closer, updater, up, crashes>>

\* The subscriber's connection to Redis breaks: what was published to it is gone.
ticksLost ==
    /\ ticks # <<>> /\ ticks' = <<>>
    /\ UNCHANGED <<row, registry, closing, opening, closer, updater, quote, up, crashes>>

reached(p, level, x) == level # NoLevel /\ IF p \in Shorts THEN x >= level ELSE x <= level
surpassed(p, level, x) == level # NoLevel /\ IF p \in Shorts THEN x <= level ELSE x >= level

\* The levels of e that price x triggers for p: a stop-loss is looked at first.
checkSlTp(p, e, x) ==
    IF reached(p, e.stop, x) THEN "STOP_LOSS"
    ELSE IF surpassed(p, e.take, x) THEN "TAKE_PROFIT" ELSE "NONE"

Triggered(x) ==
    {p \in Positions : registry[p] # NoEntry /\ checkSlTp(p, registry[p], x) # "NONE"}

\* Mutant: the engine does not give its lock back before it calls forceClose,
\* which then finds the position locked.
processTick_keepsLock ==
    /\ up /\ ticks # <<>>
    /\ ticks' = Tail(ticks)
    /\ closing' = closing \cup Triggered(Head(ticks))
    /\ UNCHANGED <<row, registry, opening, closer, updater, quote, up, crashes>>

\* Starts a close for every entry triggered and not locked.  It is not awaited:
\* an error is logged, and the next tick that triggers the entry tries again.
processTick ==
    LET x == Head(ticks)
        due == Triggered(x) \ closing IN
    /\ up /\ ticks # <<>>
    /\ ticks' = Tail(ticks)
    /\ closing' = closing \cup due
    /\ \E call \in [due -> {c \in Closers : closer[c] = IdleCloser}] :
          /\ \A p, q \in due : call[p] = call[q] => p = q
          /\ closer' = [c \in Closers |->
                IF \E p \in due : call[p] = c
                THEN LET p == CHOOSE p \in due : call[p] = c IN
                     [stage |-> "locked", pos |-> p,
                      reason |-> checkSlTp(p, registry[p], x), valid |-> TRUE]
                ELSE closer[c]]
    /\ UNCHANGED <<row, registry, opening, updater, quote, up, crashes>>

-----------------------------------------------------------------------------
(* The process *)

crash ==
    /\ up /\ crashes < MaxCrashes
    /\ up' = FALSE /\ crashes' = crashes + 1
    /\ registry' = [p \in Positions |-> NoEntry] /\ closing' = {}
    /\ opening' = [p \in Positions |-> NoEntry]
    /\ closer' = [c \in Closers |-> IdleCloser] /\ updater' = [u \in Updaters |-> IdleUpdater]
    /\ ticks' = <<>>
    /\ UNCHANGED <<row, quote>>

\* PositionRegistry.onModuleInit, before the first request is served.  The market
\* provider, meanwhile, writes the start price over the quote.
onModuleInit ==
    /\ ~up /\ up' = TRUE
    /\ registry' = [p \in Positions |->
                      IF row[p].status = "OPEN" THEN Entry(row[p], "1") ELSE NoEntry]
    /\ quote' = StartPrice
    /\ UNCHANGED <<row, closing, opening, closer, updater, ticks, crashes>>

-----------------------------------------------------------------------------
Init ==
    /\ row = [p \in Positions |-> NoRow]
    /\ registry = [p \in Positions |-> NoEntry] /\ closing = {}
    /\ opening = [p \in Positions |-> NoEntry]
    /\ closer = [c \in Closers |-> IdleCloser] /\ updater = [u \in Updaters |-> IdleUpdater]
    /\ quote = StartPrice /\ ticks = <<>>
    /\ up = TRUE /\ crashes = 0

closeSteps(c) ==
    readForClose(c) \/ commitClose(c) \/ failClose(c) \/ finishClose(c)

Next ==
    \/ \E p \in Positions, s, t \in Levels \cup {NoLevel} : commitOpen(p, s, t)
    \/ \E p \in Positions : add(p)
    \/ \E c \in Closers, p \in Positions, reason \in {"USER", "ADMIN_FORCE"} : requestClose(c, p, reason)
    \/ \E c \in Closers : closeSteps(c)
    \/ \E u \in Updaters, p \in Positions : readForUpdate(u, p)
    \/ \E u \in Updaters : writeUpdate(u) \/ mirrorUpdate(u) \/ failUpdate(u)
    \/ \E x \in Prices : publishTick(x)
    \/ ticksLost \/ processTick \/ crash \/ onModuleInit

\* The event loop runs what is ready, the market keeps ticking, not every tick is lost,
\* and the database does not refuse the same close for ever.
Fairness ==
    /\ \A p \in Positions : WF_vars(add(p))
    /\ \A c \in Closers : /\ WF_vars(readForClose(c) \/ commitClose(c) \/ failClose(c))
                          /\ SF_vars(readForClose(c)) /\ SF_vars(commitClose(c))
                          /\ WF_vars(finishClose(c))
    /\ \A u \in Updaters : WF_vars(writeUpdate(u) \/ failUpdate(u)) /\ WF_vars(mirrorUpdate(u))
    /\ WF_vars(\E x \in Prices : publishTick(x)) /\ SF_vars(processTick) /\ WF_vars(onModuleInit)

Spec == Init /\ [][Next]_vars
FairSpec == Spec /\ Fairness
-----------------------------------------------------------------------------
(* Properties *)

Level == Levels \cup {NoLevel}
Reason == {"USER", "ADMIN_FORCE", "STOP_LOSS", "TAKE_PROFIT"}
Active(c) == closer[c] # IdleCloser

OpenRows == [status : {"OPEN"}, stop : Level, take : Level, reason : {"NONE"}]
ClosedRows == [status : {"CLOSED"}, stop : Level, take : Level, reason : Reason]
Rows == OpenRows \cup ClosedRows \cup {NoRow}
Entries == [stop : Level, take : Level, contractSize : {"symbol", "1"}] \cup {NoEntry}
CloserCalls == [stage : {"locked", "read", "committed", "failed"}, pos : Positions,
                reason : Reason, valid : BOOLEAN] \cup {IdleCloser}
UpdaterCalls == [stage : {"checked", "written"}, pos : Positions,
                 stop : Level, take : Level] \cup {IdleUpdater}

\* Types of the variables; a CLOSED row names a reason and an OPEN one does not.
TypeOK ==
    /\ row \in [Positions -> Rows]
    /\ registry \in [Positions -> Entries] /\ opening \in [Positions -> Entries]
    /\ closing \subseteq Positions
    /\ closer \in [Closers -> CloserCalls] /\ updater \in [Updaters -> UpdaterCalls]
    /\ quote \in Prices /\ ticks \in Seq(Prices)
    /\ up \in BOOLEAN /\ crashes \in 0 .. MaxCrashes

\* The lock of a position is held by the one call that is closing it: a call
\* that ends, well or not, gives back its own lock and no other, and no position
\* stays locked with nobody closing it (no stop would ever be executed again).
LockHeldByItsCloser ==
    /\ closing = {closer[c].pos : c \in {d \in Closers : Active(d)}}
    /\ \A c, d \in Closers : Active(c) /\ Active(d) /\ closer[c].pos = closer[d].pos => c = d

\* While the process runs the engine watches every position that is open, but for
\* the moment between the commit of an open and its registry.add: a close that
\* failed leaves the entry, and a restart brings back all of them.
OpenIsWatched ==
    up => \A p \in Positions :
             row[p].status = "OPEN" /\ opening[p] = NoEntry => registry[p] # NoEntry

\* A close is final: whoever closes a position later, and after whatever crash,
\* the row keeps the reason (and with it the result) of its first close.
ClosedOnce ==
    \A p \in Positions :
        row[p].status = "CLOSED" => row'[p].status = "CLOSED" /\ row'[p].reason = row[p].reason
CloseIsFinal == [][ClosedOnce]_vars

\* No position stays locked for ever.
LocksAreReleased == \A p \in Positions : p \in closing ~> p \notin closing

\* Stops are executed: no position stays open for ever once every price there is
\* triggers its entry, whatever ticks are lost and closes fail on the way and whoever
\* else closes or edits it.
StopsAreExecuted ==
    \A p \in Positions :
        ~<>[](/\ row[p].status = "OPEN" /\ registry[p] # NoEntry
              /\ \A x \in {quote} \cup {ticks[i] : i \in DOMAIN ticks} :
                    checkSlTp(p, registry[p], x) # "NONE")

\* The calls, interleaved, failing or lost, behave as AtomicBook: each takes effect
\* at one moment, under the lock, and the engine has what it promises to watch.
Holder(p) == CHOOSE c \in Closers : Active(c) /\ closer[c].pos = p
Atomic == INSTANCE AtomicBook WITH
    status <- [p \in Positions |-> row[p].status],
    reason <- [p \in Positions |-> row[p].reason],
    lock <- [p \in Positions |-> IF p \in closing THEN closer[Holder(p)].reason ELSE "NONE"],
    watched <- {p \in Positions : registry[p] # NoEntry},
    adding <- {p \in Positions : opening[p] # NoEntry},
    running <- up
ActsAtomically == Atomic!Spec

\* "In-memory mirror of OPEN positions": with no call in flight, the registry
\* holds the open positions with the levels of their rows.
MirrorIsCurrent ==
    (/\ up /\ \A p \in Positions : opening[p] = NoEntry
     /\ \A c \in Closers : ~Active(c) /\ \A u \in Updaters : updater[u] = IdleUpdater)
    => \A p \in Positions :
          IF row[p].status = "OPEN"
          THEN registry[p].stop = row[p].stop /\ registry[p].take = row[p].take
          ELSE registry[p] = NoEntry

\* "patched by trading service on add": the entries the engine computes profit
\* from have the contract size of their symbol.
ContractSizeIsPatched == \A p \in Positions : registry[p].contractSize # "1"

=============================================================================
