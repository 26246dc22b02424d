--------------------------- MODULE PositionBookProofs ---------------------------
(***************************************************************************)
(* What PositionBook guarantees for every number of positions, calls and   *)
(* crashes: the types, that the lock of a position is held by the call     *)
(* that closes it, that every open position is watched, and that a close   *)
(* is final.                                                               *)
(***************************************************************************)
EXTENDS PositionBook, TLAPS

\* What a call of closeInternal knows of the row it is closing, while its
\* snapshot is not stale.
ClosersKnow ==
    \A c \in Closers : Active(c) =>
        /\ row[closer[c].pos] # NoRow
        /\ closer[c].stage = "read" /\ closer[c].valid => row[closer[c].pos].status = "OPEN"
        /\ closer[c].stage = "committed" => row[closer[c].pos].status = "CLOSED"

\* Whatever names a position names one that was opened.
NamesOpened ==
    /\ \A u \in Updaters : updater[u] # IdleUpdater => row[updater[u].pos] # NoRow
    /\ \A p \in Positions : registry[p] # NoEntry \/ opening[p] # NoEntry => row[p] # NoRow

\* LockHeldByItsCloser, position by position.
Locks ==
    /\ \A c \in Closers : Active(c) => closer[c].pos \in closing
    /\ \A p \in closing : \E c \in Closers : Active(c) /\ closer[c].pos = p
    /\ \A c, d \in Closers : Active(c) /\ Active(d) /\ closer[c].pos = closer[d].pos => c = d

Book == TypeOK /\ ClosersKnow /\ NamesOpened /\ Locks /\ OpenIsWatched

-----------------------------------------------------------------------------
(* The records *)

LEMMA RowFields ==
    ASSUME NEW r \in Rows
    PROVE  /\ r.stop \in Level /\ r.take \in Level
           /\ r.status \in {"OPEN", "CLOSED", "NONE"}
           /\ r = NoRow <=> r.status = "NONE"
           /\ r.status = "OPEN" => r.reason = "NONE"
           /\ r.status = "CLOSED" => r.reason \in Reason
BY DEF Rows, OpenRows, ClosedRows, NoRow, Level

LEMMA MakeRow ==
    ASSUME NEW s \in Level, NEW t \in Level
    PROVE  /\ [status |-> "OPEN", stop |-> s, take |-> t, reason |-> "NONE"] \in Rows
           /\ \A reason \in Reason :
                 [status |-> "CLOSED", stop |-> s, take |-> t, reason |-> reason] \in Rows
BY DEF Rows, OpenRows, ClosedRows

LEMMA EntryFields ==
    ASSUME NEW e \in Entries
    PROVE  /\ e.stop \in Level /\ e.take \in Level
           /\ e # NoEntry => e.contractSize \in {"symbol", "1"}
           /\ e = NoEntry <=> e.contractSize = "none"
BY DEF Entries, NoEntry, Level

LEMMA MakeEntry ==
    ASSUME NEW r, r.stop \in Level, r.take \in Level, NEW size \in {"symbol", "1"}
    PROVE  Entry(r, size) \in Entries /\ Entry(r, size) # NoEntry
BY DEF Entries, Entry, NoEntry

LEMMA CloserFields ==
    ASSUME NEW k \in CloserCalls
    PROVE  /\ k.stage \in {"idle", "locked", "read", "committed", "failed"}
           /\ k.valid \in BOOLEAN
           /\ k = IdleCloser <=> k.stage = "idle"
           /\ k # IdleCloser => k.pos \in Positions /\ k.reason \in Reason
<1>1. CASE k = IdleCloser
  BY <1>1 DEF IdleCloser
<1>2. CASE k # IdleCloser
  <2>1. k \in [stage : {"locked", "read", "committed", "failed"}, pos : Positions,
               reason : Reason, valid : BOOLEAN]
    BY <1>2 DEF CloserCalls
  <2>2. k.stage # "idle"
    BY <2>1
  <2>. QED BY <1>2, <2>1, <2>2
<1>. QED BY <1>1, <1>2

LEMMA MakeCloser ==
    ASSUME NEW stage \in {"locked", "read", "committed", "failed"}, NEW p \in Positions,
           NEW reason \in Reason, NEW valid \in BOOLEAN
    PROVE  [stage |-> stage, pos |-> p, reason |-> reason, valid |-> valid] \in CloserCalls
BY DEF CloserCalls

LEMMA UpdaterFields ==
    ASSUME NEW k \in UpdaterCalls
    PROVE  /\ k.stage \in {"idle", "checked", "written"}
           /\ k = IdleUpdater <=> k.stage = "idle"
           /\ k # IdleUpdater => k.pos \in Positions
           /\ k.stop \in Level /\ k.take \in Level
BY DEF UpdaterCalls, IdleUpdater, Level

\* Staleness changes nothing of a call but whether it may commit.
LEMMA StaleFields ==
    ASSUME closer \in [Closers -> CloserCalls], NEW p \in Positions
    PROVE  /\ Stale(p) \in [Closers -> CloserCalls]
           /\ \A c \in Closers :
                 /\ Stale(p)[c].stage = closer[c].stage /\ Stale(p)[c].pos = closer[c].pos
                 /\ Stale(p)[c].reason = closer[c].reason
                 /\ Stale(p)[c].valid => closer[c].valid
                 /\ Stale(p)[c] = IdleCloser <=> closer[c] = IdleCloser
                 /\ Stale(p)[c].stage = "read" /\ Stale(p)[c].valid => closer[c].pos # p
<1>. SUFFICES ASSUME NEW c \in Closers
     PROVE  /\ Stale(p)[c] \in CloserCalls
            /\ Stale(p)[c].stage = closer[c].stage /\ Stale(p)[c].pos = closer[c].pos
            /\ Stale(p)[c].reason = closer[c].reason
            /\ Stale(p)[c].valid => closer[c].valid
            /\ Stale(p)[c] = IdleCloser <=> closer[c] = IdleCloser
            /\ Stale(p)[c].stage = "read" /\ Stale(p)[c].valid => closer[c].pos # p
  BY DEF Stale
<1>1. closer[c] \in CloserCalls
  OBVIOUS
<1>2. CASE closer[c].stage = "read" /\ closer[c].pos = p
  <2>1. closer[c] # IdleCloser
    BY <1>2 DEF IdleCloser
  <2>2. closer[c] \in [stage : {"locked", "read", "committed", "failed"}, pos : Positions,
                       reason : Reason, valid : BOOLEAN]
    BY <1>1, <2>1 DEF CloserCalls
  <2>3. Stale(p)[c] = [closer[c] EXCEPT !.valid = FALSE]
    BY <1>2 DEF Stale
  <2>4. Stale(p)[c] \in [stage : {"locked", "read", "committed", "failed"}, pos : Positions,
                         reason : Reason, valid : BOOLEAN]
        /\ Stale(p)[c].stage = closer[c].stage /\ Stale(p)[c].pos = closer[c].pos
        /\ Stale(p)[c].reason = closer[c].reason
        /\ Stale(p)[c].valid = FALSE
    BY <2>2, <2>3
  <2>5. Stale(p)[c] # IdleCloser
    BY <2>4, <1>2 DEF IdleCloser
  <2>. QED BY <2>1, <2>4, <2>5 DEF CloserCalls
<1>3. CASE ~(closer[c].stage = "read" /\ closer[c].pos = p)
  <2>1. Stale(p)[c] = closer[c]
    BY <1>3 DEF Stale
  <2>. QED BY <1>1, <1>3, <2>1
<1>. QED BY <1>2, <1>3

-----------------------------------------------------------------------------
(* The steps *)

\* A call goes on, with the same position.
LEMMA CloserGoesOn ==
    ASSUME Book, NEW c \in Closers, Active(c), NEW k \in CloserCalls, k # IdleCloser,
           k.pos = closer[c].pos,
           k.stage = "read" /\ k.valid => row[k.pos].status = "OPEN",
           k.stage = "committed" => row[k.pos].status = "CLOSED",
           closer' = [closer EXCEPT ![c] = k],
           UNCHANGED <<row, registry, closing, opening, updater, quote, ticks, up, crashes>>
    PROVE  Book'
<1>1. TypeOK'
  BY DEF Book, TypeOK
<1>2. \A d \in Closers : closer'[d] = IF d = c THEN k ELSE closer[d]
  BY DEF Book, TypeOK
<1>3. \A d \in Closers : Active(d)' <=> Active(d)
  BY <1>2 DEF Active, IdleCloser
<1>4. \A d \in Closers : closer'[d].pos = closer[d].pos
  BY <1>2
<1>5. ClosersKnow'
  BY <1>2, <1>3, <1>4 DEF Book, ClosersKnow
<1>6. Locks'
  BY <1>3, <1>4 DEF Book, Locks
<1>7. NamesOpened' /\ OpenIsWatched'
  BY DEF Book, NamesOpened, OpenIsWatched
<1>. QED BY <1>1, <1>5, <1>6, <1>7 DEF Book

LEMMA ReadOrFail ==
    ASSUME Book, NEW c \in Closers, readForClose(c) \/ failClose(c)
    PROVE  Book'
<1>1. closer[c] \in CloserCalls /\ Active(c)
  BY DEF Book, TypeOK, Active, readForClose, failClose, IdleCloser
<1>2. closer[c] \in [stage : {"locked", "read", "committed", "failed"}, pos : Positions,
                     reason : Reason, valid : BOOLEAN]
  BY <1>1 DEF CloserCalls, Active
<1>3. PICK stage \in {"read", "failed"} :
         /\ closer' = [closer EXCEPT ![c].stage = stage]
         /\ stage = "read" => row[closer[c].pos].status = "OPEN"
  BY DEF readForClose, failClose
<1>. DEFINE k == [closer[c] EXCEPT !.stage = stage]
<1>4. k \in [stage : {"locked", "read", "committed", "failed"}, pos : Positions,
             reason : Reason, valid : BOOLEAN]
      /\ k.pos = closer[c].pos /\ k.stage = stage
  BY <1>2
<1>5. k \in CloserCalls /\ k # IdleCloser
  BY <1>4 DEF CloserCalls, IdleCloser
<1>6. closer' = [closer EXCEPT ![c] = k]
  BY <1>3 DEF Book, TypeOK
<1>7. UNCHANGED <<row, registry, closing, opening, updater, quote, ticks, up, crashes>>
  BY DEF readForClose, failClose
<1>8. /\ k.stage = "read" /\ k.valid => row[k.pos].status = "OPEN"
      /\ k.stage = "committed" => row[k.pos].status = "CLOSED"
  BY <1>3, <1>4
<1>. QED
  <2>. HIDE DEF k
  <2>. QED BY <1>1, <1>4, <1>5, <1>6, <1>7, <1>8, CloserGoesOn

\* Calls that begin take the locks of positions that had none.
LEMMA ClosersBegin ==
    ASSUME Book, NEW new, closer' \in [Closers -> CloserCalls],
           new = {c \in Closers : closer'[c] # closer[c]},
           \A c \in new : /\ ~Active(c) /\ closer'[c].stage = "locked"
                          /\ closer'[c].pos \notin closing /\ row[closer'[c].pos] # NoRow,
           \A c, d \in new : closer'[c].pos = closer'[d].pos => c = d,
           closing' = closing \cup {closer'[c].pos : c \in new},
           ticks' \in Seq(Prices),
           UNCHANGED <<row, registry, opening, updater, quote, up, crashes>>
    PROVE  Book'
<1>1. \A c \in Closers : /\ Active(c)' <=> Active(c) \/ c \in new
                         /\ c \notin new => closer'[c] = closer[c]
  BY CloserFields DEF Active, IdleCloser
<1>2. \A c \in new : c \in Closers /\ closer'[c].pos \in Positions
  BY CloserFields DEF Active, IdleCloser
<1>3. TypeOK'
  BY <1>2 DEF Book, TypeOK
<1>4. ClosersKnow'
  BY <1>1 DEF Book, ClosersKnow
<1>5. Locks'
  <2>1. \A c \in Closers : Active(c)' => closer'[c].pos \in closing'
    BY <1>1 DEF Book, Locks
  <2>2. \A p \in closing' : \E c \in Closers : Active(c)' /\ closer'[c].pos = p
    BY <1>1, <1>2 DEF Book, Locks
  <2>3. ASSUME NEW c \in Closers, NEW d \in Closers, Active(c)', Active(d)',
               closer'[c].pos = closer'[d].pos
        PROVE  c = d
    BY <1>1, <2>3 DEF Book, Locks
  <2>. QED BY <2>1, <2>2, <2>3 DEF Locks, Active
<1>6. NamesOpened' /\ OpenIsWatched'
  BY DEF Book, NamesOpened, OpenIsWatched
<1>. QED BY <1>3, <1>4, <1>5, <1>6 DEF Book

LEMMA RequestClose ==
    ASSUME Book, NEW c \in Closers, NEW p \in Positions, NEW reason \in {"USER", "ADMIN_FORCE"},
           requestClose(c, p, reason)
    PROVE  Book'
<1>. DEFINE k == [stage |-> "locked", pos |-> p, reason |-> reason, valid |-> TRUE]
<1>1. k \in CloserCalls /\ k # IdleCloser /\ k.stage = "locked" /\ k.pos = p
  BY MakeCloser DEF Reason, IdleCloser
<1>2. /\ closer[c] = IdleCloser /\ p \notin closing /\ row[p] # NoRow
      /\ closing' = closing \cup {p} /\ closer' = [closer EXCEPT ![c] = k]
      /\ UNCHANGED <<row, registry, opening, updater, quote, ticks, up, crashes>>
  BY DEF requestClose, StartClose
<1>. HIDE DEF k
<1>3. closer' \in [Closers -> CloserCalls] /\ closer'[c] = k
  BY <1>1, <1>2 DEF Book, TypeOK
<1>4. {c} = {d \in Closers : closer'[d] # closer[d]}
  BY <1>1, <1>2 DEF Book, TypeOK
<1>5. closing' = closing \cup {closer'[d].pos : d \in {c}}
  BY <1>1, <1>2, <1>3
<1>6. ticks' \in Seq(Prices)
  BY <1>2 DEF Book, TypeOK
<1>. QED BY <1>1, <1>2, <1>3, <1>4, <1>5, <1>6, ClosersBegin DEF Active

LEMMA ProcessTick ==
    ASSUME Book, processTick
    PROVE  Book'
<1>. DEFINE x == Head(ticks)
            due == Triggered(x) \ closing
            Start(p) == [stage |-> "locked", pos |-> p,
                         reason |-> checkSlTp(p, registry[p], x), valid |-> TRUE]
<1>1. PICK call \in [due -> {c \in Closers : closer[c] = IdleCloser}] :
         /\ \A p, q \in due : call[p] = call[q] => p = q
         /\ closer' = [c \in Closers |-> IF \E p \in due : call[p] = c
                                          THEN Start(CHOOSE p \in due : call[p] = c)
                                          ELSE closer[c]]
  BY DEF processTick
<1>2. /\ ticks # <<>> /\ ticks' = Tail(ticks) /\ closing' = closing \cup due
      /\ UNCHANGED <<row, registry, opening, updater, quote, up, crashes>>
  BY DEF processTick
<1>3. \A p \in due : /\ p \in Positions /\ p \notin closing /\ row[p] # NoRow
                     /\ checkSlTp(p, registry[p], x) \in Reason
  BY DEF Book, NamesOpened, Triggered, checkSlTp, Reason
<1>4. \A p \in due : Start(p) \in CloserCalls /\ Start(p) # IdleCloser
                     /\ Start(p).stage = "locked" /\ Start(p).pos = p
  BY <1>3, MakeCloser DEF IdleCloser
<1>. HIDE DEF due, Start
<1>5. \A p \in due : call[p] \in Closers /\ closer[call[p]] = IdleCloser
  OBVIOUS
<1>6. \A p \in due : closer'[call[p]] = Start(p)
  <2>. TAKE p \in due
  <2>1. (CHOOSE q \in due : call[q] = call[p]) = p
    BY <1>1
  <2>. QED BY <1>1, <1>5, <2>1
<1>7. \A c \in Closers : (\E p \in due : call[p] = c) \/ closer'[c] = closer[c]
  BY <1>1
<1>. DEFINE new == {c \in Closers : closer'[c] # closer[c]}
<1>8. \A c : c \in new <=> \E p \in due : c = call[p]
  BY <1>4, <1>5, <1>6, <1>7
<1>9. closer' \in [Closers -> CloserCalls]
  <2>1. \A c \in Closers : closer'[c] \in CloserCalls
    BY <1>4, <1>6, <1>7 DEF Book, TypeOK
  <2>2. closer' = [c \in Closers |-> closer'[c]]
    BY <1>1
  <2>. QED BY <2>1, <2>2
<1>10. \A c \in new : /\ ~Active(c) /\ closer'[c].stage = "locked"
                      /\ closer'[c].pos \notin closing /\ row[closer'[c].pos] # NoRow
  BY <1>3, <1>4, <1>5, <1>6, <1>8 DEF Active
<1>11. \A c, d \in new : closer'[c].pos = closer'[d].pos => c = d
  BY <1>4, <1>6, <1>8
<1>12. closing' = closing \cup {closer'[c].pos : c \in new}
  <2>1. due = {closer'[c].pos : c \in new}
    BY <1>4, <1>6, <1>8
  <2>. QED BY <1>2, <2>1
<1>13. ticks' \in Seq(Prices)
  BY <1>2 DEF Book, TypeOK
<1>. QED
  <2>. HIDE DEF new
  <2>1. new = {c \in Closers : closer'[c] # closer[c]}
    BY DEF new
  <2>. QED BY <1>2, <1>9, <1>10, <1>11, <1>12, <1>13, <2>1, ClosersBegin

LEMMA CommitClose ==
    ASSUME Book, NEW c \in Closers, commitClose(c)
    PROVE  Book' /\ ClosedOnce
<1>. DEFINE p == closer[c].pos
            r == [status |-> "CLOSED", stop |-> row[p].stop, take |-> row[p].take,
                  reason |-> closer[c].reason]
            k == [Stale(p)[c] EXCEPT !.stage = "committed"]
<1>1. /\ closer[c].stage = "read" /\ closer[c].valid /\ row' = [row EXCEPT ![p] = r]
      /\ closer' = [Stale(p) EXCEPT ![c].stage = "committed"]
      /\ UNCHANGED <<registry, closing, opening, updater, quote, ticks, up, crashes>>
  BY DEF commitClose
<1>2. closer[c] \in CloserCalls /\ Active(c)
  BY <1>1 DEF Book, TypeOK, Active, IdleCloser
<1>3. p \in Positions /\ closer[c].reason \in Reason
  BY <1>2, CloserFields DEF Active
<1>4. row[p].status = "OPEN"
  BY <1>1, <1>2 DEF Book, ClosersKnow
<1>5. r \in Rows /\ r # NoRow /\ r.status = "CLOSED"
  BY <1>3, RowFields, MakeRow DEF Book, TypeOK, NoRow
<1>6. /\ Stale(p) \in [Closers -> CloserCalls]
      /\ \A d \in Closers :
            /\ Stale(p)[d].stage = closer[d].stage /\ Stale(p)[d].pos = closer[d].pos
            /\ Stale(p)[d].valid => closer[d].valid
            /\ Stale(p)[d] = IdleCloser <=> closer[d] = IdleCloser
            /\ Stale(p)[d].stage = "read" /\ Stale(p)[d].valid => closer[d].pos # p
  BY <1>3, StaleFields DEF Book, TypeOK
<1>7. k \in CloserCalls /\ k # IdleCloser /\ k.stage = "committed" /\ k.pos = p
  <2>1. Stale(p)[c] \in [stage : {"locked", "read", "committed", "failed"}, pos : Positions,
                         reason : Reason, valid : BOOLEAN]
    BY <1>2, <1>6 DEF CloserCalls, Active
  <2>2. k \in [stage : {"locked", "read", "committed", "failed"}, pos : Positions,
               reason : Reason, valid : BOOLEAN]
        /\ k.stage = "committed" /\ k.pos = Stale(p)[c].pos
    BY <2>1
  <2>. QED BY <1>6, <2>2 DEF CloserCalls, IdleCloser
<1>8. closer' = [Stale(p) EXCEPT ![c] = k]
  BY <1>1, <1>6
<1>. HIDE DEF k, r, p
<1>9. /\ closer' \in [Closers -> CloserCalls] /\ closer'[c] = k
      /\ \A d \in Closers \ {c} : closer'[d] = Stale(p)[d]
  BY <1>6, <1>7, <1>8
<1>10. \A d \in Closers : /\ Active(d)' <=> Active(d)
                          /\ closer'[d].pos = closer[d].pos
  BY <1>2, <1>6, <1>7, <1>9 DEF Active, p
<1>11. row'[p] = r /\ \A q \in Positions \ {p} : row'[q] = row[q]
  BY <1>1, <1>3 DEF Book, TypeOK
<1>12. TypeOK'
  BY <1>1, <1>3, <1>5, <1>9 DEF Book, TypeOK
<1>13. ClosersKnow'
  <2>. SUFFICES ASSUME NEW d \in Closers, Active(d)'
       PROVE  /\ row'[closer'[d].pos] # NoRow
              /\ closer'[d].stage = "read" /\ closer'[d].valid => row'[closer'[d].pos].status = "OPEN"
              /\ closer'[d].stage = "committed" => row'[closer'[d].pos].status = "CLOSED"
    BY DEF ClosersKnow, Active
  <2>1. Active(d) /\ closer'[d].pos = closer[d].pos /\ closer[d].pos \in Positions
    BY <1>10, CloserFields DEF Book, TypeOK, Active
  <2>2. CASE d = c
    BY <2>2, <1>5, <1>7, <1>9, <1>11
  <2>3. CASE d # c
    <3>1. closer'[d] = Stale(p)[d]
      BY <1>9, <2>3
    <3>. QED BY <2>1, <3>1, <1>5, <1>6, <1>11 DEF Book, ClosersKnow
  <2>. QED BY <2>2, <2>3
<1>14. Locks'
  BY <1>1, <1>10 DEF Book, Locks
<1>15. NamesOpened'
  <2>1. \A q \in Positions : row[q] # NoRow => row'[q] # NoRow
    BY <1>5, <1>11
  <2>2. \A u \in Updaters : updater[u] # IdleUpdater => updater[u].pos \in Positions
    BY UpdaterFields DEF Book, TypeOK
  <2>. QED BY <1>1, <2>1, <2>2 DEF Book, NamesOpened
<1>16. OpenIsWatched'
  BY <1>1, <1>5, <1>11 DEF Book, OpenIsWatched
<1>17. ClosedOnce
  BY <1>4, <1>11 DEF ClosedOnce
<1>. QED BY <1>12, <1>13, <1>14, <1>15, <1>16, <1>17 DEF Book

LEMMA FinishClose ==
    ASSUME Book, NEW c \in Closers, finishClose(c)
    PROVE  Book'
<1>. DEFINE p == closer[c].pos
<1>1. /\ closer[c].stage \in {"committed", "failed"}
      /\ registry' = IF closer[c].stage = "committed" THEN [registry EXCEPT ![p] = NoEntry]
                     ELSE registry
      /\ closing' = closing \ {p} /\ closer' = [closer EXCEPT ![c] = IdleCloser]
      /\ UNCHANGED <<row, opening, updater, quote, ticks, up, crashes>>
  BY DEF finishClose
<1>2. Active(c) /\ p \in Positions
  BY <1>1, CloserFields DEF Book, TypeOK, Active, IdleCloser
<1>3. /\ closer' \in [Closers -> CloserCalls] /\ closer'[c] = IdleCloser
      /\ \A d \in Closers \ {c} : closer'[d] = closer[d]
  BY <1>1 DEF Book, TypeOK, CloserCalls
<1>4. \A d \in Closers : Active(d)' <=> Active(d) /\ d # c
  BY <1>3 DEF Active, IdleCloser
<1>5. /\ \A q \in Positions \ {p} : registry'[q] = registry[q]
      /\ registry'[p] # registry[p] => registry'[p] = NoEntry /\ row[p].status = "CLOSED"
  BY <1>1, <1>2 DEF Book, TypeOK, ClosersKnow
<1>6. TypeOK'
  <2>1. registry' \in [Positions -> Entries]
    BY <1>1, <1>2 DEF Book, TypeOK, Entries
  <2>. QED BY <1>1, <1>3, <2>1 DEF Book, TypeOK
<1>7. ClosersKnow'
  BY <1>1, <1>3, <1>4 DEF Book, ClosersKnow
<1>8. Locks'
  BY <1>1, <1>2, <1>3, <1>4 DEF Book, Locks
<1>9. NamesOpened'
  BY <1>1, <1>5 DEF Book, NamesOpened
<1>10. OpenIsWatched'
  BY <1>1, <1>5 DEF Book, OpenIsWatched
<1>. QED BY <1>6, <1>7, <1>8, <1>9, <1>10 DEF Book

LEMMA CommitOpen ==
    ASSUME Book, NEW p \in Positions, NEW s \in Level, NEW t \in Level, commitOpen(p, s, t)
    PROVE  Book' /\ ClosedOnce
<1>. DEFINE r == [status |-> "OPEN", stop |-> s, take |-> t, reason |-> "NONE"]
<1>1. /\ up /\ row[p] = NoRow /\ row' = [row EXCEPT ![p] = r]
      /\ opening' = [opening EXCEPT ![p] = Entry(row'[p], "symbol")]
      /\ UNCHANGED <<registry, closing, closer, updater, quote, ticks, up, crashes>>
  BY DEF commitOpen
<1>2. r \in Rows /\ r # NoRow /\ r.stop \in Level /\ r.take \in Level
  BY MakeRow DEF NoRow
<1>. HIDE DEF r
<1>3. row' \in [Positions -> Rows] /\ row'[p] = r
      /\ \A q \in Positions \ {p} : row'[q] = row[q]
  BY <1>1, <1>2 DEF Book, TypeOK
<1>4. Entry(r, "symbol") \in Entries /\ Entry(r, "symbol") # NoEntry
  BY <1>2, MakeEntry
<1>5. /\ opening' \in [Positions -> Entries] /\ opening'[p] # NoEntry
      /\ \A q \in Positions \ {p} : opening'[q] = opening[q]
  BY <1>1, <1>3, <1>4 DEF Book, TypeOK
<1>6. TypeOK'
  BY <1>1, <1>3, <1>5 DEF Book, TypeOK
<1>7. \A q \in Positions : row[q] # NoRow => q # p /\ row'[q] = row[q]
  BY <1>1, <1>3
<1>8. ClosersKnow'
  <2>1. \A c \in Closers : Active(c) => closer[c].pos \in Positions
    BY CloserFields DEF Book, TypeOK, Active
  <2>. QED BY <1>1, <1>7, <2>1 DEF Book, ClosersKnow, Active
<1>9. NamesOpened'
  <2>1. \A u \in Updaters : updater[u] # IdleUpdater => updater[u].pos \in Positions
    BY UpdaterFields DEF Book, TypeOK
  <2>. QED BY <1>1, <1>2, <1>3, <1>5, <1>7, <2>1 DEF Book, NamesOpened
<1>10. Locks' /\ OpenIsWatched'
  <2>1. OpenIsWatched'
    BY <1>1, <1>3, <1>5 DEF Book, OpenIsWatched
  <2>. QED BY <1>1, <2>1 DEF Book, Locks, Active
<1>11. ClosedOnce
  BY <1>7, RowFields DEF Book, TypeOK, ClosedOnce
<1>. QED BY <1>6, <1>8, <1>9, <1>10, <1>11 DEF Book

LEMMA AddEntry ==
    ASSUME Book, NEW p \in Positions, add(p)
    PROVE  Book'
<1>1. /\ opening[p] # NoEntry /\ registry' = [registry EXCEPT ![p] = opening[p]]
      /\ opening' = [opening EXCEPT ![p] = NoEntry]
      /\ UNCHANGED <<row, closing, closer, updater, quote, ticks, up, crashes>>
  BY DEF add
<1>2. /\ registry' \in [Positions -> Entries] /\ registry'[p] = opening[p]
      /\ opening' \in [Positions -> Entries] /\ opening'[p] = NoEntry
      /\ \A q \in Positions \ {p} : registry'[q] = registry[q] /\ opening'[q] = opening[q]
  BY <1>1 DEF Book, TypeOK, Entries
<1>3. TypeOK'
  BY <1>1, <1>2 DEF Book, TypeOK
<1>4. ClosersKnow' /\ Locks'
  BY <1>1 DEF Book, ClosersKnow, Locks, Active
<1>5. NamesOpened'
  BY <1>1, <1>2 DEF Book, NamesOpened
<1>6. OpenIsWatched'
  BY <1>1, <1>2 DEF Book, OpenIsWatched
<1>. QED BY <1>3, <1>4, <1>5, <1>6 DEF Book

LEMMA WriteUpdate ==
    ASSUME Book, NEW u \in Updaters, writeUpdate(u)
    PROVE  Book' /\ ClosedOnce
<1>. DEFINE p == updater[u].pos
<1>1. PICK s \in Levels \cup {NoLevel, row[p].stop}, t \in Levels \cup {NoLevel, row[p].take} :
         /\ row' = [row EXCEPT ![p] = [status |-> row[p].status, stop |-> s, take |-> t,
                                       reason |-> row[p].reason]]
         /\ updater' = [updater EXCEPT ![u] = [stage |-> "written", pos |-> p,
                                               stop |-> s, take |-> t]]
  BY DEF writeUpdate
<1>2. /\ updater[u].stage = "checked" /\ closer' = Stale(p)
      /\ UNCHANGED <<registry, closing, opening, quote, ticks, up, crashes>>
  BY DEF writeUpdate
<1>. DEFINE r == [status |-> row[p].status, stop |-> s, take |-> t, reason |-> row[p].reason]
            k == [stage |-> "written", pos |-> p, stop |-> s, take |-> t]
<1>3. p \in Positions /\ row[p] # NoRow
  BY <1>2, UpdaterFields DEF Book, TypeOK, NamesOpened
<1>4. s \in Level /\ t \in Level
  BY <1>3, RowFields DEF Book, TypeOK, Level
<1>5. r \in Rows /\ r # NoRow /\ r.status = row[p].status /\ r.reason = row[p].reason
  <2>1. row[p].status \in {"OPEN", "CLOSED"} /\ (row[p].status = "OPEN" => row[p].reason = "NONE")
        /\ (row[p].status = "CLOSED" => row[p].reason \in Reason)
    BY <1>3, RowFields DEF Book, TypeOK
  <2>2. r.status # "NONE"
    BY <2>1
  <2>. QED BY <1>4, <2>1, <2>2, MakeRow DEF NoRow
<1>6. k \in UpdaterCalls /\ k.pos = p
  BY <1>3, <1>4 DEF UpdaterCalls
<1>. HIDE DEF r, k, p
<1>7. row' \in [Positions -> Rows] /\ row'[p] = r
      /\ \A q \in Positions \ {p} : row'[q] = row[q]
  BY <1>1, <1>3, <1>5 DEF Book, TypeOK, r
<1>8. updater' \in [Updaters -> UpdaterCalls] /\ updater'[u] = k
      /\ \A v \in Updaters \ {u} : updater'[v] = updater[v]
  BY <1>1, <1>6 DEF Book, TypeOK, k
<1>9. /\ closer' \in [Closers -> CloserCalls]
      /\ \A d \in Closers :
            /\ closer'[d].stage = closer[d].stage /\ closer'[d].pos = closer[d].pos
            /\ closer'[d].valid => closer[d].valid
            /\ Active(d)' <=> Active(d)
  <2>1. /\ Stale(p) \in [Closers -> CloserCalls]
        /\ \A d \in Closers :
              /\ Stale(p)[d].stage = closer[d].stage /\ Stale(p)[d].pos = closer[d].pos
              /\ Stale(p)[d].valid => closer[d].valid
              /\ Stale(p)[d] = IdleCloser <=> closer[d] = IdleCloser
    BY <1>3, StaleFields DEF Book, TypeOK
  <2>2. closer' = Stale(p)
    BY <1>2 DEF p
  <2>3. \A d \in Closers : Active(d)' <=> closer'[d] # IdleCloser
    BY DEF Active, IdleCloser
  <2>. QED BY <2>1, <2>2, <2>3 DEF Active
<1>10. TypeOK'
  BY <1>2, <1>7, <1>8, <1>9 DEF Book, TypeOK
<1>11. \A q \in Positions : /\ row'[q].status = row[q].status /\ row'[q].reason = row[q].reason
                            /\ row[q] # NoRow => row'[q] # NoRow
  BY <1>5, <1>7
<1>12. ClosersKnow'
  <2>1. \A c \in Closers : Active(c) => closer[c].pos \in Positions
    BY CloserFields DEF Book, TypeOK, Active
  <2>. QED BY <1>9, <1>11, <2>1 DEF Book, ClosersKnow
<1>13. Locks'
  BY <1>2, <1>9 DEF Book, Locks
<1>14. NamesOpened'
  <2>1. \A v \in Updaters : updater[v] # IdleUpdater => updater[v].pos \in Positions
    BY UpdaterFields DEF Book, TypeOK
  <2>2. \A v \in Updaters : updater'[v] # IdleUpdater => row'[updater'[v].pos] # NoRow
    BY <1>3, <1>6, <1>8, <1>11, <2>1 DEF Book, NamesOpened
  <2>. QED BY <1>2, <1>11, <2>2 DEF Book, NamesOpened, IdleUpdater
<1>15. OpenIsWatched' /\ ClosedOnce
  BY <1>2, <1>11 DEF Book, OpenIsWatched, ClosedOnce
<1>. QED BY <1>10, <1>12, <1>13, <1>14, <1>15 DEF Book

\* The other steps of updateSlTp, with the entry the registry has afterwards.
LEMMA UpdaterGoesOn ==
    ASSUME Book, NEW u \in Updaters, NEW k \in UpdaterCalls,
           k # IdleUpdater => row[k.pos] # NoRow,
           updater' = [updater EXCEPT ![u] = k],
           registry' \in [Positions -> Entries],
           \A p \in Positions : registry'[p] = NoEntry <=> registry[p] = NoEntry,
           UNCHANGED <<row, closing, opening, closer, quote, ticks, up, crashes>>
    PROVE  Book'
<1>1. TypeOK'
  BY DEF Book, TypeOK
<1>2. updater'[u] = k /\ \A v \in Updaters \ {u} : updater'[v] = updater[v]
  BY DEF Book, TypeOK
<1>3. NamesOpened'
  BY <1>2 DEF Book, NamesOpened, IdleUpdater
<1>4. ClosersKnow' /\ Locks'
  BY DEF Book, ClosersKnow, Locks, Active
<1>5. OpenIsWatched'
  BY DEF Book, OpenIsWatched
<1>. QED BY <1>1, <1>3, <1>4, <1>5 DEF Book

LEMMA UpdateSlTp ==
    ASSUME Book, NEW u \in Updaters,
           (\E p \in Positions : readForUpdate(u, p)) \/ mirrorUpdate(u) \/ failUpdate(u)
    PROVE  Book'
<1>1. CASE \E p \in Positions : readForUpdate(u, p)
  <2>1. PICK p \in Positions : readForUpdate(u, p)
    BY <1>1
  <2>. DEFINE k == [stage |-> "checked", pos |-> p, stop |-> NoLevel, take |-> NoLevel]
  <2>2. k \in UpdaterCalls /\ row[k.pos] # NoRow
    BY <2>1 DEF readForUpdate, UpdaterCalls, Level, NoRow
  <2>3. updater' = [updater EXCEPT ![u] = k]
        /\ UNCHANGED <<row, registry, closing, opening, closer, quote, ticks, up, crashes>>
    BY <2>1 DEF readForUpdate
  <2>4. registry' \in [Positions -> Entries]
    BY <2>3 DEF Book, TypeOK
  <2>. HIDE DEF k
  <2>. QED BY <2>2, <2>3, <2>4, UpdaterGoesOn
<1>2. CASE failUpdate(u)
  <2>1. IdleUpdater \in UpdaterCalls /\ registry' \in [Positions -> Entries]
    BY <1>2 DEF failUpdate, UpdaterCalls, Book, TypeOK
  <2>. QED BY <1>2, <2>1, UpdaterGoesOn DEF failUpdate
<1>3. CASE mirrorUpdate(u)
  <2>. DEFINE p == updater[u].pos
              e == Entry(updater[u], registry[p].contractSize)
  <2>1. /\ updater[u].stage = "written" /\ updater' = [updater EXCEPT ![u] = IdleUpdater]
        /\ registry' = IF registry[p] = NoEntry THEN registry ELSE [registry EXCEPT ![p] = e]
        /\ UNCHANGED <<row, closing, opening, closer, quote, ticks, up, crashes>>
    BY <1>3 DEF mirrorUpdate
  <2>2. p \in Positions /\ updater[u].stop \in Level /\ updater[u].take \in Level
    BY <2>1, UpdaterFields DEF Book, TypeOK
  <2>3. registry[p] # NoEntry => e \in Entries /\ e # NoEntry
    BY <2>2, EntryFields, MakeEntry DEF Book, TypeOK
  <2>. HIDE DEF e, p
  <2>4. registry' \in [Positions -> Entries]
    BY <2>1, <2>2, <2>3 DEF Book, TypeOK
  <2>5. \A q \in Positions : registry'[q] = NoEntry <=> registry[q] = NoEntry
    BY <2>1, <2>2, <2>3 DEF Book, TypeOK
  <2>6. IdleUpdater \in UpdaterCalls
    BY DEF UpdaterCalls
  <2>. QED BY <2>1, <2>4, <2>5, <2>6, UpdaterGoesOn
<1>. QED BY <1>1, <1>2, <1>3

LEMMA Crash ==
    ASSUME Book, crash
    PROVE  Book'
<1>1. /\ registry' = [p \in Positions |-> NoEntry] /\ opening' = [p \in Positions |-> NoEntry]
      /\ closing' = {} /\ ticks' = <<>> /\ ~up' /\ up' \in BOOLEAN
      /\ closer' = [c \in Closers |-> IdleCloser] /\ updater' = [u \in Updaters |-> IdleUpdater]
      /\ crashes' \in 0 .. MaxCrashes /\ UNCHANGED <<row, quote>>
  <2>1. crashes \in 0 .. MaxCrashes /\ crashes < MaxCrashes /\ crashes' = crashes + 1
    BY DEF crash, Book, TypeOK
  <2>2. crashes' \in 0 .. MaxCrashes
    BY <2>1, BoundsAssumption
  <2>3. up' = FALSE
    BY DEF crash
  <2>. QED BY <2>2, <2>3 DEF crash
<1>2. TypeOK'
  BY <1>1 DEF Book, TypeOK, Entries, CloserCalls, UpdaterCalls
<1>3. \A c \in Closers : ~Active(c)'
  BY <1>1 DEF Active, IdleCloser
<1>4. ClosersKnow' /\ Locks'
  BY <1>1, <1>3 DEF ClosersKnow, Locks
<1>5. NamesOpened' /\ OpenIsWatched'
  BY <1>1 DEF NamesOpened, OpenIsWatched, IdleUpdater, NoEntry
<1>. QED BY <1>2, <1>4, <1>5 DEF Book

LEMMA Boot ==
    ASSUME Book, onModuleInit
    PROVE  Book'
<1>1. /\ up' = TRUE /\ quote' = StartPrice
      /\ registry' = [p \in Positions |->
                        IF row[p].status = "OPEN" THEN Entry(row[p], "1") ELSE NoEntry]
      /\ UNCHANGED <<row, closing, opening, closer, updater, ticks, crashes>>
  BY DEF onModuleInit
<1>2. \A p \in Positions : Entry(row[p], "1") \in Entries /\ Entry(row[p], "1") # NoEntry
  BY RowFields, MakeEntry DEF Book, TypeOK
<1>3. registry' \in [Positions -> Entries]
  BY <1>1, <1>2 DEF Entries
<1>4. TypeOK'
  BY <1>1, <1>3, PricesAssumption DEF Book, TypeOK
<1>5. ClosersKnow' /\ Locks'
  BY <1>1 DEF Book, ClosersKnow, Locks, Active
<1>6. NamesOpened'
  <2>1. \A p \in Positions : row[p].status = "OPEN" => row[p] # NoRow
    BY DEF NoRow
  <2>. QED BY <1>1, <2>1 DEF Book, NamesOpened
<1>7. OpenIsWatched'
  BY <1>1, <1>2 DEF OpenIsWatched
<1>. QED BY <1>4, <1>5, <1>6, <1>7 DEF Book

LEMMA TicksComeAndGo ==
    ASSUME Book, (\E x \in Prices : publishTick(x)) \/ ticksLost
    PROVE  Book'
<1>1. UNCHANGED <<row, registry, closing, opening, closer, updater, up, crashes>>
  BY DEF publishTick, ticksLost
<1>2. quote' \in Prices /\ ticks' \in Seq(Prices)
  <2>1. ASSUME NEW x \in Prices, publishTick(x) PROVE quote' \in Prices /\ ticks' \in Seq(Prices)
    BY <2>1 DEF publishTick, Book, TypeOK
  <2>2. CASE ticksLost
    BY <2>2 DEF ticksLost, Book, TypeOK
  <2>. QED  BY <2>1, <2>2
<1>3. TypeOK'
  BY <1>1, <1>2 DEF Book, TypeOK
<1>. QED
  BY <1>1, <1>3 DEF Book, ClosersKnow, NamesOpened, Locks, OpenIsWatched, Active

-----------------------------------------------------------------------------
(* The theorems *)

LEMMA BookInit == Init => Book
<1>. SUFFICES ASSUME Init PROVE Book
  OBVIOUS
<1>1. TypeOK
  BY PricesAssumption, BoundsAssumption
  DEF Init, TypeOK, Rows, Entries, CloserCalls, UpdaterCalls
<1>2. \A c \in Closers : ~Active(c)
  BY DEF Init, Active
<1>3. ClosersKnow /\ Locks
  BY <1>2 DEF Init, ClosersKnow, Locks
<1>4. NamesOpened /\ OpenIsWatched
  BY DEF Init, NamesOpened, OpenIsWatched, NoRow
<1>. QED BY <1>1, <1>3, <1>4 DEF Book

LEMMA BookNext == Book /\ [Next]_vars => Book' /\ ClosedOnce
<1>. SUFFICES ASSUME Book, [Next]_vars PROVE Book' /\ ClosedOnce
  OBVIOUS
<1>1. CASE \E p \in Positions, s, t \in Levels \cup {NoLevel} : commitOpen(p, s, t)
  BY <1>1, CommitOpen DEF Level
<1>2. CASE \E c \in Closers : commitClose(c)
  BY <1>2, CommitClose
<1>3. CASE \E u \in Updaters : writeUpdate(u)
  BY <1>3, WriteUpdate
<1>4. ASSUME UNCHANGED row PROVE ClosedOnce
  BY <1>4 DEF ClosedOnce
<1>5. CASE \E p \in Positions : add(p)
  BY <1>4, <1>5, AddEntry DEF add
<1>6. CASE \E c \in Closers, p \in Positions, reason \in {"USER", "ADMIN_FORCE"} :
              requestClose(c, p, reason)
  BY <1>4, <1>6, RequestClose DEF requestClose
<1>7. CASE \E c \in Closers : readForClose(c) \/ failClose(c)
  BY <1>4, <1>7, ReadOrFail DEF readForClose, failClose
<1>8. CASE \E c \in Closers : finishClose(c)
  BY <1>4, <1>8, FinishClose DEF finishClose
<1>9. CASE \E u \in Updaters : \/ \E p \in Positions : readForUpdate(u, p)
                               \/ mirrorUpdate(u) \/ failUpdate(u)
  BY <1>4, <1>9, UpdateSlTp DEF readForUpdate, mirrorUpdate, failUpdate
<1>10. CASE (\E x \in Prices : publishTick(x)) \/ ticksLost
  BY <1>4, <1>10, TicksComeAndGo DEF publishTick, ticksLost
<1>11. CASE processTick
  BY <1>4, <1>11, ProcessTick DEF processTick
<1>12. CASE crash
  BY <1>4, <1>12, Crash DEF crash
<1>13. CASE onModuleInit
  BY <1>4, <1>13, Boot DEF onModuleInit
<1>14. CASE UNCHANGED vars
  <2>1. Book'
    BY <1>14 DEF vars, Book, TypeOK, ClosersKnow, NamesOpened, Locks, OpenIsWatched, Active
  <2>. QED BY <1>4, <1>14, <2>1 DEF vars
<1>. QED
  BY <1>1, <1>2, <1>3, <1>5, <1>6, <1>7, <1>8, <1>9, <1>10, <1>11, <1>12, <1>13, <1>14
  DEF Next, closeSteps

\* The invariant behind the others: what the calls, the copy and the locks know of
\* the rows is true.
THEOREM BookInvariant == Spec => []Book
<1>. QED BY BookInit, BookNext, PTL DEF Spec

\* Every variable keeps its type, whatever the handlers, the engine and crashes do.
THEOREM BookTypes == Spec => []TypeOK
<1>1. Book => TypeOK
  BY DEF Book
<1>. QED BY <1>1, BookInvariant, PTL

\* The lock that tryLockForClose takes is held by the one call that closes the
\* position, and by nobody once that call has ended.
THEOREM LocksAreHeld == Spec => []LockHeldByItsCloser
<1>1. Book => LockHeldByItsCloser
  BY DEF Book, TypeOK, Locks, LockHeldByItsCloser
<1>. QED BY <1>1, BookInvariant, PTL

\* The engine watches every open position of the table that has been added, in
\* every interleaving of closes, failures, changes of levels and restarts.
THEOREM OpenPositionsAreWatched == Spec => []OpenIsWatched
<1>1. Book => OpenIsWatched
  BY DEF Book
<1>. QED BY <1>1, BookInvariant, PTL

\* A closed position stays closed for the reason it was closed for, although user,
\* admin and engine may close it at once.
THEOREM ClosesAreFinal == Spec => CloseIsFinal
<1>1. Book /\ [Next]_vars => [ClosedOnce]_vars
  BY BookNext
<1>. QED BY <1>1, BookInvariant, PTL DEF Spec, CloseIsFinal

-----------------------------------------------------------------------------
(* PositionBook implements AtomicBook *)

\* A process that is down has no calls and nothing to add.
DownIsIdle ==
    up \/ /\ \A c \in Closers : ~Active(c)
          /\ \A u \in Updaters : updater[u] = IdleUpdater
          /\ \A p \in Positions : opening[p] = NoEntry

LEMMA DownStep ==
    ASSUME DownIsIdle, [Next]_vars
    PROVE  DownIsIdle'
<1>1. CASE up' = TRUE
  BY <1>1 DEF DownIsIdle
<1>2. CASE crash
  BY <1>2 DEF crash, DownIsIdle, Active, IdleCloser
<1>3. CASE UNCHANGED <<closer, updater, opening, up>>
  BY <1>3 DEF DownIsIdle, Active
<1>4. CASE ticksLost
  BY <1>3, <1>4 DEF ticksLost
<1>5. ASSUME NEW c \in Closers, closeSteps(c) PROVE UNCHANGED up /\ up
  BY <1>5 DEF closeSteps, readForClose, commitClose, failClose, finishClose, DownIsIdle, Active,
              IdleCloser
<1>6. ASSUME NEW u \in Updaters, writeUpdate(u) \/ mirrorUpdate(u) \/ failUpdate(u)
      PROVE  UNCHANGED up /\ up
  BY <1>6 DEF writeUpdate, mirrorUpdate, failUpdate, DownIsIdle, IdleUpdater
<1>7. ASSUME NEW p \in Positions, add(p) PROVE UNCHANGED up /\ up
  BY <1>7 DEF add, DownIsIdle
<1>8. ASSUME \/ \E p \in Positions, s, t \in Levels \cup {NoLevel} : commitOpen(p, s, t)
             \/ \E c \in Closers, p \in Positions, reason \in {"USER", "ADMIN_FORCE"} :
                   requestClose(c, p, reason)
             \/ \E u \in Updaters, p \in Positions : readForUpdate(u, p)
             \/ (\E x \in Prices : publishTick(x)) \/ processTick
      PROVE  UNCHANGED up /\ up
  BY <1>8 DEF commitOpen, requestClose, readForUpdate, publishTick, processTick
<1>9. ASSUME UNCHANGED up, up PROVE DownIsIdle'
  BY <1>9 DEF DownIsIdle
<1>10. CASE onModuleInit
  BY <1>1, <1>10 DEF onModuleInit
<1>. QED
  BY <1>2, <1>3, <1>4, <1>5, <1>6, <1>7, <1>8, <1>9, <1>10 DEF Next, vars

\* The variables of AtomicBook.
Status == [p \in Positions |-> row[p].status]
Why == [p \in Positions |-> row[p].reason]
Lock == [p \in Positions |-> IF p \in closing THEN closer[Holder(p)].reason ELSE "NONE"]
Watched == {p \in Positions : registry[p] # NoEntry}
Adding == {p \in Positions : opening[p] # NoEntry}

\* A lock has the reason of the call that holds it.
LocksTell ==
    /\ \A c \in Closers : Active(c) => /\ closer[c].pos \in Positions /\ closer[c].reason \in Reason
                                       /\ Lock[closer[c].pos] = closer[c].reason
    /\ \A p \in Positions : p \in closing => \E c \in Closers : Active(c) /\ closer[c].pos = p
    /\ \A p \in Positions : Lock[p] = "NONE" <=> p \notin closing

LEMMA LocksDoTell == Book => LocksTell
<1>. SUFFICES ASSUME Book PROVE LocksTell
  OBVIOUS
<1>1. ASSUME NEW c \in Closers, Active(c)
      PROVE  /\ closer[c].pos \in Positions /\ closer[c].reason \in Reason
             /\ Lock[closer[c].pos] = closer[c].reason
  <2>1. closer[c].pos \in Positions /\ closer[c].reason \in Reason /\ closer[c].pos \in closing
    BY <1>1, CloserFields DEF Book, TypeOK, Locks, Active
  <2>2. \A d \in Closers : Active(d) /\ closer[d].pos = closer[c].pos <=> d = c
    BY <1>1 DEF Book, Locks
  <2>3. Holder(closer[c].pos) = c
    BY <2>2 DEF Holder
  <2>. QED  BY <2>1, <2>3 DEF Lock
<1>2. \A p \in Positions : p \in closing => \E c \in Closers : Active(c) /\ closer[c].pos = p
  BY DEF Book, Locks
<1>3. \A p \in Positions : Lock[p] = "NONE" <=> p \notin closing
  <2>1. "NONE" \notin Reason
    BY DEF Reason
  <2>2. \A p \in Positions : p \in closing => Lock[p] \in Reason
    BY <1>1, <1>2
  <2>3. \A p \in Positions : p \notin closing => Lock[p] = "NONE"
    BY DEF Lock
  <2>. QED  BY <2>1, <2>2, <2>3
<1>. QED  BY <1>1, <1>2, <1>3 DEF LocksTell

LEMMA LocksTellNext == Book' => LocksTell'
BY LocksDoTell, PTL

\* A step of which AtomicBook sees nothing.
LEMMA Unseen ==
    ASSUME UNCHANGED <<Status, Why, Lock, Watched, Adding, up>>
    PROVE  UNCHANGED Atomic!vars
BY DEF Atomic!vars, Status, Why, Lock, Watched, Adding

\* Calls that go on, but do not begin or end, leave every lock as it is.
LEMMA LockStays ==
    ASSUME LocksTell, LocksTell', UNCHANGED closing,
           \A c \in Closers : Active(c) => /\ Active(c)' /\ closer'[c].pos = closer[c].pos
                                           /\ closer'[c].reason = closer[c].reason
    PROVE  UNCHANGED Lock
<1>1. ASSUME NEW p \in Positions PROVE Lock'[p] = Lock[p]
  <2>1. CASE p \in closing
    <3>1. PICK c \in Closers : Active(c) /\ closer[c].pos = p
      BY <2>1 DEF LocksTell
    <3>. QED  BY <3>1 DEF LocksTell
  <2>2. CASE p \notin closing
    <3>1. Lock[p] = "NONE" /\ Lock'[p] = "NONE"
      BY <2>2 DEF LocksTell
    <3>. QED  BY <3>1
  <2>. QED  BY <2>1, <2>2
<1>. QED  BY <1>1 DEF Lock

LEMMA OpenIsAtomic ==
    ASSUME Book, NEW p \in Positions, NEW s, NEW t, commitOpen(p, s, t)
    PROVE  Atomic!Open(p)
<1>1. /\ up /\ row[p] = NoRow
      /\ row' = [row EXCEPT ![p] = [status |-> "OPEN", stop |-> s, take |-> t, reason |-> "NONE"]]
      /\ opening' = [opening EXCEPT ![p] = Entry(row'[p], "symbol")]
      /\ UNCHANGED <<registry, closing, closer, up>>
  BY DEF commitOpen
<1>2. Status[p] = "NONE" /\ Why[p] = "NONE"
  BY <1>1 DEF Status, Why, NoRow
<1>3. Status' = [Status EXCEPT ![p] = "OPEN"] /\ Why' = Why
  BY <1>1, <1>2 DEF Status, Why, Book, TypeOK
<1>4. Entry(row'[p], "symbol") # NoEntry
  BY DEF Entry, NoEntry
<1>5. Adding' = Adding \cup {p}
  BY <1>1, <1>4 DEF Adding, Book, TypeOK
<1>6. UNCHANGED <<Lock, Watched, up>>
  BY <1>1 DEF Lock, Holder, Active, Watched
<1>. QED  BY <1>1, <1>2, <1>3, <1>5, <1>6
          DEF Atomic!Open, Atomic!Opened, Status, Why, Lock, Watched, Adding

LEMMA AddIsAtomic ==
    ASSUME Book, DownIsIdle, NEW p \in Positions, add(p)
    PROVE  Atomic!Watch(p)
<1>1. /\ opening[p] # NoEntry /\ registry' = [registry EXCEPT ![p] = opening[p]]
      /\ opening' = [opening EXCEPT ![p] = NoEntry]
      /\ UNCHANGED <<row, closing, closer, up>> /\ up
  BY DEF add, DownIsIdle
<1>2. Watched' = Watched \cup {p} /\ Adding' = Adding \ {p} /\ p \in Adding
  BY <1>1 DEF Watched, Adding, Book, TypeOK
<1>3. UNCHANGED <<Status, Why, Lock, up>>
  BY <1>1 DEF Status, Why, Lock, Holder, Active
<1>. QED  BY <1>1, <1>2, <1>3 DEF Atomic!Watch, Status, Why, Lock, Watched, Adding

LEMMA RequestIsAtomic ==
    ASSUME Book, LocksTell, LocksTell', NEW c \in Closers, NEW p \in Positions, NEW reason \in Reason,
           requestClose(c, p, reason)
    PROVE  Atomic!Request(p, reason)
<1>. DEFINE k == [stage |-> "locked", pos |-> p, reason |-> reason, valid |-> TRUE]
<1>1. /\ up /\ closer[c] = IdleCloser /\ p \notin closing /\ row[p] # NoRow
      /\ closing' = closing \cup {p} /\ closer' = [closer EXCEPT ![c] = k]
      /\ UNCHANGED <<row, registry, opening, up>>
  BY DEF requestClose, StartClose
<1>2. closer'[c] = k /\ \A d \in Closers \ {c} : closer'[d] = closer[d]
  BY <1>1 DEF Book, TypeOK
<1>3. /\ Active(c)' /\ closer'[c].pos = p /\ closer'[c].reason = reason
      /\ \A d \in Closers : Active(d) => d # c
  <2>1. k # IdleCloser
    BY DEF IdleCloser
  <2>2. IdleCloser' = IdleCloser
    BY DEF IdleCloser
  <2>. QED  BY <1>1, <1>2, <2>1, <2>2 DEF Active
<1>4. Lock'[p] = reason
  BY <1>3 DEF LocksTell
<1>5. ASSUME NEW q \in Positions, q # p PROVE Lock'[q] = Lock[q]
  <2>1. CASE q \in closing
    <3>1. PICK d \in Closers : Active(d) /\ closer[d].pos = q
      BY <2>1 DEF LocksTell
    <3>2. Active(d)' /\ closer'[d] = closer[d]
      BY <1>2, <1>3, <3>1 DEF Active, IdleCloser
    <3>. QED  BY <3>1, <3>2 DEF LocksTell
  <2>2. CASE q \notin closing
    <3>1. Lock[q] = "NONE" /\ Lock'[q] = "NONE"
      BY <1>1, <1>5, <2>2 DEF LocksTell
    <3>. QED  BY <3>1
  <2>. QED  BY <2>1, <2>2
<1>6. Lock' = [Lock EXCEPT ![p] = reason]
  BY <1>4, <1>5 DEF Lock
<1>7. Status[p] # "NONE" /\ Lock[p] = "NONE"
  BY <1>1, RowFields DEF Status, Book, TypeOK, LocksTell
<1>8. UNCHANGED <<Status, Why, Watched, Adding, up>>
  BY <1>1 DEF Status, Why, Watched, Adding
<1>. QED  BY <1>1, <1>6, <1>7, <1>8
          DEF Atomic!Request, Atomic!Opened, Atomic!Free, Status, Why, Lock, Watched, Adding

LEMMA TickIsAtomic ==
    ASSUME Book, LocksTell, LocksTell', processTick
    PROVE  Atomic!Next
<1>. DEFINE x == Head(ticks)
            due == Triggered(x) \ closing
            why == [p \in due |-> checkSlTp(p, registry[p], x)]
            Start(p) == [stage |-> "locked", pos |-> p,
                         reason |-> checkSlTp(p, registry[p], x), valid |-> TRUE]
<1>1. PICK call \in [due -> {c \in Closers : closer[c] = IdleCloser}] :
         /\ \A p, q \in due : call[p] = call[q] => p = q
         /\ closer' = [c \in Closers |-> IF \E p \in due : call[p] = c
                                          THEN Start(CHOOSE p \in due : call[p] = c)
                                          ELSE closer[c]]
  BY DEF processTick
<1>2. up /\ closing' = closing \cup due /\ UNCHANGED <<row, registry, opening, up>>
  BY DEF processTick
<1>3. \A p \in due : /\ p \in Watched /\ p \in Positions /\ p \notin closing
                     /\ checkSlTp(p, registry[p], x) \in {"STOP_LOSS", "TAKE_PROFIT"}
  BY DEF Triggered, Watched, checkSlTp
<1>4. \A p \in due : Start(p).pos = p /\ Start(p).reason = why[p] /\ Start(p) # IdleCloser
  BY DEF IdleCloser
<1>. HIDE DEF due, why, Start
<1>5. \A p \in due : call[p] \in Closers /\ ~Active(call[p]) /\ closer'[call[p]] = Start(p)
  <2>. TAKE p \in due
  <2>1. (CHOOSE q \in due : call[q] = call[p]) = p
    BY <1>1
  <2>. QED  BY <1>1, <2>1 DEF Active
<1>6. \A c \in Closers : Active(c) => closer'[c] = closer[c]
  BY <1>1, <1>5
<1>7. IdleCloser' = IdleCloser
  BY DEF IdleCloser
<1>8. \A p \in due : Lock'[p] = why[p]
  <2>. TAKE p \in due
  <2>1. Active(call[p])' /\ closer'[call[p]].pos = p /\ closer'[call[p]].reason = why[p]
    BY <1>4, <1>5, <1>7 DEF Active
  <2>. QED  BY <1>5, <2>1 DEF LocksTell
<1>9. ASSUME NEW p \in Positions, p \notin due PROVE Lock'[p] = Lock[p]
  <2>1. CASE p \in closing
    <3>1. PICK c \in Closers : Active(c) /\ closer[c].pos = p
      BY <2>1 DEF LocksTell
    <3>2. Active(c)' /\ closer'[c] = closer[c]
      BY <1>6, <1>7, <3>1 DEF Active
    <3>. QED  BY <3>1, <3>2 DEF LocksTell
  <2>2. CASE p \notin closing
    <3>1. Lock[p] = "NONE" /\ Lock'[p] = "NONE"
      BY <1>2, <1>9, <2>2 DEF LocksTell
    <3>. QED  BY <3>1
  <2>. QED  BY <2>1, <2>2
<1>10. /\ DOMAIN why = due /\ due \in SUBSET Watched
       /\ why \in [due -> {"STOP_LOSS", "TAKE_PROFIT"}]
  BY <1>3 DEF why
<1>11. Lock' = [p \in Positions |-> IF p \in DOMAIN why THEN why[p] ELSE Lock[p]]
  BY <1>8, <1>9, <1>10 DEF Lock
<1>12. due \subseteq {p \in Positions : Lock[p] = "NONE"}
  BY <1>3 DEF LocksTell
<1>13. UNCHANGED <<Status, Why, Watched, Adding, up>>
  BY <1>2 DEF Status, Why, Watched, Adding
<1>14. PICK some, chosen : some = due /\ chosen = why
  OBVIOUS
<1>15. /\ DOMAIN chosen = some /\ some \in SUBSET Watched
       /\ chosen \in [some -> {"STOP_LOSS", "TAKE_PROFIT"}]
  BY <1>10, <1>14
<1>16. Atomic!Trigger(chosen)
  BY <1>2, <1>11, <1>12, <1>13, <1>14, <1>15
     DEF Atomic!Trigger, Atomic!Free, Status, Why, Lock, Watched, Adding
<1>. QED  BY <1>15, <1>16 DEF Atomic!Next, Watched

LEMMA CloseIsAtomic ==
    ASSUME Book, DownIsIdle, LocksTell, LocksTell', NEW c \in Closers, commitClose(c)
    PROVE  closer[c].pos \in Positions /\ Atomic!Close(closer[c].pos)
<1>. DEFINE p == closer[c].pos
            r == [status |-> "CLOSED", stop |-> row[p].stop, take |-> row[p].take,
                  reason |-> closer[c].reason]
<1>1. /\ closer[c].stage = "read" /\ closer[c].valid
      /\ row' = [row EXCEPT ![p] = r]
      /\ closer' = [Stale(p) EXCEPT ![c].stage = "committed"]
      /\ UNCHANGED <<registry, closing, opening, up>>
  BY DEF commitClose
<1>2. Active(c) /\ up
  BY <1>1 DEF Active, IdleCloser, DownIsIdle
<1>3. p \in Positions /\ Lock[p] = closer[c].reason /\ closer[c].reason \in Reason
  BY <1>2 DEF LocksTell
<1>4. row[p].status = "OPEN"
  BY <1>1, <1>2 DEF Book, ClosersKnow
<1>5. \A d \in Closers : Active(d) => /\ Active(d)' /\ closer'[d].pos = closer[d].pos
                                      /\ closer'[d].reason = closer[d].reason
  <2>1. /\ Stale(p) \in [Closers -> CloserCalls]
        /\ \A d \in Closers : /\ Stale(p)[d].pos = closer[d].pos
                              /\ Stale(p)[d].reason = closer[d].reason
                              /\ Stale(p)[d] = IdleCloser <=> closer[d] = IdleCloser
    BY <1>3, StaleFields DEF Book, TypeOK
  <2>2. Stale(p)[c] \in [stage : {"locked", "read", "committed", "failed"}, pos : Positions,
                         reason : Reason, valid : BOOLEAN]
    BY <1>2, <2>1 DEF CloserCalls, Active
  <2>3. closer'[c].stage = "committed" /\ closer'[c].pos = p /\ closer'[c].reason = closer[c].reason
    BY <1>1, <2>1, <2>2
  <2>4. \A d \in Closers \ {c} : closer'[d] = Stale(p)[d]
    BY <1>1, <2>1
  <2>5. closer'[c] # IdleCloser /\ IdleCloser' = IdleCloser
    BY <2>3 DEF IdleCloser
  <2>. QED  BY <2>1, <2>3, <2>4, <2>5 DEF Active
<1>6. UNCHANGED Lock
  BY <1>1, <1>5, LockStays
<1>7. r.status = "CLOSED" /\ r.reason = Lock[p]
  BY <1>3
<1>. HIDE DEF r, p
<1>8. Status' = [Status EXCEPT ![p] = "CLOSED"] /\ Why' = [Why EXCEPT ![p] = Lock[p]]
  BY <1>1, <1>3, <1>7 DEF Status, Why, Book, TypeOK
<1>9. UNCHANGED <<Watched, Adding, up>>
  BY <1>1 DEF Watched, Adding
<1>10. Status[p] = "OPEN" /\ Lock[p] # "NONE"
  BY <1>3, <1>4 DEF Status, Reason
<1>11. Atomic!Close(p)
  BY <1>2, <1>3, <1>6, <1>8, <1>9, <1>10
     DEF Atomic!Close, Atomic!Free, Status, Why, Lock, Watched, Adding
<1>. QED  BY <1>3, <1>11 DEF p

LEMMA FinishIsAtomic ==
    ASSUME Book, DownIsIdle, LocksTell, LocksTell', NEW c \in Closers, finishClose(c)
    PROVE  closer[c].pos \in Positions /\ Atomic!Release(closer[c].pos)
<1>. DEFINE p == closer[c].pos
<1>1. /\ closer[c].stage \in {"committed", "failed"}
      /\ registry' = IF closer[c].stage = "committed" THEN [registry EXCEPT ![p] = NoEntry]
                     ELSE registry
      /\ closing' = closing \ {p} /\ closer' = [closer EXCEPT ![c] = IdleCloser]
      /\ UNCHANGED <<row, opening, up>>
  BY DEF finishClose
<1>2. Active(c) /\ up
  BY <1>1 DEF Active, IdleCloser, DownIsIdle
<1>3. p \in Positions /\ Lock[p] = closer[c].reason /\ closer[c].reason \in Reason
  BY <1>2 DEF LocksTell
<1>4. Lock'[p] = "NONE"
  BY <1>1, <1>3 DEF LocksTell
<1>5. ASSUME NEW q \in Positions, q # p PROVE Lock'[q] = Lock[q]
  <2>1. CASE q \in closing
    <3>1. PICK d \in Closers : Active(d) /\ closer[d].pos = q
      BY <2>1 DEF LocksTell
    <3>2. d # c /\ closer'[d] = closer[d] /\ IdleCloser' = IdleCloser
      BY <1>1, <1>5, <3>1 DEF Book, TypeOK, IdleCloser
    <3>3. Active(d)'
      BY <3>1, <3>2 DEF Active
    <3>. QED  BY <3>1, <3>2, <3>3 DEF LocksTell
  <2>2. CASE q \notin closing
    <3>1. Lock[q] = "NONE" /\ Lock'[q] = "NONE"
      BY <1>1, <1>5, <2>2 DEF LocksTell
    <3>. QED  BY <3>1
  <2>. QED  BY <2>1, <2>2
<1>6. Lock' = [Lock EXCEPT ![p] = "NONE"]
  BY <1>4, <1>5 DEF Lock
<1>7. Watched' = Watched \/ (Status[p] = "CLOSED" /\ Watched' = Watched \ {p})
  <2>1. CASE closer[c].stage = "committed"
    <3>1. row[p].status = "CLOSED"
      BY <1>2, <2>1 DEF Book, ClosersKnow
    <3>. QED  BY <1>1, <1>3, <2>1, <3>1 DEF Watched, Status, Book, TypeOK
  <2>2. CASE closer[c].stage = "failed"
    BY <1>1, <2>2 DEF Watched
  <2>. QED  BY <1>1, <2>1, <2>2
<1>8. UNCHANGED <<Status, Why, Adding, up>>
  BY <1>1 DEF Status, Why, Adding
<1>9. Lock[p] # "NONE"
  BY <1>3 DEF Reason
<1>. HIDE DEF p
<1>10. Atomic!Release(p)
  BY <1>2, <1>3, <1>6, <1>7, <1>8, <1>9
     DEF Atomic!Release, Atomic!Free, Status, Why, Lock, Watched, Adding
<1>. QED  BY <1>3, <1>10 DEF p

LEMMA ProcessIsAtomic ==
    ASSUME Book, crash \/ onModuleInit
    PROVE  Atomic!Crash \/ Atomic!Restart
<1>1. CASE crash
  <2>1. up /\ up' = FALSE /\ Lock' = [p \in Positions |-> "NONE"] /\ Watched' = {} /\ Adding' = {}
    BY <1>1 DEF crash, Lock, Watched, Adding, NoEntry
  <2>2. UNCHANGED <<Status, Why>>
    BY <1>1 DEF crash, Status, Why
  <2>. QED  BY <2>1, <2>2 DEF Atomic!Crash, Status, Why, Lock, Watched, Adding
<1>2. CASE onModuleInit
  <2>1. \A p \in Positions : Entry(row[p], "1") # NoEntry
    BY DEF Entry, NoEntry
  <2>2. ~up /\ up' = TRUE /\ Watched' = {p \in Positions : Status[p] = "OPEN"}
    BY <1>2, <2>1 DEF onModuleInit, Watched, Status
  <2>3. UNCHANGED <<Status, Why, Lock, Adding>>
    BY <1>2 DEF onModuleInit, Status, Why, Lock, Holder, Active, Adding
  <2>. QED  BY <2>2, <2>3 DEF Atomic!Restart, Status, Why, Lock, Watched, Adding
<1>. QED  BY <1>1, <1>2

\* The rest of the steps are seen by nobody: reads, failures, changes of levels,
\* ticks that are published.
LEMMA CallsUnseen ==
    ASSUME Book, LocksTell, LocksTell', NEW c \in Closers, readForClose(c) \/ failClose(c)
    PROVE  UNCHANGED Atomic!vars
<1>1. Active(c) /\ UNCHANGED <<row, registry, closing, opening, up>>
  BY DEF readForClose, failClose, Active, IdleCloser
<1>2. closer[c] \in [stage : {"locked", "read", "committed", "failed"}, pos : Positions,
                     reason : Reason, valid : BOOLEAN]
  BY <1>1 DEF Active, Book, TypeOK, CloserCalls
<1>3. PICK stage \in {"read", "failed"} : closer' = [closer EXCEPT ![c].stage = stage]
  BY DEF readForClose, failClose
<1>4. /\ closer'[c].pos = closer[c].pos /\ closer'[c].reason = closer[c].reason
      /\ closer'[c].stage = stage /\ \A d \in Closers \ {c} : closer'[d] = closer[d]
  BY <1>2, <1>3 DEF Book, TypeOK
<1>5. closer'[c] # IdleCloser /\ IdleCloser' = IdleCloser
  BY <1>4 DEF IdleCloser
<1>6. \A d \in Closers : Active(d) => /\ Active(d)' /\ closer'[d].pos = closer[d].pos
                                      /\ closer'[d].reason = closer[d].reason
  BY <1>4, <1>5 DEF Active
<1>7. UNCHANGED Lock
  BY <1>1, <1>6, LockStays
<1>. QED  BY <1>1, <1>7, Unseen DEF Status, Why, Watched, Adding

LEMMA UpdatesUnseen ==
    ASSUME Book, LocksTell, LocksTell', NEW u \in Updaters,
           \/ \E p \in Positions : readForUpdate(u, p)
           \/ writeUpdate(u) \/ mirrorUpdate(u) \/ failUpdate(u)
    PROVE  UNCHANGED Atomic!vars
<1>1. CASE (\E p \in Positions : readForUpdate(u, p)) \/ failUpdate(u)
  <2>1. UNCHANGED <<row, registry, closing, opening, closer, up>>
    BY <1>1 DEF readForUpdate, failUpdate
  <2>. QED  BY <2>1, Unseen DEF Status, Why, Lock, Holder, Active, Watched, Adding
<1>2. CASE mirrorUpdate(u)
  <2>. DEFINE p == updater[u].pos
              e == Entry(updater[u], registry[p].contractSize)
  <2>1. /\ updater[u].stage = "written"
        /\ registry' = IF registry[p] = NoEntry THEN registry ELSE [registry EXCEPT ![p] = e]
        /\ UNCHANGED <<row, closing, opening, closer, up>>
    BY <1>2 DEF mirrorUpdate
  <2>2. p \in Positions /\ updater[u].stop \in Level /\ updater[u].take \in Level
    BY <2>1, UpdaterFields DEF Book, TypeOK
  <2>3. registry[p] # NoEntry => e # NoEntry
    BY <2>2, EntryFields, MakeEntry DEF Book, TypeOK
  <2>. HIDE DEF e, p
  <2>4. Watched' = Watched
    BY <2>1, <2>2, <2>3 DEF Watched, Book, TypeOK
  <2>. QED  BY <2>1, <2>4, Unseen DEF Status, Why, Lock, Holder, Active, Adding
<1>3. CASE writeUpdate(u)
  <2>. DEFINE p == updater[u].pos
  <2>1. PICK s, t : row' = [row EXCEPT ![p] = [status |-> row[p].status, stop |-> s, take |-> t,
                                               reason |-> row[p].reason]]
    BY <1>3 DEF writeUpdate
  <2>2. updater[u].stage = "checked" /\ closer' = Stale(p) /\ UNCHANGED <<registry, closing, opening, up>>
    BY <1>3 DEF writeUpdate
  <2>3. p \in Positions
    BY <2>2, UpdaterFields DEF Book, TypeOK
  <2>. HIDE DEF p
  <2>4. Status' = Status /\ Why' = Why
    BY <2>1, <2>3 DEF Status, Why, Book, TypeOK
  <2>5. \A d \in Closers : /\ Stale(p)[d].pos = closer[d].pos
                           /\ Stale(p)[d].reason = closer[d].reason
                           /\ Stale(p)[d] = IdleCloser <=> closer[d] = IdleCloser
    BY <2>3, StaleFields DEF Book, TypeOK
  <2>6. IdleCloser' = IdleCloser
    BY DEF IdleCloser
  <2>7. \A d \in Closers : Active(d) => /\ Active(d)' /\ closer'[d].pos = closer[d].pos
                                        /\ closer'[d].reason = closer[d].reason
    BY <2>2, <2>5, <2>6 DEF Active
  <2>8. UNCHANGED Lock
    BY <2>2, <2>7, LockStays
  <2>. QED  BY <2>2, <2>4, <2>8, Unseen DEF Watched, Adding
<1>. QED  BY <1>1, <1>2, <1>3

LEMMA AtomicStep ==
    ASSUME Book, Book', DownIsIdle, [Next]_vars
    PROVE  [Atomic!Next]_(Atomic!vars)
<1>. USE LocksDoTell, LocksTellNext
<1>1. CASE \E p \in Positions, s, t \in Levels \cup {NoLevel} : commitOpen(p, s, t)
  BY <1>1, OpenIsAtomic DEF Atomic!Next
<1>2. CASE \E p \in Positions : add(p)
  BY <1>2, AddIsAtomic DEF Atomic!Next
<1>3. ASSUME NEW c \in Closers, NEW p \in Positions, NEW why \in {"USER", "ADMIN_FORCE"},
             requestClose(c, p, why)
      PROVE  Atomic!Next
  <2>1. why \in Reason
    BY DEF Reason
  <2>. QED  BY <1>3, <2>1, RequestIsAtomic DEF Atomic!Next
<1>4. ASSUME NEW c \in Closers, closeSteps(c) PROVE [Atomic!Next]_(Atomic!vars)
  <2>1. CASE commitClose(c)
    <3>1. \E p \in Positions : Atomic!Close(p)
      BY <2>1, CloseIsAtomic DEF Atomic!Close
    <3>. QED  BY <3>1 DEF Atomic!Next
  <2>2. CASE finishClose(c)
    <3>1. \E p \in Positions : Atomic!Release(p)
      BY <2>2, FinishIsAtomic DEF Atomic!Release
    <3>. QED  BY <3>1 DEF Atomic!Next
  <2>3. CASE readForClose(c) \/ failClose(c)
    BY <2>3, CallsUnseen
  <2>. QED  BY <1>4, <2>1, <2>2, <2>3 DEF closeSteps
<1>5. ASSUME NEW u \in Updaters, \/ \E p \in Positions : readForUpdate(u, p)
                                 \/ writeUpdate(u) \/ mirrorUpdate(u) \/ failUpdate(u)
      PROVE  UNCHANGED Atomic!vars
  BY <1>5, UpdatesUnseen
<1>6. CASE (\E x \in Prices : publishTick(x)) \/ ticksLost \/ UNCHANGED vars
  <2>1. UNCHANGED <<row, registry, closing, opening, closer, up>>
    BY <1>6 DEF publishTick, ticksLost, vars
  <2>. QED  BY <2>1, Unseen DEF Status, Why, Lock, Holder, Active, Watched, Adding
<1>7. CASE processTick
  BY <1>7, TickIsAtomic
<1>8. CASE crash \/ onModuleInit
  BY <1>8, ProcessIsAtomic DEF Atomic!Next
<1>. QED  BY <1>1, <1>2, <1>3, <1>4, <1>5, <1>6, <1>7, <1>8 DEF Next

\* The calls of closeInternal, openPosition and updateSlTp, with the engine and the
\* crashes between their awaits, implement AtomicBook: nobody closes a row without
\* its lock, or for another reason than the lock was taken for, and the engine
\* closes nothing that it does not watch.
THEOREM BookIsAtomic == Spec => ActsAtomically
<1>1. Init => Atomic!Init /\ DownIsIdle
  BY DEF Init, Atomic!Init, DownIsIdle, NoRow
<1>2. Book /\ DownIsIdle /\ [Next]_vars => (Book /\ DownIsIdle)' /\ [Atomic!Next]_(Atomic!vars)
  BY BookNext, DownStep, AtomicStep
<1>. QED  BY <1>1, <1>2, BookInit, PTL DEF Spec, ActsAtomically, Atomic!Spec
=============================================================================
