------------------------------- MODULE AtomicBook -------------------------------
(***************************************************************************)
(* What the book of open positions promises, with no calls in it that wait *)
(* for the database: a position is closed once, by whoever has its lock    *)
(* and for that reason, the engine closes what it watches and nothing      *)
(* else, and a position is watched from the moment its opening is          *)
(* completed until it is closed or the process ends.  A process that is    *)
(* down does nothing, and watches all open positions when it is back.      *)
(***************************************************************************)
CONSTANT Positions

VARIABLES
    status, reason, \* of each row
    lock,           \* the reason for which each position is being closed, or "NONE"
    watched,        \* positions the engine looks at
    adding,         \* positions opened and not watched yet
    running

vars == <<status, reason, lock, watched, adding, running>>

Opened == {p \in Positions : status[p] # "NONE"}
Free == {p \in Positions : lock[p] = "NONE"}

Init ==
    /\ status = [p \in Positions |-> "NONE"] /\ reason = [p \in Positions |-> "NONE"]
    /\ lock = [p \in Positions |-> "NONE"]
    /\ watched = {} /\ adding = {} /\ running = TRUE

Open(p) ==
    /\ running /\ p \notin Opened
    /\ status' = [status EXCEPT ![p] = "OPEN"]
    /\ adding' = adding \cup {p}
    /\ UNCHANGED <<reason, lock, watched, running>>

\* It may have been closed meanwhile, and stays watched then.
Watch(p) ==
    /\ running /\ p \in adding
    /\ watched' = watched \cup {p} /\ adding' = adding \ {p}
    /\ UNCHANGED <<status, reason, lock, running>>

\* A user or an admin closes a position; it may be closed already.
Request(p, why) ==
    /\ running /\ p \in Opened \cap Free
    /\ lock' = [lock EXCEPT ![p] = why]
    /\ UNCHANGED <<status, reason, watched, adding, running>>

\* A tick: the engine closes some of the positions it watches.
Trigger(why) ==
    /\ running /\ DOMAIN why \subseteq watched \cap Free
    /\ lock' = [p \in Positions |-> IF p \in DOMAIN why THEN why[p] ELSE lock[p]]
    /\ UNCHANGED <<status, reason, watched, adding, running>>

Close(p) ==
    /\ running /\ p \notin Free /\ status[p] = "OPEN"
    /\ status' = [status EXCEPT ![p] = "CLOSED"]
    /\ reason' = [reason EXCEPT ![p] = lock[p]]
    /\ UNCHANGED <<lock, watched, adding, running>>

\* The call ends; only a position that is closed is watched no more.
Release(p) ==
    /\ running /\ p \notin Free
    /\ lock' = [lock EXCEPT ![p] = "NONE"]
    /\ watched' = watched \/ (status[p] = "CLOSED" /\ watched' = watched \ {p})
    /\ UNCHANGED <<status, reason, adding, running>>

Crash ==
    /\ running /\ running' = FALSE
    /\ lock' = [p \in Positions |-> "NONE"] /\ watched' = {} /\ adding' = {}
    /\ UNCHANGED <<status, reason>>

Restart ==
    /\ ~running /\ running' = TRUE
    /\ watched' = {p \in Positions : status[p] = "OPEN"}
    /\ UNCHANGED <<status, reason, lock, adding>>

Next ==
    \/ \E p \in Positions : Open(p) \/ Watch(p) \/ Close(p) \/ Release(p)
    \/ \E p \in Positions, why \in {"USER", "ADMIN_FORCE"} : Request(p, why)
    \/ \E due \in SUBSET watched : \E why \in [due -> {"STOP_LOSS", "TAKE_PROFIT"}] : Trigger(why)
    \/ Crash \/ Restart

Spec == Init /\ [][Next]_vars
=============================================================================
