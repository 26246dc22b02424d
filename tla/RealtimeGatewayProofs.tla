------------------------ MODULE RealtimeGatewayProofs ------------------------
(***************************************************************************)
(* The quote store and the gateway, for any number of quotes, browsers and *)
(* calls, of connections lost and of restarts.  The commands that Redis    *)
(* has not answered are a queue; what may be relied on is how their values *)
(* are ordered, among each other and against the ticks that subscribers    *)
(* have heard or are still to hear, the quote in Redis and that in memory. *)
(***************************************************************************)
EXTENDS RealtimeGateway, WellFoundedInduction, TLAPS

\* The SETs without a reply; the GETs of a quote that Redis has answered with one.
Sets(queue) == {i \in DOMAIN queue : queue[i].op = "SET"}
Answered(queue) ==
    {i \in DOMAIN queue : queue[i].op = "QUOTE" /\ queue[i].done /\ queue[i].value # Expired}

\* The ticks that have been announced, heard or still to be heard.
announced == {heard} \cup {inbox[i] : i \in DOMAIN inbox} \cup {pubs[i].value : i \in DOMAIN pubs}

\* Redis executes a queue from its front.
FromFront(queue) == \A i, j \in DOMAIN queue : i < j /\ queue[j].done => queue[i].done

\* How the commands without a reply, the ticks announced, the quote in Redis and
\* the quote in memory are ordered.
Ordered(queue, ticks, inRedis, inMemory) ==
    /\ FromFront(queue)
    /\ \A i, j \in Sets(queue) : i < j => queue[i].value < queue[j].value
    /\ \A i \in Sets(queue) : queue[i].value <= inMemory
    /\ \A i \in Sets(queue), q \in ticks : q <= queue[i].value
    /\ \A i \in Sets(queue) : queue[i].done => queue[i].value <= inRedis
    /\ \A i \in Sets(queue) : queue[i].done /\ queue[i].value = inMemory => inRedis = inMemory
    /\ \A i \in Answered(queue), q \in ticks : q <= queue[i].value
    /\ \A i \in Answered(queue), j \in Sets(queue) : j < i => queue[j].value <= queue[i].value
    /\ Sets(queue) # {} => \E i \in Sets(queue) : queue[i].value = inMemory
    /\ \A q \in ticks : q <= inMemory
    /\ inRedis # Expired => \A q \in ticks : q <= inRedis

Types ==
    /\ phase \in {"down", "seeding", "running", "failed"}
    /\ state \in Seed .. MaxQuotes /\ store \in Expired .. MaxQuotes
    /\ visible \in {0, 1}
    /\ commands \in Seq(Commands) /\ pubs \in Seq(Commands)
    /\ inbox \in Seq(1 .. MaxQuotes) /\ heard \in Seed .. MaxQuotes
    /\ dropped \subseteq Seed .. MaxQuotes
    /\ FromFront(pubs)
    /\ last \in 0 .. MaxQuotes /\ losses \in 0 .. MaxLosses /\ crashes \in 0 .. MaxCrashes

\* Of the phases: the seed is not announced, a restart begins with nothing.
Phases ==
    /\ state <= last
    /\ \A i \in Sets(commands) : /\ commands[i].value >= Seed
                                 /\ phase # "seeding" => commands[i].value >= 1
    /\ \A i \in DOMAIN pubs : pubs[i].value >= 1
    /\ phase = "down" => commands = <<>> /\ pubs = <<>> /\ inbox = <<>> /\ heard = Seed

Agrees ==
    phase = "running" /\ state \notin dropped /\ store # Expired /\ Sets(commands) = {}
    => store = state

StoreInv == Types /\ Phases /\ Agrees /\ Ordered(commands, announced, store, state)

Browsers ==
    /\ conn \in [Clients -> {"gone", "verifying", "reading", "live", "blind"}]
    /\ admins \subseteq market
    /\ newest \in [Clients -> Expired .. MaxQuotes]
    /\ ticked \in Expired .. MaxQuotes /\ throttled \in BOOLEAN
    /\ ticked <= heard
    /\ \A c \in Clients : conn[c] = "live" => newest[c] >= ticked

(***************************************************************************)
(* Queues                                                                  *)
(***************************************************************************)

LEMMA CommandTypes ==
    ASSUME NEW queue \in Seq(Commands), NEW i \in DOMAIN queue
    PROVE  /\ queue[i] \in Commands
           /\ queue[i].op \in {"SET", "QUOTE", "VISIBLE"}
           /\ queue[i].value \in Int /\ queue[i].done \in BOOLEAN
<1>1. queue[i] \in Commands
  OBVIOUS
<1>. QED  BY <1>1, BoundsAssumption DEF Commands, Expired

\* A set of naturals that is not empty has a least element.
LEMMA Least ==
    ASSUME NEW S, S \subseteq Nat, S # {}
    PROVE  Min(S) \in S /\ \A x \in S : Min(S) <= x
<1>. DEFINE R == OpToRel(<, Nat)
<1>1. \E x \in S : \A y \in S : ~(<<y, x>> \in R)
  <2>1. IsWellFoundedOn(R, Nat)
    BY NatLessThanWellFounded, Zenon
  <2>. HIDE DEF R
  <2>. QED  BY <2>1, WFMin, Zenon
<1>2. \A x, y \in Nat : y < x => <<y, x>> \in R
  BY Zenon DEF OpToRel
<1>3. \E x \in S : \A y \in S : ~(y < x)
  <2>. HIDE DEF R
  <2>. QED  BY <1>1, <1>2, Zenon
<1>4. PICK x \in S : \A y \in S : x <= y
  BY <1>3
<1>. QED  BY <1>4 DEF Min

\* NextOf is the first command that Redis has not executed.
LEMMA NextOfQueue ==
    ASSUME NEW queue \in Seq(Commands), NextOf(queue) # 0
    PROVE  LET i == NextOf(queue) IN
           i \in DOMAIN queue /\ ~queue[i].done /\ \A j \in DOMAIN queue : j < i => queue[j].done
<1>. DEFINE waiting == {i \in 1 .. Len(queue) : ~queue[i].done}
<1>1. NextOf(queue) = IF waiting # {} THEN Min(waiting) ELSE 0
  BY DEF NextOf, SelectInSeq
<1>2. waiting # {} /\ NextOf(queue) = Min(waiting)
  BY <1>1
<1>3. Min(waiting) \in waiting /\ \A j \in waiting : Min(waiting) <= j
  <2>1. waiting \subseteq Nat
    OBVIOUS
  <2>. HIDE DEF waiting
  <2>. QED  BY <1>2, <2>1, Least
<1>4. PICK first \in 1 .. Len(queue) :
          /\ first = NextOf(queue) /\ ~queue[first].done
          /\ \A j \in 1 .. Len(queue) : ~queue[j].done => first <= j
  BY <1>2, <1>3
<1>5. \A j \in DOMAIN queue : j < first => queue[j].done
  <2>. HIDE DEF waiting
  <2>. QED  BY <1>4
<1>. HIDE DEF waiting
<1>. QED  BY <1>4, <1>5

\* The operations on a queue, by index.
LEMMA Appending ==
    ASSUME NEW queue \in Seq(Commands), NEW c \in Commands
    PROVE  /\ Append(queue, c) \in Seq(Commands)
           /\ DOMAIN Append(queue, c) = DOMAIN queue \cup {Len(queue) + 1}
           /\ \A i \in DOMAIN queue : i \in Nat /\ i < Len(queue) + 1 /\ Append(queue, c)[i] = queue[i]
           /\ Append(queue, c)[Len(queue) + 1] = c
OBVIOUS

LEMMA Removing ==
    ASSUME NEW queue \in Seq(Commands), queue # <<>>
    PROVE  /\ Tail(queue) \in Seq(Commands) /\ Head(queue) = queue[1] /\ 1 \in DOMAIN queue
           /\ \A i \in DOMAIN Tail(queue) : /\ i \in Nat /\ i >= 1 /\ i + 1 \in DOMAIN queue
                                            /\ Tail(queue)[i] = queue[i + 1]
           /\ \A i \in DOMAIN queue : i # 1 => i - 1 \in DOMAIN Tail(queue)
OBVIOUS

LEMMA Resending ==
    ASSUME NEW queue \in Seq(Commands)
    PROVE  /\ Resend(queue) \in Seq(Commands)
           /\ DOMAIN Resend(queue) = DOMAIN queue
           /\ \A i \in DOMAIN queue : /\ ~Resend(queue)[i].done
                                      /\ Resend(queue)[i].op = queue[i].op
                                      /\ Resend(queue)[i].value = queue[i].value
<1>1. \A i \in DOMAIN queue :
          /\ queue[i] \in Commands
          /\ Resend(queue)[i] = [queue[i] EXCEPT !.done = FALSE]
  BY DEF Resend
<1>2. \A i \in DOMAIN queue :
          /\ Resend(queue)[i] \in Commands
          /\ ~Resend(queue)[i].done
          /\ Resend(queue)[i].op = queue[i].op
          /\ Resend(queue)[i].value = queue[i].value
  BY <1>1 DEF Commands
<1>3. DOMAIN Resend(queue) = 1 .. Len(queue) /\ DOMAIN queue = 1 .. Len(queue)
  BY DEF Resend
<1>4. Resend(queue) = [i \in 1 .. Len(queue) |-> Resend(queue)[i]]
  BY <1>3 DEF Resend
<1>. QED  BY <1>2, <1>3, <1>4

(***************************************************************************)
(* What keeps the order                                                    *)
(***************************************************************************)

\* Fewer ticks are easier.
LEMMA FewerTicks ==
    ASSUME NEW queue, NEW ticks, NEW fewer, NEW r, NEW m,
           Ordered(queue, ticks, r, m), fewer \subseteq ticks
    PROVE  Ordered(queue, fewer, r, m)
BY DEF Ordered

\* Nothing under way.
LEMMA NoCommands ==
    ASSUME NEW ticks, NEW r, NEW m,
           \A q \in ticks : q <= m, r # Expired => \A q \in ticks : q <= r
    PROVE  Ordered(<<>>, ticks, r, m)
BY DEF Ordered, FromFront, Sets, Answered

\* A GET is sent.
LEMMA GetAppended ==
    ASSUME NEW queue \in Seq(Commands), NEW ticks, NEW r, NEW m, NEW c \in Commands,
           Ordered(queue, ticks, r, m), c.op # "SET", ~c.done
    PROVE  Ordered(Append(queue, c), ticks, r, m)
<1>. DEFINE longer == Append(queue, c)
            n == Len(queue) + 1
<1>1. /\ DOMAIN longer = DOMAIN queue \cup {n} /\ longer[n] = c
      /\ \A i \in DOMAIN queue : i \in Nat /\ i < n /\ longer[i] = queue[i]
      /\ n \in Nat
  BY Appending
<1>2. Sets(longer) = Sets(queue) /\ Answered(longer) = Answered(queue)
  BY <1>1 DEF Sets, Answered
<1>3. /\ Sets(queue) \subseteq DOMAIN queue /\ Answered(queue) \subseteq DOMAIN queue
  BY DEF Sets, Answered
<1>4. FromFront(longer)
  BY <1>1 DEF Ordered, FromFront
<1>. SUFFICES Ordered(longer, ticks, r, m)
  OBVIOUS
<1>. HIDE DEF longer, n
<1>. QED  BY <1>1, <1>2, <1>3, <1>4 DEF Ordered

\* A SET of a quote newer than all is sent.
LEMMA SetAppended ==
    ASSUME NEW queue \in Seq(Commands), NEW ticks, ticks \subseteq Int, NEW r \in Int,
           NEW m \in Int, NEW q \in Int,
           Ordered(queue, ticks, r, m), m < q, Set(q) \in Commands
    PROVE  Ordered(Append(queue, Set(q)), ticks, r, q)
<1>. DEFINE longer == Append(queue, Set(q))
            n == Len(queue) + 1
<1>1. /\ DOMAIN longer = DOMAIN queue \cup {n} /\ longer[n] = Set(q)
      /\ \A i \in DOMAIN queue : i \in Nat /\ i < n /\ longer[i] = queue[i]
      /\ n \in Nat
  BY Appending
<1>2. Sets(longer) = Sets(queue) \cup {n} /\ Answered(longer) = Answered(queue)
  BY <1>1 DEF Sets, Answered, Set
<1>3. /\ \A i \in Sets(queue) : i \in DOMAIN queue /\ queue[i].value \in Int
      /\ Answered(queue) \subseteq DOMAIN queue
  BY CommandTypes DEF Sets, Answered
<1>4. FromFront(longer)
  BY <1>1 DEF Ordered, FromFront, Set
<1>5. longer[n].value = q /\ ~longer[n].done
  BY <1>1 DEF Set
<1>. SUFFICES Ordered(longer, ticks, r, q)
  OBVIOUS
<1>. HIDE DEF longer, n
<1>6. \A i, j \in Sets(longer) : i < j => longer[i].value < longer[j].value
  BY <1>1, <1>2, <1>3, <1>5 DEF Ordered
<1>7. \A i \in Sets(longer) : longer[i].value <= q
  BY <1>1, <1>2, <1>3, <1>5 DEF Ordered
<1>8. \A i \in Sets(longer), t \in ticks : t <= longer[i].value
  BY <1>1, <1>2, <1>3, <1>5 DEF Ordered
<1>9. \A i \in Sets(longer) : longer[i].done =>
          longer[i].value <= r /\ (longer[i].value = q => r = q)
  BY <1>1, <1>2, <1>3, <1>5 DEF Ordered
<1>10. \A i \in Answered(longer) : /\ \A t \in ticks : t <= longer[i].value
                                   /\ \A j \in Sets(longer) : j < i => longer[j].value <= longer[i].value
  BY <1>1, <1>2, <1>3, <1>5 DEF Ordered
<1>11. (\A t \in ticks : t <= q) /\ (r # Expired => \A t \in ticks : t <= r)
  <2>1. /\ \A t \in ticks : t <= m
        /\ r # Expired => \A t \in ticks : t <= r
    BY Zenon DEF Ordered
  <2>. QED  BY <2>1
<1>. QED  BY <1>2, <1>4, <1>5, <1>6, <1>7, <1>8, <1>9, <1>10, <1>11 DEF Ordered

\* The command in front is answered; if it is a SET, its quote may become a tick.
LEMMA FrontRemoved ==
    ASSUME NEW queue \in Seq(Commands), queue # <<>>, Head(queue).done,
           NEW ticks, ticks \subseteq Int, NEW r \in Int, NEW m \in Int, NEW more,
           Ordered(queue, ticks, r, m),
           \/ more = ticks
           \/ Head(queue).op = "SET" /\ more \subseteq ticks \cup {Head(queue).value}
    PROVE  Ordered(Tail(queue), more, r, m)
<1>. DEFINE rest == Tail(queue)
<1>1. /\ 1 \in DOMAIN queue /\ queue[1].done /\ Head(queue) = queue[1]
      /\ \A i \in DOMAIN rest : i \in Nat /\ i >= 1 /\ i + 1 \in DOMAIN queue /\ rest[i] = queue[i + 1]
      /\ \A i \in DOMAIN queue : i # 1 => i - 1 \in DOMAIN rest /\ i \in Nat /\ i > 1
      /\ rest \in Seq(Commands)
  <2>1. \A i \in DOMAIN queue : i \in Nat /\ i >= 1
    OBVIOUS
  <2>. QED  BY <2>1, Removing
<1>. SUFFICES Ordered(rest, more, r, m)
  OBVIOUS
<1>. HIDE DEF rest
<1>2. \A i \in DOMAIN queue : queue[i].value \in Int
  BY CommandTypes
<1>3. \A i \in Sets(rest) : /\ i \in Nat /\ i >= 1 /\ i + 1 \in Sets(queue) /\ i + 1 \in DOMAIN queue
                           /\ rest[i] = queue[i + 1]
  BY <1>1 DEF Sets
<1>4. \A i \in Answered(rest) : /\ i \in Nat /\ i >= 1 /\ i + 1 \in Answered(queue)
                                /\ i + 1 \in DOMAIN queue /\ rest[i] = queue[i + 1]
  BY <1>1 DEF Answered
<1>5. FromFront(rest)
  BY <1>1 DEF Ordered, FromFront
<1>6. \A i, j \in Sets(rest) : i < j => rest[i].value < rest[j].value
  <2>. SUFFICES ASSUME NEW i \in Sets(rest), NEW j \in Sets(rest), i < j
                PROVE  rest[i].value < rest[j].value
    OBVIOUS
  <2>1. /\ i + 1 \in Sets(queue) /\ j + 1 \in Sets(queue) /\ i + 1 < j + 1
        /\ rest[i] = queue[i + 1] /\ rest[j] = queue[j + 1]
    BY <1>3
  <2>. QED  BY <2>1, Zenon DEF Ordered
<1>7. /\ \A i \in Sets(rest) : rest[i].value <= m
      /\ \A i \in Sets(rest) : rest[i].done => rest[i].value <= r
      /\ \A i \in Sets(rest) : rest[i].done /\ rest[i].value = m => r = m
  <2>. SUFFICES ASSUME NEW i \in Sets(rest)
                PROVE  /\ rest[i].value <= m
                       /\ rest[i].done => rest[i].value <= r
                       /\ rest[i].done /\ rest[i].value = m => r = m
    OBVIOUS
  <2>1. i + 1 \in Sets(queue) /\ rest[i] = queue[i + 1]
    BY <1>3
  <2>. QED  BY <2>1, Zenon DEF Ordered
<1>8. \A i \in Answered(rest), j \in Sets(rest) : j < i => rest[j].value <= rest[i].value
  BY <1>3, <1>4 DEF Ordered
<1>9. ASSUME 1 \in Sets(queue)
      PROVE  /\ \A i \in Sets(rest) : queue[1].value < rest[i].value
             /\ \A i \in Answered(rest) : queue[1].value <= rest[i].value
             /\ queue[1].value <= m /\ queue[1].value <= r
  <2>1. \A i \in Sets(rest) : queue[1].value < rest[i].value
    <3>1. \A i \in Sets(rest) : 1 < i + 1
      BY <1>3
    <3>. QED  BY <1>3, <1>9, <3>1 DEF Ordered
  <2>2. \A i \in Answered(rest) : queue[1].value <= rest[i].value
    <3>1. \A i \in Answered(rest) : 1 < i + 1
      BY <1>4
    <3>. QED  BY <1>4, <1>9, <3>1 DEF Ordered
  <2>3. queue[1].value <= m /\ queue[1].value <= r
    BY <1>1, <1>9 DEF Ordered
  <2>. QED  BY <2>1, <2>2, <2>3
<1>10. \A t \in more : t \in ticks \/ (1 \in Sets(queue) /\ t = queue[1].value)
  BY <1>1 DEF Sets
<1>11. \A i \in Sets(rest), t \in more : t <= rest[i].value
  <2>. SUFFICES ASSUME NEW i \in Sets(rest), NEW t \in more PROVE t <= rest[i].value
    OBVIOUS
  <2>1. CASE t \in ticks
    BY <1>3, <2>1 DEF Ordered
  <2>2. CASE 1 \in Sets(queue) /\ t = queue[1].value
    BY <1>1, <1>2, <1>3, <1>9, <2>2
  <2>. QED  BY <1>10, <2>1, <2>2
<1>12. \A i \in Answered(rest), t \in more : t <= rest[i].value
  BY <1>2, <1>4, <1>9, <1>10 DEF Ordered
<1>13. (\A t \in more : t <= m) /\ (r # Expired => \A t \in more : t <= r)
  BY <1>2, <1>9, <1>10 DEF Ordered
<1>14. Sets(rest) # {} => \E i \in Sets(rest) : rest[i].value = m
  <2>. SUFFICES ASSUME NEW s \in Sets(rest) PROVE \E i \in Sets(rest) : rest[i].value = m
    OBVIOUS
  <2>1. PICK w \in Sets(queue) : queue[w].value = m
    BY <1>3 DEF Ordered
  <2>2. w \in DOMAIN queue /\ queue[w].op = "SET"
    BY <2>1 DEF Sets
  <2>3. w # 1
    <3>. SUFFICES ASSUME w = 1 PROVE FALSE
      OBVIOUS
    <3>1. queue[1].value < rest[s].value /\ rest[s].value <= m
      BY <1>7, <1>9
    <3>2. queue[1].value = m /\ rest[s].value \in Int
      BY <1>2, <1>3, <2>1
    <3>. QED  BY <3>1, <3>2
  <2>4. w - 1 \in DOMAIN rest /\ (w - 1) + 1 = w
    BY <1>1, <2>2, <2>3
  <2>5. w - 1 \in Sets(rest) /\ rest[w - 1] = queue[w]
    BY <1>1, <2>2, <2>4 DEF Sets
  <2>. QED  BY <2>1, <2>5
<1>. QED  BY <1>5, <1>6, <1>7, <1>8, <1>11, <1>12, <1>13, <1>14, Zenon DEF Ordered

\* Commands are sent again.
LEMMA QueueResent ==
    ASSUME NEW queue \in Seq(Commands), NEW ticks, NEW r, NEW m,
           Ordered(queue, ticks, r, m)
    PROVE  Ordered(Resend(queue), ticks, r, m)
<1>. DEFINE again == Resend(queue)
<1>1. /\ DOMAIN again = DOMAIN queue
      /\ \A i \in DOMAIN queue : /\ ~again[i].done /\ again[i].op = queue[i].op
                                 /\ again[i].value = queue[i].value
  BY Resending
<1>. SUFFICES Ordered(again, ticks, r, m)
  OBVIOUS
<1>. HIDE DEF again
<1>2. /\ Sets(again) = Sets(queue) /\ Answered(again) = {} /\ FromFront(again)
      /\ Sets(queue) \subseteq DOMAIN queue
  BY <1>1 DEF Sets, Answered, FromFront
<1>. QED  BY <1>1, <1>2 DEF Ordered

\* Redis executes the first command it has not: a SET is stored, a GET finds what
\* is stored.
LEMMA CommandExecuted ==
    ASSUME NEW queue \in Seq(Commands), NEW ticks, ticks \subseteq Int, NEW r \in Int,
           NEW m \in Int, NEW now, NEW stored \in Int, NextOf(queue) # 0,
           Ordered(queue, ticks, r, m),
           now \in Seq(Commands), DOMAIN now = DOMAIN queue,
           \A i \in DOMAIN queue : i # NextOf(queue) => now[i] = queue[i],
           now[NextOf(queue)].op = queue[NextOf(queue)].op,
           now[NextOf(queue)].done,
           \/ /\ queue[NextOf(queue)].op = "SET" /\ stored = queue[NextOf(queue)].value
              /\ now[NextOf(queue)].value = stored
           \/ /\ queue[NextOf(queue)].op # "SET" /\ stored = r
              /\ queue[NextOf(queue)].op = "QUOTE" => now[NextOf(queue)].value = r
    PROVE  Ordered(now, ticks, stored, m)
<1>. DEFINE n == NextOf(queue)
<1>1. n \in DOMAIN queue /\ ~queue[n].done /\ \A j \in DOMAIN queue : j < n => queue[j].done
  BY NextOfQueue
<1>2. \A i \in DOMAIN queue : i \in Nat /\ queue[i].value \in Int /\ now[i].value \in Int
  <2>1. \A i \in DOMAIN queue : i \in Nat
    OBVIOUS
  <2>. QED  BY <2>1, CommandTypes
<1>3. /\ \A i \in DOMAIN queue : i # n => now[i] = queue[i]
      /\ now[n].op = queue[n].op /\ now[n].done
      /\ DOMAIN now = DOMAIN queue
  OBVIOUS
<1>4. \/ queue[n].op = "SET" /\ stored = queue[n].value /\ now[n].value = stored
      \/ queue[n].op # "SET" /\ stored = r /\ (queue[n].op = "QUOTE" => now[n].value = r)
  OBVIOUS
<1>. HIDE DEF n
<1>5. /\ Sets(now) = Sets(queue) /\ Sets(queue) \subseteq DOMAIN queue
      /\ \A i \in Sets(queue) : now[i].value = queue[i].value
      /\ Answered(now) \subseteq Answered(queue) \cup {n}
      /\ Answered(queue) \subseteq DOMAIN queue
  BY <1>1, <1>3, <1>4 DEF Sets, Answered
<1>6. \A i, j \in DOMAIN queue : i < j /\ queue[j].done => queue[i].done
  BY Zenon DEF Ordered, FromFront
<1>7. FromFront(now)
  <2>. SUFFICES ASSUME NEW i \in DOMAIN queue, NEW j \in DOMAIN queue, i < j, now[j].done
                PROVE  now[i].done
    BY <1>3 DEF FromFront
  <2>1. CASE j = n
    BY <1>1, <1>3, <2>1
  <2>2. CASE j # n
    BY <1>3, <1>6, <2>2
  <2>. QED  BY <2>1, <2>2
\* Only commands in front of n have been executed.
<1>8. \A i \in DOMAIN queue : queue[i].done => i < n
  BY <1>1, <1>2, <1>6
<1>9. /\ \A i, j \in Sets(queue) : i < j => queue[i].value < queue[j].value
      /\ \A i \in Sets(queue) : queue[i].value <= m
      /\ \A i \in Sets(queue), q \in ticks : q <= queue[i].value
      /\ \A i \in Sets(queue) : queue[i].done => queue[i].value <= r
      /\ \A i \in Sets(queue) : queue[i].done /\ queue[i].value = m => r = m
      /\ \A i \in Answered(queue), q \in ticks : q <= queue[i].value
      /\ \A i \in Answered(queue), j \in Sets(queue) : j < i => queue[j].value <= queue[i].value
      /\ Sets(queue) # {} => \E i \in Sets(queue) : queue[i].value = m
      /\ \A q \in ticks : q <= m
      /\ r # Expired => \A q \in ticks : q <= r
  BY Zenon DEF Ordered
<1>10. \A i \in Sets(now) : now[i].done => now[i].value <= stored /\ (now[i].value = m => stored = m)
  <2>. SUFFICES ASSUME NEW i \in Sets(queue), now[i].done
                PROVE  queue[i].value <= stored /\ (queue[i].value = m => stored = m)
    BY <1>5
  <2>1. CASE i = n
    BY <1>2, <1>4, <1>5, <2>1 DEF Sets
  <2>2. CASE i # n /\ queue[n].op = "SET"
    <3>1. i < n /\ n \in Sets(queue) /\ queue[n].value = stored
      BY <1>1, <1>3, <1>4, <1>5, <1>8, <2>2 DEF Sets
    <3>2. queue[i].value < stored /\ stored <= m
      BY <1>9, <3>1
    <3>. QED  BY <1>2, <1>5, <3>2
  <2>3. CASE i # n /\ queue[n].op # "SET"
    BY <1>3, <1>4, <1>5, <1>9, <2>3
  <2>. QED  BY <2>1, <2>2, <2>3
<1>11. ASSUME n \in Answered(now)
       PROVE  /\ queue[n].op = "QUOTE" /\ stored = r /\ now[n].value = r /\ r # Expired
              /\ \A j \in Sets(queue) : j < n => queue[j].value <= r
  BY <1>1, <1>3, <1>4, <1>5, <1>9, <1>11 DEF Answered
<1>12. \A i \in Answered(now), q \in ticks : q <= now[i].value
  <2>. SUFFICES ASSUME NEW i \in Answered(now), NEW q \in ticks PROVE q <= now[i].value
    OBVIOUS
  <2>1. CASE i = n
    BY <1>9, <1>11, <2>1
  <2>2. CASE i # n
    BY <1>3, <1>5, <1>9, <2>2
  <2>. QED  BY <2>1, <2>2
<1>13. \A i \in Answered(now), j \in Sets(now) : j < i => now[j].value <= now[i].value
  <2>. SUFFICES ASSUME NEW i \in Answered(now), NEW j \in Sets(queue), j < i
                PROVE  queue[j].value <= now[i].value
    BY <1>5
  <2>1. CASE i = n
    BY <1>11, <2>1
  <2>2. CASE i # n
    BY <1>3, <1>5, <1>9, <2>2
  <2>. QED  BY <2>1, <2>2
<1>14. stored # Expired => \A q \in ticks : q <= stored
  BY <1>1, <1>4, <1>9 DEF Sets
<1>. QED  BY <1>5, <1>7, <1>9, <1>10, <1>12, <1>13, <1>14, Zenon DEF Ordered

(***************************************************************************)
(* The steps of the store                                                  *)
(***************************************************************************)

LEMMA Ticks ==
    ASSUME Types
    PROVE  /\ announced \subseteq Int
           /\ heard \in announced
           /\ \A i \in DOMAIN pubs : pubs[i].value \in announced
           /\ \A i \in DOMAIN inbox : inbox[i] \in announced
           /\ state \in Int /\ store \in Int /\ commands \in Seq(Commands)
<1>1. \A i \in DOMAIN pubs : pubs[i].value \in Int
  BY CommandTypes DEF Types
<1>2. heard \in Int /\ (\A i \in DOMAIN inbox : inbox[i] \in Int) /\ state \in Int /\ store \in Int
  BY BoundsAssumption DEF Types, Seed, Expired
<1>. QED  BY <1>1, <1>2 DEF announced, Types

LEMMA PublishTickKeeps ==
    ASSUME StoreInv, publishTick
    PROVE  StoreInv'
<1>1. /\ phase = "running" /\ last < MaxQuotes /\ last' = last + 1 /\ state' = last + 1
      /\ commands' = Append(commands, Set(last + 1))
      /\ UNCHANGED <<phase, store, visible, pubs, inbox, heard, dropped, losses, crashes>>
  BY DEF publishTick, faults
<1>2. /\ last + 1 \in 1 .. MaxQuotes /\ state \in Int /\ state < last + 1
      /\ last \in Int /\ Types
  BY <1>1, BoundsAssumption DEF StoreInv, Types, Phases, Seed
<1>3. Set(last + 1) \in Commands
  BY <1>2, BoundsAssumption DEF Set, Commands, Expired
<1>4. announced' = announced
  BY <1>1 DEF announced
<1>5. Ordered(commands', announced', store', state')
  BY <1>1, <1>2, <1>3, <1>4, Ticks, SetAppended DEF StoreInv
<1>6. /\ DOMAIN commands' = DOMAIN commands \cup {Len(commands) + 1}
      /\ commands'[Len(commands) + 1] = Set(last + 1)
      /\ \A i \in DOMAIN commands : commands'[i] = commands[i]
      /\ commands' \in Seq(Commands)
  BY <1>1, <1>2, <1>3, Appending DEF Types
<1>7. Types'
  BY <1>1, <1>2, <1>6, BoundsAssumption DEF Types, Seed
<1>8. Phases'
  BY <1>1, <1>2, <1>6 DEF StoreInv, Phases, Sets, Set, Seed
<1>9. Agrees'
  BY <1>6 DEF Agrees, Sets, Set
<1>. QED  BY <1>5, <1>7, <1>8, <1>9 DEF StoreInv

LEMMA RequestKeeps ==
    ASSUME StoreInv, NEW op \in {"QUOTE", "VISIBLE"}, NEW r \in Readers, request(op, r)
    PROVE  StoreInv'
<1>. DEFINE c == Get(op, r)
<1>1. /\ phase # "down" /\ commands' = Append(commands, c)
      /\ UNCHANGED <<phase, state, store, visible, pubs, inbox, heard, dropped, last, losses, crashes>>
  BY DEF request, faults
<1>2. c \in Commands /\ c.op # "SET" /\ ~c.done
  BY BoundsAssumption DEF Get, Commands, Expired
<1>. HIDE DEF c
<1>3. announced' = announced /\ Types
  BY <1>1 DEF announced, StoreInv
<1>4. Ordered(commands', announced', store', state')
  BY <1>1, <1>2, <1>3, Ticks, GetAppended DEF StoreInv
<1>5. /\ DOMAIN commands' = DOMAIN commands \cup {Len(commands) + 1}
      /\ commands'[Len(commands) + 1] = c
      /\ \A i \in DOMAIN commands : commands'[i] = commands[i]
      /\ commands' \in Seq(Commands)
  BY <1>1, <1>2, <1>3, Appending DEF Types
<1>6. Sets(commands') = Sets(commands)
  BY <1>2, <1>5 DEF Sets
<1>7. Types'
  BY <1>1, <1>3, <1>5 DEF Types
<1>8. Phases' /\ Agrees'
  BY <1>1, <1>5, <1>6 DEF StoreInv, Phases, Agrees, Sets
<1>. QED  BY <1>4, <1>7, <1>8 DEF StoreInv

LEMMA ExecuteKeeps ==
    ASSUME StoreInv, redisExecutes
    PROVE  StoreInv'
<1>. DEFINE n == NextOf(commands)
            found == CASE commands[n].op = "SET" -> commands[n].value
                       [] commands[n].op = "QUOTE" -> store
                       [] commands[n].op = "VISIBLE" -> visible
<1>1. /\ n # 0
      /\ store' = IF commands[n].op = "SET" THEN commands[n].value ELSE store
      /\ commands' = [commands EXCEPT ![n] = [@ EXCEPT !.done = TRUE, !.value = found]]
      /\ UNCHANGED <<phase, state, visible, pubs, inbox, heard, dropped, last, losses, crashes>>
  BY DEF redisExecutes, faults
<1>2. Types /\ announced' = announced
  BY <1>1 DEF StoreInv, announced
<1>3. n \in DOMAIN commands /\ commands[n] \in Commands
  <2>1. n \in DOMAIN commands
    BY <1>1, <1>2, NextOfQueue DEF Types
  <2>. HIDE DEF n
  <2>. QED  BY <1>2, <2>1 DEF Types
<1>. HIDE DEF n
<1>4. found \in Expired .. MaxQuotes
  <2>1. /\ commands[n].op \in {"SET", "QUOTE", "VISIBLE"}
        /\ commands[n].value \in Expired .. MaxQuotes /\ store \in Expired .. MaxQuotes
    BY <1>2, <1>3 DEF Types, Commands
  <2>2. visible \in Expired .. MaxQuotes
    BY <1>2, BoundsAssumption DEF Types, Expired
  <2>. QED  BY <2>1, <2>2
<1>5. /\ commands'[n] = [commands[n] EXCEPT !.done = TRUE, !.value = found]
      /\ commands' \in Seq(Commands) /\ DOMAIN commands' = DOMAIN commands
      /\ \A i \in DOMAIN commands : i # n => commands'[i] = commands[i]
  <2>1. [commands[n] EXCEPT !.done = TRUE, !.value = found] \in Commands
    <3>. HIDE DEF found
    <3>. QED  BY <1>3, <1>4 DEF Commands
  <2>. HIDE DEF found
  <2>. QED  BY <1>1, <1>2, <1>3, <2>1 DEF Types
<1>6. /\ commands'[n].op = commands[n].op /\ commands'[n].done /\ commands'[n].value = found
  <2>. HIDE DEF found
  <2>. QED  BY <1>3, <1>5 DEF Commands
<1>7. \/ /\ commands[n].op = "SET" /\ store' = commands[n].value /\ commands'[n].value = store'
      \/ /\ commands[n].op # "SET" /\ store' = store
         /\ commands[n].op = "QUOTE" => commands'[n].value = store
  <2>1. CASE commands[n].op = "SET"
    BY <1>1, <1>6, <2>1
  <2>2. CASE commands[n].op = "QUOTE"
    BY <1>1, <1>6, <2>2
  <2>3. CASE commands[n].op \notin {"SET", "QUOTE"}
    BY <1>1, <2>3
  <2>. QED  BY <2>1, <2>2, <2>3
<1>8. store' \in Expired .. MaxQuotes /\ store' \in Int
  <2>1. commands[n].value \in Expired .. MaxQuotes /\ store \in Expired .. MaxQuotes
    BY <1>2, <1>3 DEF Types, Commands
  <2>. QED  BY <1>1, <2>1, BoundsAssumption DEF Expired
<1>9. Ordered(commands', announced, store', state)
  <2>1. /\ Ordered(commands, announced, store, state) /\ announced \subseteq Int
        /\ store \in Int /\ state \in Int /\ commands \in Seq(Commands)
    BY <1>2, Ticks DEF StoreInv
  <2>2. PICK now \in Seq(Commands), stored \in Int : now = commands' /\ stored = store'
    BY <1>5, <1>8
  <2>3. /\ NextOf(commands) = n /\ NextOf(commands) # 0 /\ DOMAIN now = DOMAIN commands
        /\ \A i \in DOMAIN commands : i # NextOf(commands) => now[i] = commands[i]
        /\ now[NextOf(commands)].op = commands[NextOf(commands)].op
        /\ now[NextOf(commands)].done
        /\ \/ /\ commands[NextOf(commands)].op = "SET" /\ stored = commands[NextOf(commands)].value
              /\ now[NextOf(commands)].value = stored
           \/ /\ commands[NextOf(commands)].op # "SET" /\ stored = store
              /\ commands[NextOf(commands)].op = "QUOTE" => now[NextOf(commands)].value = store
    BY <1>1, <1>5, <1>6, <1>7, <2>2 DEF n
  <2>4. Ordered(now, announced, stored, state)
    BY <2>1, <2>3, CommandExecuted, Zenon
  <2>. QED  BY <2>2, <2>4
<1>10. Sets(commands') = Sets(commands) /\ \A i \in Sets(commands) : commands'[i].value = commands[i].value
  <2>1. \A i \in DOMAIN commands : commands'[i].op = commands[i].op
    BY <1>3, <1>5, <1>6
  <2>2. \A i \in DOMAIN commands : commands[i].op = "SET" => commands'[i].value = commands[i].value
    BY <1>5, <1>7
  <2>. QED  BY <1>5, <2>1, <2>2 DEF Sets
<1>11. Types'
  BY <1>1, <1>2, <1>5, <1>8 DEF Types
<1>12. Phases'
  <2>1. commands # <<>>
    BY <1>3
  <2>. QED  BY <1>1, <1>10, <2>1 DEF StoreInv, Phases
<1>13. Agrees'
  <2>. SUFFICES ASSUME Sets(commands) = {} PROVE Agrees'
    BY <1>10 DEF Agrees
  <2>1. store' = store
    BY <1>3, <1>7 DEF Sets
  <2>. QED  BY <1>1, <1>10, <2>1 DEF StoreInv, Agrees
<1>. QED  BY <1>1, <1>2, <1>9, <1>11, <1>12, <1>13 DEF StoreInv

\* A queue still executes from its front when a command is added or answered.
LEMMA FrontKept ==
    ASSUME NEW queue \in Seq(Commands), FromFront(queue)
    PROVE  /\ \A c \in Commands : ~c.done => FromFront(Append(queue, c))
           /\ queue # <<>> => FromFront(Tail(queue))
           /\ FromFront(Resend(queue))
<1>1. ASSUME NEW c \in Commands, ~c.done PROVE FromFront(Append(queue, c))
  BY <1>1, Appending DEF FromFront
<1>2. ASSUME queue # <<>> PROVE FromFront(Tail(queue))
  <2>1. \A i, j \in DOMAIN Tail(queue) : i < j /\ Tail(queue)[j].done => Tail(queue)[i].done
    <3>. SUFFICES ASSUME NEW i \in DOMAIN Tail(queue), NEW j \in DOMAIN Tail(queue),
                         i < j, Tail(queue)[j].done
                  PROVE  Tail(queue)[i].done
      OBVIOUS
    <3>1. /\ i + 1 \in DOMAIN queue /\ j + 1 \in DOMAIN queue /\ i + 1 < j + 1
          /\ Tail(queue)[i] = queue[i + 1] /\ Tail(queue)[j] = queue[j + 1]
      BY <1>2, Removing
    <3>. QED  BY <3>1, Zenon DEF FromFront
  <2>. QED  BY <2>1 DEF FromFront
<1>3. FromFront(Resend(queue))
  BY Resending, Zenon DEF FromFront
<1>. QED  BY <1>1, <1>2, <1>3

\* A step that leaves the commands and both quotes alone, and announces nothing.
LEMMA QuotesUntouched ==
    ASSUME StoreInv, UNCHANGED <<commands, store, state>>, announced' \subseteq announced,
           Types', Phases', Agrees'
    PROVE  StoreInv'
<1>1. Ordered(commands, announced', store, state)
  BY FewerTicks DEF StoreInv
<1>. QED  BY <1>1 DEF StoreInv

LEMMA TickAppended ==
    ASSUME NEW queue \in Seq(Commands), NEW q, Set(q) \in Commands
    PROVE  \A i \in DOMAIN Append(queue, Set(q)) :
               \/ Append(queue, Set(q))[i].value = q
               \/ i \in DOMAIN queue /\ Append(queue, Set(q))[i] = queue[i]
<1>. DEFINE longer == Append(queue, Set(q))
<1>1. /\ DOMAIN longer = DOMAIN queue \cup {Len(queue) + 1}
      /\ \A i \in DOMAIN queue : longer[i] = queue[i]
      /\ longer[Len(queue) + 1] = Set(q)
  BY Appending
<1>2. longer[Len(queue) + 1].value = q
  <2>1. Set(q).value = q
    BY DEF Set
  <2>. QED  BY <1>1, <2>1, Zenon
<1>. SUFFICES \A i \in DOMAIN longer : longer[i].value = q \/ (i \in DOMAIN queue /\ longer[i] = queue[i])
  OBVIOUS
<1>. HIDE DEF longer
<1>. QED  BY <1>1, <1>2, Zenon

LEMMA SetRepliedKeeps ==
    ASSUME StoreInv, setReplied
    PROVE  StoreInv'
<1>. DEFINE front == Head(commands)
<1>1. /\ commands # <<>> /\ front.done /\ front.op = "SET" /\ commands' = Tail(commands)
      /\ \/ phase = "seeding" /\ phase' = "running" /\ pubs' = pubs
         \/ phase # "seeding" /\ phase' = phase /\ pubs' = Append(pubs, Set(front.value))
      /\ UNCHANGED <<state, store, visible, inbox, heard, dropped, last, losses, crashes>>
  BY DEF setReplied, Replied, faults
<1>2. Types /\ Phases /\ Ordered(commands, announced, store, state)
  BY DEF StoreInv
<1>3. /\ commands \in Seq(Commands) /\ commands' \in Seq(Commands)
      /\ 1 \in Sets(commands) /\ front = commands[1] /\ front \in Commands
      /\ \A i \in Sets(commands') : /\ i \in Nat /\ i >= 1 /\ i + 1 \in Sets(commands)
                                    /\ commands'[i] = commands[i + 1]
      /\ \A i \in Sets(commands) : i # 1 => i - 1 \in Sets(commands')
  <2>1. commands \in Seq(Commands)
    BY <1>2 DEF Types
  <2>2. /\ commands' \in Seq(Commands) /\ front = commands[1] /\ 1 \in DOMAIN commands
        /\ \A i \in DOMAIN commands' : /\ i \in Nat /\ i >= 1 /\ i + 1 \in DOMAIN commands
                                       /\ commands'[i] = commands[i + 1]
        /\ \A i \in DOMAIN commands : i # 1 => i - 1 \in DOMAIN commands' /\ (i - 1) + 1 = i
    BY <1>1, <2>1, Removing
  <2>3. front \in Commands
    BY <2>1, <2>2
  <2>. HIDE DEF front
  <2>. QED  BY <1>1, <2>1, <2>2, <2>3 DEF Sets
<1>4. front.value \in Int /\ front.value >= Seed /\ (phase # "seeding" => front.value >= 1)
  BY <1>2, <1>3, CommandTypes DEF Phases, Sets
<1>. HIDE DEF front
<1>5. announced' \subseteq announced \cup {front.value}
  <2>1. CASE pubs' = pubs
    BY <1>1, <2>1 DEF announced
  <2>2. CASE phase # "seeding" /\ pubs' = Append(pubs, Set(front.value))
    <3>1. pubs \in Seq(Commands)
      BY <1>2 DEF Types
    <3>2. Set(front.value) \in Commands
      BY <1>3 DEF Set, Commands
    <3>3. \A i \in DOMAIN pubs' : pubs'[i].value = front.value \/ (i \in DOMAIN pubs /\ pubs'[i] = pubs[i])
      BY <2>2, <3>1, <3>2, TickAppended, Zenon
    <3>. QED  BY <1>1, <3>3 DEF announced
  <2>. QED  BY <1>1, <2>1, <2>2
<1>6. Ordered(commands', announced', store, state)
  <2>1. PICK more : more = announced' /\ more \subseteq announced \cup {front.value}
    BY <1>5
  <2>2. /\ announced \subseteq Int /\ store \in Int /\ state \in Int
    BY <1>2, Ticks
  <2>3. Ordered(Tail(commands), more, store, state)
    BY <1>1, <1>2, <1>3, <2>1, <2>2, FrontRemoved, Zenon DEF front
  <2>. QED  BY <1>1, <2>1, <2>3
<1>7. Types'
  <2>1. pubs' \in Seq(Commands) /\ FromFront(pubs')
    <3>1. Set(front.value) \in Commands /\ ~Set(front.value).done
      BY <1>3 DEF Set, Commands
    <3>2. pubs \in Seq(Commands) /\ FromFront(pubs)
      BY <1>2 DEF Types
    <3>. QED  BY <1>1, <3>1, <3>2, Appending, FrontKept
  <2>. QED  BY <1>1, <1>2, <1>3, <2>1 DEF Types
<1>8. Phases'
  <2>1. \A i \in Sets(commands') : commands'[i].value \in Int /\ front.value < commands'[i].value
    <3>1. \A i \in Sets(commands') : commands'[i].value \in Int
      BY <1>3, CommandTypes DEF Sets
    <3>2. \A i \in Sets(commands') : 1 < i + 1 /\ i + 1 \in Sets(commands)
      BY <1>3
    <3>. QED  BY <1>2, <1>3, <3>1, <3>2 DEF Ordered
  <2>2. \A i \in Sets(commands') : commands'[i].value >= 1
    BY <1>4, <2>1 DEF Seed
  <2>3. \A i \in DOMAIN pubs' : pubs'[i].value >= 1
    <3>1. CASE pubs' = pubs
      BY <1>2, <3>1 DEF Phases
    <3>2. CASE phase # "seeding" /\ pubs' = Append(pubs, Set(front.value))
      <4>1. pubs \in Seq(Commands) /\ Set(front.value) \in Commands
        BY <1>2, <1>3 DEF Types, Set, Commands
      <4>2. \A i \in DOMAIN pubs' : pubs'[i].value = front.value \/ (i \in DOMAIN pubs /\ pubs'[i] = pubs[i])
        BY <3>2, <4>1, TickAppended, Zenon
      <4>3. \A i \in DOMAIN pubs : pubs[i].value >= 1
        BY <1>2 DEF Phases
      <4>4. front.value >= 1
        BY <1>4, <3>2
      <4>. QED  BY <4>2, <4>3, <4>4
    <3>. QED  BY <1>1, <3>1, <3>2
  <2>4. phase # "down"
    BY <1>1, <1>2 DEF Phases
  <2>5. \A i \in Sets(commands') : commands'[i].value >= Seed
    BY <1>4, <2>1 DEF Seed
  <2>6. state' <= last' /\ phase' # "down"
    BY <1>1, <1>2, <2>4 DEF Phases
  <2>. QED  BY <2>2, <2>3, <2>5, <2>6 DEF Phases
\* With no other SET under way this was the write of the quote in memory.
<1>9. Agrees'
  <2>. SUFFICES ASSUME Sets(commands') = {} PROVE store = state
    BY <1>1 DEF Agrees
  <2>1. PICK i \in Sets(commands) : commands[i].value = state
    BY <1>2, <1>3 DEF Ordered
  <2>2. i = 1
    BY <1>3, <2>1
  <2>. QED  BY <1>1, <1>2, <1>3, <2>1, <2>2 DEF Ordered
<1>. QED  BY <1>1, <1>6, <1>7, <1>8, <1>9 DEF StoreInv

LEMMA GetRepliedKeeps ==
    ASSUME StoreInv, NEW op \in {"QUOTE", "VISIBLE"}, getReplied(op)
    PROVE  StoreInv'
<1>1. /\ commands # <<>> /\ Head(commands).done /\ Head(commands).op = op
      /\ commands' = Tail(commands)
      /\ UNCHANGED <<phase, state, store, visible, pubs, inbox, heard, dropped, last, losses, crashes>>
  BY DEF getReplied, Replied, faults
<1>2. /\ Types /\ Phases /\ Agrees /\ Ordered(commands, announced, store, state)
      /\ announced' = announced
  BY <1>1 DEF StoreInv, announced
<1>3. /\ commands \in Seq(Commands) /\ commands' \in Seq(Commands)
      /\ Head(commands) = commands[1]
      /\ \A i \in DOMAIN commands' : i + 1 \in DOMAIN commands /\ commands'[i] = commands[i + 1]
      /\ \A i \in DOMAIN commands : i # 1 => i - 1 \in DOMAIN commands' /\ (i - 1) + 1 = i
  BY <1>1, <1>2, Removing DEF Types
<1>4. /\ \A i \in Sets(commands') : i + 1 \in Sets(commands) /\ commands'[i] = commands[i + 1]
      /\ Sets(commands') = {} => Sets(commands) = {}
  <2>1. \A i \in Sets(commands') : i + 1 \in Sets(commands) /\ commands'[i] = commands[i + 1]
    BY <1>3 DEF Sets
  <2>2. \A i \in Sets(commands) : i # 1
    BY <1>1, <1>3 DEF Sets
  <2>3. \A i \in Sets(commands) : i - 1 \in Sets(commands')
    BY <1>3, <2>2 DEF Sets
  <2>. QED  BY <2>1, <2>3
<1>5. Ordered(commands', announced', store, state)
  <2>1. announced \subseteq Int /\ store \in Int /\ state \in Int
    BY <1>2, Ticks
  <2>2. Ordered(Tail(commands), announced, store, state)
    BY <1>1, <1>2, <1>3, <2>1, FrontRemoved, Zenon
  <2>. QED  BY <1>1, <1>2, <2>2
<1>6. Types'
  BY <1>1, <1>2, <1>3 DEF Types
<1>7. Phases'
  BY <1>1, <1>2, <1>4 DEF Phases
<1>8. Agrees'
  BY <1>1, <1>2, <1>4 DEF Agrees
<1>. QED  BY <1>1, <1>5, <1>6, <1>7, <1>8 DEF StoreInv

LEMMA MessageAppended ==
    ASSUME NEW T, NEW messages \in Seq(T), NEW q \in T
    PROVE  /\ Append(messages, q) \in Seq(T)
           /\ \A i \in DOMAIN Append(messages, q) :
                  Append(messages, q)[i] = q \/ (i \in DOMAIN messages /\ Append(messages, q)[i] = messages[i])
OBVIOUS

LEMMA MessageRemoved ==
    ASSUME NEW T, NEW messages \in Seq(T), messages # <<>>
    PROVE  /\ Tail(messages) \in Seq(T)
           /\ Head(messages) = messages[1] /\ 1 \in DOMAIN messages /\ Head(messages) \in T
           /\ \A i \in DOMAIN Tail(messages) : i + 1 \in DOMAIN messages
                                              /\ Tail(messages)[i] = messages[i + 1]
OBVIOUS

\* A PUBLISH is executed or answered, and a message received: what was announced
\* moves on, or is forgotten.
LEMMA RedisPublishKeeps ==
    ASSUME StoreInv, redisPublish
    PROVE  StoreInv'
<1>. DEFINE n == NextOf(pubs)
<1>1. /\ n # 0 /\ inbox' = Append(inbox, pubs[n].value)
      /\ pubs' = [pubs EXCEPT ![n].done = TRUE]
      /\ UNCHANGED <<phase, state, store, visible, commands, heard, dropped, last, losses, crashes>>
  BY DEF redisPublish, faults
<1>2. Types /\ Phases /\ Agrees
  BY DEF StoreInv
<1>3. n \in DOMAIN pubs /\ \A j \in DOMAIN pubs : j < n => pubs[j].done
  BY <1>1, <1>2, NextOfQueue DEF Types
<1>. HIDE DEF n
<1>4. pubs[n] \in Commands /\ pubs[n].value \in Expired .. MaxQuotes /\ pubs[n].value >= 1
  <2>1. pubs[n] \in Commands
    BY <1>2, <1>3 DEF Types
  <2>2. pubs[n].value >= 1
    BY <1>2, <1>3 DEF Phases
  <2>. QED  BY <2>1, <2>2 DEF Commands
<1>5. /\ pubs' \in Seq(Commands) /\ DOMAIN pubs' = DOMAIN pubs
      /\ pubs'[n] = [pubs[n] EXCEPT !.done = TRUE]
      /\ \A i \in DOMAIN pubs : i # n => pubs'[i] = pubs[i]
  <2>1. [pubs[n] EXCEPT !.done = TRUE] \in Commands
    BY <1>4 DEF Commands
  <2>. QED  BY <1>1, <1>2, <1>3, <2>1 DEF Types
<1>6. pubs'[n].done /\ pubs'[n].value = pubs[n].value
  BY <1>4, <1>5 DEF Commands
<1>7. /\ inbox' \in Seq(1 .. MaxQuotes)
      /\ \A i \in DOMAIN inbox' : inbox'[i] = pubs[n].value \/ (i \in DOMAIN inbox /\ inbox'[i] = inbox[i])
  <2>1. inbox \in Seq(1 .. MaxQuotes) /\ pubs[n].value \in 1 .. MaxQuotes
    BY <1>2, <1>4, BoundsAssumption DEF Types, Expired
  <2>2. PICK v \in 1 .. MaxQuotes : v = pubs[n].value
    BY <2>1
  <2>. QED  BY <1>1, <2>1, <2>2, MessageAppended
<1>8. announced' \subseteq announced
  <2>1. \A i \in DOMAIN pubs : pubs'[i].value = pubs[i].value
    BY <1>5, <1>6
  <2>2. heard' = heard
    BY <1>1
  <2>. QED  BY <1>3, <1>5, <1>7, <2>1, <2>2 DEF announced
<1>9. FromFront(pubs')
  <2>1. FromFront(pubs) /\ \A i \in DOMAIN pubs : i \in Nat
    BY <1>2 DEF Types
  <2>. QED  BY <1>3, <1>5, <1>6, <2>1 DEF FromFront
<1>10. Types'
  BY <1>1, <1>2, <1>5, <1>7, <1>9 DEF Types
<1>11. Phases'
  <2>1. \A i \in DOMAIN pubs' : pubs'[i].value >= 1
    BY <1>2, <1>5, <1>6 DEF Phases
  <2>2. phase # "down"
    BY <1>2, <1>3 DEF Phases
  <2>. QED  BY <1>1, <1>2, <2>1, <2>2 DEF Phases
<1>12. Agrees'
  BY <1>1, <1>2 DEF Agrees
<1>. QED  BY <1>1, <1>8, <1>10, <1>11, <1>12, QuotesUntouched

LEMMA PubRepliedKeeps ==
    ASSUME StoreInv, pubReplied
    PROVE  StoreInv'
<1>1. /\ pubs # <<>> /\ pubs' = Tail(pubs)
      /\ UNCHANGED <<phase, state, store, visible, commands, inbox, heard, dropped, last, losses, crashes>>
  BY DEF pubReplied, faults
<1>2. Types /\ Phases /\ Agrees
  BY DEF StoreInv
<1>3. /\ pubs' \in Seq(Commands) /\ FromFront(pubs')
      /\ \A i \in DOMAIN pubs' : i + 1 \in DOMAIN pubs /\ pubs'[i] = pubs[i + 1]
  BY <1>1, <1>2, Removing, FrontKept DEF Types
<1>4. announced' \subseteq announced
  BY <1>1, <1>3 DEF announced
<1>5. Types'
  BY <1>1, <1>2, <1>3 DEF Types
<1>6. Phases'
  <2>1. \A i \in DOMAIN pubs' : pubs'[i].value >= 1
    BY <1>2, <1>3 DEF Phases
  <2>2. phase # "down"
    BY <1>1, <1>2 DEF Phases
  <2>. QED  BY <1>1, <1>2, <2>1, <2>2 DEF Phases
<1>7. Agrees'
  BY <1>1, <1>2 DEF Agrees
<1>. QED  BY <1>1, <1>4, <1>5, <1>6, <1>7, QuotesUntouched

LEMMA ReceiveKeeps ==
    ASSUME StoreInv, subscriberReceives
    PROVE  StoreInv' /\ heard' >= heard /\ heard' >= Head(inbox) /\ Head(inbox) \in 1 .. MaxQuotes
<1>1. /\ inbox # <<>> /\ inbox' = Tail(inbox)
      /\ heard' = IF Head(inbox) > heard THEN Head(inbox) ELSE heard
      /\ UNCHANGED <<phase, state, store, visible, commands, pubs, dropped, last, losses, crashes>>
  BY DEF subscriberReceives, faults
<1>2. Types /\ Phases /\ Agrees
  BY DEF StoreInv
<1>3. /\ inbox \in Seq(1 .. MaxQuotes) /\ heard \in Seed .. MaxQuotes
  BY <1>2 DEF Types
<1>4. /\ inbox' \in Seq(1 .. MaxQuotes) /\ Head(inbox) = inbox[1] /\ 1 \in DOMAIN inbox
      /\ \A i \in DOMAIN inbox' : i + 1 \in DOMAIN inbox /\ inbox'[i] = inbox[i + 1]
      /\ Head(inbox) \in 1 .. MaxQuotes
  BY <1>1, <1>3, MessageRemoved
<1>5. heard' >= heard /\ heard' >= Head(inbox) /\ heard' \in Seed .. MaxQuotes
  BY <1>1, <1>3, <1>4, BoundsAssumption DEF Seed
<1>6. announced' \subseteq announced
  <2>1. heard' \in announced
    BY <1>1, <1>4 DEF announced
  <2>. QED  BY <1>1, <1>4, <2>1 DEF announced
<1>7. Types'
  BY <1>1, <1>2, <1>4, <1>5 DEF Types
<1>8. Phases' /\ Agrees'
  BY <1>1, <1>2 DEF Phases, Agrees
<1>9. StoreInv'
  BY <1>1, <1>6, <1>7, <1>8, QuotesUntouched
<1>. QED  BY <1>4, <1>5, <1>9

LEMMA ConnectionLostKeeps ==
    ASSUME StoreInv, connectionLost
    PROVE  StoreInv'
<1>1. /\ phase # "down" /\ losses < MaxLosses /\ losses' = losses + 1
      /\ UNCHANGED <<phase, state, store, visible, heard, dropped, last, crashes>>
  BY DEF connectionLost
<1>2. /\ Types /\ Phases /\ Agrees /\ Ordered(commands, announced, store, state)
      /\ losses' \in 0 .. MaxLosses
  BY <1>1, BoundsAssumption DEF StoreInv, Types
<1>3. CASE commands' = Resend(commands) /\ UNCHANGED <<pubs, inbox>>
  <2>1. /\ commands' \in Seq(Commands) /\ Sets(commands') = Sets(commands)
        /\ \A i \in Sets(commands) : commands'[i].value = commands[i].value
    BY <1>2, <1>3, Resending DEF Types, Sets
  <2>2. announced' = announced
    BY <1>1, <1>3 DEF announced
  <2>3. Ordered(commands', announced', store, state)
    BY <1>2, <1>3, <2>2, QueueResent DEF Types
  <2>4. Types'
    BY <1>1, <1>2, <1>3, <2>1 DEF Types
  <2>5. Phases' /\ Agrees'
    BY <1>1, <1>2, <1>3, <2>1 DEF Phases, Agrees
  <2>. QED  BY <1>1, <2>3, <2>4, <2>5 DEF StoreInv
<1>4. CASE pubs' = Resend(pubs) /\ UNCHANGED <<commands, inbox>>
  <2>1. /\ pubs' \in Seq(Commands) /\ FromFront(pubs') /\ DOMAIN pubs' = DOMAIN pubs
        /\ \A i \in DOMAIN pubs : pubs'[i].value = pubs[i].value
    BY <1>2, <1>4, Resending, FrontKept DEF Types
  <2>2. announced' \subseteq announced
    BY <1>1, <1>4, <2>1 DEF announced
  <2>3. Types'
    BY <1>1, <1>2, <1>4, <2>1 DEF Types
  <2>4. Phases' /\ Agrees'
    BY <1>1, <1>2, <1>4, <2>1 DEF Phases, Agrees
  <2>. QED  BY <1>1, <1>4, <2>2, <2>3, <2>4, QuotesUntouched
<1>5. CASE inbox' = <<>> /\ UNCHANGED <<commands, pubs>>
  <2>1. announced' \subseteq announced
    BY <1>1, <1>5 DEF announced
  <2>2. Types'
    BY <1>1, <1>2, <1>5 DEF Types
  <2>3. Phases' /\ Agrees'
    BY <1>1, <1>2, <1>5 DEF Phases, Agrees
  <2>. QED  BY <1>1, <1>5, <2>1, <2>2, <2>3, QuotesUntouched
<1>. QED  BY <1>3, <1>4, <1>5 DEF connectionLost

LEMMA GivenUpKeeps ==
    ASSUME StoreInv, commandsGivenUp
    PROVE  StoreInv'
<1>1. /\ commands # <<>> /\ losses < MaxLosses /\ losses' = losses + 1 /\ commands' = <<>>
      /\ dropped' = dropped \cup {c.value : c \in {d \in Range(commands) : d.op = "SET"}}
      /\ phase' = IF phase = "seeding" THEN "failed" ELSE phase
      /\ UNCHANGED <<state, store, visible, pubs, inbox, heard, last, crashes>>
  BY DEF commandsGivenUp
<1>2. /\ Types /\ Phases /\ Agrees /\ Ordered(commands, announced, store, state)
      /\ losses' \in 0 .. MaxLosses /\ phase # "down"
  BY <1>1, BoundsAssumption DEF StoreInv, Types, Phases
<1>3. announced' = announced
  BY <1>1 DEF announced
<1>4. Ordered(commands', announced', store, state)
  <2>1. (\A q \in announced : q <= state) /\ (store # Expired => \A q \in announced : q <= store)
    BY <1>2, Zenon DEF Ordered
  <2>. QED  BY <1>1, <1>3, <2>1, NoCommands
<1>5. \A i \in Sets(commands) : commands[i].value \in dropped'
  BY <1>1 DEF Sets, Range
<1>6. dropped' \subseteq Seed .. MaxQuotes
  <2>1. commands \in Seq(Commands) /\ dropped \subseteq Seed .. MaxQuotes
    BY <1>2 DEF Types
  <2>2. \A i \in DOMAIN commands : commands[i].op = "SET" => commands[i].value \in Seed .. MaxQuotes
    <3>1. \A i \in Sets(commands) : commands[i].value >= Seed
      BY <1>2 DEF Phases
    <3>2. \A i \in DOMAIN commands : commands[i].value \in Expired .. MaxQuotes
      <4>1. \A i \in DOMAIN commands : commands[i] \in Commands
        BY <2>1
      <4>. QED  BY <4>1 DEF Commands
    <3>. QED  BY <3>1, <3>2, BoundsAssumption DEF Sets, Seed, Expired
  <2>. QED  BY <1>1, <2>1, <2>2 DEF Range
<1>7. Sets(commands') = {}
  BY <1>1 DEF Sets
<1>8. Types'
  BY <1>1, <1>2, <1>6 DEF Types
<1>9. Phases'
  BY <1>1, <1>2, <1>7 DEF Phases
\* The newest SET under way, if there was one, was that of the quote in memory.
<1>10. Agrees'
  <2>. SUFFICES ASSUME phase = "running", state \notin dropped', store # Expired PROVE store = state
    BY <1>1 DEF Agrees
  <2>1. CASE Sets(commands) = {}
    BY <1>1, <1>2, <2>1 DEF Agrees
  <2>2. CASE Sets(commands) # {}
    <3>1. PICK i \in Sets(commands) : commands[i].value = state
      BY <1>2, <2>2 DEF Ordered
    <3>. QED  BY <1>5, <3>1
  <2>. QED  BY <2>1, <2>2
<1>. QED  BY <1>1, <1>4, <1>8, <1>9, <1>10 DEF StoreInv

LEMMA ExpiryKeeps ==
    ASSUME StoreInv, keyExpires
    PROVE  StoreInv'
<1>1. /\ commands = <<>> /\ store' = Expired
      /\ UNCHANGED <<phase, state, visible, commands, pubs, inbox, heard, dropped, last, losses, crashes>>
  BY DEF keyExpires, connections, faults
<1>2. Types /\ Phases /\ Ordered(commands, announced, store, state) /\ announced' = announced
  BY <1>1 DEF StoreInv, announced
<1>3. Ordered(commands', announced', store', state')
  <2>1. \A q \in announced : q <= state
    BY <1>2, Zenon DEF Ordered
  <2>. QED  BY <1>1, <1>2, <2>1, NoCommands
<1>4. Types'
  BY <1>1, <1>2, BoundsAssumption DEF Types, Expired
<1>5. Phases' /\ Agrees'
  BY <1>1, <1>2 DEF Phases, Agrees
<1>. QED  BY <1>3, <1>4, <1>5 DEF StoreInv

LEMMA CrashKeeps ==
    ASSUME StoreInv, crash
    PROVE  StoreInv'
<1>1. /\ phase' = "down" /\ crashes < MaxCrashes /\ crashes' = crashes + 1
      /\ commands' = <<>> /\ pubs' = <<>> /\ inbox' = <<>> /\ heard' = Seed
      /\ UNCHANGED <<state, store, visible, dropped, last, losses>>
  BY DEF crash
<1>2. Types /\ Phases
  BY DEF StoreInv
<1>3. announced' = {Seed}
  BY <1>1 DEF announced
<1>4. Ordered(commands', announced', store', state')
  <2>1. Seed <= state /\ (store # Expired => Seed <= store)
    BY <1>2, BoundsAssumption DEF Types, Seed, Expired
  <2>. QED  BY <1>1, <1>3, <2>1, NoCommands
<1>5. Types'
  BY <1>1, <1>2, BoundsAssumption DEF Types, Seed, FromFront
<1>6. Phases' /\ Agrees'
  BY <1>1, <1>2 DEF Phases, Agrees, Sets
<1>. QED  BY <1>4, <1>5, <1>6 DEF StoreInv

LEMMA StartKeeps ==
    ASSUME StoreInv, onModuleInit
    PROVE  StoreInv'
<1>1. /\ phase = "down" /\ phase' = "seeding" /\ state' = Seed /\ commands' = <<Set(Seed)>>
      /\ dropped' = {}
      /\ UNCHANGED <<store, visible, pubs, inbox, heard, last, losses, crashes>>
  BY DEF onModuleInit, faults
<1>2. /\ Types /\ Phases /\ pubs = <<>> /\ inbox = <<>> /\ heard = Seed
  BY <1>1 DEF StoreInv, Phases
<1>3. announced' = {Seed}
  BY <1>1, <1>2 DEF announced
<1>4. Set(Seed) \in Commands
  BY BoundsAssumption DEF Set, Commands, Seed, Expired
<1>5. /\ commands' \in Seq(Commands) /\ DOMAIN commands' = {1} /\ commands'[1] = Set(Seed)
  BY <1>1, <1>4
<1>6. Sets(commands') = {1} /\ Answered(commands') = {}
  BY <1>5 DEF Sets, Answered, Set
<1>7. Ordered(commands', announced', store', state')
  BY <1>1, <1>2, <1>3, <1>5, <1>6, BoundsAssumption
     DEF Ordered, FromFront, Types, Set, Seed, Expired
<1>8. Types'
  BY <1>1, <1>2, <1>5, BoundsAssumption DEF Types, Seed
<1>9. Phases' /\ Agrees'
  BY <1>1, <1>2, <1>5, <1>6 DEF Phases, Agrees, Set, Seed, Types
<1>. QED  BY <1>7, <1>8, <1>9 DEF StoreInv

LEMMA VisibilityKeeps ==
    ASSUME StoreInv, setSymbolVisibility
    PROVE  StoreInv'
<1>1. /\ visible' = 1 - visible
      /\ UNCHANGED <<phase, state, store, commands, pubs, inbox, heard, dropped, last, losses, crashes>>
  BY DEF setSymbolVisibility, connections, faults
<1>2. Types /\ Phases /\ Agrees
  BY DEF StoreInv
<1>3. announced' = announced
  BY <1>1 DEF announced
<1>4. Types'
  <2>1. visible' \in {0, 1}
    BY <1>1, <1>2 DEF Types
  <2>. QED  BY <1>1, <1>2, <2>1 DEF Types
<1>5. Phases' /\ Agrees'
  BY <1>1, <1>2 DEF Phases, Agrees
<1>. QED  BY <1>1, <1>3, <1>4, <1>5, QuotesUntouched

(***************************************************************************)
(* The gateway                                                             *)
(***************************************************************************)

LEMMA NewerIs ==
    ASSUME NEW a \in Expired .. MaxQuotes, NEW b \in Expired .. MaxQuotes
    PROVE  Newer(a, b) \in Expired .. MaxQuotes /\ Newer(a, b) >= a /\ Newer(a, b) >= b
BY BoundsAssumption DEF Newer, Expired

\* The store alone; nobody hears anything.
LEMMA StoreStepKeeps ==
    ASSUME StoreInv, StoreStep
    PROVE  StoreInv' /\ heard' = heard
<1>1. CASE publishTick
  BY <1>1, PublishTickKeeps DEF publishTick
<1>2. CASE redisExecutes
  BY <1>2, ExecuteKeeps DEF redisExecutes
<1>3. CASE setReplied
  BY <1>3, SetRepliedKeeps DEF setReplied
<1>4. CASE redisPublish
  BY <1>4, RedisPublishKeeps DEF redisPublish
<1>5. CASE pubReplied
  BY <1>5, PubRepliedKeeps DEF pubReplied
<1>6. CASE connectionLost
  BY <1>6, ConnectionLostKeeps DEF connectionLost
<1>7. CASE keyExpires
  BY <1>7, ExpiryKeeps DEF keyExpires
<1>8. CASE onModuleInit
  BY <1>8, StartKeeps DEF onModuleInit
<1>9. CASE setSymbolVisibility
  BY <1>9, VisibilityKeeps DEF setSymbolVisibility
<1>. QED  BY <1>1, <1>2, <1>3, <1>4, <1>5, <1>6, <1>7, <1>8, <1>9 DEF StoreStep

\* What a store step changes of the store is nothing to the browsers.
LEMMA StoreUnchanged ==
    ASSUME StoreInv, UNCHANGED storeVars
    PROVE  StoreInv' /\ heard' = heard
<1>1. UNCHANGED <<phase, state, store, visible, commands, pubs, inbox, heard, dropped, last, losses, crashes>>
  BY DEF storeVars, connections, faults
<1>2. announced' = announced
  BY <1>1 DEF announced
<1>3. Types' /\ Phases' /\ Agrees'
  BY <1>1 DEF StoreInv, Types, Phases, Agrees
<1>. QED  BY <1>1, <1>2, <1>3, QuotesUntouched

LEMMA BrowsersUnchanged ==
    ASSUME Browsers, UNCHANGED gatewayVars, heard' = heard
    PROVE  Browsers'
BY DEF Browsers, gatewayVars, market

LEMMA ConnectingKeeps ==
    ASSUME Browsers, NEW c \in Clients, heard' = heard,
           handleConnection(c) \/ tokenRejected(c) \/ tokenVerified(c) \/ disconnects(c)
    PROVE  Browsers'
<1>1. CASE handleConnection(c)
  BY <1>1, BoundsAssumption DEF handleConnection, Browsers, market, Expired
<1>2. CASE tokenRejected(c)
  BY <1>2 DEF tokenRejected, Browsers, market
<1>3. CASE tokenVerified(c)
  BY <1>3 DEF tokenVerified, Browsers, market
<1>4. CASE disconnects(c)
  BY <1>4 DEF disconnects, Browsers, market
<1>. QED  BY <1>1, <1>2, <1>3, <1>4

\* The snapshot is taken from memory, which is ahead of every tick.
LEMMA SnapshotKeeps ==
    ASSUME StoreInv, Browsers, NEW c \in Clients, sendSnapshot(c)
    PROVE  StoreInv' /\ Browsers'
<1>1. /\ getReplied("VISIBLE") /\ heard' = heard
      /\ UNCHANGED <<admins, ticked, throttled>>
  BY DEF sendSnapshot, getReplied
<1>2. StoreInv'
  BY <1>1, GetRepliedKeeps
<1>3. heard <= state /\ heard \in Seed .. MaxQuotes /\ state \in Seed .. MaxQuotes
  <2>1. heard \in announced
    BY DEF announced
  <2>2. \A q \in announced : q <= state
    BY Zenon DEF StoreInv, Ordered
  <2>. QED  BY <2>1, <2>2 DEF StoreInv, Types
<1>4. /\ ticked <= heard /\ ticked \in Expired .. MaxQuotes /\ newest[c] \in Expired .. MaxQuotes
      /\ state \in Expired .. MaxQuotes
  BY <1>3, BoundsAssumption DEF Browsers, Seed, Expired
<1>5. /\ Newer(newest[c], state) \in Expired .. MaxQuotes /\ Newer(newest[c], state) >= ticked
  <2>1. Newer(newest[c], state) \in Expired .. MaxQuotes /\ Newer(newest[c], state) >= state
    BY <1>4, NewerIs
  <2>. QED  BY <1>3, <1>4, <2>1, BoundsAssumption DEF Seed, Expired
<1>6. CASE conn[c] = "gone"
  <2>1. UNCHANGED <<conn, newest>>
    BY <1>6 DEF sendSnapshot
  <2>. QED  BY <1>1, <1>2, <2>1, BrowsersUnchanged DEF gatewayVars
<1>7. CASE conn[c] # "gone" /\ Head(commands).value # 0
  <2>1. conn' = [conn EXCEPT ![c] = "live"] /\ newest' = [newest EXCEPT ![c] = Newer(@, state)]
    BY <1>7 DEF sendSnapshot
  <2>. HIDE DEF Newer
  <2>2. Browsers'
    BY <1>1, <1>5, <2>1 DEF Browsers, market
  <2>. QED  BY <1>2, <2>2
<1>8. CASE conn[c] # "gone" /\ Head(commands).value = 0
  <2>1. conn' = [conn EXCEPT ![c] = "blind"] /\ newest' = newest
    BY <1>8 DEF sendSnapshot
  <2>2. Browsers'
    BY <1>1, <2>1 DEF Browsers, market
  <2>. QED  BY <1>2, <2>2
<1>. QED  BY <1>6, <1>7, <1>8

LEMMA MessageKeeps ==
    ASSUME StoreInv, Browsers, onMessage
    PROVE  StoreInv' /\ Browsers'
<1>1. subscriberReceives /\ throttled' = TRUE /\ UNCHANGED <<conn, admins>>
  BY DEF onMessage
<1>2. /\ StoreInv' /\ heard' >= heard /\ heard' >= Head(inbox) /\ Head(inbox) \in 1 .. MaxQuotes
  BY <1>1, ReceiveKeeps
<1>3. heard \in Int /\ heard' \in Int /\ ticked \in Int /\ ticked <= heard
  BY <1>2, BoundsAssumption DEF StoreInv, Types, Browsers, Seed, Expired
<1>4. CASE UNCHANGED <<ticked, newest>>
  <2>1. ticked' <= heard'
    BY <1>2, <1>3, <1>4
  <2>2. Browsers'
    BY <1>1, <1>4, <2>1 DEF Browsers, market
  <2>. QED  BY <1>2, <2>2
<1>5. CASE broadcastTick(Head(inbox))
  <2>. DEFINE q == Head(inbox)
  <2>1. /\ ticked' = Newer(ticked, q)
        /\ newest' = [c \in Clients |-> IF c \in market THEN Newer(newest[c], q) ELSE newest[c]]
    BY <1>5 DEF broadcastTick
  <2>2. q \in Expired .. MaxQuotes /\ q <= heard'
    BY <1>2, <1>3, BoundsAssumption DEF Expired
  <2>. HIDE DEF q
  <2>3. /\ ticked \in Expired .. MaxQuotes /\ \A c \in Clients : newest[c] \in Expired .. MaxQuotes
    BY DEF Browsers
  <2>4. ticked' \in Expired .. MaxQuotes /\ ticked' <= heard' /\ (ticked' = ticked \/ ticked' = q)
    BY <1>2, <1>3, <2>1, <2>2, <2>3, BoundsAssumption DEF Newer, Expired
  <2>5. newest' \in [Clients -> Expired .. MaxQuotes]
    BY <2>1, <2>2, <2>3 DEF Newer
  <2>6. \A c \in Clients : conn'[c] = "live" => newest'[c] >= ticked'
    <3>. SUFFICES ASSUME NEW c \in Clients, conn[c] = "live" PROVE newest'[c] >= ticked'
      BY <1>1
    <3>1. newest'[c] = Newer(newest[c], q)
      BY <2>1 DEF market
    <3>2. newest[c] >= ticked
      BY DEF Browsers
    <3>3. newest'[c] >= newest[c] /\ newest'[c] >= q /\ newest'[c] \in Expired .. MaxQuotes
      BY <2>2, <2>3, <3>1, NewerIs
    <3>. QED  BY <2>2, <2>3, <2>4, <3>2, <3>3, BoundsAssumption DEF Expired
  <2>7. Browsers'
    BY <1>1, <2>4, <2>5, <2>6 DEF Browsers, market
  <2>. QED  BY <1>2, <2>7
<1>. QED  BY <1>4, <1>5 DEF onMessage

LEMMA RejectedKeeps ==
    ASSUME StoreInv, Browsers, commandsRejected
    PROVE  StoreInv' /\ Browsers'
<1>1. StoreInv' /\ heard' = heard
  BY GivenUpKeeps DEF commandsRejected, commandsGivenUp
<1>2. PICK failed : /\ conn' = [c \in Clients |-> IF c \in failed THEN "gone" ELSE conn[c]]
                    /\ admins' = admins \ failed
                    /\ UNCHANGED <<newest, ticked, throttled>>
  BY DEF commandsRejected
<1>3. Browsers'
  BY <1>1, <1>2 DEF Browsers, market
<1>. QED  BY <1>1, <1>3

LEMMA CrashOfProcessKeeps ==
    ASSUME StoreInv, Browsers, processCrashes
    PROVE  StoreInv' /\ Browsers'
<1>1. StoreInv' /\ heard' = Seed
  BY CrashKeeps DEF processCrashes, crash
<1>2. Browsers'
  <2>1. /\ conn' = [c \in Clients |-> "gone"] /\ admins' = {} /\ newest' = newest
        /\ ticked' = Expired /\ throttled' = FALSE
    BY DEF processCrashes
  <2>2. Expired \in Expired .. MaxQuotes /\ Expired <= Seed
    BY BoundsAssumption DEF Seed, Expired
  <2>3. \A c \in Clients : conn'[c] # "live"
    BY <2>1
  <2>4. conn' \in [Clients -> {"gone", "verifying", "reading", "live", "blind"}]
    BY <2>1
  <2>. QED  BY <1>1, <2>1, <2>2, <2>3, <2>4 DEF Browsers
<1>. QED  BY <1>1, <1>2

\* Every step of the gateway and of the store keeps both parts of the invariant.
LEMMA StepKeeps ==
    ASSUME StoreInv, Browsers, [Next]_vars
    PROVE  StoreInv' /\ Browsers'
<1>1. CASE StoreStep /\ UNCHANGED gatewayVars
  BY <1>1, StoreStepKeeps, BrowsersUnchanged
<1>2. ASSUME NEW c \in Clients, handleConnection(c) \/ tokenRejected(c) \/ disconnects(c)
      PROVE  StoreInv' /\ Browsers'
  <2>1. UNCHANGED storeVars
    BY <1>2 DEF handleConnection, tokenRejected, disconnects
  <2>. QED  BY <1>2, <2>1, StoreUnchanged, ConnectingKeeps
<1>3. ASSUME NEW c \in Clients, tokenVerified(c)
      PROVE  StoreInv' /\ Browsers'
  <2>1. request("VISIBLE", c) /\ heard' = heard /\ c \in Readers
    BY <1>3, ReadersAssumption DEF tokenVerified, request
  <2>. QED  BY <1>3, <2>1, RequestKeeps, ConnectingKeeps
<1>4. ASSUME NEW c \in Clients, sendSnapshot(c)
      PROVE  StoreInv' /\ Browsers'
  BY <1>4, SnapshotKeeps
<1>5. CASE onMessage
  BY <1>5, MessageKeeps
<1>6. CASE throttleEnds
  <2>1. UNCHANGED <<storeVars, conn, admins, newest, ticked>> /\ throttled' = FALSE
    BY <1>6 DEF throttleEnds
  <2>2. StoreInv' /\ heard' = heard
    BY <2>1, StoreUnchanged
  <2>. QED  BY <2>1, <2>2 DEF Browsers, market
<1>7. CASE callAnswered
  <2>1. (getReplied("QUOTE") \/ getReplied("VISIBLE")) /\ UNCHANGED gatewayVars
    BY <1>7 DEF callAnswered
  <2>2. StoreInv' /\ heard' = heard
    BY <2>1, GetRepliedKeeps DEF getReplied
  <2>. QED  BY <2>1, <2>2, BrowsersUnchanged
<1>8. ASSUME NEW k \in Calls, broadcastExposure(k) \/ listQuotes(k) \/ listSymbols(k)
      PROVE  StoreInv' /\ Browsers'
  <2>1. (request("QUOTE", k) \/ request("VISIBLE", k)) /\ UNCHANGED gatewayVars /\ k \in Readers
    BY <1>8, ReadersAssumption DEF broadcastExposure, listQuotes, listSymbols
  <2>2. StoreInv' /\ heard' = heard
    BY <2>1, RequestKeeps DEF request
  <2>. QED  BY <2>1, <2>2, BrowsersUnchanged
<1>9. CASE commandsRejected
  BY <1>9, RejectedKeeps
<1>10. CASE processCrashes
  BY <1>10, CrashOfProcessKeeps
<1>11. CASE UNCHANGED vars
  BY <1>11, StoreUnchanged, BrowsersUnchanged DEF vars
<1>. QED  BY <1>1, <1>2, <1>3, <1>4, <1>5, <1>6, <1>7, <1>8, <1>9, <1>10, <1>11 DEF Next

LEMMA InitOrdered == Init => StoreInv /\ Browsers
<1>. SUFFICES ASSUME Init PROVE StoreInv /\ Browsers
  OBVIOUS
<1>1. /\ phase = "down" /\ state = Seed /\ store = Expired /\ visible = 1
      /\ commands = <<>> /\ pubs = <<>> /\ inbox = <<>> /\ heard = Seed
      /\ dropped = {} /\ last = 0 /\ losses = 0 /\ crashes = 0
  BY DEF Init, StoreInit
<1>2. announced = {Seed}
  BY <1>1 DEF announced
<1>3. Ordered(commands, announced, store, state)
  BY <1>1, <1>2, NoCommands DEF Seed, Expired
<1>4. Types
  BY <1>1, BoundsAssumption DEF Types, FromFront, Seed, Expired
<1>5. Phases /\ Agrees
  BY <1>1 DEF Phases, Agrees, Sets, Seed
<1>6. Browsers
  <2>1. /\ conn = [c \in Clients |-> "gone"] /\ admins = {} /\ newest = [c \in Clients |-> Expired]
        /\ ticked = Expired /\ throttled = FALSE /\ heard = Seed
    BY <1>1 DEF Init
  <2>2. Expired \in Expired .. MaxQuotes /\ Expired <= Seed
    BY BoundsAssumption DEF Seed, Expired
  <2>3. newest \in [Clients -> Expired .. MaxQuotes]
    BY <2>1, <2>2
  <2>4. \A c \in Clients : conn[c] # "live"
    BY <2>1
  <2>5. conn \in [Clients -> {"gone", "verifying", "reading", "live", "blind"}]
    BY <2>1
  <2>. QED  BY <2>1, <2>2, <2>3, <2>4, <2>5 DEF Browsers
<1>. QED  BY <1>3, <1>4, <1>5, <1>6 DEF StoreInv

(***************************************************************************)
(* The theorems                                                            *)
(***************************************************************************)

THEOREM QuotesInOrder == Spec => [](StoreInv /\ Browsers)
<1>1. Init => StoreInv /\ Browsers
  BY InitOrdered
<1>2. StoreInv /\ Browsers /\ [Next]_vars => (StoreInv /\ Browsers)'
  BY StepKeeps
<1>. QED  BY <1>1, <1>2, PTL DEF Spec

\* The variables have their types, and Redis executes each queue from its front.
THEOREM TypeCorrect == Spec => []TypeOK
<1>1. StoreInv /\ Browsers => TypeOK
  BY DEF StoreInv, Browsers, Ordered, FromFront, Types, StoreTypeOK, TypeOK
<1>. QED  BY <1>1, QuotesInOrder, PTL

\* A read never answers with a quote behind a tick that was heard before (getQuoteFromCache).
THEOREM NoStaleAnswer == Spec => []AnswerIsFresh
<1>1. StoreInv => AnswerIsFresh
  <2>. SUFFICES ASSUME StoreInv, Replied("QUOTE") PROVE getQuoteFromCache >= heard
    BY DEF AnswerIsFresh
  <2>1. commands \in Seq(Commands) /\ commands # <<>> /\ Head(commands).done /\ Head(commands).op = "QUOTE"
    BY DEF Replied, StoreInv, Types
  <2>2. 1 \in DOMAIN commands /\ Head(commands) = commands[1]
    BY <2>1, Removing
  <2>3. /\ heard \in announced /\ heard \in Int /\ state \in Int
        /\ \A q \in announced : q <= state
        /\ \A i \in Answered(commands), q \in announced : q <= commands[i].value
    BY Ticks, Zenon DEF StoreInv, Ordered, announced
  <2>4. CASE Head(commands).value # Expired
    <3>1. 1 \in Answered(commands)
      BY <2>1, <2>2, <2>4 DEF Answered
    <3>2. heard <= commands[1].value /\ commands[1].value \in Int
      BY <2>1, <2>2, <2>3, <3>1, CommandTypes
    <3>. QED  BY <2>2, <2>3, <2>4, <3>2 DEF getQuoteFromCache
  <2>5. CASE Head(commands).value = Expired
    BY <2>3, <2>5 DEF getQuoteFromCache
  <2>. QED  BY <2>4, <2>5
<1>. QED  BY <1>1, QuotesInOrder, PTL

\* With no write under way memory and Redis agree on every quote that was not given up.
THEOREM MemoryAndRedisAgree == Spec => []StoreAgrees
<1>1. StoreInv => StoreAgrees
  <2>. SUFFICES ASSUME StoreInv, \A c \in Range(commands) : c.op # "SET"
                PROVE  Sets(commands) = {}
    BY DEF StoreAgrees, StoreInv, Agrees
  <2>. QED  BY DEF Sets, Range
<1>. QED  BY <1>1, QuotesInOrder, PTL

\* No tick falls between a browser's snapshot and the ticks it is sent.
THEOREM NothingFallsBetween == Spec => []NothingMissed
<1>1. Browsers => NothingMissed
  BY DEF Browsers, NothingMissed
<1>. QED  BY <1>1, QuotesInOrder, PTL

=============================================================================
