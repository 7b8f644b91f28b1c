--------------------------- MODULE SocketRegistry ---------------------------
(***************************************************************************)
(* The gateway's websocket side: SocketRegistryService with its two maps,  *)
(* and CoreWebsocketGateway, which registers authenticated sockets, limits *)
(* the messages of a user and emits events to all sockets of a user.  Each *)
(* handler runs without an await, so each is one step.                     *)
(***************************************************************************)
EXTENDS Naturals, FiniteSets, Sequences

CONSTANTS
  Users, Sockets,
  MaxMessages,  \* MAX_MESSAGES_PER_SECOND
  Second,       \* 1000 ms, in clock ticks
  MaxClock,     \* bound on the clock
  None          \* undefined

VARIABLES
  clock,
  userSockets,  \* Map userId -> Set of socketIds
  socketToUser, \* Map socketId -> userId
  rateLimits,   \* Map userId -> count and resetAt
  data,         \* client.data.userId of the connected sockets
  event,        \* the last emitToUser: its user, and the sockets it reached
  accepted      \* when messages of a user were let through, since the user
                \* came online

vars == <<clock, userSockets, socketToUser, rateLimits, data, event, accepted>>

RateLimit == [count : 1..MaxMessages, resetAt : Nat]
Event == [user : Users, to : SUBSET Sockets]

ASSUME SocketRegistryAssumption ==
  /\ MaxMessages \in Nat \ {0} /\ Second \in Nat \ {0} /\ MaxClock \in Nat
  /\ None \notin Users /\ None \notin RateLimit /\ None \notin Event

TypeOK ==
  /\ clock \in 0..MaxClock
  /\ DOMAIN userSockets \subseteq Users
  /\ userSockets \in [DOMAIN userSockets -> SUBSET Sockets]
  /\ socketToUser \in [Sockets -> Users \cup {None}]
  /\ rateLimits \in [Users -> RateLimit \cup {None}]
  /\ data \in [Sockets -> Users \cup {None}]
  /\ event \in Event \cup {None}
  /\ accepted \in [Users -> Seq(Nat)]

Init ==
  /\ clock = 0
  /\ userSockets = [u \in {} |-> {}]
  /\ socketToUser = [s \in Sockets |-> None]
  /\ rateLimits = [u \in Users |-> None]
  /\ data = [s \in Sockets |-> None]
  /\ event = None
  /\ accepted = [u \in Users |-> <<>>]

-----------------------------------------------------------------------------
(* SocketRegistryService.                                                  *)

getSocketsByUser(u) == IF u \in DOMAIN userSockets THEN userSockets[u] ELSE {}

With(map, u, S) == [v \in DOMAIN map \cup {u} |-> IF v = u THEN S ELSE map[v]]
Without(map, u) == [v \in DOMAIN map \ {u} |-> map[v]]

\* Mutated register: the set of a user who is online already is replaced.
registerFresh(u, s) ==
  /\ userSockets' = With(userSockets, u, {s})
  /\ socketToUser' = [socketToUser EXCEPT ![s] = u]

register(u, s) ==
  /\ userSockets' = With(userSockets, u, getSocketsByUser(u) \cup {s})
  /\ socketToUser' = [socketToUser EXCEPT ![s] = u]

\* Mutated unregister: the entry of the user stays when its set is empty.
unregisterKeepsEntry(s) ==
  LET u == socketToUser[s] IN
  IF u = None THEN UNCHANGED <<userSockets, socketToUser>>
  ELSE /\ userSockets' = With(userSockets, u, getSocketsByUser(u) \ {s})
       /\ socketToUser' = [socketToUser EXCEPT ![s] = None]

\* An entry goes with its last socket.
unregister(s) ==
  LET u == socketToUser[s] IN
  IF u = None THEN UNCHANGED <<userSockets, socketToUser>>
  ELSE /\ userSockets' = IF getSocketsByUser(u) \subseteq {s}
                         THEN Without(userSockets, u)
                         ELSE With(userSockets, u, getSocketsByUser(u) \ {s})
       /\ socketToUser' = [socketToUser EXCEPT ![s] = None]

Online(map, u) == u \in DOMAIN map /\ map[u] # {}
isUserOnline(u) == Online(userSockets, u)

-----------------------------------------------------------------------------
(* CoreWebsocketGateway.                                                   *)

\* A valid token.  A socket without one is disconnected and never registered.
handleConnection(s, u) ==
  /\ data[s] = None
  /\ data' = [data EXCEPT ![s] = u]
  /\ register(u, s)
  /\ UNCHANGED <<clock, rateLimits, event, accepted>>

\* Mutated handleDisconnect: the rate limit goes with any socket of the user.
handleDisconnectForgets(s) ==
  /\ data[s] # None
  /\ unregister(s)
  /\ rateLimits' = [rateLimits EXCEPT ![data[s]] = None]
  /\ accepted' = IF Online(userSockets', data[s]) THEN accepted
                 ELSE [accepted EXCEPT ![data[s]] = <<>>]
  /\ data' = [data EXCEPT ![s] = None]
  /\ UNCHANGED <<clock, event>>

\* The user's last socket takes the rate limit with it.
handleDisconnect(s) ==
  /\ data[s] # None
  /\ unregister(s)
  /\ IF Online(userSockets', data[s]) THEN UNCHANGED <<rateLimits, accepted>>
     ELSE /\ rateLimits' = [rateLimits EXCEPT ![data[s]] = None]
          /\ accepted' = [accepted EXCEPT ![data[s]] = <<>>]
  /\ data' = [data EXCEPT ![s] = None]
  /\ UNCHANGED <<clock, event>>

\* Mutated Accept: one message too many in a window.
AcceptOffByOne(u) ==
  LET limit == rateLimits[u] IN
  /\ \/ /\ limit = None \/ (limit # None /\ clock > limit.resetAt)
        /\ rateLimits' = [rateLimits EXCEPT ![u] =
                            [count |-> 1, resetAt |-> clock + Second]]
     \/ /\ limit # None /\ clock <= limit.resetAt /\ limit.count <= MaxMessages
        /\ rateLimits' = [rateLimits EXCEPT ![u].count = @ + 1]
  /\ accepted' = [accepted EXCEPT ![u] = Append(@, clock)]

\* checkRateLimit lets a message of the user through, in a new window or in the
\* one that is open.
Accept(u) ==
  LET limit == rateLimits[u] IN
  /\ \/ /\ limit = None \/ (limit # None /\ clock > limit.resetAt)
        /\ rateLimits' = [rateLimits EXCEPT ![u] =
                            [count |-> 1, resetAt |-> clock + Second]]
     \/ /\ limit # None /\ clock <= limit.resetAt /\ limit.count < MaxMessages
        /\ rateLimits' = [rateLimits EXCEPT ![u].count = @ + 1]
  /\ accepted' = [accepted EXCEPT ![u] = Append(@, clock)]

\* notification:read and notification:read-all of an authenticated socket.  A
\* message over the limit is answered with an error and changes nothing.
handleMessage(s) ==
  /\ data[s] # None
  /\ Accept(data[s])
  /\ UNCHANGED <<clock, userSockets, socketToUser, data, event>>

\* emitToUser, for a notification from NATS or a notification that was read.
emitToUser(u) ==
  /\ event' = [user |-> u, to |-> getSocketsByUser(u)]
  /\ UNCHANGED <<clock, userSockets, socketToUser, rateLimits, data, accepted>>

Tick ==
  /\ clock < MaxClock
  /\ clock' = clock + 1
  /\ UNCHANGED <<userSockets, socketToUser, rateLimits, data, event, accepted>>

Next ==
  \/ \E s \in Sockets : \/ \E u \in Users : handleConnection(s, u)
                        \/ handleDisconnect(s) \/ handleMessage(s)
  \/ \E u \in Users : emitToUser(u)
  \/ Tick

Spec == Init /\ [][Next]_vars

-----------------------------------------------------------------------------
(* Properties.                                                             *)

\* The two maps say the same, and no user has an empty set: a socket missing in
\* one of them would never get an event or would stay registered for ever.
Mirror ==
  /\ socketToUser = data
  /\ \A u \in Users :
       /\ u \in DOMAIN userSockets => userSockets[u] # {}
       /\ getSocketsByUser(u) = {s \in Sockets : socketToUser[s] = u}

\* Only users who are online have a rate limit: the map cannot grow for ever.
LimitsOnlyOnline == \A u \in Users : rateLimits[u] # None => isUserOnline(u)

\* The tabs of a user share one limit.  Its windows are fixed, so in the second
\* around a window's end nearly twice the limit may pass; but as long as the user
\* is online, 2 * MaxMessages messages always take longer than a second, however
\* tabs open and close and whenever windows end.
TabsShareLimit ==
  \A u \in Users : \A i \in 1..(Len(accepted[u]) + 1 - 2 * MaxMessages) :
    accepted[u][i + 2 * MaxMessages - 1] > accepted[u][i] + Second

\* The registry implements Presence: events of a user reach exactly the sockets
\* on which the user is authenticated.
P == INSTANCE Presence WITH
       online <- {<<s, data[s]>> : s \in {x \in Sockets : data[x] # None}}
ImplementsPresence == P!Spec
=============================================================================
