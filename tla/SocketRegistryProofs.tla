------------------------ MODULE SocketRegistryProofs ------------------------
(***************************************************************************)
(* Proofs about SocketRegistry, for any number of users and sockets.       *)
(* TypeOK, Mirror and LimitsOnlyOnline together are inductive; the         *)
(* refinement of Presence follows from Mirror.                             *)
(***************************************************************************)
EXTENDS SocketRegistry, Integers, TLAPS

IInv == TypeOK /\ Mirror /\ LimitsOnlyOnline

USE SocketRegistryAssumption

\* Initially nobody is connected.
LEMMA InitIInv == Init => IInv
BY SMTT(30) DEF Init, IInv, TypeOK, Mirror, LimitsOnlyOnline, getSocketsByUser

\* What register does to the maps: only the set of u changes, by s.
LEMMA RegisterMaps ==
  ASSUME TypeOK, NEW u \in Users, NEW s \in Sockets, register(u, s)
  PROVE  /\ DOMAIN userSockets' = DOMAIN userSockets \cup {u}
         /\ userSockets' \in [DOMAIN userSockets' -> SUBSET Sockets]
         /\ socketToUser' \in [Sockets -> Users \cup {None}]
         /\ \A v \in Users : getSocketsByUser(v)' =
              IF v = u THEN getSocketsByUser(u) \cup {s} ELSE getSocketsByUser(v)
BY DEF TypeOK, register, With, getSocketsByUser

\* What unregister does to the maps: s leaves the set of its user u, and the
\* entry of u goes with the last socket.
LEMMA UnregisterMaps ==
  ASSUME IInv, NEW s \in Sockets, NEW u \in Users, data[s] = u, unregister(s)
  PROVE  /\ DOMAIN userSockets' \subseteq DOMAIN userSockets
         /\ userSockets' \in [DOMAIN userSockets' -> SUBSET Sockets]
         /\ socketToUser' = [socketToUser EXCEPT ![s] = None]
         /\ \A v \in Users : getSocketsByUser(v)' =
              IF v = u THEN getSocketsByUser(u) \ {s} ELSE getSocketsByUser(v)
         /\ u \in DOMAIN userSockets' => userSockets'[u] # {}
         /\ \A v \in Users \ {u} : /\ v \in DOMAIN userSockets' <=> v \in DOMAIN userSockets
                                   /\ v \in DOMAIN userSockets => userSockets'[v] = userSockets[v]
<1>1. socketToUser[s] = u /\ u # None
  BY DEF IInv, Mirror
<1>2. u \in DOMAIN userSockets
  BY <1>1 DEF IInv, Mirror, TypeOK, getSocketsByUser
<1>3. CASE getSocketsByUser(u) \subseteq {s}
  <2>1. userSockets' = Without(userSockets, u)
    BY <1>1, <1>3 DEF unregister
  <2>2. DOMAIN userSockets' = DOMAIN userSockets \ {u}
    BY <2>1 DEF Without
  <2>3. \A v \in DOMAIN userSockets \ {u} : userSockets'[v] = userSockets[v]
    BY <2>1 DEF Without
  <2>4. userSockets' \in [DOMAIN userSockets' -> SUBSET Sockets]
    BY <2>1 DEF Without, IInv, TypeOK
  <2>5. getSocketsByUser(u) \ {s} = {}
    BY <1>3
  <2> QED
    BY <1>1, <1>2, <2>2, <2>3, <2>4, <2>5 DEF unregister, getSocketsByUser
<1>4. CASE ~(getSocketsByUser(u) \subseteq {s})
  <2>1. userSockets' = With(userSockets, u, getSocketsByUser(u) \ {s})
    BY <1>1, <1>4 DEF unregister
  <2>2. DOMAIN userSockets' = DOMAIN userSockets
    BY <2>1, <1>2 DEF With
  <2>3. userSockets'[u] = getSocketsByUser(u) \ {s}
    BY <2>1, <1>2 DEF With
  <2>4. userSockets'[u] # {}
    BY <2>3, <1>4
  <2>5. \A v \in DOMAIN userSockets \ {u} : userSockets'[v] = userSockets[v]
    BY <2>1 DEF With
  <2>6. userSockets' \in [DOMAIN userSockets' -> SUBSET Sockets]
    BY <2>1, <1>2 DEF With, getSocketsByUser, IInv, TypeOK
  <2> QED
    BY <1>1, <1>2, <2>2, <2>3, <2>4, <2>5, <2>6 DEF unregister, getSocketsByUser
<1> QED
  BY <1>3, <1>4

\* A user is online exactly when the user has a socket.
LEMMA OnlineSockets ==
  ASSUME IInv, NEW u \in Users
  PROVE  isUserOnline(u) <=> getSocketsByUser(u) # {}
BY DEF isUserOnline, Online, getSocketsByUser

LEMMA ConnectKeeps ==
  ASSUME IInv, NEW s \in Sockets, NEW u \in Users, handleConnection(s, u)
  PROVE  IInv'
<1> USE DEF handleConnection
<1>1. /\ DOMAIN userSockets' = DOMAIN userSockets \cup {u}
      /\ userSockets' \in [DOMAIN userSockets' -> SUBSET Sockets]
      /\ socketToUser' \in [Sockets -> Users \cup {None}]
      /\ \A v \in Users : getSocketsByUser(v)' =
           IF v = u THEN getSocketsByUser(u) \cup {s} ELSE getSocketsByUser(v)
  BY RegisterMaps DEF IInv
<1>2. TypeOK'
  BY <1>1 DEF IInv, TypeOK
<1>3. socketToUser' = data'
  BY DEF IInv, Mirror, register
<1>4. \A v \in Users : /\ v \in DOMAIN userSockets' => userSockets'[v] # {}
                       /\ getSocketsByUser(v)' = {x \in Sockets : socketToUser'[x] = v}
  <2> TAKE v \in Users
  <2>1. getSocketsByUser(v)' = {x \in Sockets : socketToUser'[x] = v}
    <3>1. \A x \in Sockets : socketToUser'[x] = IF x = s THEN u ELSE socketToUser[x]
      BY DEF register, IInv, TypeOK
    <3>2. socketToUser[s] = None
      BY DEF IInv, Mirror
    <3>3. getSocketsByUser(v) = {x \in Sockets : socketToUser[x] = v}
      BY DEF IInv, Mirror
    <3> QED
      BY <1>1, <3>1, <3>2, <3>3
  <2>2. v \in DOMAIN userSockets' => userSockets'[v] # {}
    BY DEF register, With, IInv, Mirror
  <2> QED
    BY <2>1, <2>2
<1>5. LimitsOnlyOnline'
  <2>1. \A v \in Users : isUserOnline(v) => getSocketsByUser(v) # {}
    BY OnlineSockets
  <2>2. \A v \in Users : getSocketsByUser(v)' # {} => isUserOnline(v)'
    BY <1>4 DEF isUserOnline, Online, getSocketsByUser
  <2> QED
    BY <2>1, <2>2, <1>1 DEF IInv, LimitsOnlyOnline
<1> QED
  BY <1>2, <1>3, <1>4, <1>5 DEF IInv, Mirror

LEMMA DisconnectKeeps ==
  ASSUME IInv, NEW s \in Sockets, handleDisconnect(s)
  PROVE  IInv'
<1> USE DEF handleDisconnect
<1> DEFINE u == data[s]
<1>0. u \in Users
  BY DEF IInv, TypeOK
<1>1. /\ DOMAIN userSockets' \subseteq DOMAIN userSockets
      /\ userSockets' \in [DOMAIN userSockets' -> SUBSET Sockets]
      /\ socketToUser' = [socketToUser EXCEPT ![s] = None]
      /\ \A v \in Users : getSocketsByUser(v)' =
           IF v = u THEN getSocketsByUser(u) \ {s} ELSE getSocketsByUser(v)
      /\ u \in DOMAIN userSockets' => userSockets'[u] # {}
      /\ \A v \in Users \ {u} : /\ v \in DOMAIN userSockets' <=> v \in DOMAIN userSockets
                                /\ v \in DOMAIN userSockets => userSockets'[v] = userSockets[v]
  BY <1>0, UnregisterMaps
<1>2. TypeOK'
  <2>1. rateLimits' \in [Users -> RateLimit \cup {None}]
    BY DEF IInv, TypeOK
  <2>2. accepted' \in [Users -> Seq(Nat)]
    <3>1. accepted \in [Users -> Seq(Nat)] /\ <<>> \in Seq(Nat)
      BY DEF IInv, TypeOK
    <3>2. accepted' = accepted \/ accepted' = [accepted EXCEPT ![u] = <<>>]
      OBVIOUS
    <3> QED
      BY <1>0, <3>1, <3>2
  <2> QED
    BY <1>1, <2>1, <2>2 DEF IInv, TypeOK
<1>3. socketToUser' = data'
  BY <1>1 DEF IInv, Mirror
<1>4. \A v \in Users : /\ v \in DOMAIN userSockets' => userSockets'[v] # {}
                       /\ getSocketsByUser(v)' = {x \in Sockets : socketToUser'[x] = v}
  <2> TAKE v \in Users
  <2>1. \A x \in Sockets : socketToUser'[x] = IF x = s THEN None ELSE socketToUser[x]
    BY <1>1 DEF IInv, TypeOK
  <2>2. getSocketsByUser(v) = {x \in Sockets : socketToUser[x] = v} /\ socketToUser[s] = u
    BY DEF IInv, Mirror
  <2>3. getSocketsByUser(v)' = {x \in Sockets : socketToUser'[x] = v}
    BY <1>1, <2>1, <2>2
  <2>4. v \in DOMAIN userSockets' => userSockets'[v] # {}
    BY <1>1 DEF IInv, Mirror
  <2> QED
    BY <2>3, <2>4
<1>5. LimitsOnlyOnline'
  <2> SUFFICES ASSUME NEW v \in Users, rateLimits'[v] # None
               PROVE  Online(userSockets', v)
    BY DEF LimitsOnlyOnline, isUserOnline
  <2>1. CASE v = u
    BY <2>1 DEF IInv, TypeOK
  <2>2. CASE v # u
    <3>1. rateLimits[v] # None
      BY <2>2, <1>0 DEF IInv, TypeOK
    <3>2. Online(userSockets, v)
      BY <3>1 DEF IInv, LimitsOnlyOnline, isUserOnline
    <3> QED
      BY <3>2, <2>2, <1>1 DEF Online
  <2> QED
    BY <2>1, <2>2
<1> QED
  BY <1>2, <1>3, <1>4, <1>5 DEF IInv, Mirror

LEMMA MessageKeeps ==
  ASSUME IInv, NEW s \in Sockets, handleMessage(s)
  PROVE  IInv'
<1> DEFINE u == data[s]
<1>0. u \in Users /\ Accept(u)
  BY DEF handleMessage, IInv, TypeOK
<1>1. rateLimits' \in [Users -> RateLimit \cup {None}]
  <2>1. CASE rateLimits' = [rateLimits EXCEPT ![u] = [count |-> 1, resetAt |-> clock + Second]]
    <3>1. [count |-> 1, resetAt |-> clock + Second] \in RateLimit
      BY DEF RateLimit, IInv, TypeOK
    <3> QED
      BY <2>1, <3>1 DEF IInv, TypeOK
  <2>2. CASE /\ rateLimits[u] # None /\ rateLimits[u].count < MaxMessages
             /\ rateLimits' = [rateLimits EXCEPT ![u].count = @ + 1]
    <3>1. rateLimits[u] \in RateLimit
      BY <1>0, <2>2 DEF IInv, TypeOK
    <3>2. [rateLimits[u] EXCEPT !.count = @ + 1] \in RateLimit
      BY <2>2, <3>1 DEF RateLimit
    <3> QED
      BY <2>2, <3>2 DEF IInv, TypeOK
  <2> QED
    BY <1>0, <2>1, <2>2 DEF Accept
<1>2. accepted' \in [Users -> Seq(Nat)]
  <2>1. accepted' = [accepted EXCEPT ![u] = Append(@, clock)]
    BY <1>0 DEF Accept
  <2>2. accepted \in [Users -> Seq(Nat)] /\ clock \in Nat
    BY DEF IInv, TypeOK
  <2>3. Append(accepted[u], clock) \in Seq(Nat)
    BY <1>0, <2>2
  <2> QED
    BY <1>0, <2>1, <2>2, <2>3
<1>3. UNCHANGED <<clock, userSockets, socketToUser, data, event>>
  BY DEF handleMessage
<1>4. TypeOK'
  BY <1>1, <1>2, <1>3 DEF IInv, TypeOK
<1>5. Mirror'
  BY <1>3 DEF IInv, Mirror, getSocketsByUser
<1>6. LimitsOnlyOnline'
  <2>1. isUserOnline(u)
    <3>1. s \in getSocketsByUser(u)
      BY <1>0 DEF IInv, Mirror
    <3> QED
      BY <1>0, <3>1, OnlineSockets
  <2>2. \A v \in Users \ {u} : rateLimits'[v] = rateLimits[v]
    BY <1>0 DEF Accept, IInv, TypeOK
  <2>3. \A v \in Users : isUserOnline(v)' <=> isUserOnline(v)
    BY <1>3 DEF isUserOnline, Online
  <2> QED
    BY <2>1, <2>2, <2>3 DEF IInv, LimitsOnlyOnline
<1> QED
  BY <1>4, <1>5, <1>6 DEF IInv

LEMMA OthersKeep ==
  ASSUME IInv, (\E u \in Users : emitToUser(u)) \/ Tick \/ UNCHANGED vars
  PROVE  IInv'
<1>0. UNCHANGED <<userSockets, socketToUser, rateLimits, data>>
  BY DEF emitToUser, Tick, vars
<1>1. TypeOK'
  <2>1. CASE \E u \in Users : emitToUser(u)
    <3>1. PICK u \in Users : emitToUser(u)
      BY <2>1
    <3>2. getSocketsByUser(u) \in SUBSET Sockets
      BY DEF getSocketsByUser, IInv, TypeOK
    <3>3. event' \in Event
      BY <3>1, <3>2 DEF emitToUser, Event
    <3> QED
      BY <1>0, <3>1, <3>3 DEF emitToUser, IInv, TypeOK
  <2>2. CASE Tick
    BY <1>0, <2>2 DEF Tick, IInv, TypeOK
  <2>3. CASE UNCHANGED vars
    BY <1>0, <2>3 DEF vars, IInv, TypeOK
  <2> QED
    BY <2>1, <2>2, <2>3
<1>2. Mirror'
  BY <1>0 DEF IInv, Mirror, getSocketsByUser
<1>3. LimitsOnlyOnline'
  BY <1>0 DEF IInv, LimitsOnlyOnline, isUserOnline, Online
<1> QED
  BY <1>1, <1>2, <1>3 DEF IInv

LEMMA NextIInv == IInv /\ [Next]_vars => IInv'
BY ConnectKeeps, DisconnectKeeps, MessageKeeps, OthersKeep DEF Next

\* The inductive invariant holds in every state.
THEOREM Invariance == Spec => []IInv
BY InitIInv, NextIInv, PTL DEF Spec

\* The maps, limits and counters keep their types.
THEOREM TypeCorrect == Spec => []TypeOK
BY Invariance, PTL DEF IInv

\* The two maps of the registry always mirror each other and the sockets.
THEOREM MapsMirror == Spec => []Mirror
BY Invariance, PTL DEF IInv

\* No user who is offline keeps a rate limit.
THEOREM NoStaleLimits == Spec => []LimitsOnlyOnline
BY Invariance, PTL DEF IInv

-----------------------------------------------------------------------------
(* Why tabs share a limit.  The last count messages of a user are those of *)
(* the present window; the first of them opened it, and everything that is *)
(* MaxMessages before that one is more than a second older.                *)

Opener(u) == Len(accepted[u]) - rateLimits[u].count + 1

InOrder(u) ==
  /\ \A i \in 1..Len(accepted[u]) : accepted[u][i] <= clock
  /\ \A i, j \in 1..Len(accepted[u]) : i <= j => accepted[u][i] <= accepted[u][j]

Windowed(u) ==
  /\ rateLimits[u].count <= Len(accepted[u])
  /\ rateLimits[u].resetAt = accepted[u][Opener(u)] + Second
  /\ \A i \in 1..(Opener(u) - MaxMessages) :
       accepted[u][Opener(u)] > accepted[u][i] + Second

Spread(u) == \A i \in 1..(Len(accepted[u]) + 1 - 2 * MaxMessages) :
  accepted[u][i + 2 * MaxMessages - 1] > accepted[u][i] + Second

Counted(u) ==
  /\ rateLimits[u] = None => accepted[u] = <<>>
  /\ rateLimits[u] # None => Windowed(u)
  /\ InOrder(u) /\ Spread(u)

\* A message appended at the present time keeps the order.
LEMMA AppendInOrder ==
  ASSUME IInv, NEW u \in Users, InOrder(u),
         accepted'[u] = Append(accepted[u], clock), clock' = clock
  PROVE  InOrder(u)'
<1>1. accepted[u] \in Seq(Nat) /\ clock \in Nat
  BY DEF IInv, TypeOK
<1> DEFINE n == Len(accepted[u])
<1>2. /\ n \in Nat /\ Len(accepted'[u]) = n + 1 /\ accepted'[u][n + 1] = clock
      /\ \A i \in 1..n : accepted'[u][i] = accepted[u][i] /\ accepted[u][i] \in Nat
  BY <1>1
<1> HIDE DEF n
<1>3. \A i \in 1..n : accepted[u][i] <= clock
  BY DEF InOrder, n
<1>4. \A i, j \in 1..n : i <= j => accepted[u][i] <= accepted[u][j]
  BY DEF InOrder, n
<1> QED
  BY <1>1, <1>2, <1>3, <1>4 DEF InOrder

\* It keeps the spread when it comes more than a second after the message that
\* is 2 * MaxMessages - 1 before it.
LEMMA AppendSpread ==
  ASSUME IInv, NEW u \in Users, Spread(u), accepted'[u] = Append(accepted[u], clock),
         LET first == Len(accepted[u]) + 2 - 2 * MaxMessages
         IN  first >= 1 => clock > accepted[u][first] + Second
  PROVE  Spread(u)'
<1>1. /\ accepted[u] \in Seq(Nat) /\ clock \in Nat
      /\ MaxMessages \in Nat /\ MaxMessages >= 1 /\ Second \in Nat
  BY DEF IInv, TypeOK
<1> DEFINE n == Len(accepted[u])
           m == 2 * MaxMessages
<1>2. /\ n \in Nat /\ Len(accepted'[u]) = n + 1 /\ accepted'[u][n + 1] = clock
      /\ \A i \in 1..n : accepted'[u][i] = accepted[u][i]
  BY <1>1
<1>3. m \in Nat /\ m >= 2
  BY <1>1
<1>4. n + 2 - m >= 1 => clock > accepted[u][n + 2 - m] + Second
  OBVIOUS
<1>5. \A i \in 1..(n + 1 - m) : accepted[u][i + m - 1] > accepted[u][i] + Second
  BY DEF Spread
<1> SUFFICES ASSUME NEW i \in 1..((n + 1) + 1 - m)
             PROVE  accepted'[u][i + m - 1] > accepted'[u][i] + Second
  BY <1>2 DEF Spread
<1> HIDE DEF n, m
<1>6. i \in Nat /\ i \in 1..n
  BY <1>2, <1>3
<1>7. CASE i = n + 2 - m
  <2>1. i + m - 1 = n + 1 /\ n + 2 - m >= 1
    BY <1>2, <1>3, <1>6, <1>7
  <2> QED
    BY <1>2, <1>4, <1>6, <1>7, <2>1
<1>8. CASE i # n + 2 - m
  <2>1. i \in 1..(n + 1 - m) /\ i + m - 1 \in 1..n
    BY <1>2, <1>3, <1>6, <1>8
  <2> QED
    BY <1>2, <1>5, <1>6, <2>1
<1> QED
  BY <1>7, <1>8

\* A window that is opened when the last one has ended begins more than a second
\* after the opener of that one, and so after all but the last MaxMessages - 1
\* messages before it.
LEMMA OpensWindow ==
  ASSUME IInv, NEW u \in Users, Counted(u), clock' = clock,
         rateLimits[u] = None \/ (rateLimits[u] # None /\ clock > rateLimits[u].resetAt),
         rateLimits'[u] = [count |-> 1, resetAt |-> clock + Second],
         accepted'[u] = Append(accepted[u], clock)
  PROVE  Counted(u)'
<1>1. /\ accepted[u] \in Seq(Nat) /\ clock \in Nat
      /\ MaxMessages \in Nat /\ MaxMessages >= 1 /\ Second \in Nat
  BY DEF IInv, TypeOK
<1> DEFINE n == Len(accepted[u])
<1>2. /\ n \in Nat /\ Len(accepted'[u]) = n + 1 /\ accepted'[u][n + 1] = clock
      /\ \A i \in 1..n : accepted'[u][i] = accepted[u][i] /\ accepted[u][i] \in Nat
  BY <1>1
<1>3. \A i \in 1..(n + 1 - MaxMessages) : clock > accepted[u][i] + Second
  <2>1. CASE rateLimits[u] = None
    <3>1. n = 0
      BY <2>1 DEF Counted
    <3> QED
      BY <1>1, <3>1
  <2>2. CASE rateLimits[u] # None
    <3> DEFINE c == rateLimits[u].count
               o == Opener(u)
    <3>1. c \in 1..MaxMessages /\ clock > rateLimits[u].resetAt
      BY <2>2 DEF IInv, TypeOK, RateLimit
    <3>2. c <= n /\ rateLimits[u].resetAt = accepted[u][o] + Second
      BY <2>2 DEF Counted, Windowed
    <3>3. o = n - c + 1
      BY DEF Opener
    <3>5. \A i, j \in 1..n : i <= j => accepted[u][i] <= accepted[u][j]
      BY DEF Counted, InOrder
    <3> HIDE DEF c, o, n
    <3>4. o \in 1..n /\ n + 1 - MaxMessages <= o
      <4>1. n \in Nat /\ MaxMessages \in Nat
        BY <1>1, <1>2
      <4> QED
        BY <4>1, <3>1, <3>2, <3>3
    <3>6. ASSUME NEW i \in 1..o
          PROVE  clock > accepted[u][i] + Second
      <4>1. i \in 1..n /\ i <= o
        BY <1>2, <3>4
      <4>2. accepted[u][i] \in Nat /\ accepted[u][o] \in Nat /\ Second \in Nat /\ clock \in Nat
        BY <1>1, <1>2, <3>4, <4>1
      <4>3. accepted[u][i] <= accepted[u][o]
        BY <3>4, <3>5, <4>1
      <4> QED
        BY <3>1, <3>2, <4>2, <4>3
    <3> QED
      BY <1>1, <1>2, <3>4, <3>6
  <2> QED
    BY <2>1, <2>2
<1> HIDE DEF n
<1>4. InOrder(u)'
  BY AppendInOrder DEF Counted
<1>5. rateLimits'[u] # None
  BY <1>1 DEF RateLimit
<1>6. Opener(u)' = n + 1
  BY <1>2 DEF Opener
<1>7. Windowed(u)'
  <2>1. n + 1 >= 1 /\ n + 1 - MaxMessages <= n
    BY <1>1, <1>2
  <2>2. \A i \in 1..(n + 1 - MaxMessages) : accepted'[u][i] = accepted[u][i]
    BY <1>1, <1>2, <2>1
  <2> QED
    BY <1>2, <1>3, <1>6, <2>1, <2>2 DEF Windowed
<1>8. Spread(u)'
  <2>1. ASSUME n + 2 - 2 * MaxMessages >= 1
        PROVE  n + 2 - 2 * MaxMessages \in 1..(n + 1 - MaxMessages)
    BY <1>1, <1>2, <2>1
  <2>2. n + 2 - 2 * MaxMessages >= 1 => clock > accepted[u][n + 2 - 2 * MaxMessages] + Second
    BY <1>3, <2>1
  <2> QED
    BY <2>2, AppendSpread DEF n, Counted
<1> QED
  BY <1>4, <1>5, <1>7, <1>8 DEF Counted

\* A message let through in an open window is at most the MaxMessages-th in it:
\* the one 2 * MaxMessages - 1 before it is MaxMessages before the opener.
LEMMA FillsWindow ==
  ASSUME IInv, NEW u \in Users, Counted(u), clock' = clock,
         rateLimits[u] # None, rateLimits[u].count < MaxMessages,
         rateLimits'[u] = [rateLimits[u] EXCEPT !.count = @ + 1],
         accepted'[u] = Append(accepted[u], clock)
  PROVE  Counted(u)'
<1>1. /\ accepted[u] \in Seq(Nat) /\ clock \in Nat
      /\ MaxMessages \in Nat /\ MaxMessages >= 1 /\ Second \in Nat
      /\ rateLimits[u] \in RateLimit
  BY DEF IInv, TypeOK
<1> DEFINE n == Len(accepted[u])
           c == rateLimits[u].count
           o == Opener(u)
<1>2. /\ n \in Nat /\ Len(accepted'[u]) = n + 1 /\ accepted'[u][n + 1] = clock
      /\ \A i \in 1..n : accepted'[u][i] = accepted[u][i] /\ accepted[u][i] \in Nat
  BY <1>1
<1>3. /\ c \in 1..(MaxMessages - 1) /\ c <= n
      /\ rateLimits[u].resetAt = accepted[u][o] + Second
      /\ \A i \in 1..(o - MaxMessages) : accepted[u][o] > accepted[u][i] + Second
  BY <1>1 DEF Counted, Windowed, RateLimit
<1>4. rateLimits'[u].count = c + 1 /\ rateLimits'[u].resetAt = rateLimits[u].resetAt
  BY <1>1 DEF RateLimit
<1>5. o = n - c + 1
  BY DEF Opener
<1>6. Opener(u)' = (n + 1) - (c + 1) + 1
  BY <1>2, <1>4 DEF Opener
<1>7. accepted[u][o] <= clock
  <2>1. \A i \in 1..n : accepted[u][i] <= clock
    BY DEF Counted, InOrder
  <2> HIDE DEF n, c, o
  <2>2. n \in Nat /\ MaxMessages \in Nat
    BY <1>1, <1>2
  <2>3. o \in 1..n
    BY <1>3, <1>5, <2>2
  <2> QED
    BY <2>1, <2>3
<1>8. rateLimits'[u] # None
  <2>1. c + 1 \in 1..MaxMessages
    BY <1>1, <1>3
  <2>2. rateLimits'[u] = [count |-> c + 1, resetAt |-> rateLimits[u].resetAt]
    BY <1>1 DEF RateLimit
  <2>3. rateLimits'[u] \in RateLimit
    BY <1>1, <2>1, <2>2 DEF RateLimit
  <2> QED
    BY <2>3
<1> HIDE DEF n, c, o
<1>9. Opener(u)' = o /\ o \in 1..n
  BY <1>2, <1>3, <1>5, <1>6
<1>10. InOrder(u)'
  BY AppendInOrder DEF Counted
<1>11. Windowed(u)'
  <2>1. \A i \in 1..(o - MaxMessages) : i \in 1..n
    BY <1>1, <1>2, <1>9
  <2> QED
    BY <1>2, <1>3, <1>4, <1>9, <2>1 DEF Windowed
<1>12. Spread(u)'
  <2> DEFINE first == n + 2 - 2 * MaxMessages
  <2>1. first \in Int /\ first <= o - MaxMessages
    <3>1. n \in Nat /\ MaxMessages \in Nat /\ c \in Nat /\ c <= MaxMessages - 1
      BY <1>1, <1>2, <1>3
    <3> QED
      BY <3>1, <1>5
  <2> HIDE DEF first
  <2>2. ASSUME first >= 1
        PROVE  clock > accepted[u][first] + Second
    <3>1. first \in 1..(o - MaxMessages)
      BY <1>1, <1>9, <2>1, <2>2
    <3>2. first \in 1..n
      BY <1>1, <1>2, <1>9, <3>1
    <3>3. accepted[u][o] > accepted[u][first] + Second
      BY <1>3, <3>1
    <3>4. accepted[u][o] \in Nat /\ accepted[u][first] \in Nat /\ clock \in Nat /\ Second \in Nat
      BY <1>1, <1>2, <1>9, <3>2
    <3> QED
      BY <1>7, <3>3, <3>4
  <2> QED
    BY <2>2, AppendSpread DEF first, n, Counted
<1> QED
  BY <1>8, <1>10, <1>11, <1>12 DEF Counted

\* What a step leaves alone stays counted.
LEMMA CountedStays ==
  ASSUME IInv, NEW u \in Users, Counted(u),
         accepted'[u] = accepted[u], rateLimits'[u] = rateLimits[u],
         clock' \in Nat, clock' >= clock
  PROVE  Counted(u)'
<1>1. InOrder(u)'
  <2>1. accepted[u] \in Seq(Nat) /\ clock \in Nat
    BY DEF IInv, TypeOK
  <2>2. Len(accepted[u]) \in Nat /\ \A i \in 1..Len(accepted[u]) : accepted[u][i] \in Nat
    BY <2>1
  <2> QED
    BY <2>1, <2>2 DEF Counted, InOrder
<1> QED
  BY <1>1 DEF Counted, Windowed, Opener, Spread

LEMMA NextCounted ==
  ASSUME IInv, \A u \in Users : Counted(u), [Next]_vars
  PROVE  \A u \in Users : Counted(u)'
<1> TAKE u \in Users
<1>0. clock \in Nat /\ Counted(u)
  BY DEF IInv, TypeOK
<1>1. ASSUME NEW s \in Sockets, handleMessage(s)
      PROVE  Counted(u)'
  <2>1. data[s] \in Users /\ Accept(data[s]) /\ clock' = clock
    BY <1>1 DEF handleMessage, IInv, TypeOK
  <2>2. CASE u = data[s]
    <3>1. accepted'[u] = Append(accepted[u], clock)
      BY <2>1, <2>2 DEF Accept, IInv, TypeOK
    <3>2. CASE /\ rateLimits[u] = None \/ (rateLimits[u] # None /\ clock > rateLimits[u].resetAt)
               /\ rateLimits' = [rateLimits EXCEPT ![u] = [count |-> 1, resetAt |-> clock + Second]]
      <4>1. rateLimits'[u] = [count |-> 1, resetAt |-> clock + Second]
        BY <3>2 DEF IInv, TypeOK
      <4> QED
        BY <1>0, <2>1, <3>1, <3>2, <4>1, OpensWindow
    <3>3. CASE /\ rateLimits[u] # None /\ clock <= rateLimits[u].resetAt
               /\ rateLimits[u].count < MaxMessages
               /\ rateLimits' = [rateLimits EXCEPT ![u].count = @ + 1]
      <4>1. rateLimits'[u] = [rateLimits[u] EXCEPT !.count = @ + 1]
        BY <3>3 DEF IInv, TypeOK
      <4> QED
        BY <1>0, <2>1, <3>1, <3>3, <4>1, FillsWindow
    <3> QED
      BY <2>1, <2>2, <3>2, <3>3 DEF Accept
  <2>3. CASE u # data[s]
    <3>1. accepted'[u] = accepted[u] /\ rateLimits'[u] = rateLimits[u]
      BY <2>1, <2>3 DEF Accept, IInv, TypeOK
    <3> QED
      BY <1>0, <2>1, <3>1, CountedStays
  <2> QED
    BY <2>2, <2>3
<1>2. ASSUME NEW s \in Sockets, handleDisconnect(s)
      PROVE  Counted(u)'
  <2>1. data[s] \in Users /\ clock' = clock
    BY <1>2 DEF handleDisconnect, IInv, TypeOK
  <2>2. CASE accepted'[u] = accepted[u] /\ rateLimits'[u] = rateLimits[u]
    BY <1>0, <2>1, <2>2, CountedStays
  <2>3. CASE u = data[s] /\ accepted'[u] = <<>> /\ rateLimits'[u] = None
    <3>1. Len(accepted'[u]) = 0 /\ MaxMessages \in Nat \ {0}
      BY <2>3
    <3>2. InOrder(u)'
      BY <3>1 DEF InOrder
    <3>3. Spread(u)'
      BY <3>1 DEF Spread
    <3> QED
      BY <2>3, <3>2, <3>3 DEF Counted
  <2> QED
    BY <1>2, <2>1, <2>2, <2>3 DEF handleDisconnect, IInv, TypeOK
<1>3. CASE Tick
  BY <1>0, <1>3, CountedStays DEF Tick
<1>4. ASSUME NEW s \in Sockets, NEW v \in Users, handleConnection(s, v)
      PROVE  Counted(u)'
  BY <1>0, <1>4, CountedStays DEF handleConnection
<1>5. ASSUME NEW v \in Users, emitToUser(v)
      PROVE  Counted(u)'
  BY <1>0, <1>5, CountedStays DEF emitToUser
<1>6. CASE UNCHANGED vars
  BY <1>0, <1>6, CountedStays DEF vars
<1> QED
  BY <1>1, <1>2, <1>3, <1>4, <1>5, <1>6 DEF Next

\* Opening and closing tabs never lets 2 * MaxMessages messages of a user through
\* within a second, wherever in it a window ends.
THEOREM SharedLimit == Spec => []TabsShareLimit
<1> DEFINE AllCounted == \A u \in Users : Counted(u)
<1>1. Init => AllCounted
  BY DEF Init, Counted, InOrder, Spread
<1>2. IInv /\ AllCounted /\ [Next]_vars => AllCounted'
  BY NextCounted
<1>3. AllCounted => TabsShareLimit
  BY DEF TabsShareLimit, Counted, Spread
<1> QED
  BY <1>1, <1>2, <1>3, Invariance, PTL DEF Spec

-----------------------------------------------------------------------------

online == {<<s, data[s]>> : s \in {x \in Sockets : data[x] # None}}

LEMMA OnlinePairs ==
  ASSUME TypeOK
  PROVE  \A s \in Sockets, u \in Users : <<s, u>> \in online <=> data[s] = u
BY DEF TypeOK, online

LEMMA InitRefines == Init => P!Init
BY DEF Init, P!Init

\* Every step is a step of Presence or changes neither who is online nor the
\* last event.
LEMMA NextRefines == IInv /\ [Next]_vars => [P!Next]_(P!vars)
<1> SUFFICES ASSUME IInv, [Next]_vars PROVE P!Next \/ UNCHANGED <<online, event>>
  BY DEF P!vars, online
<1>1. ASSUME NEW s \in Sockets, NEW u \in Users, handleConnection(s, u)
      PROVE  P!Next
  <2>1. \A v \in Users : <<s, v>> \notin online
    BY <1>1 DEF online, handleConnection
  <2>2. online' = online \cup {<<s, u>>}
    BY <1>1 DEF online, handleConnection, IInv, TypeOK
  <2>3. event' = event
    BY <1>1 DEF handleConnection
  <2>4. P!Join(s, u)
    BY <2>1, <2>2, <2>3 DEF P!Join, online
  <2> QED
    BY <2>4 DEF P!Next
<1>2. ASSUME NEW s \in Sockets, handleDisconnect(s)
      PROVE  P!Next
  <2>1. \E u \in Users : <<s, u>> \in online
    BY <1>2 DEF online, handleDisconnect, IInv, TypeOK
  <2>2. online' = {p \in online : p[1] # s}
    BY <1>2 DEF online, handleDisconnect, IInv, TypeOK
  <2>3. event' = event
    BY <1>2 DEF handleDisconnect
  <2>4. P!Leave(s)
    BY <2>1, <2>2, <2>3 DEF P!Leave, online
  <2> QED
    BY <2>4 DEF P!Next
<1>3. ASSUME NEW u \in Users, emitToUser(u)
      PROVE  P!Next
  <2>1. getSocketsByUser(u) = {s \in Sockets : data[s] = u}
    BY DEF IInv, Mirror
  <2>2. getSocketsByUser(u) = {s \in Sockets : <<s, u>> \in online}
    BY <2>1, OnlinePairs DEF IInv
  <2>3. online' = online
    BY <1>3 DEF emitToUser, online
  <2>4. P!Notify(u)
    BY <1>3, <2>2, <2>3 DEF P!Notify, emitToUser, online
  <2> QED
    BY <2>4 DEF P!Next
<1>4. ASSUME NEW s \in Sockets, handleMessage(s)
      PROVE  UNCHANGED <<online, event>>
  BY <1>4 DEF handleMessage, online
<1>5. CASE Tick \/ UNCHANGED vars
  BY <1>5 DEF Tick, vars, online
<1> QED
  BY <1>1, <1>2, <1>3, <1>4, <1>5 DEF Next

\* The registry implements Presence: every event goes to the sockets of its user
\* and to no others.
THEOREM Refinement == Spec => ImplementsPresence
BY InitRefines, NextRefines, Invariance, PTL DEF Spec, ImplementsPresence, P!Spec
=============================================================================
