--------------------------- MODULE CommonProofs -----------------------------
(***************************************************************************)
(* Theorems about the two components of packages/common.                   *)
(*                                                                         *)
(* Permissions, for any users, roles, admins and guards: its type          *)
(* invariant, NewTokenSeesChange and the action property ExcessHasCause.   *)
(* IInv adds that a call about a user's roles has one, and how old the     *)
(* token, the lists and the cached version can be.                         *)
(*                                                                         *)
(* RateLimiter, for any requests, endpoint, limits and window: its type    *)
(* invariant, BurstBound and RefusedHadLimit.  LimiterInv adds what a      *)
(* counter has to do with the requests that its key counted, and that two  *)
(* windows of a key start a window's length apart.                         *)
(***************************************************************************)
EXTENDS Permissions, RateLimiter, FiniteSetTheorems, TLAPS

USE PermissionsAssumption

-----------------------------------------------------------------------------
(* Permissions: the inductive invariant.                                   *)

\* A call of assignRole or unassignRole is about a user.
Placed == \A a \in Admins : apc[a] \in {"read", "checked", "committed", "clearing"} =>
  actx[a].user \in Users /\ actx[a].op \in {"assign", "unassign"}

\* Version v was User.permVersion of user u in era e or before.
SeenBy(u, v, e) == \E d \in 1..e : hist[u][d] = v

\* Tokens and lists are not of the future, and what a guard fetches is at least
\* as young as its token.
Dated == \A g \in Guards : gpc[g] # "idle" =>
  /\ gctx[g].token <= Now(gctx[g].user) /\ gctx[g].era <= Now(gctx[g].user)
  /\ gpc[g] # "decided" => gctx[g].token <= gctx[g].era

\* A cached list was read when the version it is stored under had been reached.
Cached == \A u \in Users : cache[u] # None =>
  /\ cache[u].era <= Now(u)
  /\ cache[u].perms # {} => SeenBy(u, cache[u].ver, cache[u].era)

IInv == TypeOK /\ Placed /\ Dated /\ Cached /\ NewTokenSeesChange

LEMMA InitIInv == Init => IInv
<1> SUFFICES ASSUME Init PROVE IInv
  OBVIOUS
<1>1. ASSUME NEW u \in Users PROVE hist[u] = <<1>> /\ Now(u) = 1 /\ Now(u) \in Era
  <2>1. hist[u] = <<1>>
    BY DEF Init
  <2>2. Len(<<1>>) = 1 /\ 1 \in 1..MaxEra
    OBVIOUS
  <2> QED
    BY <2>1, <2>2 DEF Now, Era
<1>2. TypeOK
  BY <1>1 DEF Init, TypeOK, AdminSteps, GuardSteps
<1> QED
  BY <1>2 DEF Init, IInv, Placed, Dated, Cached, NewTokenSeesChange

-----------------------------------------------------------------------------
(* What the steps of an admin call do to the calls, to the tables and to    *)
(* the history of versions.                                                 *)

\* What the invariant says of the admin calls, and of the tables.
Callers ==
  /\ apc \in [Admins -> AdminSteps] /\ actx \in [Admins -> AdminCtx \cup {None}]
  /\ \A a \in Admins : apc[a] # "idle" => actx[a] # None
  /\ Placed
Tables ==
  /\ roleRows \subseteq born /\ born \subseteq Roles
  /\ grants \in [Roles -> SUBSET Perms]
  /\ \A r \in Roles \ roleRows : grants[r] = {}
  /\ roles \in [Users -> SUBSET roleRows]
\* The same of the guards, with the history and the cache they look at.
Readers ==
  /\ hist \in [Users -> Seq(Nat)] /\ \A u \in Users : Now(u) \in Era
  /\ cache \in [Users -> Entry \cup {None}]
  /\ gpc \in [Guards -> GuardSteps] /\ gctx \in [Guards -> GuardCtx \cup {None}]
  /\ \A g \in Guards : gpc[g] # "idle" => gctx[g] # None
  /\ Dated /\ Cached /\ NewTokenSeesChange

\* The invariant in three parts that share few variables.
LEMMA Parts == IInv <=> Callers /\ Tables /\ Readers
BY DEF IInv, TypeOK, Callers, Tables, Readers

LEMMA PartsNext == IInv' <=> Callers' /\ Tables' /\ Readers'
BY DEF IInv, TypeOK, Callers, Tables, Readers

\* A call goes on with a context that fits its new position.
LEMMA CallerMoves ==
  ASSUME Callers, NEW a \in Admins, NEW l \in AdminSteps, NEW c \in AdminCtx \cup {None},
         l # "idle" => c # None,
         l \in {"read", "checked", "committed", "clearing"}
           => c.user \in Users /\ c.op \in {"assign", "unassign"},
         AGoto(a, l), ACtx(a, c)
  PROVE  Callers'
<1>1. apc' \in [Admins -> AdminSteps] /\ actx' \in [Admins -> AdminCtx \cup {None}]
  BY DEF Callers, AGoto, ACtx
<1>2. ASSUME NEW b \in Admins
      PROVE  /\ b # a => apc'[b] = apc[b] /\ actx'[b] = actx[b]
             /\ b = a => apc'[b] = l /\ actx'[b] = c
  BY DEF Callers, AGoto, ACtx
<1> QED
  BY <1>1, <1>2 DEF Callers, Placed

\* A call goes on with the context it has.
LEMMA CallerKeeps ==
  ASSUME Callers, NEW a \in Admins, apc[a] # "idle", NEW l \in AdminSteps,
         l \in {"read", "checked", "committed", "clearing"}
           => apc[a] \in {"read", "checked", "committed", "clearing"},
         AGoto(a, l), UNCHANGED actx
  PROVE  Callers'
<1>1. actx[a] \in AdminCtx \cup {None} /\ actx[a] # None /\ ACtx(a, actx[a])
  BY DEF Callers, ACtx
<1> QED
  BY <1>1, CallerMoves DEF Callers, Placed

\* A call ends.
LEMMA CallerEnds ==
  ASSUME Callers, NEW a \in Admins, AEnd(a)
  PROVE  Callers'
BY CallerMoves DEF AEnd, AdminSteps

\* A call without permissions to write ends at once, any other writes them.
LEMMA CallerGrants ==
  ASSUME Callers, NEW a \in Admins, apc[a] = "idle", NEW r \in Roles, NEW P \in Edits,
         NEW op \in {"update", "create"}, Granting(a, r, op, P)
  PROVE  Callers'
<1>1. CASE UNCHANGED <<apc, actx>>
  BY <1>1 DEF Callers, Placed
<1>2. CASE AGoto(a, "granting")
           /\ ACtx(a, [user |-> None, role |-> r, op |-> op, ver |-> 0, todo |-> P])
  <2>1. [user |-> None, role |-> r, op |-> op, ver |-> 0, todo |-> P] \in AdminCtx
    BY DEF AdminCtx
  <2> QED
    BY <1>2, <2>1, CallerMoves DEF AdminSteps
<1> QED
  BY <1>1, <1>2 DEF Granting

\* The history of a user grows by one version and keeps what it says of the past.
LEMMA Remembered ==
  ASSUME Readers, NEW u \in Users, NEW v \in Nat, Now(u) < MaxEra,
         hist' = [hist EXCEPT ![u] = Append(@, v)],
         UNCHANGED <<cache, gpc, gctx>>
  PROVE  Readers'
<1>1. UNCHANGED <<cache, gpc, gctx>>
  OBVIOUS
<1>2. /\ hist' \in [Users -> Seq(Nat)]
      /\ \A w \in Users : /\ Now(w) \in Nat /\ Now(w)' \in Era /\ Now(w) <= Now(w)'
                          /\ \A e \in 1..Now(w) : hist'[w][e] = hist[w][e]
  <2>1. hist' \in [Users -> Seq(Nat)]
    BY DEF Readers
  <2>2. ASSUME NEW w \in Users
        PROVE  /\ Now(w) \in Nat /\ Now(w)' \in Era /\ Now(w) <= Now(w)'
               /\ \A e \in 1..Now(w) : hist'[w][e] = hist[w][e]
    <3>1. hist[w] \in Seq(Nat) /\ Now(w) \in 1..MaxEra /\ MaxEra \in Nat
      BY DEF Readers, Era
    <3>2. CASE w = u
      <4>1. hist'[w] = Append(hist[w], v)
        BY <3>2 DEF Readers
      <4>2. Len(hist'[w]) = Len(hist[w]) + 1 /\ \A e \in 1..Len(hist[w]) : hist'[w][e] = hist[w][e]
        BY <3>1, <4>1
      <4> QED
        BY <3>1, <3>2, <4>2 DEF Now, Era
    <3>3. CASE w # u
      <4>1. hist'[w] = hist[w]
        BY <3>3 DEF Readers
      <4> QED
        BY <3>1, <4>1 DEF Now, Era
    <3> QED
      BY <3>2, <3>3
  <2> QED
    BY <2>1, <2>2
<1>3. /\ cache' \in [Users -> Entry \cup {None}]
      /\ gpc' \in [Guards -> GuardSteps] /\ gctx' \in [Guards -> GuardCtx \cup {None}]
      /\ \A g \in Guards : gpc'[g] # "idle" => gctx'[g] # None
  BY <1>1 DEF Readers
<1>4. Dated'
  <2> SUFFICES ASSUME NEW g \in Guards, gpc[g] # "idle"
               PROVE  /\ gctx[g].token <= Now(gctx[g].user)' /\ gctx[g].era <= Now(gctx[g].user)'
                      /\ gpc[g] # "decided" => gctx[g].token <= gctx[g].era
    BY <1>1 DEF Dated
  <2>1. gctx[g] \in GuardCtx /\ gctx[g].user \in Users /\ gctx[g].token \in Nat /\ gctx[g].era \in Nat
    BY DEF Readers, GuardCtx, Era
  <2>2. Now(gctx[g].user) \in Nat /\ Now(gctx[g].user)' \in Nat /\ Now(gctx[g].user) <= Now(gctx[g].user)'
    BY <1>2, <2>1 DEF Era
  <2> QED
    BY <2>1, <2>2 DEF Readers, Dated
<1>5. Cached'
  <2> SUFFICES ASSUME NEW w \in Users, cache[w] # None
               PROVE  /\ cache[w].era <= Now(w)'
                      /\ cache[w].perms # {} => SeenBy(w, cache[w].ver, cache[w].era)'
    BY <1>1 DEF Cached, SeenBy
  <2>1. cache[w].era \in Nat /\ cache[w].era <= Now(w)
    BY DEF Readers, Cached, Entry, Era
  <2>2. cache[w].era <= Now(w)'
    BY <1>2, <2>1 DEF Era
  <2>3. ASSUME cache[w].perms # {} PROVE SeenBy(w, cache[w].ver, cache[w].era)'
    <3>1. PICK d \in 1..cache[w].era : hist[w][d] = cache[w].ver
      BY <2>3 DEF Readers, Cached, SeenBy
    <3>2. d \in 1..Now(w)
      BY <1>2, <2>1
    <3> QED
      BY <1>1, <1>2, <3>1, <3>2 DEF SeenBy
  <2> QED
    BY <2>2, <2>3
<1>6. NewTokenSeesChange'
  <2> SUFFICES ASSUME NEW g \in Guards, gpc[g] = "decided", gctx[g].era < gctx[g].token
               PROVE  \E e \in 1..gctx[g].era :
                        hist'[gctx[g].user][e] = hist'[gctx[g].user][gctx[g].token]
    BY <1>1 DEF NewTokenSeesChange
  <2>1. gctx[g].user \in Users /\ gctx[g].token \in 1..MaxEra /\ gctx[g].era \in 1..MaxEra
    BY DEF Readers, GuardCtx, Era
  <2>2. gctx[g].token <= Now(gctx[g].user)
    BY DEF Readers, Dated
  <2>3. PICK e \in 1..gctx[g].era : hist[gctx[g].user][e] = hist[gctx[g].user][gctx[g].token]
    BY DEF Readers, NewTokenSeesChange
  <2>4. e \in 1..Now(gctx[g].user) /\ gctx[g].token \in 1..Now(gctx[g].user)
    BY <1>2, <2>1, <2>2
  <2> QED
    BY <1>2, <2>1, <2>3, <2>4
<1> QED
  BY <1>2, <1>3, <1>4, <1>5, <1>6 DEF Readers

\* An entry may be stored whose list is empty, or read when its version had been
\* reached.
LEMMA CacheSet ==
  ASSUME Readers, NEW u \in Users, NEW e \in Entry, e.era <= Now(u),
         e.perms # {} => SeenBy(u, e.ver, e.era),
         cache' = [cache EXCEPT ![u] = e], UNCHANGED hist
  PROVE  cache' \in [Users -> Entry \cup {None}] /\ Cached'
<1>1. cache' \in [Users -> Entry \cup {None}]
  BY DEF Readers
<1>2. ASSUME NEW w \in Users
      PROVE  (w # u => cache'[w] = cache[w]) /\ (w = u => cache'[w] = e)
  BY DEF Readers
<1>3. \A w \in Users : Now(w)' = Now(w)
  BY DEF Now
<1> QED
  BY <1>1, <1>2, <1>3 DEF Readers, Cached, SeenBy

\* A guard moves on with a context that fits its new position.
LEMMA GuardMoves ==
  ASSUME Readers, NEW g \in Guards, NEW l \in GuardSteps, NEW c \in GuardCtx \cup {None},
         l # "idle" => /\ c # None
                       /\ c.token <= Now(c.user) /\ c.era <= Now(c.user)
                       /\ l # "decided" => c.token <= c.era,
         l = "decided" /\ c.era < c.token
           => \E e \in 1..c.era : hist[c.user][e] = hist[c.user][c.token],
         GGoto(g, l), GCtx(g, c), UNCHANGED hist
  PROVE  /\ gpc' \in [Guards -> GuardSteps] /\ gctx' \in [Guards -> GuardCtx \cup {None}]
         /\ \A h \in Guards : gpc'[h] # "idle" => gctx'[h] # None
         /\ Dated' /\ NewTokenSeesChange'
<1>1. gpc' \in [Guards -> GuardSteps] /\ gctx' \in [Guards -> GuardCtx \cup {None}]
  BY DEF Readers, GGoto, GCtx
<1>2. ASSUME NEW h \in Guards
      PROVE  /\ h # g => gpc'[h] = gpc[h] /\ gctx'[h] = gctx[h]
             /\ h = g => gpc'[h] = l /\ gctx'[h] = c
  BY DEF Readers, GGoto, GCtx
<1>3. \A h \in Guards : gpc'[h] # "idle" => gctx'[h] # None
  BY <1>2 DEF Readers
<1>4. Dated'
  <2> SUFFICES ASSUME NEW h \in Guards, gpc'[h] # "idle"
               PROVE  /\ gctx'[h].token <= Now(gctx'[h].user) /\ gctx'[h].era <= Now(gctx'[h].user)
                      /\ gpc'[h] # "decided" => gctx'[h].token <= gctx'[h].era
    BY DEF Dated, Now
  <2> QED
    BY <1>2 DEF Readers, Dated
<1>5. NewTokenSeesChange'
  <2> SUFFICES ASSUME NEW h \in Guards, gpc'[h] = "decided", gctx'[h].era < gctx'[h].token
               PROVE  \E e \in 1..gctx'[h].era :
                        hist[gctx'[h].user][e] = hist[gctx'[h].user][gctx'[h].token]
    BY DEF NewTokenSeesChange
  <2> QED
    BY <1>2 DEF Readers, NewTokenSeesChange
<1> QED
  BY <1>1, <1>3, <1>4, <1>5

-----------------------------------------------------------------------------
(* What stays when the variables of a part stay.                            *)

LEMMA CallersStay == ASSUME Callers, UNCHANGED <<apc, actx>> PROVE Callers'
BY DEF Callers, Placed

LEMMA TablesStay == ASSUME Tables, UNCHANGED <<born, roleRows, grants, roles>> PROVE Tables'
BY DEF Tables

LEMMA ReadersStay == ASSUME Readers, UNCHANGED <<hist, cache, gpc, gctx>> PROVE Readers'
<1>1. \A u \in Users : Now(u)' = Now(u)
  BY DEF Now
<1>2. Dated' /\ Cached' /\ NewTokenSeesChange'
  BY DEF Readers, Dated, Cached, NewTokenSeesChange, SeenBy, Now
<1> QED
  BY <1>1, <1>2 DEF Readers

-----------------------------------------------------------------------------
(* The calls of assignRole and unassignRole.                                *)

\* The context of a call about a user.
LEMMA CallOf ==
  ASSUME Callers, NEW a \in Admins, apc[a] \in {"read", "checked", "committed", "clearing"}
  PROVE  /\ actx[a] \in AdminCtx /\ actx[a].user \in Users /\ actx[a].role \in Roles
         /\ actx[a].ver \in Nat /\ actx[a].op \in {"assign", "unassign"}
BY DEF Callers, Placed, AdminCtx

LEMMA ReadUserStep ==
  ASSUME IInv, NEW a \in Admins, NEW u \in Users, NEW r \in Roles,
         NEW op \in {"assign", "unassign"}, ReadUser(a, u, r, op)
  PROVE  IInv'
<1> USE Parts, PartsNext DEF ReadUser, guardVars
<1>1. Now(u) \in 1..Len(hist[u]) /\ hist[u] \in Seq(Nat)
  BY DEF Readers, Now, Era
<1>2. hist[u][Now(u)] \in Nat
  BY <1>1
<1>3. [user |-> u, role |-> r, op |-> op, ver |-> hist[u][Now(u)], todo |-> {}] \in AdminCtx
  BY <1>2 DEF AdminCtx
<1>4. Callers'
  BY <1>3, CallerMoves DEF AdminSteps
<1> QED
  BY <1>4, TablesStay, ReadersStay

LEMMA CheckRoleStep ==
  ASSUME IInv, NEW a \in Admins, CheckRole(a)
  PROVE  IInv'
<1> USE Parts, PartsNext DEF CheckRole, guardVars
<1>1. Callers'
  BY CallerKeeps, CallerEnds DEF AdminSteps
<1> QED
  BY <1>1, TablesStay, ReadersStay

LEMMA CommitStep ==
  ASSUME IInv, NEW a \in Admins, Commit(a)
  PROVE  IInv'
<1> USE Parts, PartsNext DEF Commit, guardVars
<1>1. Callers'
  BY CallerKeeps, CallerEnds DEF AdminSteps
<1>2. /\ actx[a].user \in Users /\ actx[a].role \in Roles
      /\ actx[a].ver \in Nat /\ actx[a].op \in {"assign", "unassign"}
  BY CallOf
<1>3. CASE UNCHANGED <<roles, hist>>
  BY <1>1, <1>3, TablesStay, ReadersStay
<1>4. CASE /\ actx[a].op = "assign" => actx[a].role \in roleRows
           /\ Now(actx[a].user) < MaxEra
           /\ roles' = [roles EXCEPT ![actx[a].user] =
                IF actx[a].op = "assign" THEN @ \cup {actx[a].role} ELSE @ \ {actx[a].role}]
           /\ hist' = [hist EXCEPT ![actx[a].user] = Append(@, actx[a].ver + 1)]
  <2>1. roles' \in [Users -> SUBSET roleRows]
    BY <1>2, <1>4 DEF Tables
  <2>2. Tables'
    BY <2>1 DEF Tables
  <2>3. actx[a].ver + 1 \in Nat /\ UNCHANGED <<cache, gpc, gctx>>
    BY <1>2
  <2>4. Readers'
    BY <1>2, <1>4, <2>3, Remembered
  <2> QED
    BY <1>1, <2>2, <2>4
<1> QED
  BY <1>3, <1>4

LEMMA CacheExistsStep ==
  ASSUME IInv, NEW a \in Admins, CacheExists(a)
  PROVE  IInv'
<1> USE Parts, PartsNext DEF CacheExists, guardVars
<1>1. Callers'
  BY CallerKeeps, CallerEnds DEF AdminSteps
<1> QED
  BY <1>1, TablesStay, ReadersStay

LEMMA CacheClearStep ==
  ASSUME IInv, NEW a \in Admins, CacheClear(a)
  PROVE  IInv'
<1> USE Parts, PartsNext DEF CacheClear, guardVars
<1>1. Callers' /\ Tables'
  BY CallerEnds, TablesStay
<1>2. actx[a].user \in Users /\ actx[a].ver \in Nat
  BY CallOf
<1> DEFINE e == [ver |-> actx[a].ver + 1, perms |-> {}, era |-> Now(actx[a].user)]
<1>3. e \in Entry /\ e.era = Now(actx[a].user) /\ e.perms = {} /\ e.era \in Nat
  BY <1>2 DEF Entry, Readers, Era
<1>4. cache' = [cache EXCEPT ![actx[a].user] = e]
  OBVIOUS
<1>5. e.era <= Now(actx[a].user)
  BY <1>3
<1> HIDE DEF e
<1>6. cache' \in [Users -> Entry \cup {None}] /\ Cached'
  BY <1>2, <1>3, <1>4, <1>5, CacheSet
<1>7. Dated' /\ NewTokenSeesChange'
  BY DEF Readers, Dated, NewTokenSeesChange, Now
<1>8. Readers'
  BY <1>6, <1>7 DEF Readers, Now
<1> QED
  BY <1>1, <1>8

-----------------------------------------------------------------------------
(* Role editing.                                                            *)

LEMMA RoleEditStep ==
  ASSUME IInv, NEW a \in Admins, NEW r \in Roles, NEW P \in Edits,
         RoleUpdate(a, r, P) \/ RoleCreate(a, r, P)
  PROVE  IInv'
<1> USE Parts, PartsNext DEF guardVars
<1>1. Callers'
  BY CallerGrants DEF RoleUpdate, RoleCreate
<1>2. Tables'
  BY DEF RoleUpdate, RoleCreate, Tables
<1>3. Readers'
  BY ReadersStay DEF RoleUpdate, RoleCreate
<1> QED
  BY <1>1, <1>2, <1>3

LEMMA GrantStep ==
  ASSUME IInv, NEW a \in Admins, NEW p \in Perms, Grant(a, p)
  PROVE  IInv'
<1> USE Parts, PartsNext DEF Grant, guardVars
<1> DEFINE c == actx[a]
           d == [c EXCEPT !.todo = @ \ {p}]
<1>1. c \in AdminCtx /\ c # None /\ apc[a] = "granting"
  BY DEF Callers
<1>2. d \in AdminCtx /\ d # None
  BY <1>1 DEF AdminCtx
<1>3. Callers'
  <2>1. CASE AEnd(a)
    BY <2>1, CallerEnds
  <2>2. CASE ACtx(a, d) /\ UNCHANGED apc
    <3>1. AGoto(a, "granting")
      BY <1>1, <2>2 DEF AGoto, Callers
    <3> HIDE DEF d
    <3> QED
      BY <1>2, <2>2, <3>1, CallerMoves DEF AdminSteps
  <2> QED
    BY <2>1, <2>2
<1>4. Tables'
  <2>1. c.role \in Roles
    BY <1>1 DEF AdminCtx
  <2> QED
    BY <2>1 DEF Tables
<1>5. Readers'
  BY ReadersStay
<1> QED
  BY <1>3, <1>4, <1>5

LEMMA RoleRemoveStep ==
  ASSUME IInv, NEW r \in Roles, RoleRemove(r)
  PROVE  IInv'
<1> USE Parts, PartsNext DEF RoleRemove, guardVars
<1>1. Tables'
  BY DEF Tables
<1> QED
  BY <1>1, CallersStay, ReadersStay

LEMMA AdminFailStep ==
  ASSUME IInv, NEW a \in Admins, AdminFail(a)
  PROVE  IInv'
<1> USE Parts, PartsNext DEF AdminFail, guardVars
<1>1. Callers'
  BY CallerEnds
<1> QED
  BY <1>1, TablesStay, ReadersStay

-----------------------------------------------------------------------------
(* The guards.                                                              *)

\* The context of a guard at work.
LEMMA GuardOf ==
  ASSUME Readers, NEW g \in Guards, gpc[g] # "idle"
  PROVE  /\ gctx[g] \in GuardCtx /\ gctx[g] # None
         /\ gctx[g].user \in Users /\ gctx[g].token \in 1..Now(gctx[g].user)
         /\ gctx[g].era \in 1..Now(gctx[g].user)
         /\ Now(gctx[g].user) \in Era
         /\ gpc[g] # "decided" => gctx[g].token <= gctx[g].era
<1>1. gctx[g] \in GuardCtx /\ gctx[g] # None
  BY DEF Readers
<1>2. gctx[g].user \in Users /\ gctx[g].token \in 1..MaxEra /\ gctx[g].era \in 1..MaxEra
  BY <1>1 DEF GuardCtx, Era
<1>3. Now(gctx[g].user) \in 1..MaxEra
  BY <1>2 DEF Readers, Era
<1> QED
  BY <1>1, <1>2, <1>3 DEF Readers, Dated, Era

\* A guard that leaves the cache alone.
LEMMA GuardLooks ==
  ASSUME IInv, UNCHANGED <<cache, adminVars>>,
         gpc' \in [Guards -> GuardSteps] /\ gctx' \in [Guards -> GuardCtx \cup {None}],
         \A h \in Guards : gpc'[h] # "idle" => gctx'[h] # None,
         Dated', NewTokenSeesChange'
  PROVE  IInv'
<1> USE Parts, PartsNext DEF adminVars
<1>1. Cached'
  BY DEF Readers, Cached, SeenBy, Now
<1>2. Readers'
  BY <1>1 DEF Readers, Now
<1> QED
  BY <1>2, CallersStay, TablesStay

LEMMA GuardHitStep ==
  ASSUME IInv, NEW g \in Guards, NEW u \in Users, NEW e \in Era, GuardHit(g, u, e)
  PROVE  IInv'
<1> USE Parts
<1> DEFINE c == [user |-> u, token |-> e, roles |-> {}, perms |-> {}, era |-> cache[u].era]
<1>1. cache[u] \in Entry /\ cache[u] # None /\ cache[u].perms # {} /\ cache[u].ver = hist[u][e]
  BY DEF GuardHit, Hit, Readers
<1>2. /\ c \in GuardCtx /\ c # None
      /\ c.user = u /\ c.token = e /\ c.era = cache[u].era
  BY <1>1 DEF GuardCtx, Entry
<1>3. c.token <= Now(c.user) /\ c.era <= Now(c.user)
  BY <1>1, <1>2 DEF GuardHit, Readers, Cached
<1>4. \E d \in 1..c.era : hist[c.user][d] = hist[c.user][c.token]
  BY <1>1, <1>2 DEF Readers, Cached, SeenBy
<1>5. GGoto(g, "decided") /\ GCtx(g, c) /\ UNCHANGED hist
  BY DEF GuardHit, adminVars
<1> HIDE DEF c
<1> QED
  BY <1>2, <1>3, <1>4, <1>5, GuardMoves, GuardLooks DEF GuardHit, GuardSteps

LEMMA GuardMissStep ==
  ASSUME IInv, NEW g \in Guards, NEW u \in Users, NEW e \in Era, GuardMiss(g, u, e)
  PROVE  IInv'
<1> USE Parts
<1> DEFINE c == [user |-> u, token |-> e, roles |-> {}, perms |-> {}, era |-> Now(u)]
<1>1. Now(u) \in Era
  BY DEF Readers
<1>2. /\ c \in GuardCtx /\ c # None
      /\ c.user = u /\ c.token = e /\ c.era = Now(u)
  BY <1>1 DEF GuardCtx
<1>3. c.token <= Now(c.user) /\ c.era <= Now(c.user) /\ c.token <= c.era
  BY <1>1, <1>2 DEF GuardMiss, Era
<1>4. GGoto(g, "miss") /\ GCtx(g, c) /\ UNCHANGED hist
  BY DEF GuardMiss, adminVars
<1> HIDE DEF c
<1> QED
  BY <1>2, <1>3, <1>4, GuardMoves, GuardLooks DEF GuardMiss, GuardSteps

LEMMA FetchStep ==
  ASSUME IInv, NEW g \in Guards, FetchRoles(g) \/ FetchGrants(g)
  PROVE  IInv'
<1> USE Parts
<1>1. gpc[g] \in {"miss", "roles"} /\ UNCHANGED <<cache, adminVars>> /\ UNCHANGED hist
  BY DEF FetchRoles, FetchGrants, adminVars
<1>2. /\ gctx[g] \in GuardCtx /\ gctx[g].user \in Users
      /\ gctx[g].token \in 1..Now(gctx[g].user) /\ gctx[g].era \in 1..Now(gctx[g].user)
      /\ Now(gctx[g].user) \in Era /\ gctx[g].token <= gctx[g].era
  BY <1>1, GuardOf
<1>3. CASE FetchRoles(g)
  <2> DEFINE c == [gctx[g] EXCEPT !.roles = roles[gctx[g].user], !.era = Now(gctx[g].user)]
  <2>1. roles[gctx[g].user] \in SUBSET Roles
    BY <1>2 DEF Tables
  <2>2. /\ c \in GuardCtx /\ c # None
        /\ c.user = gctx[g].user /\ c.token = gctx[g].token /\ c.era = Now(gctx[g].user)
    BY <1>2, <2>1 DEF GuardCtx
  <2>3. c.token <= Now(c.user) /\ c.era <= Now(c.user) /\ c.token <= c.era
    BY <1>2, <2>2 DEF Era
  <2>4. GGoto(g, "roles") /\ GCtx(g, c)
    BY <1>3 DEF FetchRoles
  <2> HIDE DEF c
  <2> QED
    BY <1>1, <2>2, <2>3, <2>4, GuardMoves, GuardLooks DEF GuardSteps
<1>4. CASE FetchGrants(g)
  <2> DEFINE c == [gctx[g] EXCEPT !.perms = UNION {grants[r] : r \in gctx[g].roles}]
  <2>1. UNION {grants[r] : r \in gctx[g].roles} \in SUBSET Perms
    <3>1. gctx[g].roles \subseteq Roles
      BY <1>2 DEF GuardCtx
    <3> QED
      BY <3>1 DEF Tables
  <2>2. /\ c \in GuardCtx /\ c # None
        /\ c.user = gctx[g].user /\ c.token = gctx[g].token /\ c.era = gctx[g].era
    BY <1>2, <2>1 DEF GuardCtx
  <2>3. c.token <= Now(c.user) /\ c.era <= Now(c.user) /\ c.token <= c.era
    BY <1>2, <2>2 DEF Era
  <2>4. GGoto(g, "fill") /\ GCtx(g, c)
    BY <1>4 DEF FetchGrants
  <2> HIDE DEF c
  <2> QED
    BY <1>1, <2>2, <2>3, <2>4, GuardMoves, GuardLooks DEF GuardSteps
<1> QED
  BY <1>3, <1>4

\* The list is at least as young as the token, under whose version it is stored.
LEMMA GuardFillStep ==
  ASSUME IInv, NEW g \in Guards, GuardFill(g)
  PROVE  IInv'
<1> USE Parts, PartsNext
<1>1. gpc[g] = "fill" /\ UNCHANGED <<born, roleRows, grants, roles, hist, apc, actx>>
  BY DEF GuardFill, adminVars
<1>2. /\ gctx[g] \in GuardCtx /\ gctx[g].user \in Users
      /\ gctx[g].token \in 1..Now(gctx[g].user) /\ gctx[g].era \in 1..Now(gctx[g].user)
      /\ Now(gctx[g].user) \in Era /\ gctx[g].token <= gctx[g].era
  BY <1>1, GuardOf
<1> DEFINE u == gctx[g].user
           e == [ver |-> hist[u][gctx[g].token], perms |-> gctx[g].perms, era |-> gctx[g].era]
           c == [gctx[g] EXCEPT !.roles = {}, !.perms = {}]
<1>3. hist[u] \in Seq(Nat) /\ hist[u][gctx[g].token] \in Nat
  <2>1. hist[u] \in Seq(Nat)
    BY <1>2 DEF Readers
  <2>2. gctx[g].token \in 1..Len(hist[u])
    BY <1>2 DEF Now
  <2> HIDE DEF u
  <2> QED
    BY <2>1, <2>2
<1>4. e \in Entry /\ e.ver = hist[u][gctx[g].token] /\ e.era = gctx[g].era
  BY <1>2, <1>3 DEF Entry, GuardCtx
<1>5. e.era <= Now(u) /\ SeenBy(u, e.ver, e.era)
  <2>1. gctx[g].token \in 1..e.era /\ e.era <= Now(u)
    BY <1>2, <1>4 DEF Era
  <2> HIDE DEF e
  <2> QED
    BY <1>4, <2>1 DEF SeenBy
<1>6. cache' = [cache EXCEPT ![u] = e] /\ GCtx(g, c) /\ GGoto(g, "decided")
  BY DEF GuardFill
<1>7. /\ c \in GuardCtx /\ c # None
      /\ c.user = u /\ c.token = gctx[g].token /\ c.era = gctx[g].era
  BY <1>2 DEF GuardCtx
<1>8. c.token <= Now(c.user) /\ c.era <= Now(c.user) /\ ~(c.era < c.token)
  BY <1>2, <1>7 DEF Era
<1> HIDE DEF e, c
<1>9. cache' \in [Users -> Entry \cup {None}] /\ Cached'
  BY <1>1, <1>2, <1>4, <1>5, <1>6, CacheSet
<1>10. /\ gpc' \in [Guards -> GuardSteps] /\ gctx' \in [Guards -> GuardCtx \cup {None}]
       /\ \A h \in Guards : gpc'[h] # "idle" => gctx'[h] # None
       /\ Dated' /\ NewTokenSeesChange'
  BY <1>1, <1>6, <1>7, <1>8, GuardMoves DEF GuardSteps
<1>11. Readers'
  BY <1>1, <1>9, <1>10 DEF Readers, Now
<1> QED
  BY <1>1, <1>11, CallersStay, TablesStay

LEMMA GuardFailStep ==
  ASSUME IInv, NEW g \in Guards, GuardFail(g)
  PROVE  IInv'
BY Parts, GuardMoves, GuardLooks DEF GuardFail, GuardSteps, adminVars

-----------------------------------------------------------------------------
(* The theorems.                                                            *)

\* Every reachable state satisfies the inductive invariant.
THEOREM Invariance == Spec => []IInv
<1>1. IInv /\ [Next]_vars => IInv'
  <2> SUFFICES ASSUME IInv, [Next]_vars PROVE IInv'
    OBVIOUS
  <2>1. CASE UNCHANGED vars
    BY <2>1, Parts, PartsNext, CallersStay, TablesStay, ReadersStay DEF vars
  <2>2. ASSUME NEW a \in Admins, AdminNext(a)
        PROVE  IInv'
    BY <2>2, ReadUserStep, CheckRoleStep, CommitStep, CacheExistsStep, CacheClearStep,
       RoleEditStep, GrantStep, AdminFailStep DEF AdminNext
  <2>3. ASSUME NEW g \in Guards, GuardNext(g)
        PROVE  IInv'
    BY <2>3, GuardHitStep, GuardMissStep, FetchStep, GuardFillStep, GuardFailStep DEF GuardNext
  <2> QED
    BY <2>1, <2>2, <2>3, RoleRemoveStep DEF Next
<1> QED
  BY <1>1, InitIInv, PTL DEF Spec

\* Every variable of Permissions keeps its type.
THEOREM TypeCorrect == Spec => []TypeOK
BY Invariance, PTL DEF IInv

\* A guard never decides on permissions older than its token, unless two changes
\* of the user got one permVersion.
THEOREM NewTokensSeeChanges == Spec => []NewTokenSeesChange
BY Invariance, PTL DEF IInv

-----------------------------------------------------------------------------
(* ExcessHasCause.                                                          *)

\* Nobody stops being about to clear the cache of u except a call about u.
LEMMA PendingStays ==
  ASSUME Callers, NEW u \in Users, Pending(u), NEW a \in Admins,
         ~(apc[a] \in {"committed", "clearing"} /\ actx[a].user = u),
         \A b \in Admins : b # a => apc'[b] = apc[b] /\ actx'[b] = actx[b]
  PROVE  Pending(u)'
BY DEF Pending

\* A call moves nobody but itself.
LEMMA OthersStay ==
  ASSUME Callers, NEW a \in Admins, NEW l, NEW c,
         AGoto(a, l) \/ UNCHANGED apc, ACtx(a, c) \/ UNCHANGED actx
  PROVE  \A b \in Admins : b # a => apc'[b] = apc[b] /\ actx'[b] = actx[b]
BY DEF Callers, AGoto, ACtx

\* Where neither the list nor the rights of the user change, a call that is not
\* about to clear the cache changes nothing of what the property says.
LEMMA NoNewExcess ==
  ASSUME Callers, NEW u \in Users, Excess(u) => Pending(u), NEW a \in Admins,
         ~(apc[a] \in {"committed", "clearing"} /\ actx[a].user = u),
         \A b \in Admins : b # a => apc'[b] = apc[b] /\ actx'[b] = actx[b],
         cache'[u] = cache[u], roles'[u] = roles[u], UNCHANGED grants
  PROVE  (Excess(u) => Pending(u))'
<1>1. Excess(u)' <=> Excess(u)
  BY DEF Excess, Current
<1> QED
  BY <1>1, PendingStays

LEMMA CallExcess ==
  ASSUME IInv, NEW a \in Admins, AdminNext(a), ~AdminFail(a), UNCHANGED grants,
         NEW u \in Users, Excess(u) => Pending(u)
  PROVE  (Excess(u) => Pending(u))'
<1> USE Parts DEF guardVars
<1>1. ASSUME NEW w \in Users, NEW r \in Roles, NEW op \in {"assign", "unassign"}, ReadUser(a, w, r, op)
      PROVE  (Excess(u) => Pending(u))'
  BY <1>1, OthersStay, NoNewExcess DEF ReadUser
<1>2. CASE CheckRole(a)
  BY <1>2, OthersStay, NoNewExcess DEF CheckRole, AEnd
<1>3. CASE Commit(a)
  <2>1. actx[a].user \in Users /\ \A b \in Admins : b # a => apc'[b] = apc[b] /\ actx'[b] = actx[b]
    BY <1>3, CallOf, OthersStay DEF Commit, AEnd
  <2>2. CASE UNCHANGED roles
    BY <1>3, <2>1, <2>2, NoNewExcess DEF Commit
  <2>3. CASE AGoto(a, "committed") /\ UNCHANGED actx /\ actx[a].user = u
    BY <2>3 DEF AGoto, Callers, Pending
  <2>4. CASE roles'[u] = roles[u]
    BY <1>3, <2>1, <2>4, NoNewExcess DEF Commit
  <2> QED
    BY <1>3, <2>1, <2>2, <2>3, <2>4 DEF Commit, Tables
<1>4. CASE CacheExists(a)
  <2>1. \A b \in Admins : b # a => apc'[b] = apc[b] /\ actx'[b] = actx[b]
    BY <1>4, OthersStay DEF CacheExists, AEnd
  <2>2. CASE actx[a].user = u /\ cache[u] = None
    BY <1>4, <2>2 DEF CacheExists, Excess
  <2>3. CASE actx[a].user = u /\ cache[u] # None
    BY <1>4, <2>3 DEF CacheExists, AGoto, Callers, Pending
  <2> QED
    BY <1>4, <2>1, <2>2, <2>3, NoNewExcess DEF CacheExists
<1>5. CASE CacheClear(a)
  <2>1. actx[a].user \in Users /\ \A b \in Admins : b # a => apc'[b] = apc[b] /\ actx'[b] = actx[b]
    BY <1>5, CallOf, OthersStay DEF CacheClear, AEnd
  <2>2. CASE actx[a].user = u
    BY <1>5, <2>2 DEF CacheClear, Excess, Readers
  <2>3. CASE actx[a].user # u
    BY <1>5, <2>1, <2>3, NoNewExcess DEF CacheClear, Readers
  <2> QED
    BY <2>2, <2>3
<1>6. ASSUME NEW r \in Roles, NEW P \in Edits, RoleUpdate(a, r, P) \/ RoleCreate(a, r, P)
      PROVE  (Excess(u) => Pending(u))'
  BY <1>6, OthersStay, NoNewExcess DEF RoleUpdate, RoleCreate, Granting
<1>7. ASSUME NEW p \in Perms, Grant(a, p)
      PROVE  (Excess(u) => Pending(u))'
  BY <1>7, OthersStay, NoNewExcess DEF Grant, AEnd
<1> QED
  BY <1>1, <1>2, <1>3, <1>4, <1>5, <1>6, <1>7 DEF AdminNext

LEMMA GuardExcess ==
  ASSUME IInv, NEW g \in Guards, GuardNext(g),
         NEW u \in Users, Excess(u) => Pending(u), ~StaleFill(u)
  PROVE  (Excess(u) => Pending(u))'
<1>1. UNCHANGED <<apc, actx, roles, grants>>
  BY DEF GuardNext, GuardHit, GuardMiss, FetchRoles, FetchGrants, GuardFill, GuardFail, adminVars
<1>2. Pending(u)' <=> Pending(u)
  BY <1>1 DEF Pending
<1>3. CASE cache'[u] = cache[u]
  BY <1>1, <1>2, <1>3 DEF Excess, Current
<1>4. CASE cache'[u] # cache[u]
  <2>1. GuardFill(g)
    BY <1>4 DEF GuardNext, GuardHit, GuardMiss, FetchRoles, FetchGrants, GuardFail
  <2>2. gctx[g].user = u /\ cache'[u].perms = gctx[g].perms
    BY <1>4, <2>1, Parts DEF GuardFill, Readers
  <2>3. gctx[g].perms \subseteq Current(u)
    BY <2>1, <2>2 DEF StaleFill, GuardFill
  <2> QED
    BY <1>1, <2>2, <2>3 DEF Excess, Current
<1> QED
  BY <1>3, <1>4

\* The cached list comes to exceed the rights of the user only in the ways the
\* property names.
THEOREM ExcessesHaveCauses == Spec => ExcessHasCause
<1> DEFINE Step(u) ==
      /\ Excess(u) => Pending(u)
      /\ ~StaleFill(u)
      /\ UNCHANGED <<grants, roleRows>>
      /\ ~\E a \in Admins : AdminFail(a)
      => (Excess(u) => Pending(u))'
<1>1. IInv /\ [Next]_vars => [\A u \in Users : Step(u)]_vars
  <2> SUFFICES ASSUME IInv, Next, NEW u \in Users,
                      Excess(u) => Pending(u), ~StaleFill(u), UNCHANGED <<grants, roleRows>>,
                      ~\E a \in Admins : AdminFail(a)
               PROVE  (Excess(u) => Pending(u))'
    OBVIOUS
  <2>1. ~\E r \in Roles : RoleRemove(r)
    BY DEF RoleRemove
  <2> QED
    BY <2>1, CallExcess, GuardExcess DEF Next
<1> QED
  BY <1>1, Invariance, PTL DEF Spec, ExcessHasCause

HIDE PermissionsAssumption

-----------------------------------------------------------------------------
(* The rate limiter: the inductive invariant.                               *)

\* The requests that key k has counted, and those from time a on and before b.
Tally(k) == {r \in Requests : passed[r][k.rule] # Unset /\ KeyOf(r, k.rule) = k}
Span(k, a, b) == {r \in Tally(k) : a <= passed[r][k.rule] /\ passed[r][k.rule] < b}

\* A request has its address and e-mail from its arrival on, it was counted by
\* rules it has left behind, and it is refused at a rule.
Asked == \A r \in Requests :
  /\ rule[r] # 0 => ip[r] \in Ips /\ email[r] \in Emails
  /\ refused[r] # Unset => rule[r] \in Endpoint
  /\ \A i \in Endpoint : passed[r][i] # Unset => i < rule[r] /\ passed[r][i] <= clock

\* The last window of a key has been opened by a request that it counted, its
\* counter is the number of requests in it, and nothing is counted after it.
Start(k) == expires[k] - Window
Windowed(k) ==
  /\ \A r \in Tally(k) : passed[r][k.rule] < expires[k]
  /\ expires[k] > 0 =>
       /\ Start(k) \in 0..clock
       /\ \E r \in Tally(k) : passed[r][k.rule] = Start(k)
       /\ IsFiniteSet(Span(k, Start(k), expires[k]))
       /\ Cardinality(Span(k, Start(k), expires[k])) = count[k]

\* Less than a window's length before its last window a key has not counted its
\* limit, for the request that opened the window before was earlier.
Spaced(k) == expires[k] > 0 =>
  \A t \in Int : t > Start(k) - Window =>
    /\ IsFiniteSet(Span(k, t, Start(k)))
    /\ Cardinality(Span(k, t, Start(k))) <= Limit(k.rule) - 1

\* BurstBound, of every span of a window's length.
Bounded(k) == \A t \in Int :
  /\ IsFiniteSet(Span(k, t, t + Window))
  /\ Cardinality(Span(k, t, t + Window)) <= 2 * Limit(k.rule) - 1

\* RefusedHadLimit, with the span in the present notation.
Justified == \A r \in Requests : refused[r] # Unset =>
  Cardinality(Span(KeyOf(r, rule[r]), refused[r] - Window + 1, refused[r] + 1))
    >= Limit(rule[r])

LimiterInv ==
  /\ LimiterTypeOK /\ Asked
  /\ \A k \in Key : Windowed(k) /\ Spaced(k) /\ Bounded(k)
  /\ Justified

-----------------------------------------------------------------------------
(* What the limiter's operators return.                                     *)

\* After returns a later rule, or the handler.
LEMMA AfterLater ==
  ASSUME NEW i \in {0} \cup Endpoint
  PROVE  /\ After(i) \in Endpoint \cup {5} /\ After(i) \in 1..5
         /\ After(i) > i
<1> DEFINE S == {j \in Endpoint \cup {5} : j > i}
<1>1. S \subseteq 1..5 /\ 5 \in S
  <2>1. \A j \in Endpoint : j \in 1..4
    BY EndpointAssumption DEF Rules
  <2>2. \A j \in Endpoint : j \in 1..5 /\ j \in 0..4
    BY <2>1
  <2> QED
    BY <2>2
<1>2. \E j \in S : \A k \in S : j <= k
  <2>1. CASE 1 \in S
    BY <1>1, <2>1
  <2>2. CASE 1 \notin S /\ 2 \in S
    BY <1>1, <2>2
  <2>3. CASE 1 \notin S /\ 2 \notin S /\ 3 \in S
    BY <1>1, <2>3
  <2>4. CASE 1 \notin S /\ 2 \notin S /\ 3 \notin S /\ 4 \in S
    BY <1>1, <2>4
  <2>5. CASE 1 \notin S /\ 2 \notin S /\ 3 \notin S /\ 4 \notin S
    BY <1>1, <2>5
  <2> QED
    BY <2>1, <2>2, <2>3, <2>4, <2>5
<1>3. \E j \in Endpoint \cup {5} :
        j > i /\ \A k \in Endpoint \cup {5} : k > i => j <= k
  BY <1>2
<1> QED
  BY <1>1, <1>3 DEF After, Handler

\* A request asks a rule about a key of that rule, and so it was counted.
LEMMA KeyIsKey ==
  ASSUME LimiterInv, NEW r \in Requests, rule[r] # 0, NEW i \in Endpoint
  PROVE  KeyOf(r, i) \in Key /\ KeyOf(r, i).rule = i
<1>1. ip[r] \in Ips /\ email[r] \in Emails
  BY DEF LimiterInv, Asked
<1>2. CASE i = 1
  BY <1>1, <1>2 DEF KeyOf, Key, Ip, AuthIp
<1>3. CASE i = 3
  BY <1>1, <1>3 DEF KeyOf, Key, Ip, AuthIp
<1>4. CASE i # 1 /\ i # 3
  BY <1>1, <1>4 DEF KeyOf, Key, Ip, AuthIp
<1> QED
  BY <1>2, <1>3, <1>4

LEMMA LimitPositive ==
  ASSUME NEW i
  PROVE  Limit(i) \in Nat \ {0}
BY RateLimiterAssumption DEF Limit

\* A request that a key counted has a time, and has arrived.
LEMMA CountedFacts ==
  ASSUME LimiterInv, NEW k \in Key, NEW r \in Tally(k)
  PROVE  /\ r \in Requests /\ k.rule \in Endpoint /\ rule[r] # 0
         /\ passed[r][k.rule] \in 0..clock /\ k.rule < rule[r]
<1>1. r \in Requests /\ k.rule \in Endpoint /\ passed[r][k.rule] # Unset
  BY DEF Tally, Key
<1>2. passed[r][k.rule] \in Nat /\ clock \in Nat /\ rule[r] \in {0, 5} \cup Endpoint
  BY <1>1 DEF LimiterInv, LimiterTypeOK, Handler
<1>3. k.rule < rule[r] /\ passed[r][k.rule] <= clock
  BY <1>1 DEF LimiterInv, Asked
<1>4. k.rule \in 1..4
  BY EndpointAssumption, <1>1 DEF LimiterInv, Rules
<1> QED
  BY <1>1, <1>2, <1>3, <1>4

-----------------------------------------------------------------------------
(* What Windowed and Spaced say of the spans that are not over long before  *)
(* the last window.                                                         *)

Recent == \A k \in Key, t \in Int :
  LimiterTypeOK /\ Asked /\ Windowed(k) /\ Spaced(k)
    /\ expires[k] > 0 /\ t > Start(k) - Window
  => /\ IsFiniteSet(Span(k, t, t + Window))
     /\ Cardinality(Span(k, t, t + Window)) <= 2 * Limit(k.rule) - 1

LEMMA RecentBounded == Recent
<1> SUFFICES ASSUME NEW k \in Key, NEW t \in Int, LimiterTypeOK, Asked,
                    Windowed(k), Spaced(k), expires[k] > 0, t > Start(k) - Window
             PROVE  /\ IsFiniteSet(Span(k, t, t + Window))
                    /\ Cardinality(Span(k, t, t + Window)) <= 2 * Limit(k.rule) - 1
  BY DEF Recent
<1> DEFINE L == Limit(k.rule)
           Early == Span(k, t, Start(k))
           Last == Span(k, Start(k), expires[k])
<1>1. L \in Nat \ {0} /\ count[k] \in 0..L /\ Start(k) \in Int /\ expires[k] \in Nat
  BY LimitPositive DEF LimiterTypeOK, Windowed
<1>2. /\ IsFiniteSet(Early) /\ Cardinality(Early) <= L - 1
      /\ IsFiniteSet(Last) /\ Cardinality(Last) <= L
  BY <1>1 DEF Spaced, Windowed
<1>3. \A q \in Tally(k) : passed[q][k.rule] \in Int /\ passed[q][k.rule] < expires[k]
  BY DEF Windowed, Tally, LimiterTypeOK, Key
<1>4. Span(k, t, t + Window) \in SUBSET (Early \cup Last)
  BY <1>1, <1>3 DEF Span
<1>5. /\ IsFiniteSet(Early \cup Last) /\ Cardinality(Early \cup Last) <= 2 * L - 1
  <2>1. /\ IsFiniteSet(Early \cup Last)
        /\ Cardinality(Early \cup Last)
             = Cardinality(Early) + Cardinality(Last) - Cardinality(Early \cap Last)
    BY <1>2, FS_Union
  <2>2. IsFiniteSet(Early \cap Last)
    BY <1>2, FS_Subset
  <2>3. Cardinality(Early) \in Nat /\ Cardinality(Last) \in Nat
          /\ Cardinality(Early \cap Last) \in Nat
    BY <1>2, <2>2, FS_CardinalityType
  <2> QED
    BY <1>1, <1>2, <2>1, <2>3
<1>6. /\ IsFiniteSet(Span(k, t, t + Window))
      /\ Cardinality(Span(k, t, t + Window)) <= Cardinality(Early \cup Last)
  BY <1>4, <1>5, FS_Subset
<1>7. Cardinality(Span(k, t, t + Window)) \in Nat /\ Cardinality(Early \cup Last) \in Nat
  BY <1>5, <1>6, FS_CardinalityType
<1> QED
  BY <1>1, <1>5, <1>6, <1>7

\* The same after a step.
LEMMA RecentNext == Recent'
BY RecentBounded, PTL

LEMMA InitLimiterInv ==
  ASSUME LimiterInit
  PROVE  LimiterInv
<1>1. Window \in Nat \ {0}
  BY RateLimiterAssumption
<1>2. LimiterTypeOK
  BY LimitPositive DEF LimiterInit, LimiterTypeOK, Handler
<1>3. Asked /\ Justified
  BY DEF LimiterInit, Asked, Justified
<1>4. ASSUME NEW k \in Key
      PROVE  Windowed(k) /\ Spaced(k) /\ Bounded(k)
  <2>1. Tally(k) = {} /\ expires[k] = 0
    BY DEF LimiterInit, Tally, Key
  <2>2. \A t \in Int : Span(k, t, t + Window) = {}
    BY <2>1 DEF Span
  <2>3. Windowed(k) /\ Spaced(k)
    BY <2>1 DEF Windowed, Spaced
  <2>4. IsFiniteSet({}) /\ Cardinality({}) <= 2 * Limit(k.rule) - 1
    <3>1. IsFiniteSet({}) /\ Cardinality({}) = 0
      BY FS_EmptySet
    <3>2. 0 <= 2 * Limit(k.rule) - 1
      BY LimitPositive
    <3> QED
      BY <3>1, <3>2
  <2>5. Bounded(k)
    BY <2>2, <2>4 DEF Bounded
  <2> QED
    BY <2>3, <2>5
<1> QED
  BY <1>2, <1>3, <1>4 DEF LimiterInv

-----------------------------------------------------------------------------
(* Steps that count no request.                                             *)

\* A key that counts nothing in a step keeps what is said of it.
LEMMA SpansStay ==
  ASSUME LimiterInv, NEW k \in Key, LimiterTypeOK',
         Tally(k)' = Tally(k),
         \A q \in Tally(k) : passed'[q][k.rule] = passed[q][k.rule],
         count'[k] = count[k], expires'[k] = expires[k], clock' >= clock
  PROVE  Windowed(k)' /\ Spaced(k)' /\ Bounded(k)'
<1>1. Windowed(k) /\ Spaced(k) /\ Bounded(k)
  BY DEF LimiterInv
<1>2. \A a, b : Span(k, a, b)' = Span(k, a, b)
  BY DEF Span
<1>3. Start(k)' = Start(k)
  BY DEF Start
<1>4. Windowed(k)'
  <2>1. clock \in Nat /\ clock' \in Nat
    BY DEF LimiterInv, LimiterTypeOK
  <2>2. Start(k) \in 0..clock => Start(k) \in 0..clock'
    BY <2>1
  <2>3. Span(k, Start(k), expires[k])' = Span(k, Start(k), expires[k])
    BY <1>2, <1>3 DEF Span
  <2> QED
    BY <1>1, <1>3, <2>2, <2>3 DEF Windowed
<1>5. Spaced(k)'
  <2>1. \A t : Span(k, t, Start(k))' = Span(k, t, Start(k))
    BY <1>3 DEF Span
  <2> QED
    BY <1>1, <1>3, <2>1 DEF Spaced
<1>6. Bounded(k)'
  BY <1>1, <1>2 DEF Bounded
<1> QED
  BY <1>4, <1>5, <1>6

\* The other steps keep what requests carry from their arrival on, and when
\* they were counted.
LEMMA CountedStay ==
  ASSUME LimiterInv, NEW k \in Key, UNCHANGED passed,
         \A q \in Requests : rule[q] # 0 => ip'[q] = ip[q] /\ email'[q] = email[q]
  PROVE  Tally(k)' = Tally(k)
<1>1. ASSUME NEW q \in Requests, passed[q][k.rule] # Unset
      PROVE  KeyOf(q, k.rule)' = KeyOf(q, k.rule)
  <2>1. k.rule \in Endpoint /\ k.rule \in 1..4
    BY EndpointAssumption DEF Key, LimiterInv, Rules
  <2>2. k.rule < rule[q]
    BY <1>1, <2>1 DEF LimiterInv, Asked
  <2>3. rule[q] # 0
    BY <2>1, <2>2
  <2> QED
    BY <2>3 DEF KeyOf
<1> QED
  BY <1>1 DEF Tally

\* Requests that were refused stay justified while the spans only grow.
LEMMA JustifiedStays ==
  ASSUME LimiterInv,
         \A k \in Key : Bounded(k)',
         \A k \in Key, a, b \in Int : Span(k, a, b) \subseteq Span(k, a, b)',
         NEW q \in Requests, refused[q] # Unset, refused'[q] = refused[q],
         rule'[q] = rule[q], ip'[q] = ip[q], email'[q] = email[q]
  PROVE  Cardinality(Span(KeyOf(q, rule[q]), refused[q] - Window + 1, refused[q] + 1))'
           >= Limit(rule'[q])
<1>1. rule[q] \in Endpoint /\ rule[q] # 0
  BY EndpointAssumption DEF LimiterInv, Asked, Rules
<1>2. PICK k \in Key : k = KeyOf(q, rule[q])
  BY <1>1, KeyIsKey
<1>3. KeyOf(q, rule[q])' = k
  BY <1>2 DEF KeyOf
<1>4. PICK a \in Int : a = refused[q] - Window + 1
  BY RateLimiterAssumption DEF LimiterInv, LimiterTypeOK
<1>5. a + Window = refused[q] + 1
  BY RateLimiterAssumption, <1>4 DEF LimiterInv, LimiterTypeOK
<1>6. Cardinality(Span(k, a, a + Window)) >= Limit(rule[q])
  BY <1>2, <1>4, <1>5 DEF LimiterInv, Justified
<1>7. /\ IsFiniteSet(Span(k, a, a + Window)) /\ IsFiniteSet(Span(k, a, a + Window)')
      /\ Span(k, a, a + Window) \subseteq Span(k, a, a + Window)'
  <2>1. a + Window \in Int
    BY RateLimiterAssumption, <1>4 DEF LimiterInv
  <2> QED
    BY <2>1 DEF LimiterInv, Bounded
<1>8. Cardinality(Span(k, a, a + Window)) <= Cardinality(Span(k, a, a + Window)')
  BY <1>7, FS_Subset
<1>9. /\ Cardinality(Span(k, a, a + Window)) \in Nat
      /\ Cardinality(Span(k, a, a + Window)') \in Nat /\ Limit(rule[q]) \in Nat
  BY <1>7, FS_CardinalityType, LimitPositive DEF LimiterInv
<1>10. Cardinality(Span(k, a, a + Window)') >= Limit(rule[q])
  BY <1>6, <1>8, <1>9
<1>11. Span(KeyOf(q, rule[q]), refused[q] - Window + 1, refused[q] + 1)'
         = Span(k, a, a + Window)'
  BY <1>3, <1>4, <1>5 DEF Span, Tally
<1> QED
  BY <1>10, <1>11

-----------------------------------------------------------------------------
(* A request that passes a rule.                                            *)

\* The key counts the request now; other keys, and what was counted before,
\* stay.
LEMMA PassCounts ==
  ASSUME LimiterInv, NEW r \in Requests, NEW i \in Endpoint, Pass(r, i),
         NEW h \in Key, h = KeyOf(r, i), NEW k \in Key
  PROVE  /\ h.rule = i /\ r \notin Tally(h)
         /\ Tally(k)' = IF k = h THEN Tally(k) \cup {r} ELSE Tally(k)
         /\ \A q \in Tally(k) : passed'[q][k.rule] = passed[q][k.rule]
         /\ passed'[r][i] = clock /\ clock' = clock /\ clock \in Nat
<1>1. rule[r] = i /\ rule[r] # 0 /\ i \in 1..4
  BY EndpointAssumption DEF Pass, Asking, LimiterInv,
         Rules
<1>2. h.rule = i
  BY DEF KeyOf
<1>3. passed[r][i] = Unset
  BY <1>1 DEF LimiterInv, Asked
<1>4. /\ passed' = [passed EXCEPT ![r] = [passed[r] EXCEPT ![i] = clock]]
      /\ passed[r] \in [Endpoint -> Nat \cup {Unset}]
      /\ passed \in [Requests -> [Endpoint -> Nat \cup {Unset}]]
      /\ UNCHANGED <<clock, ip, email>> /\ clock \in Nat /\ Unset \notin Nat
  BY RateLimiterAssumption DEF Pass, LimiterInv, LimiterTypeOK
<1>5. ASSUME NEW q \in Requests, NEW j \in Endpoint
      PROVE  passed'[q][j] = IF q = r /\ j = i THEN clock ELSE passed[q][j]
  BY <1>4
<1>6. \A q \in Requests, j \in Endpoint : KeyOf(q, j)' = KeyOf(q, j)
  BY <1>4 DEF KeyOf
<1>7. k.rule \in Endpoint
  BY DEF Key
<1>8. r \notin Tally(h)
  BY <1>2, <1>3 DEF Tally
<1>9. ASSUME NEW q \in Requests
      PROVE  q \in Tally(k)' <=> q \in Tally(k) \/ (q = r /\ k = h)
  <2>1. CASE q = r /\ k.rule = i
    <3>1. passed'[q][k.rule] # Unset
      BY <1>4, <1>5, <1>7, <2>1
    <3>2. q \in Tally(k)' <=> KeyOf(q, k.rule)' = k
      BY <3>1 DEF Tally
    <3>3. KeyOf(q, k.rule)' = h
      BY <1>6, <1>7, <2>1
    <3>4. q \notin Tally(k)
      BY <1>3, <2>1 DEF Tally
    <3> QED
      BY <2>1, <3>2, <3>3, <3>4
  <2>2. CASE ~(q = r /\ k.rule = i)
    <3>1. passed'[q][k.rule] = passed[q][k.rule]
      BY <1>5, <1>7, <2>2
    <3>2. ~(q = r /\ k = h)
      BY <1>2, <2>2
    <3> QED
      BY <1>6, <1>7, <3>1, <3>2 DEF Tally
  <2> QED
    BY <2>1, <2>2
<1>10. Tally(k)' \subseteq Requests /\ Tally(k) \subseteq Requests
  BY DEF Tally
<1>11. Tally(k)' = IF k = h THEN Tally(k) \cup {r} ELSE Tally(k)
  BY <1>9, <1>10
<1>12. ASSUME NEW q \in Tally(k)
       PROVE  passed'[q][k.rule] = passed[q][k.rule]
  <2>1. ~(q = r /\ k.rule = i)
    BY <1>3, <1>12 DEF Tally
  <2> QED
    BY <1>5, <1>7, <1>10, <2>1
<1> QED
  BY <1>2, <1>4, <1>5, <1>8, <1>11, <1>12

\* What that does to the spans of the key.
LEMMA PassGrows ==
  ASSUME LimiterInv, NEW r \in Requests, NEW i \in Endpoint, Pass(r, i),
         NEW h \in Key, h = KeyOf(r, i), NEW a \in Int, NEW b \in Int, a <= clock, clock < b
  PROVE  Span(h, a, b)' = Span(h, a, b) \cup {r} /\ r \notin Span(h, a, b)
<1>1. /\ h.rule = i /\ r \notin Tally(h) /\ Tally(h)' = Tally(h) \cup {r}
      /\ \A q \in Tally(h) : passed'[q][i] = passed[q][i]
      /\ passed'[r][i] = clock
  BY PassCounts
<1>2. Span(h, a, b)' = {q \in Tally(h) \cup {r} : a <= passed'[q][i] /\ passed'[q][i] < b}
  BY <1>1 DEF Span
<1>3. Span(h, a, b) = {q \in Tally(h) : a <= passed[q][i] /\ passed[q][i] < b}
  BY <1>1 DEF Span
<1> QED
  BY <1>1, <1>2, <1>3

LEMMA PassKeeps ==
  ASSUME LimiterInv, NEW r \in Requests, NEW i \in Endpoint, Pass(r, i),
         NEW h \in Key, h = KeyOf(r, i), NEW a \in Int, NEW b \in Int,
         ~(a <= clock /\ clock < b)
  PROVE  Span(h, a, b)' = Span(h, a, b)
<1>1. /\ h.rule = i /\ Tally(h)' = Tally(h) \cup {r}
      /\ \A q \in Tally(h) : passed'[q][i] = passed[q][i]
      /\ passed'[r][i] = clock
  BY PassCounts
<1>2. Span(h, a, b)' = {q \in Tally(h) \cup {r} : a <= passed'[q][i] /\ passed'[q][i] < b}
  BY <1>1 DEF Span
<1>3. Span(h, a, b) = {q \in Tally(h) : a <= passed[q][i] /\ passed[q][i] < b}
  BY <1>1 DEF Span
<1> QED
  BY <1>1, <1>2, <1>3

\* A request is counted in the open window of its key: the window grows by it.
LEMMA PassOpen ==
  ASSUME LimiterInv, NEW r \in Requests, NEW i \in Endpoint, Pass(r, i),
         NEW h \in Key, h = KeyOf(r, i), Open(h)
  PROVE  Windowed(h)' /\ Spaced(h)' /\ expires'[h] > 0
<1>1. /\ Window \in Nat \ {0} /\ clock \in Nat /\ clock' = clock /\ clock < expires[h]
      /\ expires[h] \in Nat /\ count[h] \in Nat
  BY RateLimiterAssumption DEF LimiterInv, LimiterTypeOK, Pass, Open
<1>2. expires'[h] = expires[h] /\ count'[h] = count[h] + 1
  BY DEF Pass, Incr, Counted, LimiterInv, LimiterTypeOK
<1>3. Windowed(h) /\ Spaced(h) /\ expires[h] > 0
  BY <1>1 DEF LimiterInv
<1>4. PICK s \in 0..clock : s = Start(h)
  BY <1>3 DEF Windowed
<1>5. Start(h)' = s
  BY <1>2, <1>4 DEF Start
<1>6. /\ h.rule = i /\ r \notin Tally(h) /\ Tally(h)' = Tally(h) \cup {r}
      /\ \A q \in Tally(h) : passed'[q][i] = passed[q][i]
      /\ passed'[r][i] = clock
  BY PassCounts
<1>7. PICK e \in Nat : e = expires[h]
  BY <1>1
<1>8. Span(h, s, e)' = Span(h, s, e) \cup {r} /\ r \notin Span(h, s, e)
  <2>1. s \in Int /\ e \in Int /\ s <= clock /\ clock < e
    BY <1>1, <1>4, <1>7
  <2> QED
    BY <2>1, PassGrows
<1>9. /\ IsFiniteSet(Span(h, s, e)) /\ Cardinality(Span(h, s, e)) = count[h]
  BY <1>3, <1>4, <1>7 DEF Windowed
<1>10. /\ IsFiniteSet(Span(h, s, e)') /\ Cardinality(Span(h, s, e)') = count[h] + 1
  <2>1. PICK before : before = Span(h, s, e)
    OBVIOUS
  <2>2. IsFiniteSet(before) /\ Cardinality(before) = count[h] /\ r \notin before
    BY <1>8, <1>9, <2>1
  <2>3. IsFiniteSet(before \cup {r}) /\ Cardinality(before \cup {r}) = count[h] + 1
    BY <2>2, FS_AddElement
  <2> QED
    BY <1>8, <2>1, <2>3
<1>11. Windowed(h)'
  <2>1. \A q \in Tally(h)' : passed'[q][i] < expires'[h]
    BY <1>1, <1>2, <1>3, <1>6 DEF Windowed
  <2>2. \E q \in Tally(h)' : passed'[q][i] = s
    BY <1>3, <1>4, <1>6 DEF Windowed
  <2>3. Span(h, Start(h), expires[h])' = Span(h, s, e)'
    BY <1>2, <1>5, <1>7 DEF Span
  <2> QED
    BY <1>1, <1>2, <1>4, <1>5, <1>6, <1>10, <2>1, <2>2, <2>3 DEF Windowed
<1>12. Spaced(h)'
  <2>1. ASSUME NEW t \in Int
        PROVE  Span(h, t, Start(h))' = Span(h, t, Start(h))
    <3>1. Span(h, t, s)' = Span(h, t, s)
      <4>1. s \in Int /\ ~(t <= clock /\ clock < s)
        BY <1>1, <1>4
      <4> QED
        BY <4>1, PassKeeps
    <3>2. Span(h, t, Start(h))' = Span(h, t, s)'
      BY <1>5 DEF Span
    <3> QED
      BY <1>4, <3>1, <3>2
  <2> QED
    BY <1>2, <1>3, <1>4, <1>5, <2>1 DEF Spaced
<1> QED
  BY <1>2, <1>3, <1>11, <1>12

\* A request opens a window of its key: the window before it had an opener,
\* which a window's length before the new one does not reach back to.
LEMMA PassClosed ==
  ASSUME LimiterInv, NEW r \in Requests, NEW i \in Endpoint, Pass(r, i),
         NEW h \in Key, h = KeyOf(r, i), ~Open(h)
  PROVE  Windowed(h)' /\ Spaced(h)' /\ expires'[h] > 0
<1> DEFINE L == Limit(h.rule)
<1>1. /\ Window \in Nat \ {0} /\ clock \in Nat /\ clock' = clock /\ clock >= expires[h]
      /\ expires[h] \in Nat /\ count[h] \in 0..L /\ L \in Nat \ {0}
  BY RateLimiterAssumption, LimitPositive DEF LimiterInv, LimiterTypeOK, Pass, Open
<1>2. expires'[h] = clock + Window /\ count'[h] = 1
  BY DEF Pass, Incr, Counted, LimiterInv, LimiterTypeOK
<1>3. Start(h)' = clock
  BY <1>1, <1>2 DEF Start
<1>4. /\ h.rule = i /\ r \notin Tally(h) /\ Tally(h)' = Tally(h) \cup {r}
      /\ \A q \in Tally(h) : passed'[q][i] = passed[q][i]
      /\ passed'[r][i] = clock
  BY PassCounts
<1>5. Windowed(h) /\ Spaced(h)
  BY DEF LimiterInv
<1>6. \A q \in Tally(h) : passed[q][i] \in Nat /\ passed[q][i] < expires[h]
  BY <1>4, <1>5, CountedFacts DEF Windowed
<1>7. PICK e \in Nat : e = clock + Window
  BY <1>1
<1>8. Span(h, clock, e) = {}
  BY <1>1, <1>4, <1>6 DEF Span
<1>9. Span(h, clock, e)' = {r}
  <2>1. PICK a \in Int : a = clock
    BY <1>1
  <2>2. Span(h, a, e)' = Span(h, a, e) \cup {r}
    <3>1. e \in Int /\ a <= clock /\ clock < e
      BY <1>1, <1>7, <2>1
    <3> QED
      BY <3>1, PassGrows
  <2>3. Span(h, a, e)' = {r}
    BY <1>8, <2>1, <2>2
  <2> QED
    BY <1>1, <2>1, <2>3 DEF Span
<1>10. Windowed(h)'
  <2>1. \A q \in Tally(h)' : passed'[q][i] < expires'[h]
    BY <1>1, <1>2, <1>4, <1>6
  <2>2. Span(h, Start(h), expires[h])' = {r}
    BY <1>1, <1>2, <1>3, <1>7, <1>9 DEF Span
  <2>3. IsFiniteSet({r}) /\ Cardinality({r}) = 1
    BY FS_Singleton
  <2>4. \E q \in Tally(h)' : passed'[q][i] = clock
    BY <1>4
  <2>5. clock \in 0..clock
    BY <1>1
  <2> QED
    BY <1>1, <1>2, <1>3, <1>4, <2>1, <2>2, <2>3, <2>4, <2>5 DEF Windowed
<1>11. ASSUME NEW t \in Int, t > clock - Window
       PROVE  /\ IsFiniteSet(Span(h, t, clock))
              /\ Cardinality(Span(h, t, clock)) <= L - 1
  <2>1. CASE expires[h] = 0
    <3>1. Span(h, t, clock) = {}
      BY <1>6, <2>1 DEF Span
    <3>2. IsFiniteSet({}) /\ Cardinality({}) = 0
      BY FS_EmptySet
    <3> QED
      BY <1>1, <3>1, <3>2
  <2>2. CASE expires[h] > 0
    <3> DEFINE Old == Span(h, Start(h), expires[h])
    <3>1. PICK o \in Tally(h) : passed[o][i] = Start(h)
      BY <1>4, <1>5, <2>2 DEF Windowed
    <3>2. Start(h) \in Int /\ Start(h) < t /\ Start(h) < expires[h]
      BY <1>1, <1>11, <2>2 DEF Start
    <3>3. o \in Old
      BY <1>4, <3>1, <3>2 DEF Span
    <3>4. IsFiniteSet(Old) /\ Cardinality(Old) = count[h]
      BY <1>5, <2>2 DEF Windowed
    <3> HIDE DEF Old
    <3>5. IsFiniteSet(Old \ {o}) /\ Cardinality(Old \ {o}) = count[h] - 1
      BY <3>3, <3>4, FS_RemoveElement
    <3>6. Span(h, t, clock) \in SUBSET (Old \ {o})
      BY <1>4, <1>6, <3>1, <3>2 DEF Span, Old
    <3>7. IsFiniteSet(Span(h, t, clock))
            /\ Cardinality(Span(h, t, clock)) <= Cardinality(Old \ {o})
      BY <3>5, <3>6, FS_Subset
    <3>8. Cardinality(Span(h, t, clock)) \in Nat
      BY <3>7, FS_CardinalityType
    <3> QED
      BY <1>1, <3>5, <3>7, <3>8
  <2> QED
    BY <1>1, <2>1, <2>2
<1>12. Spaced(h)'
  <2>1. ASSUME NEW t \in Int
        PROVE  Span(h, t, Start(h))' = Span(h, t, clock)
    <3>1. PICK b \in Int : b = clock
      BY <1>1
    <3>2. Span(h, t, b)' = Span(h, t, b)
      <4>1. ~(t <= clock /\ clock < b)
        BY <1>1, <3>1
      <4> QED
        BY <4>1, PassKeeps
    <3>3. Span(h, t, Start(h))' = Span(h, t, b)'
      BY <1>1, <1>3, <3>1 DEF Span
    <3> QED
      BY <3>1, <3>2, <3>3
  <2> QED
    BY <1>2, <1>3, <1>11, <2>1 DEF Spaced
<1> QED
  BY <1>1, <1>2, <1>10, <1>12

\* What is said of the keys survives a pass.
LEMMA PassKeys ==
  ASSUME LimiterInv, NEW r \in Requests, NEW i \in Endpoint, Pass(r, i),
         LimiterTypeOK', Asked', NEW k \in Key
  PROVE  Windowed(k)' /\ Spaced(k)' /\ Bounded(k)'
<1>1. PICK h \in Key : h = KeyOf(r, i)
  <2>1. rule[r] # 0
    BY EndpointAssumption DEF Pass, Asking, LimiterInv,
           Rules
  <2> QED
    BY <2>1, KeyIsKey
<1>2. CASE k # h
  <2>1. /\ Tally(k)' = Tally(k) /\ \A q \in Tally(k) : passed'[q][k.rule] = passed[q][k.rule]
        /\ clock' = clock /\ clock \in Nat
    BY <1>1, <1>2, PassCounts
  <2>2. count'[k] = count[k] /\ expires'[k] = expires[k]
    BY <1>1, <1>2 DEF Pass, Incr, LimiterInv, LimiterTypeOK
  <2>3. clock' >= clock
    BY <2>1
  <2> QED
    BY <2>1, <2>2, <2>3, SpansStay
<1>3. CASE k = h
  <2>1. Windowed(h)' /\ Spaced(h)' /\ expires'[h] > 0
    BY <1>1, PassOpen, PassClosed
  <2>2. ASSUME NEW t \in Int
        PROVE  /\ IsFiniteSet(Span(h, t, t + Window))'
               /\ Cardinality(Span(h, t, t + Window))' <= 2 * Limit(h.rule) - 1
    <3>1. /\ Window \in Nat \ {0} /\ clock \in Nat /\ clock' = clock
      BY RateLimiterAssumption DEF LimiterInv, LimiterTypeOK, Pass
    <3>2. CASE t <= clock /\ clock < t + Window
      <4>1. Start(h)' \in 0..clock
        BY <2>1, <3>1 DEF Windowed
      <4>2. t > Start(h)' - Window
        BY <3>1, <3>2, <4>1
      <4> QED
        BY <2>1, <4>2, RecentNext DEF Recent
    <3>3. CASE ~(t <= clock /\ clock < t + Window)
      <4>1. PICK b \in Int : b = t + Window
        BY <3>1
      <4>2. Span(h, t, b)' = Span(h, t, b)
        <5>1. ~(t <= clock /\ clock < b)
          BY <3>3, <4>1
        <5> QED
          BY <1>1, <5>1, PassKeeps
      <4>3. Bounded(h)
        BY DEF LimiterInv
      <4> QED
        BY <4>1, <4>2, <4>3 DEF Bounded
    <3> QED
      BY <3>2, <3>3
  <2>3. Bounded(h)'
    BY <2>2 DEF Bounded
  <2> QED
    BY <1>3, <2>1, <2>3
<1> QED
  BY <1>2, <1>3

LEMMA PassTypes ==
  ASSUME LimiterInv, NEW r \in Requests, NEW i \in Endpoint, Pass(r, i)
  PROVE  LimiterTypeOK' /\ Asked'
<1>1. rule[r] = i /\ rule[r] # 0 /\ i \in 1..4 /\ refused[r] = Unset
  BY EndpointAssumption DEF Pass, Asking, LimiterInv,
         Rules
<1>2. PICK h \in Key : h = KeyOf(r, i)
  BY <1>1, KeyIsKey
<1>3. h.rule = i
  BY <1>2 DEF KeyOf
<1>4. LimiterTypeOK /\ Limit(i) \in Nat \ {0} /\ Window \in Nat \ {0} /\ Unset \notin Nat
  BY RateLimiterAssumption, LimitPositive DEF LimiterInv
<1>5. /\ After(i) \in Endpoint \cup {5} /\ After(i) \in 1..5
      /\ After(i) > i
  BY AfterLater DEF LimiterInv
<1>6. Counted(h) \in Nat /\ Counted(h) < Limit(i)
  BY <1>2, <1>3, <1>4 DEF Pass, Exhausted, Counted, LimiterTypeOK
<1>7. count' = [count EXCEPT ![h] = Counted(h) + 1]
  BY <1>2 DEF Pass, Incr
<1>8. count' \in [Key -> Nat] /\ \A k \in Key : count'[k] <= Limit(k.rule)
  BY <1>2, <1>3, <1>4, <1>6, <1>7 DEF LimiterTypeOK
<1>9. expires' \in [Key -> Nat]
  <2>1. expires' = IF Open(h) THEN expires ELSE [expires EXCEPT ![h] = clock + Window]
    BY <1>2 DEF Pass, Incr
  <2> QED
    BY <1>4, <2>1 DEF LimiterTypeOK
<1>10. passed' \in [Requests -> [Endpoint -> Nat \cup {Unset}]]
  BY <1>4 DEF Pass, LimiterTypeOK
<1>11. rule' \in [Requests -> {0, 5} \cup Endpoint]
  BY <1>4, <1>5 DEF Pass, LimiterTypeOK, Handler
<1>12. LimiterTypeOK'
  BY <1>4, <1>8, <1>9, <1>10, <1>11 DEF Pass, LimiterTypeOK, Handler
<1>13. ASSUME NEW q \in Requests, NEW j \in Endpoint, passed'[q][j] # Unset
       PROVE  j < rule'[q] /\ passed'[q][j] <= clock'
  <2>1. CASE q = r /\ j = i
    BY <1>4, <1>5, <2>1 DEF Pass, LimiterTypeOK
  <2>2. CASE ~(q = r /\ j = i)
    <3>1. passed'[q][j] = passed[q][j] /\ clock' = clock
      BY <1>4, <2>2 DEF Pass, LimiterTypeOK
    <3>2. j < rule[q] /\ passed[q][j] <= clock
      BY <1>13, <3>1 DEF LimiterInv, Asked
    <3>3. q = r => rule[q] = i /\ rule'[q] = After(i)
      BY <1>1, <1>4 DEF Pass, LimiterTypeOK
    <3>4. q # r => rule'[q] = rule[q]
      BY <1>4 DEF Pass, LimiterTypeOK
    <3>5. j \in 1..4
      BY EndpointAssumption DEF LimiterInv, Rules
    <3>6. j < rule'[q]
      BY <1>1, <1>5, <3>2, <3>3, <3>4, <3>5
    <3> QED
      BY <3>1, <3>2, <3>6
  <2> QED
    BY <2>1, <2>2
<1>14. Asked'
  BY <1>1, <1>4, <1>13 DEF LimiterInv, Asked, Pass, LimiterTypeOK
<1> QED
  BY <1>12, <1>14

LEMMA PassInv ==
  ASSUME LimiterInv, NEW r \in Requests, NEW i \in Endpoint, Pass(r, i)
  PROVE  LimiterInv'
<1>1. LimiterTypeOK' /\ Asked'
  BY PassTypes DEF LimiterInv
<1>2. \A k \in Key : Windowed(k)' /\ Spaced(k)' /\ Bounded(k)'
  BY <1>1, PassKeys
<1>3. ASSUME NEW k \in Key, NEW a \in Int, NEW b \in Int
      PROVE  Span(k, a, b) \subseteq Span(k, a, b)'
  <2>1. rule[r] # 0
    BY EndpointAssumption DEF Pass, Asking, LimiterInv,
           Rules
  <2>2. PICK h \in Key : h = KeyOf(r, i)
    BY <2>1, KeyIsKey
  <2> QED
    BY <2>2, PassCounts DEF Span
<1>4. Justified'
  <2>1. ASSUME NEW q \in Requests, refused'[q] # Unset
        PROVE  Cardinality(Span(KeyOf(q, rule[q]), refused[q] - Window + 1, refused[q] + 1))'
                 >= Limit(rule'[q])
    <3>1. refused[q] # Unset /\ refused'[q] = refused[q] /\ rule'[q] = rule[q]
            /\ ip'[q] = ip[q] /\ email'[q] = email[q]
      BY <2>1 DEF Pass, Asking, LimiterInv, LimiterTypeOK
    <3> QED
      BY <1>2, <1>3, <3>1, JustifiedStays
  <2> QED
    BY <2>1 DEF Justified
<1> QED
  BY <1>1, <1>2, <1>4 DEF LimiterInv

-----------------------------------------------------------------------------
(* The steps that count nothing, and the theorems.                          *)

\* What the steps that count nothing have in common.
LEMMA OthersInv ==
  ASSUME LimiterInv, LimiterTypeOK', Asked', UNCHANGED <<count, expires, passed>>, clock' >= clock,
         \A q \in Requests : rule[q] # 0 => ip'[q] = ip[q] /\ email'[q] = email[q],
         \A q \in Requests : refused[q] # Unset => refused'[q] = refused[q] /\ rule'[q] = rule[q],
         \A q \in Requests : refused[q] = Unset /\ refused'[q] # Unset =>
           Cardinality(Span(KeyOf(q, rule[q]), refused[q] - Window + 1, refused[q] + 1))'
             >= Limit(rule'[q])
  PROVE  LimiterInv'
<1>1. \A k \in Key : Tally(k)' = Tally(k)
  BY CountedStay
<1>2. \A k \in Key : Windowed(k)' /\ Spaced(k)' /\ Bounded(k)'
  BY <1>1, SpansStay
<1>3. \A k \in Key, a, b \in Int : Span(k, a, b) \subseteq Span(k, a, b)'
  BY <1>1 DEF Span
<1>4. Justified'
  <2>1. ASSUME NEW q \in Requests, refused'[q] # Unset
        PROVE  Cardinality(Span(KeyOf(q, rule[q]), refused[q] - Window + 1, refused[q] + 1))'
                 >= Limit(rule'[q])
    <3>1. CASE refused[q] # Unset
      <4>1. rule[q] # 0
        BY EndpointAssumption, <3>1 DEF LimiterInv, Asked, Rules
      <4> QED
        BY <1>2, <1>3, <3>1, <4>1, JustifiedStays
    <3> QED
      BY <2>1, <3>1
  <2> QED
    BY <2>1 DEF Justified
<1> QED
  BY <1>2, <1>4 DEF LimiterInv

LEMMA ArriveInv ==
  ASSUME LimiterInv, NEW r \in Requests, NEW a \in Ips, NEW e \in Emails, Arrive(r, a, e)
  PROVE  LimiterInv'
<1> USE DEF Arrive
<1>1. LimiterTypeOK /\ Asked
  BY DEF LimiterInv
<1>2. /\ After(0) \in Endpoint \cup {5} /\ After(0) \in 1..5
  BY AfterLater DEF LimiterInv
<1>3. refused[r] = Unset
  BY EndpointAssumption, <1>1 DEF Asked, LimiterInv, Rules
<1>4. LimiterTypeOK'
  BY <1>1, <1>2 DEF LimiterTypeOK, Handler
<1>5. \A i \in Endpoint : passed[r][i] = Unset
  <2>1. \A i \in Endpoint : i \in 1..4
    BY EndpointAssumption DEF LimiterInv, Rules
  <2> QED
    BY <1>1, <2>1 DEF Asked
<1>6. Asked'
  BY <1>1, <1>3, <1>5 DEF Asked, LimiterTypeOK
<1>7. clock' >= clock
  BY <1>1 DEF LimiterTypeOK
<1>8. \A q \in Requests : rule[q] # 0 => ip'[q] = ip[q] /\ email'[q] = email[q]
  BY <1>1 DEF LimiterTypeOK
<1>9. \A q \in Requests : refused[q] # Unset => refused'[q] = refused[q] /\ rule'[q] = rule[q]
  BY <1>1, <1>3 DEF LimiterTypeOK
<1> QED
  BY <1>4, <1>6, <1>7, <1>8, <1>9, OthersInv

LEMMA RefuseInv ==
  ASSUME LimiterInv, NEW r \in Requests, NEW i \in Endpoint, Refuse(r, i)
  PROVE  LimiterInv'
<1> USE DEF Refuse, Asking
<1>1. /\ LimiterTypeOK /\ Asked /\ clock \in Nat /\ Window \in Nat \ {0} /\ i \in 1..4
      /\ Unset \notin Nat
  BY RateLimiterAssumption, EndpointAssumption DEF LimiterInv, LimiterTypeOK, Rules
<1>2. LimiterTypeOK' /\ Asked' /\ clock' >= clock
  BY <1>1 DEF LimiterTypeOK, Asked
<1>3. PICK h \in Key : h = KeyOf(r, i) /\ h.rule = i
  BY <1>1, KeyIsKey
<1>4. Counted(h) >= Limit(i) /\ Limit(i) \in Nat \ {0} /\ count[h] \in Nat
        /\ expires[h] \in Nat
  BY <1>1, <1>3, LimitPositive DEF LimiterInv, Exhausted, LimiterTypeOK
<1>5. clock < expires[h] /\ count[h] >= Limit(i)
  BY <1>4 DEF Counted, Open
<1>6. Windowed(h) /\ Bounded(h) /\ expires[h] > 0
  BY <1>1, <1>4, <1>5 DEF LimiterInv
<1> DEFINE Last == Span(h, Start(h), expires[h])
<1>7. IsFiniteSet(Last) /\ Cardinality(Last) = count[h]
  BY <1>6 DEF Windowed
<1>8. PICK a \in Int : a = clock - Window + 1
  BY <1>1
<1>9. a + Window = clock + 1
  BY <1>1, <1>8
<1>10. IsFiniteSet(Span(h, a, a + Window))
  BY <1>6 DEF Bounded
<1>11. Last \in SUBSET Span(h, a, a + Window)
  <2>1. \A q \in Tally(h) : passed[q][i] \in 0..clock
    BY <1>3, CountedFacts
  <2>2. Start(h) \in Int /\ a <= Start(h)
    BY <1>1, <1>4, <1>5, <1>8 DEF Start
  <2> QED
    BY <1>1, <1>3, <1>8, <1>9, <2>1, <2>2 DEF Span
<1> HIDE DEF Last
<1>12. Cardinality(Last) <= Cardinality(Span(h, a, a + Window))
         /\ Cardinality(Span(h, a, a + Window)) \in Nat
  BY <1>10, <1>11, FS_Subset, FS_CardinalityType
<1>13. Cardinality(Span(h, a, a + Window)) >= Limit(i)
  BY <1>4, <1>5, <1>7, <1>12
<1>14. ASSUME NEW q \in Requests, refused[q] = Unset, refused'[q] # Unset
       PROVE  Cardinality(Span(KeyOf(q, rule[q]), refused[q] - Window + 1, refused[q] + 1))'
                >= Limit(rule'[q])
  <2>1. q = r /\ refused'[q] = clock /\ rule'[q] = i
    BY <1>1, <1>14 DEF LimiterTypeOK
  <2>2. KeyOf(q, rule[q])' = h
    BY <1>3, <2>1 DEF KeyOf
  <2>3. Span(h, a, a + Window)' = Span(h, a, a + Window)
    BY DEF Span, Tally, KeyOf
  <2>4. Span(KeyOf(q, rule[q]), refused[q] - Window + 1, refused[q] + 1)'
          = Span(h, a, a + Window)'
    BY <1>8, <1>9, <2>1, <2>2 DEF Span, Tally
  <2> QED
    BY <1>13, <2>1, <2>3, <2>4
<1>15. \A q \in Requests : refused[q] # Unset => refused'[q] = refused[q] /\ rule'[q] = rule[q]
  BY <1>1 DEF LimiterTypeOK
<1> QED
  BY <1>2, <1>14, <1>15, OthersInv

LEMMA FailOpenInv ==
  ASSUME LimiterInv, NEW r \in Requests, NEW i \in Endpoint, FailOpen(r, i)
  PROVE  LimiterInv'
<1> USE DEF FailOpen, Asking
<1>1. LimiterTypeOK /\ Asked /\ i \in 1..4
  BY EndpointAssumption DEF LimiterInv, Rules
<1>2. /\ After(i) \in Endpoint \cup {5} /\ After(i) \in 1..5
      /\ After(i) > i
  BY AfterLater DEF LimiterInv
<1>3. LimiterTypeOK'
  BY <1>1, <1>2 DEF LimiterTypeOK, Handler
<1>4. ASSUME NEW q \in Requests, NEW j \in Endpoint, passed'[q][j] # Unset
      PROVE  j < rule'[q] /\ passed'[q][j] <= clock'
  <2>1. j < rule[q] /\ passed[q][j] <= clock /\ j \in 1..4
    BY EndpointAssumption, <1>1, <1>4 DEF Asked, LimiterInv, Rules
  <2>2. rule'[q] = IF q = r THEN After(i) ELSE rule[q]
    BY <1>1 DEF LimiterTypeOK
  <2> QED
    BY <1>1, <1>2, <2>1, <2>2
<1>5. Asked'
  BY <1>1, <1>4 DEF Asked, LimiterTypeOK
<1>6. clock' >= clock
  BY <1>1 DEF LimiterTypeOK
<1>7. \A q \in Requests : refused[q] # Unset => refused'[q] = refused[q] /\ rule'[q] = rule[q]
  BY <1>1 DEF LimiterTypeOK
<1> QED
  BY <1>3, <1>5, <1>6, <1>7, OthersInv

LEMMA TickInv ==
  ASSUME LimiterInv, Tick
  PROVE  LimiterInv'
<1> USE DEF Tick
<1>1. LimiterTypeOK /\ Asked /\ clock \in Nat
  BY DEF LimiterInv, LimiterTypeOK
<1>2. clock' >= clock /\ LimiterTypeOK'
  BY <1>1 DEF LimiterTypeOK
<1>3. \A q \in Requests, j \in Endpoint : passed[q][j] # Unset => passed[q][j] \in Nat
  BY <1>1 DEF LimiterTypeOK
<1>4. Asked'
  BY <1>1, <1>3 DEF Asked
<1> QED
  BY <1>2, <1>4, OthersInv

LEMMA StepLimiterInv ==
  ASSUME LimiterInv, [LimiterNext]_limiterVars
  PROVE  LimiterInv'
<1>1. CASE UNCHANGED limiterVars
  <2>1. LimiterTypeOK' /\ Asked' /\ clock' >= clock
    BY <1>1 DEF limiterVars, LimiterInv, LimiterTypeOK, Asked
  <2> QED
    BY <1>1, <2>1, OthersInv DEF limiterVars
<1>2. CASE LimiterNext
  BY <1>2, ArriveInv, PassInv, RefuseInv, FailOpenInv, TickInv DEF LimiterNext
<1> QED
  BY <1>1, <1>2

THEOREM LimiterInvariance == LimiterSpec => []LimiterInv
<1>1. LimiterInit => LimiterInv
  BY InitLimiterInv
<1>2. LimiterInv /\ [LimiterNext]_limiterVars => LimiterInv'
  BY StepLimiterInv
<1> QED
  BY <1>1, <1>2, PTL DEF LimiterSpec

\* The limiter's variables keep their types: no counter passes its limit.
THEOREM LimiterTypeCorrect == LimiterSpec => []LimiterTypeOK
<1>1. LimiterInv => LimiterTypeOK
  BY DEF LimiterInv
<1> QED
  BY <1>1, LimiterInvariance, PTL

\* A span in the notation of the properties.
LEMMA CountedInSpan ==
  ASSUME LimiterInv, NEW k \in Key, NEW t \in Int
  PROVE  CountedIn(k, t, Window) = Span(k, t, t + Window)
<1>1. Window \in Nat
  BY RateLimiterAssumption DEF LimiterInv
<1>2. \A q \in Requests : passed[q][k.rule] # Unset => passed[q][k.rule] \in Int
  BY DEF LimiterInv, LimiterTypeOK, Key
<1> QED
  BY <1>1, <1>2 DEF CountedIn, Span, Tally

\* In any span of a window's length a key counts fewer than twice its limit.
THEOREM BurstsBounded == LimiterSpec => []BurstBound
<1>1. LimiterInv => BurstBound
  <2> SUFFICES ASSUME LimiterInv, NEW k \in Key, NEW t \in 0..clock
               PROVE  Cardinality(CountedIn(k, t, Window)) <= 2 * Limit(k.rule) - 1
    BY DEF BurstBound
  <2>1. t \in Int
    OBVIOUS
  <2> QED
    BY <2>1, CountedInSpan DEF LimiterInv, Bounded
<1> QED
  BY <1>1, LimiterInvariance, PTL

\* Nobody is refused by a key that has not counted its limit within a window's
\* length.
THEOREM RefusalsHadLimit == LimiterSpec => []RefusedHadLimit
<1>1. LimiterInv => RefusedHadLimit
  <2> SUFFICES ASSUME LimiterInv, NEW r \in Requests, refused[r] # Unset
               PROVE  Cardinality(CountedIn(KeyOf(r, rule[r]),
                        refused[r] - Window + 1, Window)) >= Limit(rule[r])
    BY DEF RefusedHadLimit
  <2>1. rule[r] \in Endpoint /\ rule[r] # 0
    BY EndpointAssumption DEF LimiterInv, Asked, Rules
  <2>2. PICK k \in Key : k = KeyOf(r, rule[r])
    BY <2>1, KeyIsKey
  <2>3. refused[r] \in Nat /\ Window \in Nat
    BY RateLimiterAssumption DEF LimiterInv, LimiterTypeOK
  <2>4. PICK t \in Int : t = refused[r] - Window + 1
    BY <2>3
  <2>5. t + Window = refused[r] + 1
    BY <2>3, <2>4
  <2>6. Cardinality(Span(k, t, t + Window)) >= Limit(rule[r])
    BY <2>2, <2>4, <2>5 DEF LimiterInv, Justified
  <2>7. CountedIn(k, t, Window) = Span(k, t, t + Window)
    BY CountedInSpan
  <2> QED
    BY <2>2, <2>4, <2>6, <2>7
<1> QED
  BY <1>1, LimiterInvariance, PTL
=============================================================================
