---------------------------- MODULE Permissions ----------------------------
(***************************************************************************)
(* Role-based permissions: the role tables of auth-service (RolesService), *)
(* the Redis hash that caches a user's permissions (PermissionCache) and   *)
(* the guard of every service that reads it (PermissionGuard through       *)
(* PermissionProvider).  A cached list is trusted when its permVersion is  *)
(* the one in the access token.  Handlers are cut at their awaits.         *)
(*                                                                         *)
(* An era of a user is the time between two committed changes of the       *)
(* user's roles; hist[u][e] is the permVersion stored in era e.  A user    *)
(* can log in at any time, so there may be an access token of every era up *)
(* to the present one.  Eras are not in the code: they say how old a token *)
(* or a list of permissions is.                                            *)
(***************************************************************************)
EXTENDS Naturals, Sequences

CONSTANTS
  Users, Roles, Perms,
  Admins,     \* admin calls of the roles API in flight at the same time
  Guards,     \* guarded requests in flight at the same time
  Edits,      \* permissionIds lists that role create and update are called with
  MaxEra,     \* bound on the role changes of one user
  None        \* no entry in Redis

VARIABLES
  born,       \* ids of the roles created so far
  roleRows,   \* table Role
  grants,     \* table RolePermission
  roles,      \* table UserRole
  hist,       \* values User.permVersion has had, the last one is current
  cache,      \* Redis permissions:user:<id>:
  apc, actx,  \* admin calls
  gpc, gctx   \* guarded requests

vars == <<born, roleRows, grants, roles, hist, cache, apc, actx, gpc, gctx>>
adminVars == <<born, roleRows, grants, roles, hist, apc, actx>>
guardVars == <<gpc, gctx>>

Era == 1..MaxEra
Entry == [ver : Nat, perms : SUBSET Perms, era : Era]
AdminCtx == [user : Users \cup {None}, role : Roles, ver : Nat,
             op : {"assign", "unassign", "update", "create"}, todo : SUBSET Perms]
GuardCtx == [user : Users, token : Era, roles : SUBSET Roles,
             perms : SUBSET Perms, era : Era]

ASSUME PermissionsAssumption ==
  /\ MaxEra \in Nat \ {0}
  /\ Edits \subseteq SUBSET Perms
  /\ None \notin Users /\ None \notin Entry /\ None \notin AdminCtx /\ None \notin GuardCtx

AdminSteps == {"idle", "read", "checked", "committed", "clearing", "granting"}
GuardSteps == {"idle", "miss", "roles", "fill", "decided"}

Now(u) == Len(hist[u])
Current(u) == UNION {grants[r] : r \in roles[u]}

TypeOK ==
  /\ roleRows \subseteq born /\ born \subseteq Roles
  /\ grants \in [Roles -> SUBSET Perms]
  /\ \A r \in Roles \ roleRows : grants[r] = {}
  /\ roles \in [Users -> SUBSET roleRows]
  /\ hist \in [Users -> Seq(Nat)] /\ \A u \in Users : Now(u) \in Era
  /\ cache \in [Users -> Entry \cup {None}]
  /\ apc \in [Admins -> AdminSteps]
  /\ actx \in [Admins -> AdminCtx \cup {None}]
  /\ \A a \in Admins : apc[a] # "idle" => actx[a] # None
  /\ gpc \in [Guards -> GuardSteps]
  /\ gctx \in [Guards -> GuardCtx \cup {None}]
  /\ \A g \in Guards : gpc[g] # "idle" => gctx[g] # None

Init ==
  /\ roleRows \in SUBSET Roles /\ born = roleRows
  /\ grants \in [Roles -> SUBSET Perms] /\ \A r \in Roles \ roleRows : grants[r] = {}
  /\ roles \in [Users -> SUBSET roleRows]
  /\ hist = [u \in Users |-> <<1>>]
  /\ cache = [u \in Users |-> None]
  /\ apc = [a \in Admins |-> "idle"] /\ actx = [a \in Admins |-> None]
  /\ gpc = [g \in Guards |-> "idle"] /\ gctx = [g \in Guards |-> None]

-----------------------------------------------------------------------------
(* assignRole and unassignRole.                                            *)

AGoto(a, l) == apc' = [apc EXCEPT ![a] = l]
ACtx(a, c) == actx' = [actx EXCEPT ![a] = c]
AEnd(a) == AGoto(a, "idle") /\ ACtx(a, None)

\* The user row is read, and with it the permVersion to be incremented.
ReadUser(a, u, r, op) ==
  /\ apc[a] = "idle"
  /\ r \in roleRows
  /\ ACtx(a, [user |-> u, role |-> r, op |-> op, ver |-> hist[u][Now(u)], todo |-> {}])
  /\ AGoto(a, "read")
  /\ UNCHANGED <<born, roleRows, grants, roles, hist, cache, guardVars>>

\* The user must not have, or must have, the role; otherwise a 400.
CheckRole(a) ==
  LET c == actx[a] IN
  /\ apc[a] = "read"
  /\ \/ /\ c.op = "assign" <=> c.role \notin roles[c.user]
        /\ AGoto(a, "checked") /\ UNCHANGED actx
     \/ /\ c.op = "assign" <=> c.role \in roles[c.user]
        /\ AEnd(a)
  /\ UNCHANGED <<born, roleRows, grants, roles, hist, cache, guardVars>>

\* The transaction: the UserRole row and permVersion = the value read + 1.  An
\* upsert for a role deleted meanwhile violates a foreign key.
Commit(a) ==
  LET c == actx[a] IN
  /\ apc[a] = "checked"
  /\ \/ /\ c.op = "assign" => c.role \in roleRows
        /\ Now(c.user) < MaxEra
        /\ roles' = [roles EXCEPT ![c.user] =
             IF c.op = "assign" THEN @ \cup {c.role} ELSE @ \ {c.role}]
        /\ hist' = [hist EXCEPT ![c.user] = Append(@, c.ver + 1)]
        /\ AGoto(a, "committed") /\ UNCHANGED actx
     \/ /\ c.op = "assign" /\ c.role \notin roleRows
        /\ AEnd(a) /\ UNCHANGED <<roles, hist>>
  /\ UNCHANGED <<born, roleRows, grants, cache, guardVars>>

\* updatePermVersion: only an existing entry is replaced ...
CacheExists(a) ==
  /\ apc[a] = "committed"
  /\ IF cache[actx[a].user] = None THEN AEnd(a) ELSE AGoto(a, "clearing") /\ UNCHANGED actx
  /\ UNCHANGED <<born, roleRows, grants, roles, hist, cache, guardVars>>

\* Mutated CacheClear: the entry gets the new version and keeps its list.
CacheClearVersionOnly(a) ==
  LET c == actx[a] IN
  /\ apc[a] = "clearing"
  /\ cache' = [cache EXCEPT ![c.user].ver = c.ver + 1]
  /\ AEnd(a)
  /\ UNCHANGED <<born, roleRows, grants, roles, hist, guardVars>>

\* ... by an empty list, which the guard takes for a miss.
CacheClear(a) ==
  LET c == actx[a] IN
  /\ apc[a] = "clearing"
  /\ cache' = [cache EXCEPT ![c.user] =
                 [ver |-> c.ver + 1, perms |-> {}, era |-> Now(c.user)]]
  /\ AEnd(a)
  /\ UNCHANGED <<born, roleRows, grants, roles, hist, guardVars>>

-----------------------------------------------------------------------------
(* Role editing.  No user's permVersion and no cache entry is touched.     *)

\* The permission ids of a call that are still to be written, one by one.
Granting(a, r, op, P) ==
  \/ P = {} /\ UNCHANGED <<apc, actx>>
  \/ /\ P # {} /\ AGoto(a, "granting")
     /\ ACtx(a, [user |-> None, role |-> r, op |-> op, ver |-> 0, todo |-> P])

\* update: the old RolePermission rows go first, in one statement.
RoleUpdate(a, r, P) ==
  /\ apc[a] = "idle"
  /\ r \in roleRows
  /\ grants' = [grants EXCEPT ![r] = {}]
  /\ Granting(a, r, "update", P)
  /\ UNCHANGED <<born, roleRows, roles, hist, cache, guardVars>>

\* create: the role comes first.
RoleCreate(a, r, P) ==
  /\ apc[a] = "idle"
  /\ r \notin born
  /\ born' = born \cup {r} /\ roleRows' = roleRows \cup {r}
  /\ Granting(a, r, "create", P)
  /\ UNCHANGED <<grants, roles, hist, cache, guardVars>>

\* One RolePermission row: create of an existing row is an error in update and
\* an upsert in create; a role that is gone ends both.
Grant(a, p) ==
  LET c == actx[a]
      refused == c.role \notin roleRows \/ (c.op = "update" /\ p \in grants[c.role])
  IN
  /\ apc[a] = "granting"
  /\ p \in c.todo
  /\ \/ /\ ~refused
        /\ grants' = [grants EXCEPT ![c.role] = @ \cup {p}]
        /\ IF c.todo = {p} THEN AEnd(a)
           ELSE ACtx(a, [c EXCEPT !.todo = @ \ {p}]) /\ UNCHANGED apc
     \/ refused /\ AEnd(a) /\ UNCHANGED grants
  /\ UNCHANGED <<born, roleRows, roles, hist, cache, guardVars>>

\* Mutated RoleRemove: the deletion does not reach the UserRole rows.
RoleRemoveNoCascade(r) ==
  /\ r \in roleRows
  /\ roleRows' = roleRows \ {r}
  /\ grants' = [grants EXCEPT ![r] = {}]
  /\ UNCHANGED <<born, roles, hist, cache, apc, actx, guardVars>>

\* remove: the foreign keys cascade to RolePermission and UserRole.
RoleRemove(r) ==
  /\ r \in roleRows
  /\ roleRows' = roleRows \ {r}
  /\ grants' = [grants EXCEPT ![r] = {}]
  /\ roles' = [u \in Users |-> roles[u] \ {r}]
  /\ UNCHANGED <<born, hist, cache, apc, actx, guardVars>>

\* A database or Redis error, or the death of the process, between two awaits.
AdminFail(a) ==
  /\ apc[a] # "idle"
  /\ AEnd(a)
  /\ UNCHANGED <<born, roleRows, grants, roles, hist, cache, guardVars>>

-----------------------------------------------------------------------------
(* PermissionProvider.getPermissions on behalf of the guard.  Of a decided *)
(* request only the age of the token and of the list is kept.              *)

GGoto(g, l) == gpc' = [gpc EXCEPT ![g] = l]
GCtx(g, c) == gctx' = [gctx EXCEPT ![g] = c]

Hit(u, e) == cache[u] # None /\ cache[u].ver = hist[u][e] /\ cache[u].perms # {}

\* Mutated GuardHit: any entry of the user is trusted.
GuardHitAnyVersion(g, u, e) ==
  /\ gpc[g] \in {"idle", "decided"}
  /\ e <= Now(u) /\ cache[u] # None /\ cache[u].perms # {}
  /\ GCtx(g, [user |-> u, token |-> e, roles |-> {}, perms |-> {}, era |-> cache[u].era])
  /\ GGoto(g, "decided")
  /\ UNCHANGED <<cache, adminVars>>

\* A request with the token of era e finds a list of the same version.
GuardHit(g, u, e) ==
  /\ gpc[g] \in {"idle", "decided"}
  /\ e <= Now(u) /\ Hit(u, e)
  /\ GCtx(g, [user |-> u, token |-> e, roles |-> {}, perms |-> {}, era |-> cache[u].era])
  /\ GGoto(g, "decided")
  /\ UNCHANGED <<cache, adminVars>>

\* No entry, another version or an empty list: auth-service is asked.
GuardMiss(g, u, e) ==
  /\ gpc[g] \in {"idle", "decided"}
  /\ e <= Now(u) /\ ~Hit(u, e)
  /\ GCtx(g, [user |-> u, token |-> e, roles |-> {}, perms |-> {}, era |-> Now(u)])
  /\ GGoto(g, "miss")
  /\ UNCHANGED <<cache, adminVars>>

\* getPermissionCodesForUser: Prisma reads the UserRole rows ...
FetchRoles(g) ==
  LET c == gctx[g] IN
  /\ gpc[g] = "miss"
  /\ GCtx(g, [c EXCEPT !.roles = roles[c.user], !.era = Now(c.user)])
  /\ GGoto(g, "roles")
  /\ UNCHANGED <<cache, adminVars>>

\* ... and then the permissions of those roles, in a query of its own.
FetchGrants(g) ==
  LET c == gctx[g] IN
  /\ gpc[g] = "roles"
  /\ GCtx(g, [c EXCEPT !.perms = UNION {grants[r] : r \in c.roles}])
  /\ GGoto(g, "fill")
  /\ UNCHANGED <<cache, adminVars>>

\* cache.set under the version of the token, whatever the table now says.
GuardFill(g) ==
  LET c == gctx[g] IN
  /\ gpc[g] = "fill"
  /\ cache' = [cache EXCEPT ![c.user] =
                 [ver |-> hist[c.user][c.token], perms |-> c.perms, era |-> c.era]]
  /\ GCtx(g, [c EXCEPT !.roles = {}, !.perms = {}])
  /\ GGoto(g, "decided")
  /\ UNCHANGED adminVars

\* auth-service or Redis does not answer: the request ends with an error.
GuardFail(g) ==
  /\ gpc[g] \in {"miss", "roles", "fill"}
  /\ GGoto(g, "idle") /\ GCtx(g, None)
  /\ UNCHANGED <<cache, adminVars>>

-----------------------------------------------------------------------------

AdminNext(a) ==
  \/ \E u \in Users, r \in Roles, op \in {"assign", "unassign"} : ReadUser(a, u, r, op)
  \/ CheckRole(a) \/ Commit(a) \/ CacheExists(a) \/ CacheClear(a) \/ AdminFail(a)
  \/ \E r \in Roles, P \in Edits : RoleUpdate(a, r, P) \/ RoleCreate(a, r, P)
  \/ \E p \in Perms : Grant(a, p)

GuardNext(g) ==
  \/ \E u \in Users, e \in Era : GuardHit(g, u, e) \/ GuardMiss(g, u, e)
  \/ FetchRoles(g) \/ FetchGrants(g) \/ GuardFill(g) \/ GuardFail(g)

Next ==
  \/ \E a \in Admins : AdminNext(a)
  \/ \E g \in Guards : GuardNext(g)
  \/ \E r \in Roles : RoleRemove(r)

Spec == Init /\ [][Next]_vars

-----------------------------------------------------------------------------
(* Properties.                                                             *)

Excess(u) == cache[u] # None /\ ~(cache[u].perms \subseteq Current(u))
Pending(u) == \E a \in Admins : apc[a] \in {"committed", "clearing"} /\ actx[a].user = u
StaleFill(u) == \E g \in Guards :
  /\ gpc[g] \in {"roles", "fill"} /\ gctx[g].user = u
  /\ \/ ~(gctx[g].perms \subseteq Current(u))
     \/ ~(UNION {grants[r] : r \in gctx[g].roles} \subseteq Current(u))

\* A decision is never made on permissions read before the change the token was
\* issued after, unless two changes of the user got the same permVersion: an admin
\* read the row before another wrote it, so the version stands still or goes back.
NewTokenSeesChange ==
  \A g \in Guards : gpc[g] = "decided" =>
    LET c == gctx[g]
        v == hist[c.user]
    IN c.era < c.token => \E e \in 1..c.era : v[e] = v[c.token]

\* The cached list comes to exceed the user's rights, with nobody about to
\* clear it, only in three ways: a guard that read before a change fills after
\* it, an admin call dies between its commit and the cache, a role is edited.
ExcessHasCause ==
  [][\A u \in Users :
       /\ Excess(u) => Pending(u)
       /\ ~StaleFill(u)
       /\ UNCHANGED <<grants, roleRows>>
       /\ ~\E a \in Admins : AdminFail(a)
       => (Excess(u) => Pending(u))']_vars
=============================================================================
