------------------------------ MODULE Sessions ------------------------------
(***************************************************************************)
(* Refresh-token sessions of auth-service: the RefreshToken table and the  *)
(* handlers that write it (AuthService.login, refresh, logoutDevice,       *)
(* logoutAll, forgotPasswordReset, all through UsersService).  Every       *)
(* handler is cut at its database awaits: what one of them reads may be    *)
(* stale when it writes.                                                   *)
(*                                                                         *)
(* A request is used once.  A row of the table is named by the request     *)
(* that created it and a deviceId by the login that minted it (randomUUID),*)
(* so both are members of Requests.                                        *)
(***************************************************************************)
EXTENDS Naturals

CONSTANTS
  Users,      \* active accounts
  Requests,   \* HTTP requests; also the names of table rows and of devices
  TTL,        \* lifetime of a refresh token, in clock ticks
  MaxClock,   \* bound on the clock (seconds, the precision of a JWT's iat)
  MaxPerm,    \* bound on User.permVersion
  MaxPwd,     \* bound on password changes of one user
  None        \* null / undefined

VARIABLES
  clock,      \* now, in seconds
  perm,       \* User.permVersion
  pwd,        \* generation of User.passwordHash, counts the resets
  rows,       \* the RefreshToken table
  sent,       \* cookie pairs (deviceId, refreshToken) some answer has carried
  pc,         \* how far a request has got
  ctx         \* what the handler of a request holds in its local variables

vars == <<clock, perm, pwd, rows, sent, pc, ctx>>

\* The JWT is a function of its claims: two signed in the same second with the
\* same permVersion are the same string.
Token  == [user : Users, perm : Nat, iat : Nat]
Row    == [user : Users, device : Requests, token : Token,
           revoked : BOOLEAN, pwd : Nat]
Cookie == [device : Requests, token : Token]
Ctx    == [user : Users \cup {None}, device : Requests \cup {None},
           old : Token \cup {None}, new : Token \cup {None},
           row : Requests \cup {None}, pwd : Nat]

ASSUME SessionsAssumption ==
  /\ TTL \in Nat /\ MaxClock \in Nat /\ MaxPerm \in Nat /\ MaxPwd \in Nat
  /\ None \notin Users /\ None \notin Requests
  /\ None \notin Token /\ None \notin Row

NoCtx == [user |-> None, device |-> None, old |-> None, new |-> None,
          row |-> None, pwd |-> 0]

Steps == {"idle", "login", "found", "update", "create", "revoking", "cutting",
          "loggedOut", "done", "refused", "failed"}

\* A handler that may still write a session for its device.
Issuing == {"login", "found", "update", "create"}

TypeOK ==
  /\ clock \in Nat
  /\ perm \in [Users -> Nat]
  /\ pwd \in [Users -> Nat]
  /\ rows \in [Requests -> Row \cup {None}]
  /\ sent \subseteq Cookie
  /\ pc \in [Requests -> Steps]
  /\ ctx \in [Requests -> Ctx]

Init ==
  /\ clock = 0
  /\ perm = [u \in Users |-> 1]
  /\ pwd = [u \in Users |-> 0]
  /\ rows = [q \in Requests |-> None]
  /\ sent = {}
  /\ pc = [r \in Requests |-> "idle"]
  /\ ctx = [r \in Requests |-> NoCtx]

-----------------------------------------------------------------------------
(* Queries on the table.  findFirst has no orderBy: any matching row.      *)

Exists(q) == rows[q] # None
Live(q) == Exists(q) /\ ~rows[q].revoked
Unexpired(t) == clock < t.iat + TTL

\* Mutated LiveRows: the second lookup also asks for expiresAt > now.
LiveRowsUnexpired(u, d) == {q \in Requests : /\ Live(q) /\ Unexpired(rows[q].token)
                                             /\ rows[q].user = u /\ rows[q].device = d}

LiveRows(u, d) == {q \in Requests : Live(q) /\ rows[q].user = u /\ rows[q].device = d}

\* Mutated Refreshable: revokedAt is not looked at.
RefreshableRevoked(t, d) ==
  {q \in Requests : /\ Exists(q) /\ rows[q].user = t.user /\ rows[q].device = d
                    /\ Unexpired(rows[q].token) /\ perm[t.user] = t.perm}

\* findByRefreshToken: live, unexpired rows of the device, and only while the
\* user's permVersion is the one in the token.
Refreshable(t, d) ==
  {q \in LiveRows(t.user, d) : Unexpired(rows[q].token) /\ perm[t.user] = t.perm}

Goto(r, l) == pc' = [pc EXCEPT ![r] = l]
Hold(r, c) == ctx' = [ctx EXCEPT ![r] = c]
Revoke(Q) == rows' = [q \in Requests |->
  IF q \in Q THEN [rows[q] EXCEPT !.revoked = TRUE] ELSE rows[q]]
Sign(u, v) == [user |-> u, perm |-> v, iat |-> clock]
Answer(d, t) == sent' = sent \cup {[device |-> d, token |-> t]}

-----------------------------------------------------------------------------
(* login: credentials and the user row are read and the token signed, then *)
(* a row is created for the new device.                                    *)

\* Mutated LoginBegin: the deviceId is not generated.
LoginBeginNoDevice(r, u) ==
  /\ pc[r] = "idle"
  /\ Hold(r, [NoCtx EXCEPT !.user = u, !.pwd = pwd[u], !.new = Sign(u, perm[u])])
  /\ Goto(r, "login")
  /\ UNCHANGED <<clock, perm, pwd, rows, sent>>

LoginBegin(r, u) ==
  /\ pc[r] = "idle"
  /\ Hold(r, [NoCtx EXCEPT !.user = u, !.device = r, !.pwd = pwd[u],
                           !.new = Sign(u, perm[u])])
  /\ Goto(r, "login")
  /\ UNCHANGED <<clock, perm, pwd, rows, sent>>

\* Mutated CreateRow: a refresh keeps the token it was shown.
CreateRowOld(r) ==
  LET c == ctx[r]
      t == IF c.old # None THEN c.old ELSE c.new IN
  /\ rows' = [rows EXCEPT ![r] = [user |-> c.user, device |-> c.device,
                token |-> t, revoked |-> FALSE, pwd |-> c.pwd]]
  /\ Answer(c.device, t)
  /\ Goto(r, "done")
  /\ UNCHANGED <<clock, perm, pwd, ctx>>

\* saveRefreshToken's create branch, with the cookies of the answer.
CreateRow(r) ==
  LET c == ctx[r] IN
  /\ rows' = [rows EXCEPT ![r] = [user |-> c.user, device |-> c.device,
                token |-> c.new, revoked |-> FALSE, pwd |-> c.pwd]]
  /\ Answer(c.device, c.new)
  /\ Goto(r, "done")
  /\ UNCHANGED <<clock, perm, pwd, ctx>>

LoginSave(r) == pc[r] = "login" /\ CreateRow(r)

-----------------------------------------------------------------------------
(* refresh: findByRefreshToken, then saveRefreshToken looks the row up a   *)
(* second time, then updates it by id or creates one.                      *)

\* The JWT in the cookie verifies, findFirst returned q, and q holds its hash.
RefreshFind(r) == \E s \in sent, q \in Requests :
  /\ pc[r] = "idle"
  /\ Unexpired(s.token)
  /\ q \in Refreshable(s.token, s.device)
  /\ rows[q].token = s.token
  /\ Hold(r, [NoCtx EXCEPT !.user = s.token.user, !.device = s.device,
                           !.old = s.token, !.pwd = rows[q].pwd])
  /\ Goto(r, "found")
  /\ UNCHANGED <<clock, perm, pwd, rows, sent>>

\* 401 and cleared cookies: expired JWT, no row, or a row with another hash.
RefreshRefused(r) == \E s \in sent :
  /\ pc[r] = "idle"
  /\ \/ ~Unexpired(s.token)
     \/ Refreshable(s.token, s.device) = {}
     \/ \E q \in Refreshable(s.token, s.device) : rows[q].token # s.token
  /\ Hold(r, [NoCtx EXCEPT !.user = s.token.user, !.device = s.device,
                           !.old = s.token])
  /\ Goto(r, "refused")
  /\ UNCHANGED <<clock, perm, pwd, rows, sent>>

\* issueTokens signs with the permVersion read by RefreshFind; the second
\* findFirst looks at neither expiry nor permVersion.
RefreshLookup(r) ==
  /\ pc[r] = "found"
  /\ LET c  == ctx[r]
         Q  == LiveRows(c.user, c.device)
         c2 == [c EXCEPT !.new = Sign(c.user, c.old.perm)]
     IN \/ /\ Q = {}
           /\ Hold(r, c2) /\ Goto(r, "create")
        \/ \E q \in Q :
             IF rows[q].token = c.old
             THEN Hold(r, [c2 EXCEPT !.row = q]) /\ Goto(r, "update")
             ELSE Goto(r, "refused") /\ UNCHANGED ctx
  /\ UNCHANGED <<clock, perm, pwd, rows, sent>>

\* Mutated RefreshUpdate: an upsert that also clears revokedAt.
RefreshUpdateRevives(r) ==
  /\ pc[r] = "update"
  /\ rows' = [rows EXCEPT ![ctx[r].row].token = ctx[r].new,
                          ![ctx[r].row].revoked = FALSE]
  /\ Answer(ctx[r].device, ctx[r].new)
  /\ Goto(r, "done")
  /\ UNCHANGED <<clock, perm, pwd, ctx>>

\* update({where: {id}}): whatever has happened to the row since.
RefreshUpdate(r) ==
  /\ pc[r] = "update"
  /\ rows' = [rows EXCEPT ![ctx[r].row].token = ctx[r].new]
  /\ Answer(ctx[r].device, ctx[r].new)
  /\ Goto(r, "done")
  /\ UNCHANGED <<clock, perm, pwd, ctx>>

RefreshCreate(r) == pc[r] = "create" /\ CreateRow(r)

-----------------------------------------------------------------------------
(* logoutDevice and logoutAll take the user from @User(): the validated    *)
(* token has no `id`, so `user.id` is undefined and Prisma drops the       *)
(* condition.                                                              *)

LogoutDeviceFind(r) == \E s \in sent, q \in Requests :
  /\ pc[r] = "idle"
  /\ Live(q) /\ rows[q].device = s.device /\ rows[q].token = s.token
  /\ Hold(r, [NoCtx EXCEPT !.user = s.token.user, !.device = s.device, !.row = q])
  /\ Goto(r, "revoking")
  /\ UNCHANGED <<clock, perm, pwd, rows, sent>>

LogoutDeviceRevoke(r) ==
  /\ pc[r] = "revoking"
  /\ Revoke({ctx[r].row})
  /\ Goto(r, "loggedOut")
  /\ UNCHANGED <<clock, perm, pwd, sent, ctx>>

LogoutAll(r, u) ==
  /\ pc[r] = "idle"
  /\ \E s \in sent : s.token.user = u
  /\ Revoke({q \in Requests : Live(q)})
  /\ Hold(r, [NoCtx EXCEPT !.user = u])
  /\ Goto(r, "loggedOut")
  /\ UNCHANGED <<clock, perm, pwd, sent>>

-----------------------------------------------------------------------------
(* forgotPasswordReset: the new hash is stored, then, in a second          *)
(* statement, the sessions of that user are revoked.                       *)

ResetPassword(r, u) ==
  /\ pc[r] = "idle"
  /\ pwd[u] < MaxPwd
  /\ pwd' = [pwd EXCEPT ![u] = @ + 1]
  /\ Hold(r, [NoCtx EXCEPT !.user = u, !.pwd = pwd[u] + 1])
  /\ Goto(r, "cutting")
  /\ UNCHANGED <<clock, perm, rows, sent>>

ResetRevoke(r) ==
  /\ pc[r] = "cutting"
  /\ Revoke({q \in Requests : Live(q) /\ rows[q].user = ctx[r].user})
  /\ Goto(r, "loggedOut")
  /\ UNCHANGED <<clock, perm, pwd, sent, ctx>>

-----------------------------------------------------------------------------
(* Environment of the handlers.                                            *)

\* A database error or the death of the process between two statements.
Fail(r) ==
  /\ pc[r] \in Issuing \cup {"revoking", "cutting"}
  /\ Goto(r, "failed")
  /\ UNCHANGED <<clock, perm, pwd, rows, sent, ctx>>

\* RolesService.assignRole / unassignRole committed.
RoleChange(u) ==
  /\ perm[u] < MaxPerm
  /\ perm' = [perm EXCEPT ![u] = @ + 1]
  /\ UNCHANGED <<clock, pwd, rows, sent, pc, ctx>>

Tick ==
  /\ clock < MaxClock
  /\ clock' = clock + 1
  /\ UNCHANGED <<perm, pwd, rows, sent, pc, ctx>>

Handle(r) ==
  \/ LoginSave(r)
  \/ RefreshFind(r) \/ RefreshRefused(r) \/ RefreshLookup(r)
  \/ RefreshUpdate(r) \/ RefreshCreate(r)
  \/ LogoutDeviceFind(r) \/ LogoutDeviceRevoke(r)
  \/ ResetRevoke(r)
  \/ Fail(r)

HandleFor(r, u) == LoginBegin(r, u) \/ LogoutAll(r, u) \/ ResetPassword(r, u)

Next ==
  \/ \E r \in Requests : Handle(r)
  \/ \E r \in Requests, u \in Users : HandleFor(r, u)
  \/ \E u \in Users : RoleChange(u)
  \/ Tick

Spec == Init /\ [][Next]_vars

-----------------------------------------------------------------------------
(* Properties.                                                             *)

LiveOn(d) == \E q \in Requests : Live(q) /\ rows[q].device = d
IssuingOn(d) == \E r \in Requests : pc[r] \in Issuing /\ ctx[r].device = d

\* Revocation is final for a row: a refresh that read the row before a logout
\* may still write its token, but never makes the row live again
\* (saveRefreshToken's update leaves revokedAt alone).
RevokedForGood ==
  [][\A q \in Requests : Exists(q) /\ rows[q].revoked
       => rows'[q] # None /\ rows'[q].revoked]_rows

\* A device has two live rows only if a row of it was revoked: the create branch
\* of saveRefreshToken is reached by a refresh only when a logout or a reset
\* came between its two lookups, never because a row merely expired.
TwoLiveOnlyAfterRevoke ==
  \A p, q \in Requests :
    /\ p # q /\ Live(p) /\ Live(q) /\ rows[p].device = rows[q].device
    => \E x \in Requests : /\ Exists(x) /\ rows[x].revoked
                           /\ rows[x].device = rows[p].device

\* Once a device has no live row and no handler still working for it, no old
\* cookie brings its session back: only a refresh already past its first lookup
\* when the logout committed can do that.
Dead(d) == pc[d] # "idle" /\ ~LiveOn(d) /\ ~IssuingOn(d)
DeadDeviceStaysDead == [][\A d \in Requests : Dead(d) => Dead(d)']_vars

\* Once no live session and no handler holds an authentication made with a
\* password of user u older than generation p, none ever does: after a reset
\* has revoked the sessions, the old password is useless unless a login or a
\* refresh was already under way.
OldPasswordGone(u, p) ==
  /\ p <= pwd[u]
  /\ \A q \in Requests : Live(q) /\ rows[q].user = u => rows[q].pwd >= p
  /\ \A r \in Requests : pc[r] \in Issuing /\ ctx[r].user = u => ctx[r].pwd >= p
OldPasswordStaysGone ==
  [][\A u \in Users, p \in 1..MaxPwd :
       OldPasswordGone(u, p) => OldPasswordGone(u, p)']_vars

\* A rotated token does not come back: once a token of a past second is held by
\* no row of the device and no refresh is about to write it, no row of that
\* device ever holds it again, whatever refreshes race there.
Holds(d, t) ==
  \/ \E q \in Requests : Exists(q) /\ rows[q].device = d /\ rows[q].token = t
  \/ \E r \in Requests : pc[r] \in Issuing /\ ctx[r].device = d /\ ctx[r].new = t
RotatedTokenStaysOut ==
  [][\A s \in sent : s.token.iat < clock /\ ~Holds(s.device, s.token)
       => ~Holds(s.device, s.token)']_vars

\* The sessions implement SignIns: a device was given out by its login, and what
\* can act for a user on it is a live row of it or a handler that may still
\* write one.  So the rows that refreshes write, whatever logouts and resets
\* come between their lookups, are of the sign-in they started from.
InUse ==
  {<<rows[q].device, rows[q].user, rows[q].pwd>> : q \in {p \in Requests : Live(p)}}
    \cup {<<ctx[r].device, ctx[r].user, ctx[r].pwd>> :
            r \in {x \in Requests : pc[x] \in Issuing}}
Given == {d \in Requests : ctx[d].device = d}
S == INSTANCE SignIns WITH Devices <- Requests, given <- Given, inUse <- InUse
ImplementsSignIns == S!Spec

(* What the documents say and the code does not do.                        *)

\* SECURITY.md: logout-all revokes the sessions of the user who asks.
LogoutAllOnlyOwn ==
  [][\A r \in Requests, u \in Users : LogoutAll(r, u) =>
       \A q \in Requests : Exists(q) /\ rows[q].user # u => rows'[q] = rows[q]]_vars
=============================================================================
