------------------------------ MODULE Gateway ------------------------------
(***************************************************************************)
(* A request through the gateway: its guards, the HTTP call to the service *)
(* that owns the route, the guards and the handler there, and the answer   *)
(* with its cookies.  The refresh-token sessions are here as the browser   *)
(* meets them, one row for a device; Sessions has the table itself.        *)
(*                                                                         *)
(* Requests are made in the order of their numbers.  A login or a refresh  *)
(* issues an access token and a refresh token that go by the number of the *)
(* request, and a login a device of that number; what a browser got before *)
(* the start goes by the browser.  No two tokens are signed in the same    *)
(* second with the same claims (Sessions has that case).                   *)
(***************************************************************************)
EXTENDS Routes, Naturals, FiniteSets, Sequences

CONSTANTS
  Browsers,   \* each with an account of its own
  N,          \* number of requests
  Menu,       \* the sequences in which browsers ask for routes
  MaxAged,    \* bound on the tokens that expire
  MaxFaults,  \* bound on the requests that meet a fault
  Nobody,     \* whom a handler acts for that finds no user
  None

VARIABLES
  in,         \* what a request carries
  gw,         \* how far the gateway has got with it
  svc,        \* how far the service has got with it
  reply,      \* the status the service answers with
  told,       \* the status the browser is told
  ran,        \* the user a handler has written for, Nobody, or None before it has
  jar,        \* the tokens and cookies a browser holds
  row,        \* the refresh token in the live row of a device
  age,        \* whether the tokens of a name still verify
  stale,      \* tokens signed with an older permVersion than their user's
  cut,        \* devices a row of which was revoked
  lost,       \* requests whose handler has lost its row to another request
  faults      \* requests that met a fault

vars == <<in, gw, svc, reply, told, ran, jar, row, age, stale, cut, lost, faults>>
tables == <<row, stale, cut, lost>>

Requests == 1..N
Names == Browsers \cup Requests

Steps == {"idle", "called", "admitted", "found", "writing", "changed", "spent", "done", "replied"}
Statuses == {"ok", "unauthorized", "forbidden", "missing", "limited", "refused", "error"}
Request == [by : Browsers, route : Routes, acc : Names \cup {None},
            device : Names \cup {None}, token : Names \cup {None}, heard : SUBSET Requests]
Jar == [acc : Names \cup {None}, device : Names \cup {None}, token : Names \cup {None}]

ASSUME GatewayAssumption ==
  /\ N \in Nat /\ MaxAged \in Nat /\ MaxFaults \in Nat
  /\ Menu \subseteq Seq([by : Browsers, route : Routes])
  /\ None \notin Names /\ None \notin Statuses /\ None # "lost" /\ None \notin Request
  /\ Nobody \notin Names /\ Nobody # None /\ Browsers \cap Requests = {}

TypeOK ==
  /\ in \in [Requests -> Request \cup {None}]
  /\ gw \in [Requests -> {"new", "waiting", "answered"}]
  /\ svc \in [Requests -> Steps]
  /\ reply \in [Requests -> Statuses \cup {None}]
  /\ told \in [Requests -> Statuses \cup {None, "lost"}]
  /\ ran \in [Requests -> Browsers \cup {Nobody, None}]
  /\ jar \in [Browsers -> Jar]
  /\ row \in [Names -> Names \cup {None}]
  /\ age \in [Names -> {"fresh", "expired", "lapsed"}]
  /\ stale \subseteq Names /\ cut \subseteq Names
  /\ lost \subseteq Requests /\ faults \subseteq Requests

\* Every browser has signed in.
Init ==
  /\ in = [r \in Requests |-> None]
  /\ gw = [r \in Requests |-> "new"] /\ svc = [r \in Requests |-> "idle"]
  /\ reply = [r \in Requests |-> None] /\ told = [r \in Requests |-> None]
  /\ ran = [r \in Requests |-> None]
  /\ jar = [b \in Browsers |-> [acc |-> b, device |-> b, token |-> b]]
  /\ row = [d \in Names |-> IF d \in Browsers THEN d ELSE None]
  /\ age = [t \in Names |-> "fresh"]
  /\ stale = {} /\ cut = {} /\ lost = {} /\ faults = {}

-----------------------------------------------------------------------------
(* What the tables say of a request.                                       *)

Area(r) == in[r].route.area
Method(r) == in[r].route.method
Table(r) == Handlers[Area(r)]
Handler(r) == Client[Area(r)].calls[Method(r)]
Is(r, m) == Area(r) = "auth" /\ Method(r) = m
Owner(t) == IF t \in Browsers THEN t ELSE in[t].by

\* getHeaders: the token the service is shown, "user" for the caller's.
Credential(r) ==
  LET client == Client[Area(r)] IN
  IF in[r].acc # None /\ Method(r) \in client.own THEN "user"
  ELSE IF Method(r) \in client.signed THEN "internal" ELSE "none"

\* Mutated Actor: the token in the place of its user.
ActorToken(r) ==
  IF Credential(r) = "user" /\ Handler(r) \in Table(r)[Strategy[Area(r)].userIn]
  THEN in[r].acc ELSE Nobody

\* The user the handler finds in the request; an internal token names none.
Actor(r) ==
  IF Credential(r) = "user" /\ Handler(r) \in Table(r)[Strategy[Area(r)].userIn]
  THEN Owner(in[r].acc) ELSE Nobody

-----------------------------------------------------------------------------
(* The gateway takes a request: JwtAuthGuard, then the rate limiter, then  *)
(* the client service makes its call.                                      *)

\* What may be asked for next, and by which request.
Offered(r) == {s[r] : s \in {s \in Menu : r <= Len(s) /\
  \A q \in 1..(r - 1) : in[q].by = s[q].by /\ in[q].route = s[q].route}}
IsNext(r) == gw[r] = "new" /\ \A q \in Requests : q < r => gw[q] # "new"

\* The frontend sends its access token or not; it is left out where neither the
\* gateway's guard nor its client service looks at it.
Carried(b, route) ==
  IF route.method \in Controller[route.area].guarded \cup Client[route.area].own
  THEN {jar[b].acc, None} ELSE {None}

\* The cookies are always sent.
Ask(r, b, route, t) ==
  in' = [in EXCEPT ![r] =
    [by |-> b, route |-> route, acc |-> t, device |-> jar[b].device,
     token |-> jar[b].token,
     heard |-> {q \in Requests : told[q] = "ok" /\ in[q].by = b}]]

\* UserJwtStrategy on the token the request carries.
Verified(t) == t # None /\ age[t] = "fresh"

\* JwtAuthGuard.
Passes(route, t) == route.method \in Controller[route.area].open \/ Verified(t)

Answer(r, status) ==
  /\ gw' = [gw EXCEPT ![r] = "answered"] /\ told' = [told EXCEPT ![r] = status]

Reject(r, b, route, t) ==
  /\ Ask(r, b, route, t) /\ ~Passes(route, t)
  /\ Answer(r, "unauthorized")
  /\ UNCHANGED <<svc, reply, ran, jar, age, faults, tables>>

Limit(r, b, route, t) ==
  /\ Ask(r, b, route, t) /\ Passes(route, t)
  /\ route.method \in Controller[route.area].limited
  /\ Answer(r, "limited")
  /\ UNCHANGED <<svc, reply, ran, jar, age, faults, tables>>

Forward(r, b, route, t) ==
  /\ Ask(r, b, route, t) /\ Passes(route, t)
  /\ gw' = [gw EXCEPT ![r] = "waiting"] /\ svc' = [svc EXCEPT ![r] = "called"]
  /\ UNCHANGED <<reply, told, ran, jar, age, faults, tables>>

-----------------------------------------------------------------------------
(* The service: its guards, then its handler.  It works on whether or not  *)
(* the gateway still waits.                                                *)

At(r, step) == svc[r] = step
Goto(r, step) == svc' = [svc EXCEPT ![r] = step]
Reply(r, status) == reply' = [reply EXCEPT ![r] = status] /\ Goto(r, "replied")
Ran(r) == ran' = [ran EXCEPT ![r] = Actor(r)]

Open(r) == Handler(r) \in Table(r).open

\* CombinedJwtAuthGuard: an internal token lives longer than any call.
Authorized(r) ==
  \/ Open(r) \/ Credential(r) = "internal"
  \/ Credential(r) = "user" /\ age[in[r].acc] = "fresh"

\* TokenTypeGuard: @InternalOnly() wants an internal token.
TokenType(r) ==
  IF Credential(r) = "user" THEN Strategy[Area(r)].type ELSE "internal"
Trusted(r) == Handler(r) \in Table(r).internal => TokenType(r) = "internal"

\* PermissionGuard: what the caller may do is not modelled here.
MayLack(r) == Credential(r) = "user" /\ Handler(r) \in Table(r).needs

Send(r, status) ==
  /\ Reply(r, status)
  /\ UNCHANGED <<in, gw, told, ran, jar, age, faults, tables>>

Turn(r) ==
  /\ At(r, "called")
  /\ \/ Handler(r) \notin Table(r).all /\ Send(r, "missing")
     \/ /\ Handler(r) \in Table(r).all
        /\ \/ ~Authorized(r) /\ Send(r, "unauthorized")
           \/ Authorized(r) /\ Handler(r) \in Table(r).limited /\ Send(r, "limited")
           \/ Authorized(r) /\ (MayLack(r) \/ ~Trusted(r)) /\ Send(r, "forbidden")

Admit(r) ==
  /\ At(r, "called")
  /\ Handler(r) \in Table(r).all /\ Authorized(r) /\ Trusted(r)
  /\ Goto(r, "admitted")
  /\ UNCHANGED <<in, gw, reply, told, ran, jar, age, faults, tables>>

\* Routes that change neither sessions nor permissions.
Special == {"login", "refresh", "logoutDevice", "logoutAll", "forgotPasswordReset"}
Plain(r) == ~(Area(r) = "auth" /\ Method(r) \in Special)
            /\ ~(Area(r) = "roles" /\ Method(r) \in {"assignRole", "unassignRole"})

\* A handler has written what it writes, or a part of it.
Work(r) == Ran(r) /\ Goto(r, "done")

\* roles.update reads its role again at the end: one that is removed first is
\* missing then.
Updates(q) == Area(q) = "roles" /\ Method(q) = "update"
Removes(r) == Area(r) = "roles" /\ Method(r) = "remove"

Run(r) ==
  /\ At(r, "admitted") /\ Plain(r)
  /\ Work(r)
  /\ \E S \in SUBSET {q \in Requests : Removes(r) /\ At(q, "done") /\ Updates(q)} :
       lost' = lost \cup S
  /\ UNCHANGED <<in, gw, reply, told, jar, age, faults, row, stale, cut>>

\* A handler finds something against it: a wrong password, a missing row, found
\* out by its check or by the statement that was to write it.
Object(r) ==
  /\ At(r, "admitted") /\ ~Is(r, "refresh")
  /\ Send(r, "refused") \/ Send(r, "error")

Return(r) == At(r, "done") /\ r \notin lost /\ Send(r, "ok")
UpdateLost(r) ==
  /\ At(r, "done") /\ r \in lost
  /\ Send(r, "missing") \/ Send(r, "error")

\* The tokens signed for a user: a login or a refresh knows the claims from its
\* first read on.
Signed(u) == {u} \cup {q \in Requests :
  /\ svc[q] \in {"found", "writing", "done", "replied"} /\ in[q].by = u
  /\ Is(q, "login") \/ Is(q, "refresh")}

\* assignRole, unassignRole: the permVersion of the user of the body.
RoleChange(r, u) ==
  /\ At(r, "admitted") /\ Area(r) = "roles" /\ ~Plain(r)
  /\ stale' = stale \cup Signed(u)
  /\ Work(r)
  /\ UNCHANGED <<in, gw, reply, told, jar, age, faults, row, cut, lost>>

-----------------------------------------------------------------------------
(* The handlers of the sessions.                                           *)

\* The password is right and the user row read.
LoginFind(r) ==
  /\ At(r, "admitted") /\ Is(r, "login")
  /\ Goto(r, "found")
  /\ UNCHANGED <<in, gw, reply, told, ran, jar, age, faults, tables>>

Save(r, d) ==
  /\ row' = [row EXCEPT ![d] = r]
  /\ Work(r)
  /\ UNCHANGED <<in, gw, reply, told, jar, age, faults, stale, cut, lost>>

LoginSave(r) == At(r, "found") /\ Is(r, "login") /\ Save(r, r)

\* Mutated Refreshable: the row is not compared with the cookie.
RefreshableUnseen(r) ==
  LET t == in[r].token IN t # None /\ age[t] # "lapsed" /\ t \notin stale

\* findByRefreshToken, behind the verification of the cookie.
Refreshable(r) ==
  LET t == in[r].token IN
  t # None /\ age[t] # "lapsed" /\ t \notin stale /\ row[in[r].device] = t

RefreshFind(r) ==
  /\ At(r, "admitted") /\ Is(r, "refresh") /\ Refreshable(r)
  /\ Goto(r, "found")
  /\ UNCHANGED <<in, gw, reply, told, ran, jar, age, faults, tables>>

\* saveRefreshToken looks the row up again: one with another token refuses.
RefreshLookup(r) ==
  /\ At(r, "found") /\ Is(r, "refresh")
  /\ row[in[r].device] \in {in[r].token, None}
  /\ Goto(r, "writing")
  /\ UNCHANGED <<in, gw, reply, told, ran, jar, age, faults, tables>>

RefreshRefused(r) ==
  /\ \/ At(r, "admitted") /\ Is(r, "refresh") /\ ~Refreshable(r)
     \/ At(r, "found") /\ Is(r, "refresh") /\ row[in[r].device] \notin {in[r].token, None}
  /\ Send(r, "unauthorized")

RefreshSave(r) == At(r, "writing") /\ Save(r, in[r].device)

Revoke(D) ==
  /\ row' = [d \in Names |-> IF d \in D THEN None ELSE row[d]]
  /\ cut' = cut \cup D

\* Success, whether or not the cookies name a live row.
LogoutDevice(r) ==
  /\ At(r, "admitted") /\ Is(r, "logoutDevice")
  /\ Revoke({d \in Names : d = in[r].device /\ row[d] # None /\ row[d] = in[r].token})
  /\ Work(r)
  /\ UNCHANGED <<in, gw, reply, told, jar, age, faults, stale, lost>>

\* The condition on the user is lost: every live row is revoked.
LogoutAll(r) ==
  /\ At(r, "admitted") /\ Is(r, "logoutAll")
  /\ Revoke({d \in Names : row[d] # None})
  /\ Work(r)
  /\ UNCHANGED <<in, gw, reply, told, jar, age, faults, stale, lost>>

\* A verified code of the browser's user is found.
ResetFind(r) ==
  /\ At(r, "admitted") /\ Is(r, "forgotPasswordReset")
  /\ Goto(r, "found")
  /\ UNCHANGED <<in, gw, reply, told, ran, jar, age, faults, tables>>

ResetChange(r) ==
  /\ At(r, "found") /\ Is(r, "forgotPasswordReset")
  /\ Ran(r) /\ Goto(r, "changed")
  /\ UNCHANGED <<in, gw, reply, told, jar, age, faults, tables>>

\* The row of the code is deleted, perhaps the one that other resets have found.
Resetting(q, u) ==
  svc[q] \in {"found", "changed"} /\ Is(q, "forgotPasswordReset") /\ in[q].by = u
ResetSpend(r) ==
  /\ At(r, "changed") /\ r \notin lost
  /\ Goto(r, "spent")
  /\ \E S \in SUBSET {q \in Requests \ {r} : Resetting(q, in[r].by)} : lost' = lost \cup S
  /\ UNCHANGED <<in, gw, reply, told, ran, jar, age, faults, row, stale, cut>>

\* It is gone already: a 400, and the password is changed.
ResetLost(r) == At(r, "changed") /\ r \in lost /\ Send(r, "refused")

ResetRevoke(r) ==
  /\ At(r, "spent")
  /\ Revoke({d \in Names : row[d] # None /\ Owner(d) = in[r].by})
  /\ Goto(r, "done")
  /\ UNCHANGED <<in, gw, reply, told, ran, jar, age, faults, stale, lost>>

-----------------------------------------------------------------------------
(* The answer.                                                             *)

\* Mutated Told: the status is not looked at, as in the notification client.
ToldUnchecked(r) == "ok"

\* handleAxiosError keeps the status of the service.
Told(r) == IF Method(r) \in Client[Area(r)].unchecked THEN "ok" ELSE reply[r]

\* Mutated JarAfter: a refresh does not send the new cookies on.
JarAfterLogin(r, j) ==
  IF Told(r) # "ok" THEN j
  ELSE CASE Is(r, "login") -> [acc |-> r, device |-> r, token |-> r]
         [] Is(r, "refresh") -> [j EXCEPT !.acc = r]
         [] Is(r, "logoutDevice") \/ Is(r, "logoutAll") ->
              [j EXCEPT !.device = None, !.token = None]
         [] OTHER -> j

\* forwardSetCookie and clearCookie, both only after a success: the cookies
\* that a refused refresh clears are not sent on.
JarAfter(r, j) ==
  IF Told(r) # "ok" THEN j
  ELSE CASE Is(r, "login") -> [acc |-> r, device |-> r, token |-> r]
         [] Is(r, "refresh") -> [acc |-> r, device |-> in[r].device, token |-> r]
         [] Is(r, "logoutDevice") \/ Is(r, "logoutAll") ->
              [j EXCEPT !.device = None, !.token = None]
         [] OTHER -> j

Relay(r) ==
  /\ gw[r] = "waiting" /\ At(r, "replied")
  /\ Answer(r, Told(r))
  /\ jar' = [jar EXCEPT ![in[r].by] = JarAfter(r, @)]
  /\ UNCHANGED <<in, svc, reply, ran, age, faults, tables>>

-----------------------------------------------------------------------------
(* Faults and the passing of time.                                         *)

Fault(r) ==
  /\ Cardinality(faults \cup {r}) <= MaxFaults
  /\ faults' = faults \cup {r}

\* The ten seconds of the axios client are over.
Timeout(r) ==
  /\ gw[r] = "waiting" /\ Fault(r)
  /\ Answer(r, "error")
  /\ UNCHANGED <<in, svc, reply, ran, jar, age, tables>>

\* The connection is refused: the call never reaches the service.
Unreachable(r) ==
  /\ gw[r] = "waiting" /\ At(r, "called") /\ Fault(r)
  /\ Answer(r, "error") /\ Goto(r, "idle")
  /\ UNCHANGED <<in, reply, ran, jar, age, tables>>

\* The answer does not reach the browser.
Vanish(r) ==
  /\ gw[r] = "waiting" /\ At(r, "replied") /\ Fault(r)
  /\ Answer(r, "lost")
  /\ UNCHANGED <<in, svc, reply, ran, jar, age, tables>>

\* A statement fails, before or after the handler has written something, or the
\* process stops.  The exception filter makes a 500 of it, or the handler's own
\* catch what it answers any error with.
Failure(r) == Caught(Area(r), Handler(r))
Fail(r) ==
  /\ svc[r] \notin {"idle", "replied"} /\ Fault(r)
  /\ Reply(r, "error") \/ (~At(r, "called") /\ Reply(r, Failure(r)))
  /\ UNCHANGED <<in, gw, told, ran, jar, age, tables>>

Issued == Browsers \cup
  {q \in Requests : ran[q] # None /\ (Is(q, "login") \/ Is(q, "refresh"))}
Age(t) ==
  /\ t \in Issued /\ age[t] # "lapsed"
  /\ Cardinality({x \in Names : x = t \/ age[x] # "fresh"}) <= MaxAged
  /\ age' = [age EXCEPT ![t] = IF @ = "fresh" THEN "expired" ELSE "lapsed"]
  /\ UNCHANGED <<in, gw, svc, reply, told, ran, jar, faults, tables>>

Handle(r) ==
  \/ Turn(r) \/ Admit(r) \/ Run(r) \/ Object(r) \/ Return(r) \/ UpdateLost(r)
  \/ LoginFind(r) \/ LoginSave(r)
  \/ RefreshFind(r) \/ RefreshLookup(r) \/ RefreshRefused(r) \/ RefreshSave(r)
  \/ LogoutDevice(r) \/ LogoutAll(r)
  \/ ResetFind(r) \/ ResetChange(r) \/ ResetSpend(r) \/ ResetLost(r) \/ ResetRevoke(r)
  \/ \E u \in Browsers : RoleChange(r, u)
  \/ Fail(r)

Take(r, b, route) == \E t \in Carried(b, route) :
  Reject(r, b, route, t) \/ Limit(r, b, route, t) \/ Forward(r, b, route, t)

Next ==
  \/ \E r \in Requests : IsNext(r) /\
       \E s \in Offered(r) : Take(r, s.by, s.route)
  \/ \E r \in Requests : Handle(r)
  \/ \E r \in Requests : Relay(r) \/ Timeout(r) \/ Unreachable(r) \/ Vanish(r)
  \/ \E t \in Names : Age(t)

Spec == Init /\ [][Next]_vars

-----------------------------------------------------------------------------
(* Properties.                                                             *)

\* A browser told of success knows that the handler did its work, unless the
\* answer came through the notification client, which reports success whatever
\* the status, or a statement failed in the one handler that hides it
\* (forgotPassword).  One told of a refusal knows that the handler wrote nothing
\* and will not, in spite of a service that works on after the gateway gave up,
\* unless a statement failed in a handler that answers any error with a 4xx, or
\* another request took away the row it was about to end with (two resets with
\* one code, a role removed under its update).  A 5xx leaves it open.
AnswersTrue == \A r \in Requests :
  /\ told[r] = "ok" =>
       \/ ran[r] # None \/ Method(r) \in Client[Area(r)].unchecked
       \/ r \in faults /\ Failure(r) = "ok"
  /\ told[r] \in Statuses \ {"ok", "error"} =>
       ran[r] = None \/ r \in lost \/ (r \in faults /\ Failure(r) \notin {"ok", "error"})

\* A handler that acts for a user runs only for the user whose token the request
\* carried, never for nobody and never under the gateway's own token: the open
\* routes of the gateway, the tokens its clients send on, and the place where a
\* service's strategy puts the user and the handler looks for it, fit together.
\* (logoutDevice and logoutAll look where no strategy puts it.)
ActsForCaller == \A r \in Requests :
  /\ ran[r] \in Browsers => ran[r] = in[r].by
  /\ ran[r] = Nobody =>
       Handler(r) \notin Table(r).user \cup Table(r).data

\* A browser that refreshes with the cookies it was last given is refused only if
\* they have lapsed, their session was revoked, a role of the user changed since
\* they were signed, a statement failed, or the session was rotated by a refresh
\* whose answer had not reached the browser when it sent this one or another.
Refreshes(r, d) == in[r] # None /\ Is(r, "refresh") /\ in[r].device = d
Rotated(r) == \E p, q \in Requests :
  /\ p < q /\ Refreshes(p, in[r].device) /\ Refreshes(q, in[r].device)
  /\ p \notin in[q].heard
  /\ ran[p] # None \/ (p = r /\ ran[q] # None)
HasCause(r) ==
  \/ in[r].token = None \/ age[in[r].token] = "lapsed" \/ in[r].token \in stale
  \/ in[r].device \in cut \/ r \in faults' \/ Rotated(r)
SignedOutHasCause ==
  [][\A r \in Requests :
       reply[r] = None /\ reply'[r] = "unauthorized" /\ Is(r, "refresh") => HasCause(r)]_vars

\* The sessions are SignIns again, here through the gateway: what can act for a
\* user is a live row, in the name of whoever sent the request that wrote it, or
\* a refresh that has found one.  So a session goes on only for the browser that
\* signed in on its device, whatever cookies wait in the jars and on the way.
\* (The browsers have signed in before the start; passwords are not kept.)
GivenOut == Browsers \cup
  {r \in Requests : in[r] # None /\ Is(r, "login") /\ ran[r] # None}
InUse ==
  {<<d, Owner(row[d]), 0>> : d \in {e \in Names : row[e] # None}}
    \cup {<<in[r].device, in[r].by, 0>> :
            r \in {q \in Requests : svc[q] \in {"found", "writing"} /\ Is(q, "refresh")}}
Abs == INSTANCE SignIns WITH Users <- Browsers, Devices <- Names, given <- GivenOut,
       inUse <- InUse, pwd <- [b \in Browsers |-> 0]
SessionsAreSignIns == [][Abs!Next]_(Abs!vars)
=============================================================================
