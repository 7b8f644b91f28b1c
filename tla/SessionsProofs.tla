--------------------------- MODULE SessionsProofs ---------------------------
(***************************************************************************)
(* Proofs about Sessions, for every set of users and requests and every    *)
(* bound: type correctness, that revocation is final, that two live rows   *)
(* of a device need a revocation, that a dead device stays dead, that old  *)
(* passwords and rotated tokens do not return, and that the sessions       *)
(* implement SignIns.                                                      *)
(***************************************************************************)
EXTENDS Sessions, TLAPS

(***************************************************************************)
(* What the handlers know about the table at each await.                   *)
(***************************************************************************)

\* A row exists from the answer of the request it is named after.
RowsOfDone == \A q \in Requests : Exists(q) => pc[q] = "done"

\* Every row belongs to a device whose login is over.
DevicesOfDone == \A q \in Requests : Exists(q) => pc[rows[q].device] = "done"

HasRow(u, d) == \E q \in Requests : Exists(q) /\ rows[q].user = u /\ rows[q].device = d
HasRevoked(d) == \E q \in Requests : Exists(q) /\ rows[q].revoked /\ rows[q].device = d

\* Every cookie was issued for a row, and rows are never deleted.
SentHasRow == \A s \in sent : HasRow(s.token.user, s.device)

\* The local variables that a handler uses are set when it uses them.
HeldByLogin(r) == /\ ctx[r].user \in Users /\ ctx[r].device = r
                  /\ ctx[r].new \in Token /\ ctx[r].new.user = ctx[r].user
HeldByRefresh(r) == /\ ctx[r].user \in Users /\ ctx[r].device \in Requests
                    /\ ctx[r].old \in Token
                    /\ HasRow(ctx[r].user, ctx[r].device)
HeldBy(r) ==
  /\ pc[r] = "login" => HeldByLogin(r)
  /\ pc[r] \in {"found", "update", "create"} => HeldByRefresh(r)
  /\ pc[r] \in {"update", "create"} =>
       ctx[r].new \in Token /\ ctx[r].new.user = ctx[r].user
  /\ pc[r] \in {"update", "revoking"} => ctx[r].row \in Requests /\ Exists(ctx[r].row)
  /\ pc[r] = "create" => HasRevoked(ctx[r].device)
Held == \A r \in Requests : HeldBy(r)

\* The inductive invariant.
IInv ==
  /\ TypeOK
  /\ RowsOfDone
  /\ DevicesOfDone
  /\ SentHasRow
  /\ Held
  /\ TwoLiveOnlyAfterRevoke

-----------------------------------------------------------------------------

LEMMA InitIInv == Init => IInv
  <1>. SUFFICES ASSUME Init PROVE IInv
    OBVIOUS
  <1>1. TypeOK
    BY DEF Init, TypeOK, NoCtx, Ctx, Steps
  <1>. QED
    BY <1>1 DEF Init, IInv, RowsOfDone, DevicesOfDone, SentHasRow, Held, HeldBy,
                TwoLiveOnlyAfterRevoke, Exists, Live

(***************************************************************************)
(* The shapes of a change of the table.                                    *)
(***************************************************************************)

\* Rows are kept, with their user and device, and a revoked row stays revoked.
Keeps ==
  \A q \in Requests : Exists(q) =>
    /\ Exists(q)' /\ rows'[q].user = rows[q].user /\ rows'[q].device = rows[q].device
    /\ rows[q].revoked => rows'[q].revoked

\* No row appears.
NoNew == \A q \in Requests : Exists(q)' => Exists(q)

\* Revoke changes nothing but revokedAt, and only from null to a date.
LEMMA RevokeShape ==
  ASSUME TypeOK, NEW Q \in SUBSET Requests, Revoke(Q), \A q \in Q : Exists(q)
  PROVE  /\ rows' \in [Requests -> Row \cup {None}]
         /\ Keeps /\ NoNew
         /\ \A q \in Requests : Live(q)' => Live(q)
  <1>. USE SessionsAssumption
  <1>1. ASSUME NEW q \in Requests
        PROVE  /\ rows'[q] = IF q \in Q THEN [rows[q] EXCEPT !.revoked = TRUE] ELSE rows[q]
    BY DEF Revoke
  <1>2. ASSUME NEW q \in Q
        PROVE  /\ rows[q] \in Row
               /\ [rows[q] EXCEPT !.revoked = TRUE] \in Row
    BY <1>1 DEF TypeOK, Exists, Row
  <1>3. rows' \in [Requests -> Row \cup {None}]
    BY <1>1, <1>2 DEF Revoke, TypeOK
  <1>4. ASSUME NEW q \in Q
        PROVE  /\ rows'[q] # None
               /\ rows'[q].user = rows[q].user /\ rows'[q].device = rows[q].device
               /\ rows'[q].revoked
    BY <1>1, <1>2 DEF Row
  <1>. QED
    BY <1>1, <1>3, <1>4 DEF Keeps, NoNew, Exists, Live

(***************************************************************************)
(* One lemma per action: the invariant is preserved, rows are kept, and a  *)
(* dead device is not revived.                                             *)
(***************************************************************************)

Good == IInv' /\ Keeps /\ \A d \in Requests : Dead(d) => Dead(d)'

\* Steps that leave the table and the cookies alone: only Held has to be shown,
\* for the request that moves.
LEMMA LocalStep ==
  ASSUME IInv, UNCHANGED <<rows, sent>>, TypeOK',
         NEW r \in Requests, pc[r] # "done", pc'[r] # "done",
         \A x \in Requests \ {r} : pc'[x] = pc[x] /\ ctx'[x] = ctx[x],
         HeldBy(r)',
         pc'[r] # "idle",
         pc'[r] \in Issuing =>
           \/ pc[r] = "idle" /\ ctx'[r].device = r
           \/ LiveOn(ctx'[r].device)
           \/ pc[r] \in Issuing /\ ctx'[r].device = ctx[r].device
  PROVE  Good
  <1>1. Keeps
    BY DEF Keeps, Exists
  <1>2. Held'
    <2>1. ASSUME NEW x \in Requests \ {r} PROVE HeldBy(x)'
      <3>1. HeldBy(x)
        BY DEF IInv, Held
      <3>. QED
        BY <3>1 DEF HeldBy, HeldByLogin, HeldByRefresh, HasRow, HasRevoked, Exists
    <2>. QED
      BY <2>1 DEF Held
  <1>3. RowsOfDone' /\ DevicesOfDone' /\ SentHasRow' /\ TwoLiveOnlyAfterRevoke'
    BY DEF IInv, TypeOK, RowsOfDone, DevicesOfDone, SentHasRow, HasRow,
           TwoLiveOnlyAfterRevoke, Exists, Live, Row
  <1>4. \A d \in Requests : Dead(d) => Dead(d)'
    BY DEF Dead, LiveOn, IssuingOn, Live, Exists
  <1>. QED
    BY <1>1, <1>2, <1>3, <1>4 DEF Good, IInv

LEMMA LoginBeginStep ==
  ASSUME IInv, NEW r \in Requests, NEW u \in Users, LoginBegin(r, u)
  PROVE  Good
  <1>1. /\ pc[r] = "idle" /\ pc'[r] = "login"
        /\ \A x \in Requests \ {r} : pc'[x] = pc[x] /\ ctx'[x] = ctx[x]
        /\ UNCHANGED <<clock, perm, pwd, rows, sent>>
    BY DEF LoginBegin, Goto, Hold, IInv, TypeOK
  <1>2. ctx'[r] = [NoCtx EXCEPT !.user = u, !.device = r, !.pwd = pwd[u],
                                !.new = Sign(u, perm[u])]
    BY DEF LoginBegin, Hold, IInv, TypeOK
  <1>3. Sign(u, perm[u]) \in Token /\ Sign(u, perm[u]).user = u
    BY DEF Sign, Token, IInv, TypeOK
  <1>4. /\ ctx'[r].user = u /\ ctx'[r].device = r /\ ctx'[r].new \in Token
        /\ ctx'[r].new.user = u /\ ctx'[r] \in Ctx
    BY <1>2, <1>3 DEF NoCtx, Ctx, IInv, TypeOK
  <1>5. TypeOK'
    BY <1>1, <1>4 DEF LoginBegin, Goto, Hold, IInv, TypeOK, Steps
  <1>6. HeldBy(r)'
    BY <1>1, <1>4 DEF HeldBy, HeldByLogin
  <1>. QED
    BY <1>1, <1>4, <1>5, <1>6, LocalStep

LEMMA RefreshFindStep ==
  ASSUME IInv, NEW r \in Requests, RefreshFind(r)
  PROVE  Good
  <1>. PICK s \in sent, q \in Requests :
         /\ pc[r] = "idle"
         /\ q \in Refreshable(s.token, s.device)
         /\ Hold(r, [NoCtx EXCEPT !.user = s.token.user, !.device = s.device,
                                  !.old = s.token, !.pwd = rows[q].pwd])
         /\ Goto(r, "found")
         /\ UNCHANGED <<clock, perm, pwd, rows, sent>>
    BY DEF RefreshFind
  <1>1. /\ s.token \in Token /\ s.token.user \in Users /\ s.device \in Requests
        /\ rows[q] \in Row /\ rows[q].pwd \in Nat
    BY DEF IInv, TypeOK, Cookie, Token, Row, Refreshable, LiveRows, Live, Exists
  <1>2. /\ pc'[r] = "found"
        /\ \A x \in Requests \ {r} : pc'[x] = pc[x] /\ ctx'[x] = ctx[x]
        /\ ctx'[r] = [NoCtx EXCEPT !.user = s.token.user, !.device = s.device,
                                  !.old = s.token, !.pwd = rows[q].pwd]
    BY DEF Goto, Hold, IInv, TypeOK
  <1>3. /\ ctx'[r].user = s.token.user /\ ctx'[r].device = s.device
        /\ ctx'[r].old \in Token /\ ctx'[r] \in Ctx
    BY <1>1, <1>2 DEF NoCtx, Ctx
  <1>4. LiveOn(s.device)
    BY DEF LiveOn, Refreshable, LiveRows
  <1>5. TypeOK'
    BY <1>2, <1>3 DEF Goto, Hold, IInv, TypeOK, Steps
  <1>6. HasRow(ctx[r].user, ctx[r].device)'
    <2>1. /\ rows[q] # None /\ rows[q].device = s.device
          /\ rows[q].user = s.token.user
      BY DEF Refreshable, LiveRows, Live, Exists
    <2>. QED
      BY <1>3, <2>1 DEF HasRow, Exists
  <1>7. HeldBy(r)'
    BY <1>1, <1>2, <1>3, <1>6 DEF HeldBy, HeldByRefresh
  <1>. QED
    BY <1>2, <1>3, <1>4, <1>5, <1>7, LocalStep

LEMMA RefreshRefusedStep ==
  ASSUME IInv, NEW r \in Requests, RefreshRefused(r)
  PROVE  Good
  <1>. PICK s \in sent :
         /\ pc[r] = "idle"
         /\ Hold(r, [NoCtx EXCEPT !.user = s.token.user, !.device = s.device,
                                  !.old = s.token])
         /\ Goto(r, "refused")
         /\ UNCHANGED <<clock, perm, pwd, rows, sent>>
    BY DEF RefreshRefused
  <1>1. s.token \in Token /\ s.token.user \in Users /\ s.device \in Requests
    BY DEF IInv, TypeOK, Cookie, Token
  <1>2. /\ pc'[r] = "refused"
        /\ \A x \in Requests \ {r} : pc'[x] = pc[x] /\ ctx'[x] = ctx[x]
        /\ ctx'[r] = [NoCtx EXCEPT !.user = s.token.user, !.device = s.device,
                                  !.old = s.token]
    BY DEF Goto, Hold, IInv, TypeOK
  <1>3. /\ ctx'[r].user = s.token.user /\ ctx'[r].device = s.device
        /\ ctx'[r].old = s.token /\ ctx'[r] \in Ctx
    <2>1. ctx'[r] = [user |-> s.token.user, device |-> s.device, old |-> s.token,
                     new |-> None, row |-> None, pwd |-> 0]
      BY <1>2 DEF NoCtx
    <2>. QED
      BY <1>1, <2>1 DEF Ctx
  <1>4. TypeOK'
    BY <1>2, <1>3 DEF Goto, Hold, IInv, TypeOK, Steps
  <1>5. HeldBy(r)'
    BY <1>2 DEF HeldBy
  <1>. QED
    BY <1>2, <1>4, <1>5, LocalStep DEF Issuing

LEMMA RefreshLookupStep ==
  ASSUME IInv, NEW r \in Requests, RefreshLookup(r)
  PROVE  Good
  <1>. DEFINE c  == ctx[r]
              c2 == [c EXCEPT !.new = Sign(c.user, c.old.perm)]
              Q  == LiveRows(c.user, c.device)
  <1>1. /\ pc[r] = "found" /\ c \in Ctx /\ UNCHANGED <<clock, perm, pwd, rows, sent>>
        /\ HeldBy(r) /\ HeldByRefresh(r)
    BY DEF RefreshLookup, IInv, TypeOK, Held, HeldBy
  <1>2. \A x \in Requests \ {r} : pc'[x] = pc[x] /\ ctx'[x] = ctx[x]
    BY DEF RefreshLookup, Goto, Hold, IInv, TypeOK
  <1>3. /\ Sign(c.user, c.old.perm) \in Token
        /\ Sign(c.user, c.old.perm).user = c.user
    BY <1>1 DEF Sign, Token, HeldByRefresh, IInv, TypeOK
  <1>4. /\ c2.user = c.user /\ c2.device = c.device /\ c2.old = c.old
        /\ c2.new \in Token /\ c2.new.user = c.user /\ c2 \in Ctx
    BY <1>1, <1>3 DEF Ctx
  <1>5. CASE Q = {} /\ Hold(r, c2) /\ Goto(r, "create")
    <2>1. pc'[r] = "create" /\ ctx'[r] = c2
      BY <1>5 DEF Goto, Hold, IInv, TypeOK
    <2>2. HasRevoked(ctx[r].device)
      BY <1>1, <1>5 DEF HeldByRefresh, HasRow, HasRevoked, LiveRows, Live, Exists
    <2>3. HeldByRefresh(r)' /\ HasRevoked(ctx[r].device)'
      BY <1>1, <1>4, <2>1, <2>2 DEF HeldByRefresh, HasRow, HasRevoked, Exists
    <2>4. HeldBy(r)'
      BY <1>4, <2>1, <2>3 DEF HeldBy
    <2>5. TypeOK'
      BY <1>1, <1>4, <1>5 DEF Goto, Hold, IInv, TypeOK, Steps
    <2>. QED
      BY <1>1, <1>2, <1>4, <2>1, <2>4, <2>5, LocalStep DEF Issuing
  <1>6. ASSUME NEW q \in Q, Hold(r, [c2 EXCEPT !.row = q]), Goto(r, "update")
        PROVE  Good
    <2>1. q \in Requests /\ Exists(q)
      BY DEF LiveRows, Live
    <2>2. pc'[r] = "update" /\ ctx'[r] = [c2 EXCEPT !.row = q]
      BY <1>6 DEF Goto, Hold, IInv, TypeOK
    <2>3. /\ ctx'[r].user = c.user /\ ctx'[r].device = c.device
          /\ ctx'[r].old = c.old /\ ctx'[r].row = q
          /\ ctx'[r].new \in Token /\ ctx'[r].new.user = c.user
          /\ ctx'[r] \in Ctx
      BY <1>4, <2>1, <2>2 DEF Ctx
    <2>4. HeldByRefresh(r)' /\ Exists(ctx[r].row)'
      BY <1>1, <2>1, <2>3 DEF HeldByRefresh, HasRow, Exists
    <2>5. HeldBy(r)'
      BY <2>1, <2>2, <2>3, <2>4 DEF HeldBy
    <2>6. TypeOK'
      BY <1>1, <1>6, <2>2, <2>3 DEF Goto, Hold, IInv, TypeOK, Steps
    <2>. QED
      BY <1>1, <1>2, <2>2, <2>3, <2>5, <2>6, LocalStep DEF Issuing
  <1>7. CASE Goto(r, "refused") /\ UNCHANGED ctx
    <2>1. pc'[r] = "refused"
      BY <1>7 DEF Goto, IInv, TypeOK
    <2>2. HeldBy(r)'
      BY <2>1 DEF HeldBy
    <2>3. TypeOK'
      BY <1>1, <1>7 DEF Goto, IInv, TypeOK, Steps
    <2>. QED
      BY <1>1, <1>2, <2>1, <2>2, <2>3, LocalStep DEF Issuing
  <1>. QED
    BY <1>5, <1>6, <1>7 DEF RefreshLookup

\* A step that leaves every other request alone and keeps the rows leaves what
\* the others hold true.
LEMMA OthersHold ==
  ASSUME IInv, Keeps, NEW r \in Requests,
         \A x \in Requests \ {r} : pc'[x] = pc[x] /\ ctx'[x] = ctx[x]
  PROVE  \A x \in Requests \ {r} : HeldBy(x)'
  <1>. SUFFICES ASSUME NEW x \in Requests \ {r} PROVE HeldBy(x)'
    OBVIOUS
  <1>1. HeldBy(x)
    BY DEF IInv, Held
  <1>2. HeldByLogin(x) => HeldByLogin(x)'
    BY DEF HeldByLogin
  <1>3. HeldByRefresh(x) => HeldByRefresh(x)'
    BY DEF Keeps, HeldByRefresh, HasRow, Exists
  <1>4. HasRevoked(ctx[x].device) => HasRevoked(ctx[x].device)'
    BY DEF Keeps, HasRevoked, Exists
  <1>5. ctx[x].row \in Requests /\ Exists(ctx[x].row) => Exists(ctx[x].row)'
    BY DEF Keeps, Exists
  <1>. QED
    BY <1>1, <1>2, <1>3, <1>4, <1>5 DEF HeldBy

LEMMA CreateRowStep ==
  ASSUME IInv, NEW r \in Requests, CreateRow(r), HeldBy(r),
         pc[r] \in {"login", "create"}
  PROVE  Good
  <1>. DEFINE c == ctx[r]
  <1>1. /\ c.user \in Users /\ c.device \in Requests /\ c.new \in Token
        /\ c.pwd \in Nat
    BY DEF HeldBy, HeldByLogin, HeldByRefresh, IInv, TypeOK, Ctx
  <1>2. ~Exists(r)
    BY DEF IInv, RowsOfDone
  <1>3. /\ rows' \in [Requests -> Row \cup {None}]
        /\ rows'[r] # None
        /\ rows'[r].user = c.user /\ rows'[r].device = c.device
        /\ ~rows'[r].revoked
        /\ \A q \in Requests \ {r} : rows'[q] = rows[q]
    <2>. DEFINE n == [user |-> c.user, device |-> c.device, token |-> c.new,
                      revoked |-> FALSE, pwd |-> c.pwd]
    <2>1. n \in Row
      BY <1>1 DEF Row
    <2>2. n # None
      BY <2>1, SessionsAssumption
    <2>3. rows' = [rows EXCEPT ![r] = n]
      BY DEF CreateRow
    <2>. QED
      BY <2>1, <2>2, <2>3 DEF IInv, TypeOK
  <1>4. /\ pc' = [pc EXCEPT ![r] = "done"] /\ pc'[r] = "done"
        /\ \A x \in Requests \ {r} : pc'[x] = pc[x]
        /\ UNCHANGED <<clock, perm, pwd, ctx>>
        /\ sent' = sent \cup {[device |-> c.device, token |-> c.new]}
    BY DEF CreateRow, Goto, Answer, IInv, TypeOK
  <1>5. Keeps
    BY <1>2, <1>3 DEF Keeps, Exists
  <1>6. TypeOK'
    BY <1>1, <1>3, <1>4 DEF IInv, TypeOK, Cookie, Steps
  <1>7. RowsOfDone'
    BY <1>3, <1>4 DEF IInv, RowsOfDone, Exists
  <1>8. pc[c.device] = "done" \/ c.device = r
    BY <1>1 DEF HeldBy, HeldByLogin, HeldByRefresh, HasRow, IInv, DevicesOfDone
  <1>9. DevicesOfDone'
    BY <1>1, <1>3, <1>4, <1>8 DEF IInv, TypeOK, DevicesOfDone, Exists, Row
  <1>10. SentHasRow'
    <2>1. HasRow(c.user, c.device)'
      BY <1>3, <1>4 DEF HasRow, Exists
    <2>2. c.new.user = c.user
      BY DEF HeldBy, HeldByLogin
    <2>. QED
      <3>. SUFFICES ASSUME NEW s \in sent' PROVE HasRow(s.token.user, s.device)'
        BY DEF SentHasRow
      <3>1. CASE s \in sent
        BY <1>5, <3>1 DEF IInv, SentHasRow, HasRow, Keeps, Exists
      <3>2. CASE s = [device |-> c.device, token |-> c.new]
        BY <1>4, <2>1, <2>2, <3>2 DEF HasRow, Exists
      <3>. QED
        BY <1>4, <3>1, <3>2
  <1>11. Held'
    BY <1>4, <1>5, OthersHold DEF Held, HeldBy
  <1>12. TwoLiveOnlyAfterRevoke'
    <2>. SUFFICES ASSUME NEW p \in Requests, NEW q \in Requests, p # q,
                         Live(p)', Live(q)', rows'[p].device = rows'[q].device
                  PROVE  HasRevoked(rows[p].device)'
      BY DEF TwoLiveOnlyAfterRevoke, HasRevoked
    <2>1. CASE p # r /\ q # r
      <3>1. HasRevoked(rows[p].device)
        BY <1>3, <2>1 DEF IInv, TwoLiveOnlyAfterRevoke, HasRevoked, Live, Exists
      <3>. QED
        BY <1>3, <1>5, <2>1, <3>1 DEF HasRevoked, Keeps, Exists
    <2>2. CASE p = r \/ q = r
      <3>1. \E o \in Requests \ {r} : Exists(o) /\ rows[o].device = c.device
        BY <1>3, <2>2 DEF Live, Exists
      <3>2. pc[r] = "create"
        BY <3>1 DEF IInv, DevicesOfDone, HeldBy, HeldByLogin
      <3>3. HasRevoked(c.device)
        BY <3>2 DEF HeldBy
      <3>4. rows'[p].device = c.device
        BY <1>3, <2>2
      <3>. QED
        BY <1>3, <1>5, <3>3, <3>4 DEF HasRevoked, Keeps, Exists
    <2>. QED
      BY <2>1, <2>2
  <1>13. \A d \in Requests : Dead(d) => Dead(d)'
    BY <1>3, <1>4 DEF Dead, LiveOn, IssuingOn, Issuing, Live, Exists
  <1>. QED
    BY <1>5, <1>6, <1>7, <1>9, <1>10, <1>11, <1>12, <1>13 DEF Good, IInv

LEMMA RefreshUpdateStep ==
  ASSUME IInv, NEW r \in Requests, RefreshUpdate(r)
  PROVE  Good
  <1>. DEFINE c == ctx[r]
              w == c.row
  <1>1. /\ pc[r] = "update" /\ HeldBy(r) /\ HeldByRefresh(r)
        /\ w \in Requests /\ Exists(w) /\ rows[w] \in Row
        /\ c.new \in Token /\ c.new.user = c.user
        /\ c.user \in Users /\ c.device \in Requests
    BY DEF RefreshUpdate, IInv, TypeOK, Held, HeldBy, HeldByRefresh, Exists
  <1>2. rows' = [rows EXCEPT ![w] = [rows[w] EXCEPT !.token = c.new]]
    BY DEF RefreshUpdate
  <1>3. /\ [rows[w] EXCEPT !.token = c.new] \in Row
        /\ [rows[w] EXCEPT !.token = c.new].user = rows[w].user
        /\ [rows[w] EXCEPT !.token = c.new].device = rows[w].device
        /\ [rows[w] EXCEPT !.token = c.new].revoked = rows[w].revoked
    BY <1>1 DEF Row
  <1>4. /\ rows' \in [Requests -> Row \cup {None}]
        /\ \A q \in Requests : Exists(q)' <=> Exists(q)
        /\ \A q \in Requests : Exists(q) =>
             /\ rows'[q].user = rows[q].user /\ rows'[q].device = rows[q].device
             /\ rows'[q].revoked = rows[q].revoked
    BY <1>1, <1>2, <1>3, SessionsAssumption DEF IInv, TypeOK, Exists
  <1>5. /\ pc' = [pc EXCEPT ![r] = "done"] /\ pc'[r] = "done"
        /\ \A x \in Requests \ {r} : pc'[x] = pc[x]
        /\ UNCHANGED <<clock, perm, pwd, ctx>>
        /\ sent' = sent \cup {[device |-> c.device, token |-> c.new]}
    BY DEF RefreshUpdate, Goto, Answer, IInv, TypeOK
  <1>6. Keeps
    BY <1>4 DEF Keeps
  <1>7. TypeOK'
    BY <1>1, <1>4, <1>5 DEF IInv, TypeOK, Cookie, Steps
  <1>8. RowsOfDone' /\ DevicesOfDone'
    BY <1>4, <1>5 DEF IInv, TypeOK, RowsOfDone, DevicesOfDone, Exists, Row
  <1>9. SentHasRow'
    <2>. SUFFICES ASSUME NEW s \in sent' PROVE HasRow(s.token.user, s.device)'
      BY DEF SentHasRow
    <2>1. CASE s \in sent
      BY <1>6, <2>1 DEF IInv, SentHasRow, HasRow, Keeps, Exists
    <2>2. CASE s = [device |-> c.device, token |-> c.new]
      BY <1>1, <1>6, <2>2 DEF HeldByRefresh, HasRow, Keeps, Exists
    <2>. QED
      BY <1>5, <2>1, <2>2
  <1>10. Held'
    BY <1>5, <1>6, OthersHold DEF Held, HeldBy
  <1>11. TwoLiveOnlyAfterRevoke'
    BY <1>4 DEF IInv, TwoLiveOnlyAfterRevoke, Live, Exists
  <1>12. \A d \in Requests : Dead(d) => Dead(d)'
    BY <1>4, <1>5 DEF Dead, LiveOn, IssuingOn, Issuing, Live, Exists
  <1>. QED
    BY <1>6, <1>7, <1>8, <1>9, <1>10, <1>11, <1>12 DEF Good, IInv

\* The steps that revoke rows: logoutDevice, logoutAll, the end of a reset.
LEMMA RevokeStep ==
  ASSUME IInv, NEW r \in Requests, pc[r] # "done", pc'[r] = "loggedOut",
         NEW Q \in SUBSET Requests, Revoke(Q), \A q \in Q : Exists(q),
         \A x \in Requests \ {r} : pc'[x] = pc[x] /\ ctx'[x] = ctx[x],
         UNCHANGED <<clock, perm, pwd, sent>>,
         pc' \in [Requests -> Steps], ctx' \in [Requests -> Ctx]
  PROVE  Good
  <1>1. /\ rows' \in [Requests -> Row \cup {None}] /\ Keeps /\ NoNew
        /\ \A q \in Requests : Live(q)' => Live(q)
    BY RevokeShape DEF IInv
  <1>2. TypeOK'
    BY <1>1 DEF IInv, TypeOK
  <1>3. RowsOfDone' /\ DevicesOfDone'
    BY <1>1 DEF IInv, TypeOK, RowsOfDone, DevicesOfDone, Keeps, NoNew, Exists, Row
  <1>4. SentHasRow'
    BY <1>1 DEF IInv, SentHasRow, HasRow, Keeps, Exists
  <1>5. Held'
    BY <1>1, OthersHold DEF Held, HeldBy
  <1>6. TwoLiveOnlyAfterRevoke'
    BY <1>1 DEF IInv, TwoLiveOnlyAfterRevoke, Live, Exists, Keeps
  <1>7. \A d \in Requests : Dead(d) => Dead(d)'
    BY <1>1 DEF Dead, LiveOn, IssuingOn, Issuing, Live, Exists, Keeps
  <1>. QED
    BY <1>1, <1>2, <1>3, <1>4, <1>5, <1>6, <1>7 DEF Good, IInv

LEMMA LogoutDeviceFindStep ==
  ASSUME IInv, NEW r \in Requests, LogoutDeviceFind(r)
  PROVE  Good
  <1>. PICK s \in sent, q \in Requests :
         /\ pc[r] = "idle" /\ Live(q)
         /\ Hold(r, [NoCtx EXCEPT !.user = s.token.user, !.device = s.device, !.row = q])
         /\ Goto(r, "revoking")
         /\ UNCHANGED <<clock, perm, pwd, rows, sent>>
    BY DEF LogoutDeviceFind
  <1>1. s.token.user \in Users /\ s.device \in Requests
    BY DEF IInv, TypeOK, Cookie, Token
  <1>2. /\ pc'[r] = "revoking"
        /\ \A x \in Requests \ {r} : pc'[x] = pc[x] /\ ctx'[x] = ctx[x]
        /\ ctx'[r] = [user |-> s.token.user, device |-> s.device, old |-> None,
                      new |-> None, row |-> q, pwd |-> 0]
    BY DEF Goto, Hold, NoCtx, IInv, TypeOK
  <1>3. ctx'[r] \in Ctx /\ ctx'[r].row = q
    BY <1>1, <1>2 DEF Ctx
  <1>4. TypeOK'
    BY <1>2, <1>3 DEF Goto, Hold, IInv, TypeOK, Steps
  <1>5. HeldBy(r)'
    BY <1>2, <1>3 DEF HeldBy, Live, Exists
  <1>. QED
    BY <1>2, <1>4, <1>5, LocalStep DEF Issuing

LEMMA LogoutDeviceRevokeStep ==
  ASSUME IInv, NEW r \in Requests, LogoutDeviceRevoke(r)
  PROVE  Good
  <1>1. ctx[r].row \in Requests /\ Exists(ctx[r].row)
    BY DEF LogoutDeviceRevoke, IInv, Held, HeldBy
  <1>. QED
    BY <1>1, RevokeStep DEF LogoutDeviceRevoke, Goto, IInv, TypeOK, Steps

LEMMA LogoutAllStep ==
  ASSUME IInv, NEW r \in Requests, NEW u \in Users, LogoutAll(r, u)
  PROVE  Good
  <1>. DEFINE Q == {q \in Requests : Live(q)}
  <1>1. Revoke(Q) /\ \A q \in Q : Exists(q)
    BY DEF LogoutAll, Live
  <1>2. ctx'[r] = [user |-> u, device |-> None, old |-> None, new |-> None,
                   row |-> None, pwd |-> 0]
    BY DEF LogoutAll, Hold, NoCtx, IInv, TypeOK
  <1>3. ctx'[r] \in Ctx
    BY <1>2 DEF Ctx
  <1>4. /\ pc[r] = "idle" /\ pc'[r] = "loggedOut"
        /\ \A x \in Requests \ {r} : pc'[x] = pc[x] /\ ctx'[x] = ctx[x]
        /\ pc' \in [Requests -> Steps] /\ ctx' \in [Requests -> Ctx]
        /\ UNCHANGED <<clock, perm, pwd, sent>>
    BY <1>3 DEF LogoutAll, Goto, Hold, IInv, TypeOK, Steps
  <1>. QED
    BY <1>1, <1>4, RevokeStep

LEMMA ResetPasswordStep ==
  ASSUME IInv, NEW r \in Requests, NEW u \in Users, ResetPassword(r, u)
  PROVE  Good
  <1>1. ctx'[r] = [user |-> u, device |-> None, old |-> None, new |-> None,
                   row |-> None, pwd |-> pwd[u] + 1]
    BY DEF ResetPassword, Hold, NoCtx, IInv, TypeOK
  <1>2. ctx'[r] \in Ctx
    BY <1>1 DEF Ctx, IInv, TypeOK
  <1>3. /\ pc[r] = "idle" /\ pc'[r] = "cutting"
        /\ \A x \in Requests \ {r} : pc'[x] = pc[x] /\ ctx'[x] = ctx[x]
        /\ UNCHANGED <<clock, perm, rows, sent>>
    BY DEF ResetPassword, Goto, Hold, IInv, TypeOK
  <1>4. TypeOK'
    BY <1>2, <1>3 DEF ResetPassword, Goto, Hold, IInv, TypeOK, Steps
  <1>5. HeldBy(r)'
    BY <1>3 DEF HeldBy
  <1>. QED
    BY <1>3, <1>4, <1>5, LocalStep DEF Issuing

LEMMA ResetRevokeStep ==
  ASSUME IInv, NEW r \in Requests, ResetRevoke(r)
  PROVE  Good
  <1>. DEFINE Q == {q \in Requests : Live(q) /\ rows[q].user = ctx[r].user}
  <1>1. Revoke(Q) /\ \A q \in Q : Exists(q)
    BY DEF ResetRevoke, Live
  <1>2. /\ pc[r] = "cutting" /\ pc'[r] = "loggedOut"
        /\ \A x \in Requests \ {r} : pc'[x] = pc[x] /\ ctx'[x] = ctx[x]
        /\ pc' \in [Requests -> Steps] /\ ctx' \in [Requests -> Ctx]
        /\ UNCHANGED <<clock, perm, pwd, sent>>
    BY DEF ResetRevoke, Goto, IInv, TypeOK, Steps
  <1>. QED
    BY <1>1, <1>2, RevokeStep

LEMMA FailStep ==
  ASSUME IInv, NEW r \in Requests, Fail(r)
  PROVE  Good
  <1>1. /\ pc[r] # "done" /\ pc'[r] = "failed"
        /\ \A x \in Requests \ {r} : pc'[x] = pc[x] /\ ctx'[x] = ctx[x]
        /\ UNCHANGED <<clock, perm, pwd, rows, sent, ctx>>
    BY DEF Fail, Issuing, Goto, IInv, TypeOK
  <1>2. TypeOK'
    BY <1>1 DEF Fail, Goto, IInv, TypeOK, Steps
  <1>3. HeldBy(r)'
    BY <1>1 DEF HeldBy
  <1>. QED
    BY <1>1, <1>2, <1>3, LocalStep DEF Issuing

\* A role change, the clock, and stuttering touch no session at all.
LEMMA QuietStep ==
  ASSUME IInv, UNCHANGED <<pwd, rows, sent, pc, ctx>>,
         clock' \in Nat, perm' \in [Users -> Nat]
  PROVE  Good
  <1>1. TypeOK' /\ RowsOfDone' /\ DevicesOfDone' /\ SentHasRow'
    BY DEF IInv, TypeOK, RowsOfDone, DevicesOfDone, SentHasRow, HasRow, Exists
  <1>2. Held' /\ TwoLiveOnlyAfterRevoke'
    BY DEF IInv, Held, HeldBy, HeldByLogin, HeldByRefresh, HasRow, HasRevoked,
           TwoLiveOnlyAfterRevoke, Exists, Live
  <1>3. Keeps /\ \A d \in Requests : Dead(d) => Dead(d)'
    BY DEF Keeps, Dead, LiveOn, IssuingOn, Live, Exists
  <1>. QED
    BY <1>1, <1>2, <1>3 DEF Good, IInv

LEMMA NextGood ==
  ASSUME IInv, [Next]_vars
  PROVE  Good
  <1>1. ASSUME NEW r \in Requests, Handle(r) PROVE Good
    <2>1. ASSUME LoginSave(r) PROVE Good
      BY <2>1, CreateRowStep DEF LoginSave, IInv, Held
    <2>2. ASSUME RefreshCreate(r) PROVE Good
      BY <2>2, CreateRowStep DEF RefreshCreate, IInv, Held
    <2>. QED
      BY <1>1, <2>1, <2>2, RefreshFindStep, RefreshRefusedStep, RefreshLookupStep,
         RefreshUpdateStep, LogoutDeviceFindStep, LogoutDeviceRevokeStep,
         ResetRevokeStep, FailStep DEF Handle
  <1>2. ASSUME NEW r \in Requests, NEW u \in Users, HandleFor(r, u) PROVE Good
    BY <1>2, LoginBeginStep, LogoutAllStep, ResetPasswordStep DEF HandleFor
  <1>3. ASSUME NEW u \in Users, RoleChange(u) PROVE Good
    BY <1>3, QuietStep DEF RoleChange, IInv, TypeOK
  <1>4. CASE Tick
    BY <1>4, QuietStep DEF Tick, IInv, TypeOK
  <1>5. CASE UNCHANGED vars
    BY <1>5, QuietStep DEF vars, IInv, TypeOK
  <1>. QED
    BY <1>1, <1>2, <1>3, <1>4, <1>5 DEF Next

-----------------------------------------------------------------------------

\* What the handlers know about the table holds in every reachable state.
THEOREM Invariance == Spec => []IInv
  <1>1. IInv /\ [Next]_vars => IInv'
    BY NextGood DEF Good
  <1>. QED
    BY InitIInv, <1>1, PTL DEF Spec

\* Every variable keeps its type, whatever the interleaving of the handlers.
THEOREM TypeCorrect == Spec => []TypeOK
  BY Invariance, PTL DEF IInv

\* saveRefreshToken gives a device a second live row only after a row of the
\* device was revoked.
THEOREM TwoLiveRows == Spec => []TwoLiveOnlyAfterRevoke
  BY Invariance, PTL DEF IInv

\* No handler makes a revoked row live again.
THEOREM RevocationFinal == Spec => RevokedForGood
  <1>1. IInv /\ [Next]_vars =>
          [\A q \in Requests : Exists(q) /\ rows[q].revoked
             => rows'[q] # None /\ rows'[q].revoked]_rows
    BY NextGood DEF Good, Keeps, Exists
  <1>. QED
    BY Invariance, <1>1, PTL DEF Spec, RevokedForGood

\* No cookie revives a device that has no live row and no handler at work.
THEOREM DeadDevice == Spec => DeadDeviceStaysDead
  <1>1. IInv /\ [Next]_vars => [\A d \in Requests : Dead(d) => Dead(d)']_vars
    BY NextGood DEF Good
  <1>. QED
    BY Invariance, <1>1, PTL DEF Spec, DeadDeviceStaysDead

-----------------------------------------------------------------------------
(* Where authentications and tokens come from.                              *)

\* A refresh updates a row of its device.
Aimed == \A r \in Requests : pc[r] = "update" =>
  Exists(ctx[r].row) /\ rows[ctx[r].row].device = ctx[r].device

\* Something is of the sign-in that stands in a record x, a row or what a handler
\* holds.
Same(y, x) == y.device = x.device /\ y.user = x.user /\ y.pwd = x.pwd

\* A live row, and a handler that issues, got their device, their user and the
\* generation of their password from a live row, from a handler that issued, or
\* from the login that has begun.
RowAuth(q) ==
  \/ Live(q) /\ Same(rows'[q], rows[q])
  \/ \E r \in Requests : pc[r] \in Issuing /\ Same(rows'[q], ctx[r])
IssuerAuth(r) ==
  \/ pc[r] \in Issuing /\ Same(ctx'[r], ctx[r])
  \/ \E q \in Requests : Live(q) /\ Same(ctx'[r], rows[q])
  \/ \E u \in Users : /\ LoginBegin(r, u)
                      /\ ctx'[r].device = r /\ ctx'[r].user = u /\ ctx'[r].pwd = pwd[u]

\* A row got its token from itself or from a handler that issued, and that one
\* signed it now or had it before.
RowToken(q) ==
  \/ Exists(q) /\ rows'[q].device = rows[q].device /\ rows'[q].token = rows[q].token
  \/ \E r \in Requests : /\ pc[r] \in Issuing
                         /\ rows'[q].device = ctx[r].device /\ rows'[q].token = ctx[r].new
IssuerToken(r) ==
  \/ pc[r] \in Issuing /\ ctx'[r].device = ctx[r].device /\ ctx'[r].new = ctx[r].new
  \/ ctx'[r].new = None
  \/ ctx'[r].new \in Token /\ ctx'[r].new.iat = clock

RowSources == \A q \in Requests : (Live(q)' => RowAuth(q)) /\ (Exists(q)' => RowToken(q))
IssuerSources == \A r \in Requests : pc'[r] \in Issuing => IssuerAuth(r) /\ IssuerToken(r)

\* One handler moves and none of the others.
Alone(r) == \A x \in Requests \ {r} : pc'[x] = pc[x] /\ ctx'[x] = ctx[x]

LEMMA MovesAlone ==
  ASSUME TypeOK, NEW r \in Requests, NEW l, NEW c,
         Goto(r, l), Hold(r, c) \/ UNCHANGED ctx
  PROVE  Alone(r) /\ pc'[r] = l /\ (Hold(r, c) => ctx'[r] = c)
  BY DEF TypeOK, Goto, Hold, Alone

LEMMA IssuersAlone ==
  ASSUME NEW r \in Requests, Alone(r),
         pc'[r] \in Issuing => IssuerAuth(r) /\ IssuerToken(r)
  PROVE  IssuerSources
  <1>1. ASSUME NEW x \in Requests \ {r}, pc'[x] \in Issuing
        PROVE  IssuerAuth(x) /\ IssuerToken(x)
    BY <1>1 DEF Alone, IssuerAuth, IssuerToken, Same
  <1>. QED
    BY <1>1 DEF IssuerSources

LEMMA RowsSame == ASSUME UNCHANGED rows PROVE RowSources
  BY DEF RowSources, RowAuth, RowToken, Same, Live, Exists

LEMMA LoginBeginSources ==
  ASSUME IInv, NEW r \in Requests, NEW u \in Users, LoginBegin(r, u)
  PROVE  RowSources /\ IssuerSources
  <1>. DEFINE c == [NoCtx EXCEPT !.user = u, !.device = r, !.pwd = pwd[u], !.new = Sign(u, perm[u])]
  <1>1. Alone(r) /\ ctx'[r] = c
    BY MovesAlone DEF LoginBegin, IInv
  <1>2. c.device = r /\ c.user = u /\ c.pwd = pwd[u] /\ c.new = Sign(u, perm[u])
    BY DEF NoCtx
  <1>3. Sign(u, perm[u]) \in Token /\ Sign(u, perm[u]).iat = clock
    BY DEF Sign, Token, IInv, TypeOK
  <1>4. IssuerAuth(r) /\ IssuerToken(r)
    BY <1>1, <1>2, <1>3 DEF IssuerAuth, IssuerToken, Same
  <1>. QED
    BY <1>1, <1>4, IssuersAlone, RowsSame DEF LoginBegin

LEMMA CreateRowSources ==
  ASSUME IInv, NEW r \in Requests, pc[r] \in Issuing, CreateRow(r)
  PROVE  RowSources /\ IssuerSources
  <1>1. Alone(r) /\ pc'[r] = "done"
    BY MovesAlone DEF CreateRow, IInv
  <1>2. rows'[r] = [user |-> ctx[r].user, device |-> ctx[r].device, token |-> ctx[r].new,
                    revoked |-> FALSE, pwd |-> ctx[r].pwd]
    BY DEF CreateRow, IInv, TypeOK
  <1>3. \A q \in Requests \ {r} : rows'[q] = rows[q]
    BY DEF CreateRow, IInv, TypeOK
  <1>4. RowAuth(r) /\ RowToken(r)
    BY <1>2 DEF RowAuth, RowToken, Same
  <1>5. RowSources
    BY <1>3, <1>4 DEF RowSources, RowAuth, RowToken, Same, Live, Exists
  <1>. QED
    BY <1>1, <1>5, IssuersAlone DEF Issuing

LEMMA RefreshFindSources ==
  ASSUME IInv, NEW r \in Requests, RefreshFind(r)
  PROVE  RowSources /\ IssuerSources
  <1>. PICK s \in sent, q \in Requests :
         /\ q \in Refreshable(s.token, s.device)
         /\ Hold(r, [NoCtx EXCEPT !.user = s.token.user, !.device = s.device,
                                  !.old = s.token, !.pwd = rows[q].pwd])
         /\ Goto(r, "found")
         /\ UNCHANGED rows
    BY DEF RefreshFind
  <1>. DEFINE c == [NoCtx EXCEPT !.user = s.token.user, !.device = s.device,
                                 !.old = s.token, !.pwd = rows[q].pwd]
  <1>1. Alone(r) /\ ctx'[r] = c
    BY MovesAlone DEF IInv
  <1>2. c.device = s.device /\ c.user = s.token.user /\ c.pwd = rows[q].pwd /\ c.new = None
    BY DEF NoCtx
  <1>3. Live(q) /\ rows[q].user = s.token.user /\ rows[q].device = s.device
    BY DEF Refreshable, LiveRows
  <1>4. IssuerAuth(r) /\ IssuerToken(r)
    BY <1>1, <1>2, <1>3 DEF IssuerAuth, IssuerToken, Same
  <1>. QED
    BY <1>1, <1>4, IssuersAlone, RowsSame

LEMMA RefreshLookupSources ==
  ASSUME IInv, NEW r \in Requests, RefreshLookup(r)
  PROVE  RowSources /\ IssuerSources
  <1>. DEFINE t == Sign(ctx[r].user, ctx[r].old.perm)
              c == [ctx[r] EXCEPT !.new = t]
  <1>1. pc[r] = "found" /\ UNCHANGED rows
    BY DEF RefreshLookup
  <1>2. ctx[r] \in Ctx /\ ctx[r].user \in Users /\ ctx[r].old \in Token
    BY <1>1 DEF IInv, TypeOK, Held, HeldBy, HeldByRefresh
  <1>3. t \in Token /\ t.iat = clock
    BY <1>2 DEF Sign, Token, IInv, TypeOK
  <1>4. ASSUME NEW d, d = c \/ \E q \in Requests : d = [c EXCEPT !.row = q]
        PROVE  /\ d.device = ctx[r].device /\ d.user = ctx[r].user /\ d.pwd = ctx[r].pwd
               /\ d.new = t
    BY <1>2, <1>4 DEF Ctx
  <1>5. \/ Goto(r, "create") /\ Hold(r, c)
        \/ \E q \in Requests : Goto(r, "update") /\ Hold(r, [c EXCEPT !.row = q])
        \/ Goto(r, "refused") /\ UNCHANGED ctx
    BY DEF RefreshLookup, LiveRows
  <1>. HIDE DEF t, c
  <1>6. CASE Goto(r, "create") /\ Hold(r, c)
    <2>1. Alone(r) /\ ctx'[r] = c
      BY <1>6, MovesAlone DEF IInv
    <2>. QED
      BY <1>1, <1>3, <1>4, <2>1, IssuersAlone, RowsSame DEF IssuerAuth, IssuerToken, Same, Issuing
  <1>7. ASSUME NEW q \in Requests, Goto(r, "update"), Hold(r, [c EXCEPT !.row = q])
        PROVE  RowSources /\ IssuerSources
    <2>1. Alone(r) /\ ctx'[r] = [c EXCEPT !.row = q]
      BY <1>7, MovesAlone DEF IInv
    <2>. QED
      BY <1>1, <1>3, <1>4, <2>1, IssuersAlone, RowsSame DEF IssuerAuth, IssuerToken, Same, Issuing
  <1>8. CASE Goto(r, "refused") /\ UNCHANGED ctx
    <2>1. Alone(r) /\ pc'[r] = "refused"
      BY <1>8, MovesAlone DEF IInv
    <2>. QED
      BY <1>1, <2>1, IssuersAlone, RowsSame DEF Issuing
  <1>. QED
    BY <1>5, <1>6, <1>7, <1>8

LEMMA RefreshUpdateSources ==
  ASSUME IInv, Aimed, NEW r \in Requests, RefreshUpdate(r)
  PROVE  RowSources /\ IssuerSources
  <1>1. Alone(r) /\ pc'[r] = "done" /\ pc[r] \in Issuing
    BY MovesAlone DEF RefreshUpdate, IInv, Issuing
  <1>. PICK k \in Requests : k = ctx[r].row
    BY DEF RefreshUpdate, IInv, Held, HeldBy
  <1>2. /\ Exists(k) /\ rows[k] \in Row /\ rows[k].device = ctx[r].device
    BY DEF RefreshUpdate, IInv, Held, HeldBy, Aimed, TypeOK, Exists
  <1>3. rows'[k] = [rows[k] EXCEPT !.token = ctx[r].new]
    BY <1>2 DEF RefreshUpdate, IInv, TypeOK
  <1>4. /\ rows'[k].user = rows[k].user /\ rows'[k].pwd = rows[k].pwd
        /\ rows'[k].revoked = rows[k].revoked /\ rows'[k].device = ctx[r].device
        /\ rows'[k].device = rows[k].device
        /\ rows'[k].token = ctx[r].new
    BY <1>2, <1>3 DEF Row
  <1>5. \A q \in Requests \ {k} : rows'[q] = rows[q]
    BY <1>2 DEF RefreshUpdate, IInv, TypeOK
  <1>6. (Live(k)' => RowAuth(k)) /\ RowToken(k)
    BY <1>1, <1>2, <1>4 DEF RowAuth, RowToken, Same, Live, Exists
  <1>7. RowSources
    BY <1>2, <1>5, <1>6 DEF RowSources, RowAuth, RowToken, Same, Live, Exists
  <1>. QED
    BY <1>1, <1>7, IssuersAlone DEF Issuing

LEMMA RevokeSources ==
  ASSUME IInv, NEW r \in Requests, LogoutDeviceRevoke(r) \/ ResetRevoke(r) \/ \E u \in Users : LogoutAll(r, u)
  PROVE  RowSources /\ IssuerSources
  <1>1. PICK Q \in SUBSET Requests : Revoke(Q) /\ \A q \in Q : Exists(q)
    <2>1. CASE LogoutDeviceRevoke(r)
      BY <2>1 DEF LogoutDeviceRevoke, IInv, Held, HeldBy
    <2>2. CASE ResetRevoke(r)
      BY <2>2 DEF ResetRevoke, Live
    <2>3. CASE \E u \in Users : LogoutAll(r, u)
      BY <2>3 DEF LogoutAll, Live
    <2>. QED
      BY <2>1, <2>2, <2>3
  <1>2. Alone(r) /\ pc'[r] = "loggedOut"
    BY MovesAlone DEF LogoutDeviceRevoke, ResetRevoke, LogoutAll, IInv
  <1>3. ASSUME NEW q \in Q
        PROVE  /\ rows'[q].user = rows[q].user /\ rows'[q].pwd = rows[q].pwd
               /\ rows'[q].device = rows[q].device /\ rows'[q].token = rows[q].token
               /\ rows'[q].revoked
    <2>1. rows[q] \in Row /\ rows'[q] = [rows[q] EXCEPT !.revoked = TRUE]
      BY <1>1 DEF IInv, TypeOK, Exists, Revoke
    <2>. QED
      BY <2>1 DEF Row
  <1>4. \A q \in Requests \ Q : rows'[q] = rows[q]
    BY <1>1 DEF Revoke
  <1>5. RowSources
    BY <1>1, <1>3, <1>4 DEF RowSources, RowAuth, RowToken, Same, Live, Exists
  <1>. QED
    BY <1>2, <1>5, IssuersAlone DEF Issuing

\* Any other step leaves the rows alone and lets nobody issue.
LEMMA OtherSources ==
  ASSUME IInv, NEW r \in Requests,
         \/ RefreshRefused(r) \/ LogoutDeviceFind(r) \/ Fail(r)
         \/ \E u \in Users : ResetPassword(r, u)
  PROVE  RowSources /\ IssuerSources
  <1>1. Alone(r) /\ pc'[r] \in {"refused", "revoking", "failed", "cutting"} /\ UNCHANGED rows
    <2>1. CASE RefreshRefused(r)
      BY <2>1, MovesAlone DEF RefreshRefused, IInv
    <2>2. CASE LogoutDeviceFind(r)
      BY <2>2, MovesAlone DEF LogoutDeviceFind, IInv
    <2>3. CASE Fail(r)
      BY <2>3, MovesAlone DEF Fail, IInv
    <2>4. CASE \E u \in Users : ResetPassword(r, u)
      BY <2>4, MovesAlone DEF ResetPassword, IInv
    <2>. QED
      BY <2>1, <2>2, <2>3, <2>4
  <1>. QED
    BY <1>1, IssuersAlone, RowsSame DEF Issuing

LEMMA NextSources ==
  ASSUME IInv, Aimed, [Next]_vars
  PROVE  RowSources /\ IssuerSources
  <1>1. ASSUME UNCHANGED <<rows, pc, ctx>> PROVE RowSources /\ IssuerSources
    BY <1>1, RowsSame DEF IssuerSources, IssuerAuth, IssuerToken, Same
  <1>2. ASSUME NEW r \in Requests, Handle(r) PROVE RowSources /\ IssuerSources
    BY <1>2, CreateRowSources, RefreshFindSources, RefreshLookupSources, RefreshUpdateSources,
       RevokeSources, OtherSources DEF Handle, LoginSave, RefreshCreate, Issuing
  <1>3. ASSUME NEW r \in Requests, NEW u \in Users, HandleFor(r, u)
        PROVE  RowSources /\ IssuerSources
    BY <1>3, LoginBeginSources, RevokeSources, OtherSources DEF HandleFor
  <1>. QED
    BY <1>1, <1>2, <1>3 DEF Next, RoleChange, Tick, vars

\* Only RefreshLookup aims, and the row it found keeps its device.
LEMMA AimedStep ==
  ASSUME IInv, Aimed, [Next]_vars
  PROVE  Aimed'
  <1>. SUFFICES ASSUME NEW r \in Requests, pc'[r] = "update"
                PROVE  Exists(ctx[r].row)' /\ rows'[ctx'[r].row].device = ctx'[r].device
    BY DEF Aimed
  <1>1. Keeps
    BY NextGood DEF Good
  <1>2. CASE pc[r] = "update" /\ ctx'[r] = ctx[r]
    BY <1>1, <1>2 DEF Aimed, Keeps, Exists, IInv, Held, HeldBy
  <1>3. CASE RefreshLookup(r)
    <2>. DEFINE c == [ctx[r] EXCEPT !.new = Sign(ctx[r].user, ctx[r].old.perm)]
    <2>1. PICK q \in LiveRows(ctx[r].user, ctx[r].device) : Hold(r, [c EXCEPT !.row = q])
      BY <1>3 DEF RefreshLookup, Goto, IInv, TypeOK
    <2>2. ctx[r] \in Ctx /\ ctx'[r] = [c EXCEPT !.row = q] /\ UNCHANGED rows
      BY <1>3, <2>1 DEF RefreshLookup, Hold, IInv, TypeOK
    <2>3. ctx'[r].row = q /\ ctx'[r].device = ctx[r].device
      BY <2>2 DEF Ctx
    <2>. QED
      BY <2>1, <2>2, <2>3 DEF LiveRows, Live, Exists
  <1>4. (pc[r] = "update" /\ ctx'[r] = ctx[r]) \/ RefreshLookup(r)
    <2>1. CASE UNCHANGED <<pc, ctx>>
      BY <2>1
    <2>2. ASSUME NEW x \in Requests, Handle(x) \/ \E u \in Users : HandleFor(x, u), x # r
          PROVE  pc'[r] = pc[r] /\ ctx'[r] = ctx[r]
      BY <2>2 DEF Handle, HandleFor, LoginSave, RefreshCreate, CreateRow, RefreshFind,
         RefreshRefused, RefreshLookup, RefreshUpdate, LogoutDeviceFind, LogoutDeviceRevoke,
         ResetRevoke, Fail, LoginBegin, LogoutAll, ResetPassword, Goto, Hold, IInv, TypeOK
    <2>3. CASE Handle(r) \/ \E u \in Users : HandleFor(r, u)
      BY <2>3 DEF Handle, HandleFor, LoginSave, RefreshCreate, CreateRow, RefreshFind,
         RefreshRefused, RefreshUpdate, LogoutDeviceFind, LogoutDeviceRevoke,
         ResetRevoke, Fail, LoginBegin, LogoutAll, ResetPassword, Goto, IInv, TypeOK
    <2>. QED
      BY <2>1, <2>2, <2>3 DEF Next, RoleChange, Tick, vars
  <1>. QED
    BY <1>2, <1>3, <1>4

LEMMA AimedAlways == Spec => []Aimed
  <1>1. Init => Aimed
    BY DEF Init, Aimed
  <1>2. IInv /\ Aimed /\ [Next]_vars => Aimed'
    BY AimedStep
  <1>. QED
    BY <1>1, <1>2, Invariance, PTL DEF Spec

\* No reset is undone: when nothing rests on an old password of a user any more,
\* nothing ever does again.
THEOREM OldPasswordsStayGone == Spec => OldPasswordStaysGone
  <1>1. IInv /\ Aimed /\ [Next]_vars =>
          [\A u \in Users, p \in 1..MaxPwd : OldPasswordGone(u, p) => OldPasswordGone(u, p)']_vars
    <2>. SUFFICES ASSUME IInv, Aimed, [Next]_vars, NEW u \in Users, NEW p \in 1..MaxPwd,
                         OldPasswordGone(u, p)
                  PROVE  OldPasswordGone(u, p)'
      OBVIOUS
    <2>1. RowSources /\ IssuerSources /\ IInv'
      BY NextSources, NextGood DEF Good
    <2>2. pwd[u] \in Nat /\ pwd'[u] \in Nat /\ pwd[u] <= pwd'[u]
      <3>1. pwd \in [Users -> Nat] /\ pwd' \in [Users -> Nat]
        BY <2>1 DEF IInv, TypeOK
      <3>2. UNCHANGED pwd \/ \E r \in Requests, w \in Users : ResetPassword(r, w)
        BY DEF Next, Handle, HandleFor, LoginSave, RefreshCreate, CreateRow,
           RefreshFind, RefreshRefused, RefreshLookup, RefreshUpdate, LogoutDeviceFind,
           LogoutDeviceRevoke, ResetRevoke, Fail, LoginBegin, LogoutAll,
           RoleChange, Tick, vars
      <3>3. ASSUME NEW r \in Requests, NEW w \in Users, ResetPassword(r, w)
            PROVE  pwd[u] <= pwd'[u]
        BY <3>1, <3>3 DEF ResetPassword
      <3>. QED
        BY <3>1, <3>2, <3>3
    <2>3. ASSUME NEW q \in Requests, Live(q)', rows'[q].user = u PROVE rows'[q].pwd >= p
      BY <2>1, <2>3 DEF RowSources, RowAuth, Same, OldPasswordGone
    <2>4. ASSUME NEW r \in Requests, pc'[r] \in Issuing, ctx'[r].user = u PROVE ctx'[r].pwd >= p
      BY <2>1, <2>4 DEF IssuerSources, IssuerAuth, Same, OldPasswordGone
    <2>. QED
      BY <2>2, <2>3, <2>4 DEF OldPasswordGone
  <1>. QED
    BY <1>1, Invariance, AimedAlways, PTL DEF Spec, OldPasswordStaysGone

\* A token of a past second that no row holds and nobody is about to write never
\* gets into a row of its device again.
THEOREM RotatedTokensStayOut == Spec => RotatedTokenStaysOut
  <1>1. IInv /\ Aimed /\ [Next]_vars =>
          [\A s \in sent : s.token.iat < clock /\ ~Holds(s.device, s.token)
             => ~Holds(s.device, s.token)']_vars
    <2>. SUFFICES ASSUME IInv, Aimed, [Next]_vars, NEW s \in sent,
                         s.token.iat < clock, ~Holds(s.device, s.token)
                  PROVE  ~Holds(s.device, s.token)'
      OBVIOUS
    <2>1. RowSources /\ IssuerSources
      BY NextSources
    <2>2. s.token \in Token /\ s.token # None /\ s.token.iat # clock
      BY SessionsAssumption DEF IInv, TypeOK, Cookie, Token
    <2>3. ~\E q \in Requests : Exists(q)' /\ rows'[q].device = s.device /\ rows'[q].token = s.token
      BY <2>1 DEF RowSources, RowToken, Holds
    <2>4. ~\E r \in Requests : pc'[r] \in Issuing /\ ctx'[r].device = s.device /\ ctx'[r].new = s.token
      BY <2>1, <2>2 DEF IssuerSources, IssuerToken, Holds
    <2>. QED
      BY <2>3, <2>4 DEF Holds
  <1>. QED
    BY <1>1, Invariance, AimedAlways, PTL DEF Spec, RotatedTokenStaysOut

-----------------------------------------------------------------------------
(* The sessions implement SignIns.                                          *)

\* A request holds nothing before it is sent.
Fresh == \A r \in Requests : pc[r] = "idle" => ctx[r] = NoCtx

\* One request moves on from where it is, or none does.
LEMMA OneMoves ==
  ASSUME IInv, [Next]_vars
  PROVE  \/ UNCHANGED <<pc, ctx>>
         \/ \E r \in Requests : Alone(r) /\ pc'[r] # "idle"
  <1>1. ASSUME NEW r \in Requests, Handle(r) \/ \E u \in Users : HandleFor(r, u)
        PROVE  Alone(r) /\ pc'[r] # "idle"
    BY <1>1 DEF Handle, HandleFor, LoginSave, RefreshCreate, CreateRow, RefreshFind,
       RefreshRefused, RefreshLookup, RefreshUpdate, LogoutDeviceFind, LogoutDeviceRevoke,
       ResetRevoke, Fail, LoginBegin, LogoutAll, ResetPassword, Goto, Hold, Alone, IInv, TypeOK
  <1>. QED
    BY <1>1 DEF Next, RoleChange, Tick, vars

LEMMA FreshAlways == Spec => []Fresh
  <1>1. Init => Fresh
    BY DEF Init, Fresh
  <1>2. IInv /\ Fresh /\ [Next]_vars => Fresh'
    BY OneMoves DEF Fresh, Alone
  <1>. QED
    BY <1>1, <1>2, Invariance, PTL DEF Spec

\* Only a login gives out a device: what a request finds when it starts is of a
\* device whose login is over, or of none.
LEMMA StartsElsewhere ==
  ASSUME IInv, NEW r \in Requests,
         \/ RefreshFind(r) \/ RefreshRefused(r) \/ LogoutDeviceFind(r)
         \/ \E u \in Users : LogoutAll(r, u) \/ ResetPassword(r, u)
  PROVE  pc[r] = "idle" /\ ctx'[r].device # r
  <1>1. ASSUME NEW s \in sent, pc[r] = "idle"
        PROVE  s.device # r
    BY <1>1 DEF IInv, SentHasRow, HasRow, DevicesOfDone
  <1>2. None # r
    BY SessionsAssumption
  <1>3. CASE RefreshFind(r)
    <2>1. PICK s \in sent, q \in Requests :
            /\ pc[r] = "idle"
            /\ Hold(r, [NoCtx EXCEPT !.user = s.token.user, !.device = s.device,
                                     !.old = s.token, !.pwd = rows[q].pwd])
      BY <1>3 DEF RefreshFind
    <2>2. ctx'[r].device = s.device
      BY <2>1 DEF Hold, NoCtx, IInv, TypeOK
    <2>. QED
      BY <1>1, <2>1, <2>2
  <1>4. CASE RefreshRefused(r)
    <2>1. PICK s \in sent :
            /\ pc[r] = "idle"
            /\ Hold(r, [NoCtx EXCEPT !.user = s.token.user, !.device = s.device,
                                     !.old = s.token])
      BY <1>4 DEF RefreshRefused
    <2>2. ctx'[r].device = s.device
      BY <2>1 DEF Hold, NoCtx, IInv, TypeOK
    <2>. QED
      BY <1>1, <2>1, <2>2
  <1>5. CASE LogoutDeviceFind(r)
    <2>1. PICK s \in sent, q \in Requests :
            /\ pc[r] = "idle"
            /\ Hold(r, [NoCtx EXCEPT !.user = s.token.user, !.device = s.device, !.row = q])
      BY <1>5 DEF LogoutDeviceFind
    <2>2. ctx'[r].device = s.device
      BY <2>1 DEF Hold, NoCtx, IInv, TypeOK
    <2>. QED
      BY <1>1, <2>1, <2>2
  <1>6. ASSUME NEW u \in Users, LogoutAll(r, u) \/ ResetPassword(r, u)
        PROVE  pc[r] = "idle" /\ ctx'[r].device # r
    <2>1. pc[r] = "idle" /\ ctx'[r].device = None
      <3>1. CASE LogoutAll(r, u)
        BY <3>1 DEF LogoutAll, Hold, NoCtx, IInv, TypeOK
      <3>2. CASE ResetPassword(r, u)
        BY <3>2 DEF ResetPassword, Hold, NoCtx, IInv, TypeOK
      <3>. QED
        BY <1>6, <3>1, <3>2
    <2>. QED
      BY <1>2, <2>1
  <1>. QED
    BY <1>3, <1>4, <1>5, <1>6

LEMMA DeviceStays ==
  ASSUME IInv, NEW r \in Requests,
         \/ LoginSave(r) \/ RefreshLookup(r) \/ RefreshUpdate(r) \/ RefreshCreate(r)
         \/ LogoutDeviceRevoke(r) \/ ResetRevoke(r) \/ Fail(r)
  PROVE  ctx'[r].device = ctx[r].device
  <1>1. CASE RefreshLookup(r)
    <2>1. ctx[r] \in Ctx
      BY DEF IInv, TypeOK
    <2>2. \/ UNCHANGED ctx
          \/ ctx'[r] = [ctx[r] EXCEPT !.new = Sign(ctx[r].user, ctx[r].old.perm)]
          \/ \E q \in Requests :
               ctx'[r] = [ctx[r] EXCEPT !.new = Sign(ctx[r].user, ctx[r].old.perm), !.row = q]
      BY <1>1, <2>1 DEF RefreshLookup, LiveRows, Hold, IInv, TypeOK, Ctx
    <2>. QED
      BY <2>1, <2>2 DEF Ctx
  <1>2. CASE ~RefreshLookup(r)
    BY <1>2 DEF LoginSave, RefreshCreate, CreateRow, RefreshUpdate, LogoutDeviceRevoke,
       ResetRevoke, Fail
  <1>. QED
    BY <1>1, <1>2

LEMMA GivenStays ==
  ASSUME IInv, Fresh, [Next]_vars, ~\E r \in Requests, u \in Users : LoginBegin(r, u)
  PROVE  Given' = Given
  <1>1. ASSUME UNCHANGED <<pc, ctx>> PROVE Given' = Given
    BY <1>1 DEF Given
  <1>2. ASSUME NEW r \in Requests, Alone(r),
               ctx'[r].device = ctx[r].device \/ (pc[r] = "idle" /\ ctx'[r].device # r)
        PROVE  Given' = Given
    <2>1. pc[r] = "idle" => ctx[r].device # r
      BY SessionsAssumption DEF Fresh, NoCtx
    <2>. QED
      BY <1>2, <2>1 DEF Given, Alone
  <1>3. ASSUME NEW r \in Requests, Handle(r) \/ \E u \in Users : HandleFor(r, u)
        PROVE  Given' = Given
    <2>1. Alone(r)
      BY <1>3 DEF Handle, HandleFor, LoginSave, RefreshCreate, CreateRow, RefreshFind,
         RefreshRefused, RefreshLookup, RefreshUpdate, LogoutDeviceFind, LogoutDeviceRevoke,
         ResetRevoke, Fail, LoginBegin, LogoutAll, ResetPassword, Goto, Hold, Alone, IInv, TypeOK
    <2>2. ctx'[r].device = ctx[r].device \/ (pc[r] = "idle" /\ ctx'[r].device # r)
      BY <1>3, StartsElsewhere, DeviceStays DEF Handle, HandleFor
    <2>. QED
      BY <1>2, <2>1, <2>2
  <1>. QED
    BY <1>1, <1>3 DEF Next, RoleChange, Tick, vars

\* Without a login nothing is in use that was not before.
LEMMA NoNewSignIn ==
  ASSUME IInv, Aimed, [Next]_vars, ~\E r \in Requests, u \in Users : LoginBegin(r, u)
  PROVE  InUse' \subseteq InUse
  <1>1. RowSources /\ IssuerSources
    BY NextSources
  <1>2. ASSUME NEW q \in Requests, Live(q)'
        PROVE  <<rows'[q].device, rows'[q].user, rows'[q].pwd>> \in InUse
    BY <1>1, <1>2 DEF RowSources, RowAuth, Same, InUse
  <1>3. ASSUME NEW r \in Requests, pc'[r] \in Issuing
        PROVE  <<ctx'[r].device, ctx'[r].user, ctx'[r].pwd>> \in InUse
    BY <1>1, <1>3 DEF IssuerSources, IssuerAuth, Same, InUse
  <1>. QED
    BY <1>2, <1>3 DEF InUse

LEMMA LoginSignsIn ==
  ASSUME IInv, Fresh, NEW r \in Requests, NEW u \in Users, LoginBegin(r, u)
  PROVE  S!SignIn(r, u)
  <1>1. Alone(r) /\ pc[r] = "idle" /\ pc'[r] = "login" /\ UNCHANGED <<rows, pwd>>
    BY DEF LoginBegin, Goto, Hold, Alone, IInv, TypeOK
  <1>2. ctx'[r].device = r /\ ctx'[r].user = u /\ ctx'[r].pwd = pwd[u]
    BY DEF LoginBegin, Hold, NoCtx, IInv, TypeOK
  <1>3. r \notin Given
    BY <1>1, SessionsAssumption DEF Fresh, NoCtx, Given
  <1>4. Given' = Given \cup {r}
    BY <1>1, <1>2 DEF Given, Alone
  <1>5. {q \in Requests : Live(q)}' = {q \in Requests : Live(q)}
    BY <1>1 DEF Live, Exists
  <1>6. {x \in Requests : pc'[x] \in Issuing} = {x \in Requests : pc[x] \in Issuing} \cup {r}
    BY <1>1 DEF Alone, Issuing
  <1>7. r \notin {x \in Requests : pc[x] \in Issuing}
    BY <1>1 DEF Issuing
  <1>8. InUse' = InUse \cup {<<r, u, pwd[u]>>}
    BY <1>1, <1>2, <1>5, <1>6, <1>7 DEF InUse, Alone
  <1>. QED
    BY <1>1, <1>3, <1>4, <1>8 DEF S!SignIn

LEMMA ResetChangesPassword ==
  ASSUME IInv, Fresh, NEW r \in Requests, NEW u \in Users, ResetPassword(r, u), Given' = Given
  PROVE  S!ChangePassword(u)
  <1>1. Alone(r) /\ pc[r] = "idle" /\ pc'[r] = "cutting" /\ UNCHANGED rows
    BY DEF ResetPassword, Goto, Hold, Alone, IInv, TypeOK
  <1>2. {x \in Requests : pc'[x] \in Issuing} = {x \in Requests : pc[x] \in Issuing}
    BY <1>1 DEF Alone, Issuing
  <1>3. \A x \in Requests : pc[x] \in Issuing => ctx'[x] = ctx[x]
    BY <1>1 DEF Alone, Issuing
  <1>4. {q \in Requests : Live(q)}' = {q \in Requests : Live(q)}
    BY <1>1 DEF Live, Exists
  <1>5. InUse' = InUse
    BY <1>1, <1>2, <1>3, <1>4 DEF InUse
  <1>. QED
    BY <1>5 DEF ResetPassword, S!ChangePassword

\* Every step of the handlers is a sign-in, the end of some, a change of
\* password, or none of these: whatever refreshes race with logouts and resets,
\* what can act for a user goes back to one login on its device.
THEOREM Refinement == Spec => ImplementsSignIns
  <1>1. Init => S!Init
    <2>. SUFFICES ASSUME Init PROVE S!Init
      OBVIOUS
    <2>1. Given = {}
      BY SessionsAssumption DEF Init, Given, NoCtx
    <2>2. InUse = {}
      BY DEF Init, InUse, Live, Exists, Issuing
    <2>. QED
      BY <2>1, <2>2 DEF Init, S!Init
  <1>2. IInv /\ Aimed /\ Fresh /\ [Next]_vars => [S!Next]_(S!vars)
    <2>. SUFFICES ASSUME IInv, Aimed, Fresh, [Next]_vars PROVE [S!Next]_(S!vars)
      OBVIOUS
    <2>1. ASSUME NEW r \in Requests, NEW u \in Users, LoginBegin(r, u) PROVE S!Next
      BY <2>1, LoginSignsIn DEF S!Next
    <2>2. CASE ~\E r \in Requests, u \in Users : LoginBegin(r, u)
      <3>1. Given' = Given /\ InUse' \subseteq InUse
        BY <2>2, GivenStays, NoNewSignIn
      <3>2. ASSUME NEW r \in Requests, NEW u \in Users, ResetPassword(r, u) PROVE S!Next
        BY <3>1, <3>2, ResetChangesPassword DEF S!Next
      <3>3. CASE UNCHANGED pwd
        BY <3>1, <3>3 DEF S!Next, S!End
      <3>4. UNCHANGED pwd \/ \E r \in Requests, u \in Users : ResetPassword(r, u)
        BY DEF Next, Handle, HandleFor, LoginSave, RefreshCreate, CreateRow,
           RefreshFind, RefreshRefused, RefreshLookup, RefreshUpdate, LogoutDeviceFind,
           LogoutDeviceRevoke, ResetRevoke, Fail, LoginBegin, LogoutAll,
           RoleChange, Tick, vars
      <3>. QED
        BY <3>2, <3>3, <3>4
    <2>. QED
      BY <2>1, <2>2
  <1>. QED
    BY <1>1, <1>2, Invariance, AimedAlways, FreshAlways, PTL DEF Spec, ImplementsSignIns, S!Spec
=============================================================================
