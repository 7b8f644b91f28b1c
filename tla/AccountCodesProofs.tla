------------------------- MODULE AccountCodesProofs -------------------------
(***************************************************************************)
(* Theorems about AccountCodes, for any requests and bound: its type       *)
(* invariant, CodeAccounted, MissingReplicaHasCause, PasswordHasProof,     *)
(* LateRefusalHasRival and the action property SpentForGood.  IInv adds    *)
(* what a request holds between its statements, and what the state of a    *)
(* reset row says of the requests that used it.                            *)
(***************************************************************************)
EXTENDS AccountCodes, TLAPS

USE AccountCodesAssumption, NoneAssumption

-----------------------------------------------------------------------------
(* The inductive invariant.                                                *)

\* A request holds the code of the reset row it has found.
Holds(r) == row[r] \in Requests /\ got[r] = [form |-> "raw", code |-> row[r]]

\* What the position of a request says.
Placed == \A r \in Requests :
  /\ resets[r] # "none" => pc[r] \in {"enqueue", "ok", "aborted"}
  /\ pc[r] \in {"replica", "otp", "store", "find", "activate", "change"} => account # "none"
  /\ pc[r] \in {"mark", "change", "delete", "logout"} => Holds(r) /\ resets[row[r]] # "none"
  /\ pc[r] \in {"change", "delete", "logout"} => row[r] \in proven
  /\ pc[r] = "change" => row[r] \notin spentAt[r]
  /\ pc[r] = "logout" => resets[row[r]] = "deleted"

\* The request that deleted row q, which may since have been cut short.
Deleter(r, q) == /\ row[r] = q /\ got[r] = [form |-> "raw", code |-> q]
                 /\ pc[r] \in {"logout", "aborted"} \/ (pc[r] = "ok" /\ q \in spent)

\* A row is marked before it is used, and used up by one request that deleted it.
UsedUp == \A q \in Requests :
  /\ resets[q] \in {"used", "deleted"} => q \in proven
  /\ q \in spent => resets[q] = "deleted"
  /\ resets[q] = "deleted" => \E r \in Requests : Deleter(r, q)

\* A password that is not the one of the registration was set by a request that
\* held a verified code; refused, it has lost its row.
Changed ==
  /\ pwd = Earlier => maker = Earlier
  /\ \A r \in Requests : pwd = r /\ r # maker =>
       /\ pc[r] \in {"delete", "logout", "ok", "refused", "aborted"}
       /\ Holds(r) /\ row[r] \in proven
       /\ pc[r] = "refused" => resets[row[r]] = "deleted"

\* The request whose code is stored is about to send it, or done.
Sending == otp # None => pc[otp.code] \in {"enqueue", "publish", "ok", "aborted"}

IInv == TypeOK /\ Placed /\ UsedUp /\ Changed /\ Sending
        /\ CodeAccounted /\ MissingReplicaHasCause

-----------------------------------------------------------------------------
(* Shapes of steps.                                                        *)

LEMMA InitIInv == Init => IInv
<1> SUFFICES ASSUME Init PROVE IInv
  OBVIOUS
<1>1. TypeOK
  BY DEF Init, TypeOK, Steps
<1>2. Placed /\ UsedUp /\ Changed /\ Sending /\ CodeAccounted /\ MissingReplicaHasCause
  BY DEF Init, Placed, UsedUp, Changed, Sending, CodeAccounted, MissingReplicaHasCause
<1> QED
  BY <1>1, <1>2 DEF IInv

\* A request moves on and at most sends its code.
LEMMA MoveStep ==
  ASSUME IInv, NEW r \in Requests, pc[r] \notin Ended,
         NEW l \in {"create", "draw", "store", "activate", "ok", "refused", "aborted"},
         Goto(r, l), UNCHANGED <<data, mailbox, history>>,
         jobs \subseteq jobs', jobs' \subseteq Requests, events \subseteq events', events' \subseteq Requests,
         lost \subseteq lost', lost' \subseteq Requests,
         l \in {"store", "activate"} => account # "none",
         pc[r] \in {"enqueue", "publish"} =>
           l = "aborted" \/ (l = "ok" /\ r \in jobs' \cup events' \cup lost'),
         pc[r] \in {"replica", "logout"} => l = "aborted",
         pc[r] = "delete" => l = "aborted" \/ (l = "refused" /\ resets[row[r]] = "deleted")
  PROVE  IInv'
<1>1. pc'[r] = l /\ \A q \in Requests \ {r} : pc'[q] = pc[q]
  BY DEF Goto, IInv, TypeOK
<1>2. UNCHANGED <<account, pwd, otp, resets, stale, replica, mailbox, got, row, maker, proven, spent, spentAt>>
  BY DEF data, history, Goto
<1>3. TypeOK'
  <2>1. pc' \in [Requests -> Steps]
    BY DEF Goto, Steps, IInv, TypeOK
  <2> QED
    BY <1>2, <2>1 DEF IInv, TypeOK
<1>4. Placed'
  BY <1>1, <1>2 DEF IInv, Placed, Holds, Ended
<1>5. UsedUp'
  <2>1. \A x, q \in Requests : Deleter(x, q) => Deleter(x, q)'
    BY <1>1, <1>2 DEF Deleter, Ended
  <2> QED
    BY <1>2, <2>1 DEF IInv, UsedUp
<1>6. Changed'
  BY <1>1, <1>2 DEF IInv, Changed, Holds, Ended
<1>7. Sending' /\ CodeAccounted'
  BY <1>1, <1>2 DEF IInv, Sending, CodeAccounted, Ended, TypeOK, Otps
<1>8. MissingReplicaHasCause'
  BY <1>1, <1>2 DEF IInv, MissingReplicaHasCause, Ended
<1> QED
  BY <1>3, <1>4, <1>5, <1>6, <1>7, <1>8 DEF IInv

\* A request has found the row of the code it submits.
LEMMA BeginStep ==
  ASSUME IInv, NEW r \in Requests, pc[r] = "idle", NEW l \in {"find", "mark", "change"},
         pc' = [pc EXCEPT ![r] = l], account # "none",
         got' \in [Requests -> Codes \cup {None}], row' \in [Requests -> Requests \cup {None}],
         spentAt' \in [Requests -> SUBSET Requests],
         \A q \in Requests \ {r} : got'[q] = got[q] /\ row'[q] = row[q] /\ spentAt'[q] = spentAt[q],
         UNCHANGED <<data, mail, maker, proven, spent>>,
         l # "find" => Holds(r)' /\ resets[row'[r]] # "none",
         l = "change" => row'[r] \in proven /\ row'[r] \notin spentAt'[r]
  PROVE  IInv'
<1>1. pc'[r] = l /\ \A q \in Requests \ {r} : pc'[q] = pc[q]
  BY DEF IInv, TypeOK
<1>2. UNCHANGED <<account, pwd, otp, resets, stale, replica, jobs, events, mailbox, lost, maker, proven, spent>>
  BY DEF data, mail
<1>3. TypeOK'
  <2>1. pc' \in [Requests -> Steps]
    BY DEF Steps, IInv, TypeOK
  <2> QED
    BY <1>2, <2>1 DEF IInv, TypeOK
<1>4. Placed'
  <2> SUFFICES ASSUME NEW x \in Requests
               PROVE  /\ resets[x] # "none" => pc'[x] \in {"enqueue", "ok", "aborted"}
                      /\ pc'[x] \in {"replica", "otp", "store", "find", "activate", "change"} => account # "none"
                      /\ pc'[x] \in {"mark", "change", "delete", "logout"} => Holds(x)' /\ resets[row'[x]] # "none"
                      /\ pc'[x] \in {"change", "delete", "logout"} => row'[x] \in proven
                      /\ pc'[x] = "change" => row'[x] \notin spentAt'[x]
                      /\ pc'[x] = "logout" => resets[row'[x]] = "deleted"
    BY <1>2 DEF Placed
  <2>1. CASE x = r
    BY <1>1, <2>1 DEF IInv, Placed
  <2>2. CASE x # r
    <3>1. /\ pc'[x] = pc[x] /\ row'[x] = row[x] /\ spentAt'[x] = spentAt[x]
          /\ Holds(x)' <=> Holds(x)
      BY <1>1, <2>2 DEF Holds
    <3> QED
      BY <3>1 DEF IInv, Placed
  <2> QED
    BY <2>1, <2>2
<1>5. UsedUp'
  <2>1. \A x, q \in Requests : Deleter(x, q) => Deleter(x, q)'
    BY <1>1, <1>2 DEF Deleter
  <2> QED
    BY <1>2, <2>1 DEF IInv, UsedUp
<1>6. Changed'
  <2>1. \A x \in Requests \ {r} : Holds(x)' <=> Holds(x)
    BY <1>1 DEF Holds
  <2>2. ~(pwd = r /\ r # maker)
    BY DEF IInv, Changed
  <2> QED
    BY <1>1, <1>2, <2>1, <2>2 DEF IInv, Changed
<1>7. Sending' /\ CodeAccounted'
  BY <1>1, <1>2 DEF IInv, Sending, CodeAccounted, TypeOK, Otps
<1>8. MissingReplicaHasCause'
  BY <1>1, <1>2 DEF IInv, MissingReplicaHasCause
<1> QED
  BY <1>3, <1>4, <1>5, <1>6, <1>7, <1>8 DEF IInv

\* A code is stored, to be sent.
LEMMA StoreStep ==
  ASSUME IInv, NEW r \in Requests, pc[r] \in {"otp", "store"}, NEW l \in {"enqueue", "publish"},
         Goto(r, l), StoreOtp(r),
         UNCHANGED <<account, pwd, resets, stale, replica, mail, history>>
  PROVE  IInv'
<1>1. pc'[r] = l /\ \A q \in Requests \ {r} : pc'[q] = pc[q]
  BY DEF Goto, IInv, TypeOK
<1>2. UNCHANGED <<account, pwd, resets, stale, replica, jobs, events, mailbox, lost, got, row, maker, proven, spent, spentAt>>
  BY DEF mail, history, Goto
<1>3. otp' = [code |-> r, fresh |-> TRUE] /\ otp' \in Otps /\ otp'.code = r /\ account # "none" /\ resets[r] = "none"
  BY DEF StoreOtp, Otps, IInv, Placed
<1>4. TypeOK'
  <2>1. pc' \in [Requests -> Steps]
    BY DEF Goto, Steps, IInv, TypeOK
  <2> QED
    BY <1>2, <1>3, <2>1 DEF IInv, TypeOK
<1>5. Placed'
  BY <1>1, <1>2 DEF IInv, Placed, Holds
<1>6. UsedUp'
  <2>1. \A x, q \in Requests : Deleter(x, q) => Deleter(x, q)'
    BY <1>1, <1>2 DEF Deleter
  <2> QED
    BY <1>2, <2>1 DEF IInv, UsedUp
<1>7. Changed'
  BY <1>1, <1>2 DEF IInv, Changed, Holds
<1>8. Sending' /\ CodeAccounted'
  BY <1>1, <1>3 DEF Sending, CodeAccounted
<1>9. MissingReplicaHasCause'
  BY <1>1, <1>2 DEF IInv, MissingReplicaHasCause
<1> QED
  BY <1>4, <1>5, <1>6, <1>7, <1>8, <1>9 DEF IInv

\* The request stays where it is; only the mails travel.
LEMMA MailStep ==
  ASSUME IInv, UNCHANGED <<data, control, history>>,
         jobs' \subseteq Requests, events' \subseteq Requests, lost' \subseteq Requests, lost \subseteq lost',
         mailbox' \subseteq [kind : {"verify", "reset"}, form : Forms, code : Requests],
         mailbox \subseteq mailbox',
         \A c \in jobs \cup events :
           c \in jobs' \cup events' \cup lost' \/ \E m \in mailbox' : m.code = c
  PROVE  IInv'
<1>1. UNCHANGED <<account, pwd, otp, resets, stale, replica, pc, got, row, maker, proven, spent, spentAt>>
  BY DEF data, control, history
<1>2. TypeOK'
  BY <1>1 DEF IInv, TypeOK
<1>3. Placed' /\ UsedUp' /\ Changed' /\ Sending' /\ MissingReplicaHasCause'
  BY <1>1 DEF IInv, Placed, Holds, UsedUp, Deleter, Changed, Sending, MissingReplicaHasCause
<1>4. CodeAccounted'
  BY <1>1 DEF IInv, CodeAccounted
<1> QED
  BY <1>2, <1>3, <1>4 DEF IInv

-----------------------------------------------------------------------------
(* Registration and its codes.                                             *)

LEMMA RegisterBeginStep ==
  ASSUME IInv, NEW r \in Requests, RegisterBegin(r) \/ ResendBegin(r) \/ ForgotBegin(r)
  PROVE  IInv'
<1>1. /\ pc[r] = "idle" /\ UNCHANGED <<data, mailbox, history, jobs, events, lost>>
      /\ \E l \in {"create", "store", "draw", "refused", "ok"} :
           Goto(r, l) /\ (l = "store" => account # "none")
  BY DEF RegisterBegin, ResendBegin, ForgotBegin, At, mail
<1>2. jobs \subseteq Requests /\ events \subseteq Requests /\ lost \subseteq Requests
  BY DEF IInv, TypeOK
<1> QED
  BY <1>1, <1>2, MoveStep DEF Ended

LEMMA RegisterCreateStep ==
  ASSUME IInv, NEW r \in Requests, RegisterCreate(r)
  PROVE  IInv'
<1>0. pc[r] = "create" /\ jobs \subseteq Requests /\ events \subseteq Requests /\ lost \subseteq Requests
  BY DEF RegisterCreate, At, IInv, TypeOK
<1>1. CASE Goto(r, "refused") /\ UNCHANGED <<account, pwd, maker>>
  <2>1. UNCHANGED <<data, mailbox, history, jobs, events, lost>>
    BY <1>1 DEF RegisterCreate, data, mail, history
  <2> QED
    BY <1>0, <1>1, <2>1, MoveStep DEF Ended
<1>2. CASE /\ account = "none" /\ account' = "inactive" /\ pwd' = r /\ maker' = r
           /\ Goto(r, "replica")
  <2>1. pc'[r] = "replica" /\ \A q \in Requests \ {r} : pc'[q] = pc[q]
    BY <1>2 DEF Goto, IInv, TypeOK
  <2>2. UNCHANGED <<otp, resets, stale, replica, jobs, events, mailbox, lost, got, row, proven, spent, spentAt>>
    BY <1>2 DEF RegisterCreate, mail, Goto
  <2>3. TypeOK'
    <3>1. pc' \in [Requests -> Steps]
      BY <1>2 DEF Goto, Steps, IInv, TypeOK
    <3> QED
      BY <1>2, <2>2, <3>1 DEF IInv, TypeOK
  <2>4. Placed'
    BY <1>0, <1>2, <2>1, <2>2 DEF IInv, Placed, Holds
  <2>5. UsedUp'
    <3>1. \A x, q \in Requests : Deleter(x, q) => Deleter(x, q)'
      BY <1>0, <2>1, <2>2 DEF Deleter
    <3> QED
      BY <2>2, <3>1 DEF IInv, UsedUp
  <2>6. Changed' /\ MissingReplicaHasCause'
    BY <1>2, <2>1 DEF Changed, MissingReplicaHasCause
  <2>7. Sending' /\ CodeAccounted'
    BY <1>0, <2>1, <2>2 DEF IInv, Sending, CodeAccounted, TypeOK, Otps
  <2> QED
    BY <2>3, <2>4, <2>5, <2>6, <2>7 DEF IInv
<1> QED
  BY <1>1, <1>2 DEF RegisterCreate

LEMMA RegisterReplicaStep ==
  ASSUME IInv, NEW r \in Requests, RegisterReplica(r)
  PROVE  IInv'
<1>1. /\ pc[r] = "replica" /\ pc'[r] = "otp" /\ \A q \in Requests \ {r} : pc'[q] = pc[q]
      /\ replica' = "queued"
      /\ UNCHANGED <<account, pwd, otp, resets, stale, jobs, events, mailbox, lost, got, row, maker, proven, spent, spentAt>>
  BY DEF RegisterReplica, At, Goto, mail, history, IInv, TypeOK
<1>2. TypeOK'
  <2>1. pc' \in [Requests -> Steps]
    BY DEF RegisterReplica, Goto, Steps, IInv, TypeOK
  <2> QED
    BY <1>1, <2>1 DEF IInv, TypeOK
<1>3. Placed'
  BY <1>1 DEF IInv, Placed, Holds
<1>4. UsedUp'
  <2>1. \A x, q \in Requests : Deleter(x, q) => Deleter(x, q)'
    BY <1>1 DEF Deleter
  <2> QED
    BY <1>1, <2>1 DEF IInv, UsedUp
<1>5. Changed' /\ MissingReplicaHasCause'
  BY <1>1 DEF IInv, Changed, Holds, MissingReplicaHasCause
<1>6. Sending' /\ CodeAccounted'
  BY <1>1 DEF IInv, Sending, CodeAccounted, TypeOK, Otps
<1> QED
  BY <1>2, <1>3, <1>4, <1>5, <1>6 DEF IInv

\* The code leaves in a job or an event, or is lost where publish fails.
LEMMA SendStep ==
  ASSUME IInv, NEW r \in Requests,
         RegisterEnqueue(r) \/ ForgotEnqueue(r) \/ ResendPublish(r)
  PROVE  IInv'
<1>1. /\ pc[r] \in {"enqueue", "publish"} /\ Goto(r, "ok") /\ UNCHANGED <<data, mailbox, history>>
      /\ jobs' \in {jobs, jobs \cup {r}} /\ events' \in {events, events \cup {r}}
      /\ lost' \in {lost, lost \cup {r}} /\ r \in jobs' \cup events' \cup lost'
  BY DEF RegisterEnqueue, ForgotEnqueue, ResendPublish, Enqueue, At
<1>2. jobs \subseteq Requests /\ events \subseteq Requests /\ lost \subseteq Requests
  BY DEF IInv, TypeOK
<1>3. /\ jobs \subseteq jobs' /\ jobs' \subseteq Requests /\ events \subseteq events' /\ events' \subseteq Requests
      /\ lost \subseteq lost' /\ lost' \subseteq Requests
  BY <1>1, <1>2
<1> QED
  BY <1>1, <1>3, MoveStep DEF Ended

LEMMA VerifyBeginStep ==
  ASSUME IInv, NEW r \in Requests, NEW c \in Codes, VerifyBegin(r, c)
  PROVE  IInv'
<1>0. pc[r] = "idle" /\ UNCHANGED <<data, mail, history>>
  BY DEF VerifyBegin, At
<1>1. CASE Goto(r, "refused")
  <2>1. /\ UNCHANGED <<mailbox, jobs, events, lost>>
        /\ jobs \subseteq Requests /\ events \subseteq Requests /\ lost \subseteq Requests
    BY <1>0 DEF IInv, TypeOK, mail
  <2> QED
    BY <1>0, <1>1, <2>1, MoveStep DEF Ended
<1>2. CASE /\ account = "inactive"
           /\ got' = [got EXCEPT ![r] = c] /\ pc' = [pc EXCEPT ![r] = "find"]
           /\ UNCHANGED row
  <2>1. /\ got' \in [Requests -> Codes \cup {None}] /\ row' \in [Requests -> Requests \cup {None}]
        /\ spentAt' \in [Requests -> SUBSET Requests]
        /\ \A q \in Requests \ {r} : got'[q] = got[q] /\ row'[q] = row[q] /\ spentAt'[q] = spentAt[q]
        /\ UNCHANGED <<data, mail, maker, proven, spent>>
    BY <1>0, <1>2 DEF IInv, TypeOK, history
  <2> QED
    BY <1>0, <1>2, <2>1, BeginStep
<1> QED
  BY <1>1, <1>2 DEF VerifyBegin

LEMMA VerifyFindStep ==
  ASSUME IInv, NEW r \in Requests, VerifyFind(r)
  PROVE  IInv'
<1>1. /\ pc[r] = "find" /\ account # "none" /\ UNCHANGED <<data, history, mailbox, jobs, events, lost>>
      /\ Goto(r, "activate") \/ Goto(r, "refused")
      /\ jobs \subseteq Requests /\ events \subseteq Requests /\ lost \subseteq Requests
  BY DEF VerifyFind, At, IInv, Placed, TypeOK, mail
<1> QED
  BY <1>1, MoveStep DEF Ended

LEMMA VerifyActivateStep ==
  ASSUME IInv, NEW r \in Requests, VerifyActivate(r)
  PROVE  IInv'
<1>1. /\ pc[r] = "activate" /\ pc'[r] = "ok" /\ \A q \in Requests \ {r} : pc'[q] = pc[q]
      /\ account # "none" /\ account' = "active"
      /\ UNCHANGED <<pwd, otp, resets, stale, replica, jobs, events, mailbox, lost, got, row, maker, proven, spent, spentAt>>
  BY DEF VerifyActivate, At, Goto, mail, history, IInv, TypeOK, Placed
<1>2. TypeOK'
  <2>1. pc' \in [Requests -> Steps]
    BY DEF VerifyActivate, Goto, Steps, IInv, TypeOK
  <2> QED
    BY <1>1, <2>1 DEF IInv, TypeOK
<1>3. Placed'
  BY <1>1 DEF IInv, Placed, Holds
<1>4. UsedUp'
  <2>1. \A x, q \in Requests : Deleter(x, q) => Deleter(x, q)'
    BY <1>1 DEF Deleter
  <2> QED
    BY <1>1, <2>1 DEF IInv, UsedUp
<1>5. Changed' /\ MissingReplicaHasCause'
  BY <1>1 DEF IInv, Changed, Holds, MissingReplicaHasCause
<1>6. Sending' /\ CodeAccounted'
  BY <1>1 DEF IInv, Sending, CodeAccounted, TypeOK, Otps
<1> QED
  BY <1>2, <1>3, <1>4, <1>5, <1>6 DEF IInv

-----------------------------------------------------------------------------
(* The forgotten password.                                                 *)

LEMMA ForgotCreateStep ==
  ASSUME IInv, NEW r \in Requests, ForgotCreate(r)
  PROVE  IInv'
<1>1. /\ pc[r] = "draw" /\ pc'[r] = "enqueue" /\ \A q \in Requests \ {r} : pc'[q] = pc[q]
      /\ resets'[r] = "open" /\ \A q \in Requests \ {r} : resets'[q] = resets[q]
      /\ resets[r] = "none"
      /\ UNCHANGED <<account, pwd, otp, stale, replica, jobs, events, mailbox, lost, got, row, maker, proven, spent, spentAt>>
  BY DEF ForgotCreate, At, Goto, mail, history, IInv, TypeOK, Placed
<1>2. TypeOK'
  <2>1. pc' \in [Requests -> Steps] /\ resets' \in [Requests -> {"none", "open", "used", "deleted"}]
    BY DEF ForgotCreate, Goto, Steps, IInv, TypeOK
  <2> QED
    BY <1>1, <2>1 DEF IInv, TypeOK
<1>3. Placed'
  BY <1>1 DEF IInv, Placed, Holds
<1>4. UsedUp'
  <2>1. \A x, q \in Requests : Deleter(x, q) => Deleter(x, q)'
    BY <1>1 DEF Deleter
  <2> QED
    BY <1>1, <2>1 DEF IInv, UsedUp
<1>5. Changed' /\ MissingReplicaHasCause'
  BY <1>1 DEF IInv, Changed, Holds, MissingReplicaHasCause
<1>6. Sending' /\ CodeAccounted'
  BY <1>1 DEF IInv, Sending, CodeAccounted, TypeOK, Otps
<1> QED
  BY <1>2, <1>3, <1>4, <1>5, <1>6 DEF IInv

\* The row that is picked is one of those the query selects, and is opened.
LEMMA PickStep ==
  ASSUME IInv, NEW r \in Requests, NEW c \in Codes, NEW rows, NEW l \in {"mark", "change"},
         Pick(r, c, rows, l),
         \A q \in rows : q \in Requests /\ resets[q] # "none",
         l = "change" => \A q \in rows : q \in proven /\ q \notin spent
  PROVE  IInv'
<1>0. pc[r] = "idle" /\ UNCHANGED <<data, mail, maker, proven, spent>>
  BY DEF Pick, At
<1>1. CASE Goto(r, "refused") /\ UNCHANGED spentAt
  <2>1. /\ UNCHANGED <<mailbox, jobs, events, lost, data, history>>
        /\ jobs \subseteq Requests /\ events \subseteq Requests /\ lost \subseteq Requests
    BY <1>0, <1>1 DEF IInv, TypeOK, mail, history
  <2> QED
    BY <1>0, <1>1, <2>1, MoveStep DEF Ended
<1>2. CASE /\ account # "none"
           /\ \E q \in rows : Opens(c, q) /\ row' = [row EXCEPT ![r] = q]
           /\ pc' = [pc EXCEPT ![r] = l]
           /\ got' = [got EXCEPT ![r] = c]
           /\ spentAt' = [spentAt EXCEPT ![r] = spent]
  <2>1. PICK q \in rows : Opens(c, q) /\ row' = [row EXCEPT ![r] = q]
    BY <1>2
  <2>2. q \in Requests /\ resets[q] # "none"
    BY <2>1
  <2>3. /\ got' \in [Requests -> Codes \cup {None}] /\ row' \in [Requests -> Requests \cup {None}]
        /\ spentAt' \in [Requests -> SUBSET Requests]
        /\ \A x \in Requests \ {r} : got'[x] = got[x] /\ row'[x] = row[x] /\ spentAt'[x] = spentAt[x]
        /\ row'[r] = q /\ got'[r] = c /\ spentAt'[r] = spent
    BY <1>2, <2>1, <2>2 DEF IInv, TypeOK
  <2>4. c = [form |-> "raw", code |-> q]
    BY <2>1 DEF Opens, Codes
  <2>5. Holds(r)'
    BY <2>2, <2>3, <2>4 DEF Holds
  <2>6. resets[row'[r]] # "none" /\ (l = "change" => row'[r] \in proven /\ row'[r] \notin spentAt'[r])
    BY <2>1, <2>2, <2>3
  <2>7. pc' = [pc EXCEPT ![r] = l] /\ account # "none" /\ l \in {"find", "mark", "change"}
    BY <1>2
  <2> QED
    BY <1>0, <2>3, <2>5, <2>6, <2>7, BeginStep
<1> QED
  BY <1>1, <1>2 DEF Pick

\* A used code is not spent: a spent one has lost its row.
LEMMA SubmitStep ==
  ASSUME IInv, NEW r \in Requests, Submit(r)
  PROVE  IInv'
<1>1. Issued \subseteq Requests
  BY DEF Issued, IInv, TypeOK, Otps
<1>2. PICK q \in Issued, form \in Forms :
        \/ VerifyBegin(r, [form |-> form, code |-> q])
        \/ CheckReset(r, [form |-> form, code |-> q])
        \/ BeginReset(r, [form |-> form, code |-> q])
  BY DEF Submit
<1> DEFINE c == [form |-> form, code |-> q]
<1>3. c \in Codes
  BY <1>1, <1>2 DEF Codes
<1> HIDE DEF c
<1>4. CASE VerifyBegin(r, c)
  BY <1>3, <1>4, VerifyBeginStep
<1>5. CASE CheckReset(r, c)
  BY <1>3, <1>5, PickStep DEF CheckReset
<1>6. CASE BeginReset(r, c)
  BY <1>3, <1>6, PickStep DEF BeginReset, IInv, UsedUp
<1> QED
  BY <1>2, <1>4, <1>5, <1>6 DEF c

LEMMA MarkResetStep ==
  ASSUME IInv, NEW r \in Requests, MarkReset(r)
  PROVE  IInv'
<1> DEFINE q == row[r]
<1>0. pc[r] = "mark" /\ q \in Requests /\ resets[q] # "none"
      /\ jobs \subseteq Requests /\ events \subseteq Requests /\ lost \subseteq Requests
  BY DEF MarkReset, At, IInv, Placed, Holds, TypeOK
<1>1. CASE Goto(r, "refused") /\ UNCHANGED <<resets, proven>>
  <2>1. UNCHANGED <<data, mailbox, history, jobs, events, lost>>
    BY <1>1 DEF MarkReset, data, mail, history
  <2> QED
    BY <1>0, <1>1, <2>1, MoveStep DEF Ended
<1>2. CASE /\ resets[q] # "deleted"
           /\ resets' = [resets EXCEPT ![q] = "used"] /\ proven' = proven \cup {q}
           /\ Goto(r, "ok")
  <2>1. /\ pc'[r] = "ok" /\ \A x \in Requests \ {r} : pc'[x] = pc[x]
        /\ resets'[q] = "used" /\ \A x \in Requests \ {q} : resets'[x] = resets[x]
        /\ UNCHANGED <<account, pwd, otp, stale, replica, jobs, events, mailbox, lost, got, row, maker, spent, spentAt>>
    BY <1>0, <1>2 DEF MarkReset, Goto, mail, IInv, TypeOK
  <2>2. TypeOK'
    <3>1. pc' \in [Requests -> Steps] /\ resets' \in [Requests -> {"none", "open", "used", "deleted"}]
      BY <1>0, <1>2 DEF Goto, Steps, IInv, TypeOK
    <3> QED
      BY <1>0, <1>2, <2>1, <3>1 DEF IInv, TypeOK
  <2>3. Placed'
    BY <1>0, <1>2, <2>1 DEF IInv, Placed, Holds
  <2>4. UsedUp'
    <3>1. \A x, y \in Requests : Deleter(x, y) => Deleter(x, y)'
      BY <1>0, <2>1 DEF Deleter
    <3> QED
      BY <1>0, <1>2, <2>1, <3>1 DEF IInv, UsedUp
  <2>5. Changed'
    BY <1>0, <1>2, <2>1 DEF IInv, Changed, Holds
  <2>6. MissingReplicaHasCause'
    BY <1>0, <2>1 DEF IInv, MissingReplicaHasCause
  <2>7. Sending' /\ CodeAccounted'
    BY <1>0, <2>1 DEF IInv, Sending, CodeAccounted, TypeOK, Otps
  <2> QED
    BY <2>2, <2>3, <2>4, <2>5, <2>6, <2>7 DEF IInv
<1> QED
  BY <1>1, <1>2 DEF MarkReset

LEMMA ChangePasswordStep ==
  ASSUME IInv, NEW r \in Requests, ChangePassword(r)
  PROVE  IInv'
<1>1. /\ pc[r] = "change" /\ pc'[r] = "delete" /\ \A q \in Requests \ {r} : pc'[q] = pc[q]
      /\ pwd' = r /\ account # "none" /\ Holds(r) /\ row[r] \in proven
      /\ UNCHANGED <<account, otp, resets, stale, replica, jobs, events, mailbox, lost, got, row, maker, proven, spent, spentAt>>
  BY DEF ChangePassword, At, Goto, mail, history, IInv, TypeOK, Placed
<1>2. TypeOK'
  <2>1. pc' \in [Requests -> Steps]
    BY DEF ChangePassword, Goto, Steps, IInv, TypeOK
  <2> QED
    BY <1>1, <2>1 DEF IInv, TypeOK
<1>3. Placed'
  BY <1>1 DEF IInv, Placed, Holds
<1>4. UsedUp'
  <2>1. \A x, q \in Requests : Deleter(x, q) => Deleter(x, q)'
    BY <1>1 DEF Deleter
  <2> QED
    BY <1>1, <2>1 DEF IInv, UsedUp
<1>5. Changed' /\ MissingReplicaHasCause'
  BY <1>1 DEF IInv, Changed, Holds, MissingReplicaHasCause
<1>6. Sending' /\ CodeAccounted'
  BY <1>1 DEF IInv, Sending, CodeAccounted, TypeOK, Otps
<1> QED
  BY <1>2, <1>3, <1>4, <1>5, <1>6 DEF IInv

\* The request that deletes the row becomes its deleter.
LEMMA DeleteResetStep ==
  ASSUME IInv, NEW r \in Requests, DeleteReset(r)
  PROVE  IInv'
<1> DEFINE q == row[r]
<1>0. pc[r] = "delete" /\ Holds(r) /\ q \in Requests /\ q \in proven /\ resets[q] # "none"
      /\ jobs \subseteq Requests /\ events \subseteq Requests /\ lost \subseteq Requests
  BY DEF DeleteReset, At, IInv, Placed, Holds, TypeOK
<1>1. CASE resets[q] = "deleted" /\ Goto(r, "refused") /\ UNCHANGED resets
  <2>1. UNCHANGED <<data, mailbox, history, jobs, events, lost>>
    BY <1>1 DEF DeleteReset, data, mail
  <2> QED
    BY <1>0, <1>1, <2>1, MoveStep DEF Ended
<1>2. CASE resets' = [resets EXCEPT ![q] = "deleted"] /\ Goto(r, "logout")
  <2>1. /\ pc'[r] = "logout" /\ \A x \in Requests \ {r} : pc'[x] = pc[x]
        /\ resets'[q] = "deleted" /\ \A x \in Requests \ {q} : resets'[x] = resets[x]
        /\ UNCHANGED <<account, pwd, otp, stale, replica, jobs, events, mailbox, lost, got, row, maker, proven, spent, spentAt>>
    BY <1>0, <1>2 DEF DeleteReset, Goto, mail, history, IInv, TypeOK
  <2>2. TypeOK'
    <3>1. pc' \in [Requests -> Steps] /\ resets' \in [Requests -> {"none", "open", "used", "deleted"}]
      BY <1>0, <1>2 DEF Goto, Steps, IInv, TypeOK
    <3> QED
      BY <1>0, <2>1, <3>1 DEF IInv, TypeOK
  <2>3. Placed'
    BY <1>0, <2>1 DEF IInv, Placed, Holds
  <2>4. UsedUp'
    <3>1. \A x, y \in Requests : Deleter(x, y) => Deleter(x, y)'
      BY <1>0, <2>1 DEF Deleter
    <3>2. Deleter(r, q)'
      BY <1>0, <2>1 DEF Deleter, Holds
    <3> QED
      BY <1>0, <2>1, <3>1, <3>2 DEF IInv, UsedUp
  <2>5. Changed'
    BY <1>0, <2>1 DEF IInv, Changed, Holds
  <2>6. MissingReplicaHasCause'
    BY <1>0, <2>1 DEF IInv, MissingReplicaHasCause
  <2>7. Sending' /\ CodeAccounted'
    BY <1>0, <2>1 DEF IInv, Sending, CodeAccounted, TypeOK, Otps
  <2> QED
    BY <2>2, <2>3, <2>4, <2>5, <2>6, <2>7 DEF IInv
<1> QED
  BY <1>1, <1>2 DEF DeleteReset

LEMMA ResetAnswerStep ==
  ASSUME IInv, NEW r \in Requests, ResetAnswer(r)
  PROVE  IInv'
<1>1. /\ pc[r] = "logout" /\ pc'[r] = "ok" /\ \A q \in Requests \ {r} : pc'[q] = pc[q]
      /\ Holds(r) /\ row[r] \in proven /\ resets[row[r]] = "deleted" /\ spent' = spent \cup {row[r]}
      /\ UNCHANGED <<account, pwd, otp, resets, stale, replica, jobs, events, mailbox, lost, got, row, maker, proven, spentAt>>
  BY DEF ResetAnswer, At, Goto, data, mail, IInv, TypeOK, Placed
<1>2. TypeOK'
  <2>1. pc' \in [Requests -> Steps]
    BY DEF ResetAnswer, Goto, Steps, IInv, TypeOK
  <2> QED
    BY <1>1, <2>1 DEF IInv, TypeOK
<1>3. Placed'
  BY <1>1 DEF IInv, Placed, Holds
<1>4. UsedUp'
  <2>1. \A x, q \in Requests : Deleter(x, q) => Deleter(x, q)'
    BY <1>1 DEF Deleter
  <2> QED
    BY <1>1, <2>1 DEF IInv, UsedUp, Holds
<1>5. Changed' /\ MissingReplicaHasCause'
  BY <1>1 DEF IInv, Changed, Holds, MissingReplicaHasCause
<1>6. Sending' /\ CodeAccounted'
  BY <1>1 DEF IInv, Sending, CodeAccounted, TypeOK, Otps
<1> QED
  BY <1>2, <1>3, <1>4, <1>5, <1>6 DEF IInv

LEMMA AbortStep ==
  ASSUME IInv, NEW r \in Requests, Abort(r)
  PROVE  IInv'
<1>1. /\ pc[r] \notin Ended /\ Goto(r, "aborted") /\ UNCHANGED <<data, history, mailbox, jobs, events, lost>>
      /\ jobs \subseteq Requests /\ events \subseteq Requests /\ lost \subseteq Requests
  BY DEF Abort, mail, IInv, TypeOK
<1> QED
  BY <1>1, MoveStep

-----------------------------------------------------------------------------
(* Time and the other services.                                            *)

LEMMA ExpireStep ==
  ASSUME IInv, Expire
  PROVE  IInv'
<1>1. /\ UNCHANGED <<account, pwd, resets, replica, jobs, events, mailbox, lost, pc, got, row, maker, proven, spent, spentAt>>
      /\ \/ UNCHANGED otp
         \/ otp # None /\ otp' = [otp EXCEPT !.fresh = FALSE]
      /\ stale' \subseteq {q \in Requests : resets[q] # "none"}
  BY DEF Expire, mail, control, history, IInv, TypeOK
<1>2. /\ otp' \in Otps \cup {None} /\ (otp' # None => account # "none")
      /\ otp' # None => otp # None /\ otp'.code = otp.code
  <2>1. CASE otp # None /\ otp' = [otp EXCEPT !.fresh = FALSE]
    BY <2>1 DEF IInv, TypeOK, Otps
  <2>2. CASE UNCHANGED otp
    BY <2>2 DEF IInv, TypeOK
  <2> QED
    BY <1>1, <2>1, <2>2
<1>3. TypeOK'
  BY <1>1, <1>2 DEF IInv, TypeOK
<1>4. Placed' /\ UsedUp' /\ Changed' /\ MissingReplicaHasCause'
  BY <1>1 DEF IInv, Placed, Holds, UsedUp, Deleter, Changed, MissingReplicaHasCause
<1>5. Sending' /\ CodeAccounted'
  BY <1>1, <1>2 DEF IInv, Sending, CodeAccounted
<1> QED
  BY <1>3, <1>4, <1>5 DEF IInv

LEMMA MailedFacts ==
  ASSUME IInv, NEW c \in Requests, NEW kind \in {"verify", "reset"}, NEW form \in Forms, Mail(kind, form, c)
  PROVE  /\ mailbox' \subseteq [kind : {"verify", "reset"}, form : Forms, code : Requests]
         /\ mailbox \subseteq mailbox' /\ \E m \in mailbox' : m.code = c
<1> DEFINE m == [kind |-> kind, form |-> form, code |-> c]
<1>1. m \in [kind : {"verify", "reset"}, form : Forms, code : Requests] /\ m.code = c
  OBVIOUS
<1>2. mailbox' = mailbox \cup {m}
  BY DEF Mail
<1> HIDE DEF m
<1> QED
  BY <1>1, <1>2 DEF IInv, TypeOK

LEMMA RunStep ==
  ASSUME IInv, NEW c \in Requests, JobRun(c) \/ EventRun(c)
  PROVE  IInv'
<1>0. /\ jobs \subseteq Requests /\ events \subseteq Requests /\ lost \subseteq Requests
      /\ mailbox \subseteq [kind : {"verify", "reset"}, form : Forms, code : Requests]
      /\ UNCHANGED <<data, control, history>>
  BY DEF IInv, TypeOK, JobRun, EventRun
<1>1. CASE Mail(Kind(c), "enc", c) /\ jobs' \in {jobs, jobs \ {c}} /\ UNCHANGED <<events, lost>>
  <2>1. /\ mailbox' \subseteq [kind : {"verify", "reset"}, form : Forms, code : Requests]
        /\ mailbox \subseteq mailbox' /\ \E m \in mailbox' : m.code = c
    BY <1>1, MailedFacts DEF Kind, Forms
  <2> QED
    BY <1>0, <1>1, <2>1, MailStep
<1>2. CASE Mail("verify", "hash", c) /\ events' \in {events, events \ {c}} /\ UNCHANGED <<jobs, lost>>
  <2>1. /\ mailbox' \subseteq [kind : {"verify", "reset"}, form : Forms, code : Requests]
        /\ mailbox \subseteq mailbox' /\ \E m \in mailbox' : m.code = c
    BY <1>2, MailedFacts DEF Forms
  <2> QED
    BY <1>0, <1>2, <2>1, MailStep
<1>3. CASE jobs' = jobs \ {c} /\ lost' = lost \cup {c} /\ UNCHANGED <<mailbox, events>>
  BY <1>0, <1>3, MailStep
<1>4. CASE events' = events \ {c} /\ lost' = lost \cup {c} /\ UNCHANGED <<mailbox, jobs>>
  BY <1>0, <1>4, MailStep
<1> QED
  BY <1>1, <1>2, <1>3, <1>4 DEF JobRun, EventRun

LEMMA ReplicaRunStep ==
  ASSUME IInv, ReplicaRun
  PROVE  IInv'
<1>1. /\ replica = "queued" /\ replica' \in {"synced", "dead"}
      /\ UNCHANGED <<account, pwd, otp, resets, stale, jobs, events, mailbox, lost, pc, got, row, maker, proven, spent, spentAt>>
  BY DEF ReplicaRun, mail, control, history
<1>2. TypeOK'
  BY <1>1 DEF IInv, TypeOK
<1>3. Placed' /\ UsedUp' /\ Changed' /\ Sending' /\ CodeAccounted' /\ MissingReplicaHasCause'
  BY <1>1 DEF IInv, Placed, Holds, UsedUp, Deleter, Changed, Sending, CodeAccounted, MissingReplicaHasCause
<1> QED
  BY <1>2, <1>3 DEF IInv

-----------------------------------------------------------------------------
(* The theorems.                                                           *)

\* Every step of the services keeps IInv.
THEOREM Invariance == Spec => []IInv
<1>1. IInv /\ [Next]_vars => IInv'
  <2> SUFFICES ASSUME IInv, [Next]_vars PROVE IInv'
    OBVIOUS
  <2>1. CASE UNCHANGED vars
    <3>1. UNCHANGED <<account, pwd, otp, resets, stale, replica, jobs, events, mailbox, lost,
                      pc, got, row, maker, proven, spent, spentAt>>
      BY <2>1 DEF vars, data, mail, control, history
    <3>2. TypeOK'
      BY <3>1 DEF IInv, TypeOK
    <3>3. Placed' /\ UsedUp' /\ Changed' /\ Sending' /\ CodeAccounted' /\ MissingReplicaHasCause'
      BY <3>1 DEF IInv, Placed, Holds, UsedUp, Deleter, Changed, Sending, CodeAccounted, MissingReplicaHasCause
    <3> QED
      BY <3>2, <3>3 DEF IInv
  <2>2. ASSUME NEW r \in Requests, Request(r)
        PROVE  IInv'
    <3>1. CASE RegisterBegin(r) \/ RegisterCreate(r) \/ RegisterReplica(r) \/ ResendBegin(r) \/ ForgotBegin(r)
      BY <3>1, RegisterBeginStep, RegisterCreateStep, RegisterReplicaStep
    <3>2. CASE RegisterOtp(r)
      BY <3>2, StoreStep DEF RegisterOtp, At
    <3>3. CASE ResendStore(r)
      BY <3>3, StoreStep DEF ResendStore, At
    <3>4. CASE RegisterEnqueue(r) \/ ForgotEnqueue(r) \/ ResendPublish(r)
      BY <3>4, SendStep
    <3>5. CASE Submit(r) \/ VerifyFind(r) \/ VerifyActivate(r)
      BY <3>5, SubmitStep, VerifyFindStep, VerifyActivateStep
    <3>6. CASE ForgotCreate(r) \/ MarkReset(r) \/ ChangePassword(r) \/ DeleteReset(r) \/ ResetAnswer(r)
      BY <3>6, ForgotCreateStep, MarkResetStep, ChangePasswordStep, DeleteResetStep, ResetAnswerStep
    <3>7. CASE Abort(r)
      BY <3>7, AbortStep
    <3> QED
      BY <2>2, <3>1, <3>2, <3>3, <3>4, <3>5, <3>6, <3>7 DEF Request
  <2> QED
    BY <2>1, <2>2, RunStep, ReplicaRunStep, ExpireStep DEF Next
<1> QED
  BY <1>1, InitIInv, PTL DEF Spec

\* Every variable of AccountCodes keeps its type.
THEOREM TypeCorrect == Spec => []TypeOK
BY Invariance, PTL DEF IInv

\* The stored code of an account is held, under way, mailed, or dropped where
\* the code drops it.
THEOREM CodesAreAccounted == Spec => []CodeAccounted
BY Invariance, PTL DEF IInv

\* A user without a replica comes of a registration cut short.
THEOREM MissingReplicasHaveCause == Spec => []MissingReplicaHasCause
BY Invariance, PTL DEF IInv

\* The password is the registration's, or one whose request held a verified
\* reset code.
THEOREM PasswordsHaveProof == Spec => []PasswordHasProof
<1>1. IInv => PasswordHasProof
  <2> SUFFICES ASSUME IInv, pwd # None, pwd # maker
               PROVE  got[pwd] # None /\ got[pwd].code \in proven
    BY DEF PasswordHasProof
  <2>1. pwd \in Requests /\ got[pwd] = [form |-> "raw", code |-> row[pwd]] /\ row[pwd] \in proven
    BY DEF IInv, TypeOK, Changed, Holds
  <2>2. row[pwd] \in Requests
    BY <2>1 DEF IInv, TypeOK
  <2>3. got[pwd] \in Codes /\ got[pwd].code = row[pwd]
    BY <2>1, <2>2 DEF Codes, Forms
  <2> QED
    BY <2>1, <2>2, <2>3
<1> QED
  BY <1>1, Invariance, PTL

\* A reset refused after it changed the password has a rival that won.
THEOREM LateRefusalsHaveRivals == Spec => []LateRefusalHasRival
<1>1. IInv => LateRefusalHasRival
  <2> SUFFICES ASSUME IInv, NEW r \in Requests, pc[r] = "refused", pwd = r, r # maker
               PROVE  \E q \in Requests \ {r} :
                        /\ got[q] = got[r] /\ resets[row[r]] = "deleted"
                        /\ At(q, "logout") \/ At(q, "aborted") \/ (At(q, "ok") /\ row[r] \in spent)
    BY DEF LateRefusalHasRival, At
  <2>1. Holds(r) /\ resets[row[r]] = "deleted"
    BY DEF IInv, Changed
  <2>2. PICK q \in Requests : Deleter(q, row[r])
    BY <2>1 DEF IInv, UsedUp, Holds
  <2>3. q # r /\ got[q] = got[r]
    BY <2>1, <2>2 DEF Deleter, Holds
  <2> QED
    BY <2>1, <2>2, <2>3 DEF Deleter, At
<1> QED
  BY <1>1, Invariance, PTL

\* A code whose reset was answered with success changes no password of a
\* request that begins later.
THEOREM SpentStaysSpent == Spec => SpentForGood
<1>1. IInv /\ [Next]_vars =>
        [\A r \in Requests : At(r, "change") /\ pc'[r] = "delete" => got[r].code \notin spentAt[r]]_vars
  <2> SUFFICES ASSUME IInv, NEW r \in Requests, pc[r] = "change" PROVE got[r].code \notin spentAt[r]
    BY DEF At
  <2>1. got[r] = [form |-> "raw", code |-> row[r]] /\ row[r] \notin spentAt[r]
    BY DEF IInv, Placed, Holds
  <2> QED
    BY <2>1
<1> QED
  BY <1>1, Invariance, PTL DEF Spec, SpentForGood
=============================================================================
