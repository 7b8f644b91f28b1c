---------------------------- MODULE AccountCodes ----------------------------
(***************************************************************************)
(* One e-mail address in auth-service: register, resend-code and           *)
(* register/verify (AuthService, UsersService), and the three steps of a   *)
(* forgotten password.  The codes they make travel as BullMQ jobs or as    *)
(* the NATS event user.registered to notification-service, which mails     *)
(* them.  A request is used once and is cut at its awaits; Abort is the    *)
(* statement that throws, or the death of the process, at any of them.     *)
(*                                                                         *)
(* A code is named by the request that drew it.  It exists raw, as its     *)
(* Argon2 hash, and as that hash encrypted; the forms differ, and decrypt  *)
(* takes "enc" back to "hash".  EmailOtp.isUsed is written and never read, *)
(* and is left out.                                                        *)
(***************************************************************************)
EXTENDS Naturals, FiniteSets

CONSTANTS
  Requests,     \* requests to auth-service about the address
  Earlier,      \* a registration of an earlier time
  None,         \* null
  MaxAborts     \* bound: requests that fail at an await

ASSUME AccountCodesAssumption == 
  {Earlier, None} \cap Requests = {} /\ Earlier # None /\ MaxAborts \in Nat

VARIABLES
  account,   \* User.isActive of the address, "none" without a row
  pwd,       \* whose password User.passwordHash is
  otp,       \* the EmailOtp row of the user, [code, fresh], or None
  resets,    \* PasswordReset rows, by the request that created them
  stale,     \* reset rows past their expiresAt
  replica,   \* the user's job and row in content-service
  jobs,      \* BullMQ mail jobs with attempts left, by the code they carry
  events,    \* user.registered events to be delivered, by their code
  mailbox,   \* mails received: [kind, form, code]
  pc, got,   \* position of a request, and the code it submitted
  row,       \* the PasswordReset row a request has found
  maker,     \* history: the request that created the user
  proven,    \* history: reset codes marked used
  spent,     \* history: reset codes of resets answered with success
  spentAt,   \* history: spent when the request began
  lost       \* history: codes a mail or an event of which was dropped

data == <<account, pwd, otp, resets, stale, replica>>
mail == <<jobs, events, mailbox, lost>>
control == <<pc, got, row>>
history == <<maker, proven, spent, spentAt>>
vars == <<data, mail, control, history>>

Forms == {"raw", "hash", "enc"}
Codes == [form : Forms, code : Requests]
Otps == [code : Requests, fresh : BOOLEAN]
Steps == {"idle", "create", "replica", "otp", "enqueue", "store", "publish",
          "find", "activate", "draw", "compare", "mark", "change", "delete",
          "logout", "ok", "refused", "aborted"}
Ended == {"ok", "refused", "aborted"}

ASSUME NoneAssumption == None \notin Otps \cup Codes

TypeOK ==
  /\ account \in {"none", "inactive", "active"}
  /\ pwd \in Requests \cup {Earlier, None} /\ (pwd = None <=> account = "none")
  /\ otp \in Otps \cup {None} /\ (otp # None => account # "none")
  /\ resets \in [Requests -> {"none", "open", "used", "deleted"}]
  /\ stale \subseteq {r \in Requests : resets[r] # "none"}
  /\ replica \in {"none", "queued", "synced", "dead"}
  /\ jobs \subseteq Requests /\ events \subseteq Requests
  /\ mailbox \subseteq [kind : {"verify", "reset"}, form : Forms, code : Requests]
  /\ pc \in [Requests -> Steps]
  /\ got \in [Requests -> Codes \cup {None}]
  /\ row \in [Requests -> Requests \cup {None}]
  /\ maker \in Requests \cup {Earlier, None}
  /\ proven \subseteq Requests /\ spent \subseteq proven
  /\ spentAt \in [Requests -> SUBSET Requests]
  /\ lost \subseteq Requests

\* The address is free, or belongs to a user verified long ago.
Init ==
  /\ \/ account = "none" /\ pwd = None /\ maker = None /\ replica = "none"
     \/ account = "active" /\ pwd = Earlier /\ maker = Earlier /\ replica = "synced"
  /\ otp = None
  /\ resets = [r \in Requests |-> "none"] /\ stale = {}
  /\ jobs = {} /\ events = {} /\ mailbox = {} /\ lost = {}
  /\ pc = [r \in Requests |-> "idle"]
  /\ got = [r \in Requests |-> None] /\ row = [r \in Requests |-> None]
  /\ proven = {} /\ spent = {}
  /\ spentAt = [r \in Requests |-> {}]

-----------------------------------------------------------------------------

At(r, l) == pc[r] = l
Goto(r, l) == pc' = [pc EXCEPT ![r] = l] /\ UNCHANGED <<got, row>>

\* A code drawn by r has reached some row of auth-service.
Issued == {r \in Requests : resets[r] # "none"}
          \cup (IF otp = None THEN {} ELSE {otp.code})

-----------------------------------------------------------------------------
\* POST register

\* findUnique by the e-mail.
RegisterBegin(r) ==
  /\ At(r, "idle")
  /\ Goto(r, IF account = "none" THEN "create" ELSE "refused")
  /\ UNCHANGED <<data, mail, history>>

\* user.create: the unique e-mail refuses the second of two registrations
\* that both found none.
RegisterCreate(r) ==
  /\ At(r, "create")
  /\ \/ /\ account = "none"
        /\ account' = "inactive" /\ pwd' = r /\ maker' = r
        /\ Goto(r, "replica")
     \/ /\ account # "none"
        /\ Goto(r, "refused") /\ UNCHANGED <<account, pwd, maker>>
  /\ UNCHANGED <<otp, resets, stale, replica, mail, proven, spent, spentAt>>

\* Mutated RegisterReplica: a user.created job that cannot be enqueued is skipped.
RegisterReplicaSkips(r) ==
  /\ At(r, "replica")
  /\ replica' \in {"queued", replica}
  /\ Goto(r, "otp")
  /\ UNCHANGED <<account, pwd, otp, resets, stale, mail, history>>

\* publishUserCreated: the job of content-service.
RegisterReplica(r) ==
  /\ At(r, "replica")
  /\ replica' = "queued"
  /\ Goto(r, "otp")
  /\ UNCHANGED <<account, pwd, otp, resets, stale, mail, history>>

\* createOrUpdateEmailOtp: one row per user, overwritten.
StoreOtp(r) == otp' = [code |-> r, fresh |-> TRUE]

RegisterOtp(r) ==
  /\ At(r, "otp")
  /\ StoreOtp(r) /\ Goto(r, "enqueue")
  /\ UNCHANGED <<account, pwd, resets, stale, replica, mail, history>>

\* queue.add of a mail job that carries the code of r.
Enqueue(r) == jobs' = jobs \cup {r} /\ UNCHANGED <<events, mailbox, lost>>

\* sendVerifyCode, after the code is stored; the job carries it encrypted.
RegisterEnqueue(r) ==
  /\ At(r, "enqueue") /\ resets[r] = "none"
  /\ Enqueue(r) /\ Goto(r, "ok")
  /\ UNCHANGED <<data, history>>

-----------------------------------------------------------------------------
\* POST resend-code

\* Mutated ResendBegin: a missing user is not refused.
ResendBeginAnyone(r) ==
  /\ At(r, "idle")
  /\ Goto(r, IF account # "active" THEN "store" ELSE "refused")
  /\ UNCHANGED <<data, mail, history>>

ResendBegin(r) ==
  /\ At(r, "idle")
  /\ Goto(r, IF account = "inactive" THEN "store" ELSE "refused")
  /\ UNCHANGED <<data, mail, history>>

ResendStore(r) ==
  /\ At(r, "store")
  /\ StoreOtp(r) /\ Goto(r, "publish")
  /\ UNCHANGED <<account, pwd, resets, stale, replica, mail, history>>

\* natsService.publish: an error, or no connection, is logged and forgotten.
ResendPublish(r) ==
  /\ At(r, "publish")
  /\ \/ events' = events \cup {r} /\ UNCHANGED lost
     \/ lost' = lost \cup {r} /\ UNCHANGED events
  /\ Goto(r, "ok") /\ UNCHANGED <<jobs, mailbox, data, history>>

-----------------------------------------------------------------------------
\* POST register/verify with a code in any form

VerifyBegin(r, c) ==
  /\ At(r, "idle")
  /\ \/ account # "inactive" /\ Goto(r, "refused")
     \/ /\ account = "inactive"
        /\ got' = [got EXCEPT ![r] = c] /\ pc' = [pc EXCEPT ![r] = "find"]
        /\ UNCHANGED row
  /\ UNCHANGED <<data, mail, history>>

\* The where of emailOtp.findFirst: the stored hash itself, not expired.
Matches(c) == otp # None /\ otp.fresh /\ c.form = "hash" /\ c.code = otp.code

VerifyFind(r) ==
  /\ At(r, "find")
  /\ Goto(r, IF Matches(got[r]) THEN "activate" ELSE "refused")
  /\ UNCHANGED <<data, mail, history>>

\* The code is marked and the user activated, whatever became of the row.
VerifyActivate(r) ==
  /\ At(r, "activate")
  /\ account' = "active" /\ Goto(r, "ok")
  /\ UNCHANGED <<pwd, otp, resets, stale, replica, mail, history>>

-----------------------------------------------------------------------------
\* POST forgot/password

\* Every answer is the same, so "ok" stands for it.
ForgotBegin(r) ==
  /\ At(r, "idle")
  /\ Goto(r, IF account = "none" THEN "ok" ELSE "draw")
  /\ UNCHANGED <<data, mail, history>>

ForgotCreate(r) ==
  /\ At(r, "draw")
  /\ resets' = [resets EXCEPT ![r] = "open"] /\ Goto(r, "enqueue")
  /\ UNCHANGED <<account, pwd, otp, stale, replica, mail, history>>

ForgotEnqueue(r) ==
  /\ At(r, "enqueue") /\ resets[r] # "none"
  /\ Enqueue(r) /\ Goto(r, "ok")
  /\ UNCHANGED <<data, history>>

-----------------------------------------------------------------------------
\* POST forgot/password/verify and forgot/password/reset

\* argon2 verify of the submitted code against the hash in row q.
Opens(c, q) == c.form = "raw" /\ c.code = q

\* findOneByEmail, and the first row the query returns: the database may
\* return any of those it selects.
Pick(r, c, rows, next) ==
  /\ At(r, "idle")
  /\ \/ /\ \/ account = "none" \/ rows = {}
           \/ \E q \in rows : ~Opens(c, q)
        /\ Goto(r, "refused") /\ UNCHANGED spentAt
     \/ /\ account # "none"
        /\ \E q \in rows : Opens(c, q) /\ row' = [row EXCEPT ![r] = q]
        /\ pc' = [pc EXCEPT ![r] = next]
        /\ got' = [got EXCEPT ![r] = c]
        /\ spentAt' = [spentAt EXCEPT ![r] = spent]
  /\ UNCHANGED <<data, mail, maker, proven, spent>>

CheckReset(r, c) == Pick(r, c, {q \in Requests : resets[q] = "open" /\ q \notin stale}, "mark")

\* The update fails when the row has been deleted since.
MarkReset(r) ==
  /\ At(r, "mark")
  /\ LET q == row[r] IN
     \/ /\ resets[q] # "deleted"
        /\ resets' = [resets EXCEPT ![q] = "used"] /\ proven' = proven \cup {q}
        /\ Goto(r, "ok")
     \/ /\ resets[q] = "deleted"
        /\ Goto(r, "refused") /\ UNCHANGED <<resets, proven>>
  /\ UNCHANGED <<account, pwd, otp, stale, replica, mail, maker, spent, spentAt>>

\* Mutated BeginReset: a row need not have been verified.
BeginResetUnverified(r, c) == Pick(r, c, {q \in Requests : resets[q] \in {"open", "used"}}, "change")

\* Expiry is not looked at again.
BeginReset(r, c) == Pick(r, c, {q \in Requests : resets[q] = "used"}, "change")

ChangePassword(r) ==
  /\ At(r, "change")
  /\ pwd' = r /\ Goto(r, "delete")
  /\ UNCHANGED <<account, otp, resets, stale, replica, mail, history>>

\* Mutated DeleteReset: the row stays.
DeleteResetKeeps(r) ==
  /\ At(r, "delete")
  /\ Goto(r, "logout")
  /\ UNCHANGED <<data, mail, history>>

\* Mutated DeleteReset: expiry is looked at again, but only here.
DeleteResetFresh(r) ==
  /\ At(r, "delete")
  /\ \/ /\ resets[row[r]] = "used" /\ row[r] \notin stale
        /\ resets' = [resets EXCEPT ![row[r]] = "deleted"] /\ Goto(r, "logout")
     \/ /\ resets[row[r]] = "deleted" \/ row[r] \in stale
        /\ Goto(r, "refused") /\ UNCHANGED resets
  /\ UNCHANGED <<account, pwd, otp, stale, replica, mail, history>>

\* The row is deleted after the password was changed; of two resets with one
\* code the second fails here.
DeleteReset(r) ==
  /\ At(r, "delete")
  /\ \/ /\ resets[row[r]] = "used"
        /\ resets' = [resets EXCEPT ![row[r]] = "deleted"] /\ Goto(r, "logout")
     \/ /\ resets[row[r]] = "deleted"
        /\ Goto(r, "refused") /\ UNCHANGED resets
  /\ UNCHANGED <<account, pwd, otp, stale, replica, mail, history>>

\* logoutAllDevices (see Sessions), and the answer.
ResetAnswer(r) ==
  /\ At(r, "logout")
  /\ spent' = spent \cup {row[r]} /\ Goto(r, "ok")
  /\ UNCHANGED <<data, mail, maker, proven, spentAt>>

-----------------------------------------------------------------------------
\* Failures and the passage of time

Aborted == {r \in Requests : At(r, "aborted")}

\* forgotPassword answers with success all the same.
Abort(r) ==
  /\ pc[r] \notin Ended \cup {"idle"} /\ Cardinality(Aborted) < MaxAborts
  /\ Goto(r, "aborted")
  /\ UNCHANGED <<data, mail, history>>

\* Fifteen minutes.
Expire ==
  \/ /\ otp # None /\ otp.fresh /\ otp' = [otp EXCEPT !.fresh = FALSE]
     /\ UNCHANGED <<account, pwd, resets, stale, replica, mail, control, history>>
  \/ /\ \E r \in Requests : resets[r] # "none" /\ r \notin stale /\ stale' = stale \cup {r}
     /\ UNCHANGED <<account, pwd, otp, resets, replica, mail, control, history>>

-----------------------------------------------------------------------------
\* notification-service and content-service

Kind(c) == IF resets[c] = "none" THEN "verify" ELSE "reset"
Mail(kind, form, c) == mailbox' = mailbox \cup {[kind |-> kind, form |-> form, code |-> c]}

\* Mutated JobRun: a failed mail is not thrown, so the job counts as done.
JobRunSwallows(c) ==
  /\ c \in jobs
  /\ jobs' = jobs \ {c}
  /\ Mail(Kind(c), "enc", c) \/ UNCHANGED mailbox
  /\ UNCHANGED <<events, lost, data, control, history>>

\* JobsService.process mails what the job carries, the encrypted hash.  A job
\* whose mail fails is retried, which changes nothing here, or has had its
\* last attempt; one whose worker dies after the mail runs again.
JobRun(c) ==
  /\ c \in jobs
  /\ \/ Mail(Kind(c), "enc", c) /\ jobs' \in {jobs, jobs \ {c}} /\ UNCHANGED lost
     \/ jobs' = jobs \ {c} /\ lost' = lost \cup {c} /\ UNCHANGED mailbox
  /\ UNCHANGED <<events, data, control, history>>

\* sendMailRegis decrypts and mails; its errors are swallowed and the event is
\* acknowledged.  An event whose acknowledgement is lost comes again.
EventRun(c) ==
  /\ c \in events
  /\ \/ Mail("verify", "hash", c) /\ events' \in {events, events \ {c}} /\ UNCHANGED lost
     \/ events' = events \ {c} /\ lost' = lost \cup {c} /\ UNCHANGED mailbox
  /\ UNCHANGED <<jobs, data, control, history>>

\* JobsService of content-service upserts the replica, or its attempts run out.
ReplicaRun ==
  /\ replica = "queued" /\ replica' \in {"synced", "dead"}
  /\ UNCHANGED <<account, pwd, otp, resets, stale, mail, control, history>>

-----------------------------------------------------------------------------

\* A caller may send any string.  Of those that match nothing the encrypted
\* form is tried, which is what the mails hold.
Submit(r) ==
  \E q \in Issued, form \in Forms :
    LET c == [form |-> form, code |-> q] IN
    \/ form # "raw" /\ VerifyBegin(r, c)
    \/ form # "hash" /\ (CheckReset(r, c) \/ BeginReset(r, c))

Request(r) ==
  \/ RegisterBegin(r) \/ RegisterCreate(r) \/ RegisterReplica(r)
  \/ RegisterOtp(r) \/ RegisterEnqueue(r)
  \/ ResendBegin(r) \/ ResendStore(r) \/ ResendPublish(r)
  \/ Submit(r) \/ VerifyFind(r) \/ VerifyActivate(r)
  \/ ForgotBegin(r) \/ ForgotCreate(r) \/ ForgotEnqueue(r)
  \/ MarkReset(r) \/ ChangePassword(r) \/ DeleteReset(r) \/ ResetAnswer(r)
  \/ Abort(r)

Next ==
  \/ \E r \in Requests : Request(r) \/ JobRun(r) \/ EventRun(r)
  \/ ReplicaRun \/ Expire

Spec == Init /\ [][Next]_vars

-----------------------------------------------------------------------------

\* The code in the OTP row of an account still waiting for it is never lost
\* without a trace: a request holds it, a job or an event carries it, it was
\* mailed, or a failure named in the code dropped it (sendMailRegis, publish
\* and the last attempt of a job).
CodeAccounted ==
  otp # None =>
    \/ pc[otp.code] \notin {"ok", "refused"}
    \/ otp.code \in jobs \cup events
    \/ \E m \in mailbox : m.code = otp.code
    \/ otp.code \in lost

\* A user without a replica (and without a job that will make one) is the
\* user of a registration cut short or of a dead job.  Such a user can be
\* active: resend-code stores a code where register did not.
MissingReplicaHasCause ==
  account # "none" /\ replica = "none"
    => maker \in Requests /\ pc[maker] \in {"replica", "aborted"}

\* The password is the one given at registration or one whose request held a
\* reset code that had been verified.
PasswordHasProof ==
  pwd # None => pwd = maker \/ (got[pwd] # None /\ got[pwd].code \in proven)

\* A reset answered with success uses its code up: no request that begins
\* later changes the password with it.
SpentForGood ==
  [][\A r \in Requests : At(r, "change") /\ pc'[r] = "delete"
                           => got[r].code \notin spentAt[r]]_vars

\* A reset that was refused after it had changed the password lost its row to
\* another reset that submitted the same code and ended, or will, with success.
LateRefusalHasRival ==
  \A r \in Requests :
    At(r, "refused") /\ pwd = r /\ r # maker
      => \E q \in Requests \ {r} :
           /\ got[q] = got[r] /\ resets[row[r]] = "deleted"
           /\ At(q, "logout") \/ At(q, "aborted") \/ (At(q, "ok") /\ row[r] \in spent)

\* README.md:308: verification decrypts the code.  So the code mailed for the
\* row, while the row is fresh, would be accepted.
MailedCodeAccepted ==
  [][\A r \in Requests : At(r, "find") /\ pc'[r] = "refused" =>
       ~ /\ otp # None /\ otp.fresh /\ got[r].code = otp.code
         /\ [kind |-> "verify", form |-> got[r].form, code |-> got[r].code] \in mailbox]_vars
=============================================================================
