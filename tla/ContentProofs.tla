--------------------------- MODULE ContentProofs ---------------------------
(***************************************************************************)
(* Theorems about Content, for any requests, items, users and bound: its   *)
(* type invariant, ApprovedAsItStands, VerdictAnnounced and RefsSound.     *)
(* IInv adds what a handler may rely on at its second statement, and what  *)
(* the row of a comment and the verdict on a post say of the request that  *)
(* wrote them.                                                             *)
(***************************************************************************)
EXTENDS Content, TLAPS

USE ContentAssumption

-----------------------------------------------------------------------------
(* The inductive invariant.                                                *)

StatusesOf(i) == IF i \in Posts THEN Statuses ELSE {"NONE"}

\* What a handler has found and keeps until its write.
Found == \A r \in Requests :
  /\ pc[r] \in {"update", "remove", "insert"} => tgt[r] \in Items
  /\ pc[r] \in {"submit", "approve", "reject", "notice"} => tgt[r] \in Posts
  /\ pc[r] = "update" => seen[r] \in StatusesOf(tgt[r])
  /\ pc[r] = "notice" => owner[tgt[r]] \in Users
  /\ pc[r] = "insert" => who[r] \in People
  /\ pc[r] \in {"lookup", "enqueue"} => com[r].row # "absent"
  /\ pc[r] = "enqueue" => IF ref[r].replyTo # None THEN ref[r].replyTo \in Made
                                                 ELSE owner[tgt[r]] \in Users
  /\ pc[r] \in {"rewrite", "erase"} => tgt[r] \in Made

\* A comment was made by a request that is past its insert, on an item that was
\* there, and by a user with a replica.
MadeSoundly == \A c \in Made :
  /\ pc[c] \in {"lookup", "enqueue", "ok", "aborted"}
  /\ who[c] \in Users /\ tgt[c] \in Items /\ status[tgt[c]] # "absent"

\* The last verdict on a post was written by a request about it, for its author.
Judged == \A p \in Posts : verdict[p] # None =>
  /\ verdict[p] \in Requests /\ tgt[verdict[p]] = p
  /\ pc[verdict[p]] \in {"notice", "ok", "aborted"}
  /\ status[p] # "absent"

IInv == TypeOK /\ Found /\ MadeSoundly /\ Judged
        /\ ApprovedAsItStands /\ VerdictAnnounced /\ RefsSound

-----------------------------------------------------------------------------
(* Shapes of steps.                                                        *)

\* Initially the only rows are items of old.
LEMMA InitIInv == Init => IInv
<1> SUFFICES ASSUME Init PROVE IInv
  OBVIOUS
<1>1. PICK u \in Users : owner \in [Items -> {u, None}]
  BY DEF Init
<1>2. \A i \in Items :
        /\ owner[i] \in {u, None}
        /\ status[i] \in IF owner[i] = None THEN {"absent"}
                          ELSE IF i \in Posts THEN Statuses ELSE {"NONE"}
  BY <1>1 DEF Init
<1>3. status \in [Items -> {"absent", "deleted"} \cup Alive] /\ owner \in [Items -> Users \cup {None}]
  BY <1>1 DEF Init
<1>4. \A i \in Items :
        /\ status[i] \in {"absent", "deleted"} \cup (IF i \in Posts THEN Statuses ELSE {"NONE"})
        /\ Exists(i) => owner[i] # None
  BY <1>2 DEF Exists, Alive, Statuses
<1>5. TypeOK
  BY <1>3, <1>4 DEF Init, TypeOK, Comment, Refs, Steps, Alive
<1>6. Found /\ MadeSoundly /\ Judged
  BY DEF Init, Found, MadeSoundly, Judged, Made
<1>7. ApprovedAsItStands /\ VerdictAnnounced /\ RefsSound
  BY DEF Init, ApprovedAsItStands, VerdictAnnounced, RefsSound, Made, Items
<1> QED
  BY <1>5, <1>6, <1>7 DEF IInv

\* A request moves on, and at most a job is added.
LEMMA MoveStep ==
  ASSUME IInv, NEW r \in Requests, NEW l \in {"refused", "aborted", "ok", "enqueue"},
         pc[r] \notin Ended, Goto(r, l),
         UNCHANGED <<rows, com, input, seen, history>>,
         jobs \subseteq jobs', jobs' \subseteq Job,
         l = "refused" => pc[r] \notin {"notice", "lookup", "enqueue"},
         l = "enqueue" => /\ com[r].row # "absent"
                          /\ IF ref[r].replyTo # None THEN ref[r].replyTo \in Made
                             ELSE owner[tgt[r]] \in Users,
         pc[r] = "notice" => l = "aborted" \/ (l = "ok" /\ Notice(tgt[r], seen[r]) \in jobs')
  PROVE  IInv'
<1>1. pc'[r] = l /\ \A q \in Requests \ {r} : pc'[q] = pc[q]
  BY DEF Goto, IInv, TypeOK
<1>2. UNCHANGED <<status, text, owner, com, who, tgt, ref, seen, approved, verdict>>
  BY DEF rows, input, history
<1>3. TypeOK'
  <2>1. pc' \in [Requests -> Steps]
    BY DEF Goto, Steps, IInv, TypeOK
  <2> QED
    BY <1>2, <2>1 DEF IInv, TypeOK, Exists
<1>4. Found'
  BY <1>1, <1>2 DEF IInv, Found, Made
<1>5. MadeSoundly'
  BY <1>1, <1>2 DEF IInv, MadeSoundly, Made, Ended
<1>6. Judged'
  BY <1>1, <1>2 DEF IInv, Judged, Ended
<1>7. VerdictAnnounced'
  BY <1>1, <1>2 DEF IInv, VerdictAnnounced, Notice, Judged, Ended
<1>8. ApprovedAsItStands' /\ RefsSound'
  BY <1>2 DEF IInv, ApprovedAsItStands, RefsSound, Made, Exists, ExistsCom
<1> QED
  BY <1>3, <1>4, <1>5, <1>6, <1>7, <1>8 DEF IInv

\* A request refuses.
LEMMA RefuseStep ==
  ASSUME IInv, NEW r \in Requests, Refuse(r),
         pc[r] \notin Ended \cup {"notice", "lookup", "enqueue"}
  PROVE  IInv'
BY MoveStep DEF Refuse, IInv, TypeOK

\* A request has read and decided to go on.
LEMMA BeginStep ==
  ASSUME IInv, NEW r \in Requests, pc[r] = "idle",
         NEW l \in {"update", "submit", "approve", "reject", "remove", "insert", "rewrite", "erase"},
         Goto(r, l), UNCHANGED <<rows, com, jobs, history>>,
         NEW t, tgt' = [tgt EXCEPT ![r] = t],
         who' \in [Requests -> People \cup {None}],
         seen' \in [Requests -> Alive], ref' \in [Requests -> Refs],
         \A q \in Requests \ {r} : who'[q] = who[q] /\ seen'[q] = seen[q] /\ ref'[q] = ref[q],
         l \in {"update", "remove", "insert"} => t \in Items,
         l \in {"submit", "approve", "reject"} => t \in Posts,
         l = "update" => seen'[r] \in StatusesOf(t),
         l = "insert" => who'[r] \in People,
         l \in {"rewrite", "erase"} => t \in Made
  PROVE  IInv'
<1>1. pc'[r] = l /\ \A q \in Requests \ {r} : pc'[q] = pc[q]
  BY DEF Goto, IInv, TypeOK
<1>2. UNCHANGED <<status, text, owner, com, jobs, approved, verdict>>
  BY DEF rows, history
<1>3. tgt'[r] = t /\ \A q \in Requests \ {r} : tgt'[q] = tgt[q]
  BY DEF IInv, TypeOK
<1>4. t \in Items \cup Requests
  BY DEF Made, Items
<1>5. TypeOK'
  <2>1. pc' \in [Requests -> Steps]
    BY DEF Goto, Steps, IInv, TypeOK
  <2>2. tgt' \in [Requests -> Items \cup Requests \cup {None}]
    BY <1>4 DEF IInv, TypeOK
  <2> QED
    BY <1>2, <2>1, <2>2 DEF IInv, TypeOK, Exists
<1>6. com[r].row = "absent" /\ \A p \in Posts : verdict[p] # r
  BY DEF IInv, MadeSoundly, Judged, Made, TypeOK
<1>7. Found'
  BY <1>1, <1>2, <1>3 DEF IInv, Found, Made
<1>8. MadeSoundly'
  BY <1>1, <1>2, <1>3, <1>6 DEF IInv, MadeSoundly, Made
<1>9. Judged'
  BY <1>1, <1>2, <1>3, <1>6 DEF IInv, Judged
<1>10. VerdictAnnounced'
  BY <1>1, <1>2, <1>6 DEF IInv, VerdictAnnounced, Notice, Judged
<1>11. ApprovedAsItStands' /\ RefsSound'
  BY <1>2, <1>3, <1>6 DEF IInv, ApprovedAsItStands, RefsSound, Made, Exists, ExistsCom
<1> QED
  BY <1>5, <1>7, <1>8, <1>9, <1>10, <1>11 DEF IInv

\* An item is made, edited or submitted.
LEMMA WriteStep ==
  ASSUME IInv, NEW r \in Requests, pc[r] \in {"idle", "update", "submit"}, Goto(r, "ok"),
         NEW i \in Items, NEW s \in StatusesOf(i) \ {"APPROVED"},
         status' = [status EXCEPT ![i] = s],
         text' \in [Items -> Requests \cup {None}],
         \A j \in Items \ {i} : text'[j] = text[j],
         \/ Exists(i) /\ UNCHANGED owner
         \/ status[i] = "absent" /\ \E u \in Users : owner' = [owner EXCEPT ![i] = u],
         UNCHANGED <<com, jobs, input, seen, history>>
  PROVE  IInv'
<1>1. pc'[r] = "ok" /\ \A q \in Requests \ {r} : pc'[q] = pc[q]
  BY DEF Goto, IInv, TypeOK
<1>2. UNCHANGED <<com, jobs, who, tgt, ref, seen, approved, verdict>>
  BY DEF input, history
<1>3. status'[i] = s /\ \A j \in Items \ {i} : status'[j] = status[j]
  BY DEF IInv, TypeOK
<1>4. /\ owner' \in [Items -> Users \cup {None}] /\ \A j \in Items \ {i} : owner'[j] = owner[j]
      /\ owner'[i] \in Users /\ (status[i] # "absent" => owner'[i] = owner[i])
  <2>1. CASE Exists(i) /\ UNCHANGED owner
    BY <2>1 DEF IInv, TypeOK
  <2>2. CASE status[i] = "absent" /\ \E u \in Users : owner' = [owner EXCEPT ![i] = u]
    BY <2>2 DEF IInv, TypeOK
  <2> QED
    BY <2>1, <2>2
<1>5. s \in Alive /\ s # "absent"
  BY DEF StatusesOf, Alive, Statuses
<1>6. \A j \in Items : status[j] # "absent" => (Exists(j)' <=> Exists(j))
  <2>1. status[i] # "absent" => Exists(i)
    BY DEF Exists, Alive, Statuses
  <2> QED
    BY <1>3, <1>5, <2>1 DEF Exists
<1>7. TypeOK'
  <2>1. pc' \in [Requests -> Steps]
    BY DEF Goto, Steps, IInv, TypeOK
  <2>2. \A j \in Items : Exists(j)' => owner'[j] # None
    BY <1>3, <1>4 DEF IInv, TypeOK, Exists, People
  <2>3. \A j \in Items : status'[j] \in {"absent", "deleted"} \cup (IF j \in Posts THEN Statuses ELSE {"NONE"})
    BY <1>3 DEF IInv, TypeOK, StatusesOf
  <2>4. status' \in [Items -> {"absent", "deleted"} \cup Alive]
    BY <1>5 DEF IInv, TypeOK
  <2> QED
    BY <1>2, <1>4, <2>1, <2>2, <2>3, <2>4 DEF IInv, TypeOK
<1>8. com[r].row = "absent" /\ \A p \in Posts : verdict[p] # r
  BY DEF IInv, MadeSoundly, Judged, Made, TypeOK
<1>9. Found'
  BY <1>1, <1>2, <1>4 DEF IInv, Found, MadeSoundly, Made, Items
<1>10. MadeSoundly'
  BY <1>1, <1>2, <1>3, <1>5, <1>8 DEF IInv, MadeSoundly, Made
<1>11. Judged'
  BY <1>1, <1>2, <1>3, <1>5, <1>8 DEF IInv, Judged, Items
<1>12. VerdictAnnounced'
  BY <1>1, <1>2, <1>4, <1>8 DEF IInv, VerdictAnnounced, Notice, Judged, Items
<1>13. ApprovedAsItStands'
  BY <1>2, <1>3 DEF IInv, ApprovedAsItStands, Items
<1>14. RefsSound'
  BY <1>2, <1>6 DEF IInv, RefsSound, Made, MadeSoundly, ExistsCom
<1> QED
  BY <1>7, <1>9, <1>10, <1>11, <1>12, <1>13, <1>14 DEF IInv

-----------------------------------------------------------------------------
(* The steps of a request.                                                 *)

LEMMA FindStep ==
  ASSUME IInv, NEW r \in Requests, NEW i \in Items, NEW l, NEW allowed \in SUBSET Alive,
         Find(r, i, l, allowed),
         l \in {"update", "remove"} \/ (i \in Posts /\ l \in {"submit", "approve", "reject"})
  PROVE  IInv'
<1>1. CASE Refuse(r)
  BY <1>1, RefuseStep DEF Find, At, Ended
<1>2. CASE /\ status[i] \in allowed
           /\ tgt' = [tgt EXCEPT ![r] = i] /\ seen' = [seen EXCEPT ![r] = status[i]]
           /\ Goto(r, l) /\ UNCHANGED <<rows, com, jobs, who, ref, history>>
  <2>1. status[i] \in Alive /\ status[i] \in StatusesOf(i)
    BY <1>2 DEF IInv, TypeOK, StatusesOf, Alive, Statuses
  <2>2. /\ who' \in [Requests -> People \cup {None}] /\ ref' \in [Requests -> Refs]
        /\ seen' \in [Requests -> Alive] /\ seen'[r] = status[i]
        /\ \A q \in Requests \ {r} : who'[q] = who[q] /\ seen'[q] = seen[q] /\ ref'[q] = ref[q]
    BY <1>2, <2>1 DEF IInv, TypeOK
  <2>3. pc[r] = "idle" /\ UNCHANGED <<rows, com, jobs, history>>
    BY <1>2 DEF Find, At
  <2> QED
    BY <1>2, <2>1, <2>2, <2>3, BeginStep
<1> QED
  BY <1>1, <1>2 DEF Find

LEMMA CreateStep ==
  ASSUME IInv, NEW r \in Requests, NEW i \in Items, NEW u \in People, Create(r, i, u)
  PROVE  IInv'
<1>1. CASE Refuse(r)
  BY <1>1, RefuseStep DEF Create, At, Ended
<1>2. CASE /\ u \in Users
           /\ status' = [status EXCEPT ![i] = IF i \in Posts THEN "DRAFT" ELSE "NONE"]
           /\ owner' = [owner EXCEPT ![i] = u] /\ text' = [text EXCEPT ![i] = r]
           /\ Goto(r, "ok")
           /\ UNCHANGED <<com, jobs, input, seen, history>>
  <2> DEFINE s == IF i \in Posts THEN "DRAFT" ELSE "NONE"
  <2>1. s \in StatusesOf(i) \ {"APPROVED"}
    BY DEF StatusesOf, Statuses
  <2>2. text' \in [Items -> Requests \cup {None}] /\ \A j \in Items \ {i} : text'[j] = text[j]
    BY <1>2 DEF IInv, TypeOK
  <2>3. pc[r] = "idle" /\ status[i] = "absent"
    BY DEF Create, At
  <2> QED
    BY <1>2, <2>1, <2>2, <2>3, WriteStep
<1> QED
  BY <1>1, <1>2 DEF Create

LEMMA FindOwnStep ==
  ASSUME IInv, NEW r \in Requests, NEW i \in Items, NEW u, NEW l, NEW allowed \in SUBSET Alive,
         FindOwn(r, i, u, l, allowed),
         l \in {"update", "remove"} \/ (i \in Posts /\ l = "submit")
  PROVE  IInv'
<1>1. CASE At(r, "idle") /\ Refuse(r)
  BY <1>1, RefuseStep DEF At, Ended
<1>2. CASE Find(r, i, l, allowed)
  BY <1>2, FindStep
<1> QED
  BY <1>1, <1>2 DEF FindOwn

LEMMA FindAnyStep ==
  ASSUME IInv, NEW r \in Requests, NEW i \in Items, NEW u, FindAny(r, i, u)
  PROVE  IInv'
<1>1. Alive \in SUBSET Alive /\ {"DRAFT"} \in SUBSET Alive /\ {"PENDING"} \in SUBSET Alive
  BY DEF Alive, Statuses
<1>2. CASE FindOwn(r, i, u, "update", Alive)
  BY <1>1, <1>2, FindOwnStep
<1>3. CASE FindOwn(r, i, u, "remove", Alive)
  BY <1>1, <1>3, FindOwnStep
<1>4. CASE i \in Posts /\ FindOwn(r, i, u, "submit", {"DRAFT"})
  BY <1>1, <1>4, FindOwnStep
<1>5. CASE i \in Posts /\ Find(r, i, "approve", {"PENDING"})
  BY <1>1, <1>5, FindStep
<1>6. CASE i \in Posts /\ Find(r, i, "reject", {"PENDING"})
  BY <1>1, <1>6, FindStep
<1> QED
  BY <1>2, <1>3, <1>4, <1>5, <1>6 DEF FindAny

\* The status an edit writes is never "APPROVED", and one of the item's.
LEMMA UpdateStep ==
  ASSUME IInv, NEW r \in Requests, Update(r)
  PROVE  IInv'
<1> DEFINE i == tgt[r]
           s == NewStatus(seen[r], status[i])
<1>0. pc[r] = "update" /\ i \in Items
  BY DEF Update, At, IInv, Found
<1>1. CASE Refuse(r)
  BY <1>0, <1>1, RefuseStep DEF Ended
<1>2. CASE /\ Exists(i)
           /\ text' = [text EXCEPT ![i] = r] /\ status' = [status EXCEPT ![i] = NewStatus(seen[r], @)]
           /\ Goto(r, "ok") /\ UNCHANGED <<owner, com, jobs, input, seen, history>>
  <2>1. s \in StatusesOf(i) \ {"APPROVED"}
    BY <1>0 DEF IInv, Found, NewStatus, StatusesOf, Statuses
  <2>2. text' \in [Items -> Requests \cup {None}] /\ \A j \in Items \ {i} : text'[j] = text[j]
    BY <1>0, <1>2 DEF IInv, TypeOK
  <2>3. status' = [status EXCEPT ![i] = s]
    BY <1>0, <1>2 DEF IInv, TypeOK
  <2> QED
    BY <1>0, <1>2, <2>1, <2>2, <2>3, WriteStep
<1> QED
  BY <1>1, <1>2 DEF Update

LEMMA SubmitStep ==
  ASSUME IInv, NEW r \in Requests, Submit(r)
  PROVE  IInv'
<1> DEFINE i == tgt[r]
<1>0. pc[r] = "submit" /\ i \in Posts
  BY DEF Submit, At, IInv, Found
<1>1. CASE Refuse(r)
  BY <1>0, <1>1, RefuseStep DEF Ended
<1>2. CASE /\ Exists(i)
           /\ status' = [status EXCEPT ![i] = "PENDING"]
           /\ Goto(r, "ok") /\ UNCHANGED <<text, owner, com, jobs, input, seen, history>>
  <2>1. "PENDING" \in StatusesOf(i) \ {"APPROVED"} /\ i \in Items
    BY <1>0 DEF StatusesOf, Statuses, Items
  <2>2. text' \in [Items -> Requests \cup {None}] /\ \A j \in Items \ {i} : text'[j] = text[j]
    BY <1>2 DEF IInv, TypeOK
  <2> QED
    BY <1>0, <1>2, <2>1, <2>2, WriteStep
<1> QED
  BY <1>1, <1>2 DEF Submit

\* A verdict names its request, which is about to announce it.
LEMMA ModerateStep ==
  ASSUME IInv, NEW r \in Requests, Moderate(r)
  PROVE  IInv'
<1> DEFINE i == tgt[r]
           new == IF At(r, "approve") THEN "APPROVED" ELSE "REJECTED"
<1>0. pc[r] \in {"approve", "reject"} /\ i \in Posts /\ i \in Items
  BY DEF Moderate, IInv, Found, Items
<1>1. CASE Refuse(r)
  BY <1>0, <1>1, RefuseStep DEF Ended
<1>2. CASE /\ Exists(i)
           /\ status' = [status EXCEPT ![i] = new] /\ seen' = [seen EXCEPT ![r] = new]
           /\ verdict' = [verdict EXCEPT ![i] = r]
           /\ approved' = [approved EXCEPT ![i] = IF new = "APPROVED" THEN text[i] ELSE @]
           /\ Goto(r, "notice") /\ UNCHANGED <<text, owner, com, jobs, input>>
  <2>1. pc'[r] = "notice" /\ \A q \in Requests \ {r} : pc'[q] = pc[q]
    BY <1>2 DEF Goto, IInv, TypeOK
  <2>2. UNCHANGED <<text, owner, com, jobs, who, tgt, ref>>
    BY <1>2 DEF input
  <2>3. status'[i] = new /\ \A j \in Items \ {i} : status'[j] = status[j]
    BY <1>0, <1>2 DEF IInv, TypeOK
  <2>4. verdict'[i] = r /\ \A p \in Posts \ {i} : verdict'[p] = verdict[p] /\ approved'[p] = approved[p]
    BY <1>0, <1>2 DEF IInv, TypeOK
  <2>5. new = "APPROVED" => approved'[i] = text[i]
    BY <1>0, <1>2 DEF IInv, TypeOK
  <2>6. \A q \in Requests \ {r} : seen'[q] = seen[q]
    BY <1>2 DEF IInv, TypeOK
  <2>7. new \in Statuses /\ new \in Alive /\ Exists(i) /\ owner[i] \in Users
    BY <1>0, <1>2 DEF Statuses, Alive, IInv, TypeOK
  <2>8. \A j \in Items : Exists(j)' <=> Exists(j)
    BY <2>3, <2>7 DEF Exists
  <2>9. com[r].row = "absent" /\ \A p \in Posts : verdict[p] # r
    BY <1>0 DEF IInv, MadeSoundly, Judged, Made, TypeOK
  <2>10. TypeOK'
    <3>1. pc' \in [Requests -> Steps]
      BY <1>2 DEF Goto, Steps, IInv, TypeOK
    <3>2. \A j \in Items : Exists(j)' => owner'[j] # None
      BY <2>2, <2>8 DEF IInv, TypeOK
    <3>3. /\ status' \in [Items -> {"absent", "deleted"} \cup Alive]
          /\ \A j \in Items : status'[j] \in {"absent", "deleted"} \cup (IF j \in Posts THEN Statuses ELSE {"NONE"})
      BY <1>0, <1>2, <2>3, <2>7 DEF IInv, TypeOK
    <3>4. seen' \in [Requests -> Alive]
      BY <1>2, <2>7 DEF IInv, TypeOK
    <3>5. /\ approved' \in [Posts -> Requests \cup {None}]
          /\ verdict' \in [Posts -> Requests \cup {None}]
      BY <1>0, <1>2 DEF IInv, TypeOK
    <3> QED
      BY <2>2, <3>1, <3>2, <3>3, <3>4, <3>5 DEF IInv, TypeOK
  <2>11. Found'
    BY <1>0, <2>1, <2>2, <2>6, <2>7 DEF IInv, Found, Made
  <2>12. MadeSoundly'
    BY <2>1, <2>2, <2>3, <2>7, <2>9 DEF IInv, MadeSoundly, Made
  <2>13. Judged'
    BY <1>0, <2>1, <2>2, <2>3, <2>4, <2>7, <2>9 DEF IInv, Judged, Items
  <2>14. VerdictAnnounced'
    BY <1>0, <2>1, <2>2, <2>4, <2>6, <2>9 DEF IInv, VerdictAnnounced, Notice, Judged
  <2>15. ApprovedAsItStands'
    BY <1>0, <2>2, <2>3, <2>4, <2>5 DEF IInv, ApprovedAsItStands, Items
  <2>16. RefsSound'
    BY <2>2, <2>8 DEF IInv, RefsSound, Made, MadeSoundly, ExistsCom
  <2> QED
    BY <2>10, <2>11, <2>12, <2>13, <2>14, <2>15, <2>16 DEF IInv
<1> QED
  BY <1>1, <1>2 DEF Moderate

LEMMA AnnounceStep ==
  ASSUME IInv, NEW r \in Requests, Announce(r)
  PROVE  IInv'
<1>1. pc[r] = "notice" /\ tgt[r] \in Posts /\ owner[tgt[r]] \in Users
  BY DEF Announce, At, IInv, Found
<1>2. Notice(tgt[r], seen[r]) \in Job
  BY <1>1 DEF Notice, Job, Items
<1>3. jobs' \subseteq Job /\ jobs \subseteq jobs' /\ Notice(tgt[r], seen[r]) \in jobs'
  BY <1>2 DEF Announce, IInv, TypeOK
<1> QED
  BY <1>1, <1>3, MoveStep DEF Announce, Ended

\* No comment points at a deleted item.
LEMMA RemoveStep ==
  ASSUME IInv, NEW r \in Requests, Remove(r)
  PROVE  IInv'
<1> DEFINE i == tgt[r]
<1>0. pc[r] = "remove" /\ i \in Items
  BY DEF Remove, At, IInv, Found
<1>1. CASE Refuse(r)
  BY <1>0, <1>1, RefuseStep DEF Ended
<1>2. CASE /\ Exists(i)
           /\ status' = [status EXCEPT ![i] = "deleted"]
           /\ com' = [c \in Requests |-> [com[c] EXCEPT !.item = Unlink(@, i)]]
           /\ Goto(r, "ok") /\ UNCHANGED <<text, owner, jobs, input, seen, history>>
  <2>1. pc'[r] = "ok" /\ \A q \in Requests \ {r} : pc'[q] = pc[q]
    BY <1>2 DEF Goto, IInv, TypeOK
  <2>2. UNCHANGED <<text, owner, jobs, who, tgt, ref, seen, approved, verdict>>
    BY <1>2 DEF input, history
  <2>3. status'[i] = "deleted" /\ \A j \in Items \ {i} : status'[j] = status[j]
    BY <1>0, <1>2 DEF IInv, TypeOK
  <2>4. \A c \in Requests :
          /\ com'[c] \in Comment /\ com'[c].item = Unlink(com[c].item, i)
          /\ com'[c].row = com[c].row /\ com'[c].parent = com[c].parent
          /\ com'[c].replyTo = com[c].replyTo
    <3> SUFFICES ASSUME NEW c \in Requests
                 PROVE  /\ com'[c] \in Comment /\ com'[c].item = Unlink(com[c].item, i)
                        /\ com'[c].row = com[c].row /\ com'[c].parent = com[c].parent
                        /\ com'[c].replyTo = com[c].replyTo
      OBVIOUS
    <3>1. com[c] \in Comment /\ com'[c] = [com[c] EXCEPT !.item = Unlink(@, i)]
      BY <1>2 DEF IInv, TypeOK
    <3> QED
      BY <3>1 DEF Comment, Unlink
  <2>5. Made' = Made
    BY <2>4 DEF Made
  <2>6. com[r].row = "absent" /\ \A p \in Posts : verdict[p] # r
    BY <1>0 DEF IInv, MadeSoundly, Judged, Made, TypeOK
  <2>7. ~Exists(i)' /\ \A j \in Items \ {i} : Exists(j)' <=> Exists(j)
    BY <2>2, <2>3 DEF Exists, Alive, Statuses
  <2>8. TypeOK'
    <3>1. pc' \in [Requests -> Steps]
      BY <1>2 DEF Goto, Steps, IInv, TypeOK
    <3>2. com' \in [Requests -> Comment]
      BY <1>2, <2>4
    <3>3. /\ status' \in [Items -> {"absent", "deleted"} \cup Alive]
          /\ \A j \in Items : status'[j] \in {"absent", "deleted"} \cup (IF j \in Posts THEN Statuses ELSE {"NONE"})
      BY <1>0, <1>2, <2>3 DEF IInv, TypeOK
    <3>4. \A j \in Items : Exists(j)' => owner'[j] # None
      BY <2>2, <2>7 DEF IInv, TypeOK
    <3> QED
      BY <2>2, <3>1, <3>2, <3>3, <3>4 DEF IInv, TypeOK
  <2>9. Found'
    BY <2>1, <2>2, <2>4, <2>5 DEF IInv, Found
  <2>10. MadeSoundly'
    BY <2>1, <2>2, <2>3, <2>5, <2>6 DEF IInv, MadeSoundly, Made
  <2>11. Judged'
    BY <2>1, <2>2, <2>3, <2>6 DEF IInv, Judged, Items
  <2>12. VerdictAnnounced'
    BY <2>1, <2>2, <2>6 DEF IInv, VerdictAnnounced, Notice, Judged
  <2>13. ApprovedAsItStands'
    BY <2>2, <2>3 DEF IInv, ApprovedAsItStands, Items
  <2>14. RefsSound'
    <3> SUFFICES ASSUME NEW c \in Made, ExistsCom(c)
                 PROVE  /\ com'[c].item = IF Exists(tgt[c])' THEN tgt[c] ELSE None
                        /\ \A d \in {com[c].parent, com[c].replyTo} \ {None} : ExistsCom(d)'
      BY <2>2, <2>4, <2>5 DEF RefsSound, ExistsCom, Made, Exists
    <3>1. c \in Requests /\ tgt[c] \in Items /\ com[c].parent \in Requests \cup {None}
          /\ com[c].replyTo \in Requests \cup {None}
      BY DEF Made, IInv, MadeSoundly, TypeOK, Comment
    <3>2. /\ com[c].item = IF Exists(tgt[c]) THEN tgt[c] ELSE None
          /\ \A d \in {com[c].parent, com[c].replyTo} \ {None} : ExistsCom(d)
      BY DEF IInv, RefsSound
    <3>3. com'[c].item = IF Exists(tgt[c])' THEN tgt[c] ELSE None
      BY <1>0, <1>2, <2>4, <2>2, <2>7, <3>1, <3>2 DEF Unlink, Items
    <3> QED
      BY <2>4, <3>1, <3>2, <3>3 DEF ExistsCom
  <2> QED
    BY <2>8, <2>9, <2>10, <2>11, <2>12, <2>13, <2>14 DEF IInv
<1> QED
  BY <1>1, <1>2 DEF Remove

LEMMA CommentBeginStep ==
  ASSUME IInv, NEW r \in Requests, NEW i \in Items, NEW u \in People,
         NEW p \in Made \cup {None}, NEW q \in Made \cup {None},
         CommentBegin(r, i, u, [parent |-> p, replyTo |-> q])
  PROVE  IInv'
<1> DEFINE refs == [parent |-> p, replyTo |-> q]
<1>1. CASE Refuse(r)
  BY <1>1, RefuseStep DEF CommentBegin, At, Ended
<1>2. CASE /\ who' = [who EXCEPT ![r] = u] /\ tgt' = [tgt EXCEPT ![r] = i]
           /\ ref' = [ref EXCEPT ![r] = refs]
           /\ Goto(r, "insert") /\ UNCHANGED <<rows, com, jobs, seen, history>>
  <2>1. refs \in Refs
    BY DEF Refs, Made
  <2>2. /\ who' \in [Requests -> People \cup {None}] /\ ref' \in [Requests -> Refs]
        /\ seen' \in [Requests -> Alive] /\ who'[r] = u
        /\ \A x \in Requests \ {r} : who'[x] = who[x] /\ seen'[x] = seen[x] /\ ref'[x] = ref[x]
    BY <1>2, <2>1 DEF IInv, TypeOK
  <2>3. pc[r] = "idle" /\ UNCHANGED <<rows, com, jobs, history>>
    BY <1>2 DEF CommentBegin, At
  <2> QED
    BY <1>2, <2>2, <2>3, BeginStep
<1> QED
  BY <1>1, <1>2 DEF CommentBegin

\* The new row points at rows the insert has found.
LEMMA CommentInsertStep ==
  ASSUME IInv, NEW r \in Requests, CommentInsert(r)
  PROVE  IInv'
<1>0. pc[r] = "insert"
  BY DEF CommentInsert, At
<1>1. CASE Refuse(r)
  BY <1>0, <1>1, RefuseStep DEF Ended
<1>2. CASE /\ Exists(tgt[r]) /\ who[r] \in Users
           /\ \A c \in {ref[r].parent, ref[r].replyTo} \ {None} : ExistsCom(c)
           /\ com' = [com EXCEPT ![r] = NewRow(r)]
           /\ Goto(r, "lookup") /\ UNCHANGED <<rows, jobs, input, seen, history>>
  <2>1. pc'[r] = "lookup" /\ \A q \in Requests \ {r} : pc'[q] = pc[q]
    BY <1>2 DEF Goto, IInv, TypeOK
  <2>2. UNCHANGED <<status, text, owner, jobs, who, tgt, ref, seen, approved, verdict>>
    BY <1>2 DEF rows, input, history
  <2>3. com'[r] = NewRow(r) /\ \A c \in Requests \ {r} : com'[c] = com[c]
    BY <1>2 DEF IInv, TypeOK
  <2>4. com[r].row = "absent" /\ \A p \in Posts : verdict[p] # r
    BY <1>0 DEF IInv, MadeSoundly, Judged, Made, TypeOK
  <2>5. tgt[r] \in Items /\ status[tgt[r]] # "absent"
    BY <1>0, <1>2 DEF IInv, Found, Exists, Alive, Statuses
  <2>6. ref[r] \in Refs
    BY DEF IInv, TypeOK
  <2>7. Made' = Made \cup {r}
    BY <2>3 DEF Made, NewRow
  <2>8. \A c \in Requests : ExistsCom(c) => ExistsCom(c)'
    BY <2>3, <2>4 DEF ExistsCom
  <2>9. TypeOK'
    <3>1. pc' \in [Requests -> Steps]
      BY <1>2 DEF Goto, Steps, IInv, TypeOK
    <3>2. NewRow(r) \in Comment
      BY <2>5, <2>6 DEF NewRow, Comment, Refs
    <3>3. com' \in [Requests -> Comment]
      BY <1>2, <3>2 DEF IInv, TypeOK
    <3> QED
      BY <2>2, <3>1, <3>3 DEF IInv, TypeOK, Exists
  <2>10. Found'
    BY <2>1, <2>2, <2>3, <2>7 DEF IInv, Found, NewRow
  <2>11. MadeSoundly'
    BY <1>2, <2>1, <2>2, <2>5, <2>7 DEF IInv, MadeSoundly, Made
  <2>12. Judged'
    BY <2>1, <2>2, <2>4 DEF IInv, Judged
  <2>13. VerdictAnnounced'
    BY <2>1, <2>2, <2>4 DEF IInv, VerdictAnnounced, Notice, Judged
  <2>14. ApprovedAsItStands'
    BY <2>2 DEF IInv, ApprovedAsItStands
  <2>15. RefsSound'
    <3> SUFFICES ASSUME NEW c \in Made', ExistsCom(c)'
                 PROVE  /\ com'[c].item = IF Exists(tgt[c]) THEN tgt[c] ELSE None
                        /\ \A d \in {com'[c].parent, com'[c].replyTo} \ {None} : ExistsCom(d)'
      BY <2>2 DEF RefsSound, Exists
    <3>1. CASE c = r
      BY <1>2, <2>3, <2>6, <2>8, <3>1 DEF NewRow, Refs
    <3>2. CASE c # r
      <4>1. c \in Made /\ c \in Requests /\ com'[c] = com[c] /\ ExistsCom(c)
        BY <2>3, <2>7, <3>2 DEF Made, ExistsCom
      <4>2. com[c].parent \in Requests \cup {None} /\ com[c].replyTo \in Requests \cup {None}
        BY <4>1 DEF IInv, TypeOK, Comment
      <4> QED
        BY <2>8, <4>1, <4>2 DEF IInv, RefsSound
    <3> QED
      BY <3>1, <3>2
  <2> QED
    BY <2>9, <2>10, <2>11, <2>12, <2>13, <2>14, <2>15 DEF IInv
<1> QED
  BY <1>1, <1>2 DEF CommentInsert

LEMMA CommentLookupStep ==
  ASSUME IInv, NEW r \in Requests, CommentLookup(r)
  PROVE  IInv'
<1> DEFINE there == IF ref[r].replyTo # None THEN ExistsCom(ref[r].replyTo) ELSE Exists(tgt[r])
           l == IF there /\ Author(r) # who[r] THEN "enqueue" ELSE "ok"
<1>1. pc[r] = "lookup" /\ com[r].row # "absent" /\ ref[r] \in Refs
  BY DEF CommentLookup, At, IInv, Found, TypeOK
<1>2. r \in Made /\ tgt[r] \in Items
  BY <1>1 DEF Made, IInv, MadeSoundly
<1>3. Exists(tgt[r]) => owner[tgt[r]] \in Users
  BY <1>2 DEF IInv, TypeOK
<1>4. l = "enqueue" => IF ref[r].replyTo # None THEN ref[r].replyTo \in Made
                                               ELSE owner[tgt[r]] \in Users
  BY <1>1, <1>3 DEF Made, ExistsCom, Refs
<1>5. l \in {"enqueue", "ok"} /\ Goto(r, l)
  BY DEF CommentLookup
<1>6. jobs \subseteq jobs' /\ jobs' \subseteq Job /\ UNCHANGED <<rows, com, input, seen, history>>
  BY DEF CommentLookup, IInv, TypeOK
<1> HIDE DEF l
<1> QED
  BY <1>1, <1>4, <1>5, <1>6, MoveStep DEF Ended

LEMMA CommentEnqueueStep ==
  ASSUME IInv, NEW r \in Requests, CommentEnqueue(r)
  PROVE  IInv'
<1>1. pc[r] = "enqueue" /\ IF ref[r].replyTo # None THEN ref[r].replyTo \in Made
                                                   ELSE owner[tgt[r]] \in Users
  BY DEF CommentEnqueue, At, IInv, Found
<1>2. Author(r) \in Users
  BY <1>1 DEF Author, IInv, MadeSoundly
<1>3. jobs' \subseteq Job /\ jobs \subseteq jobs'
  BY <1>2 DEF CommentEnqueue, IInv, TypeOK, Job
<1> QED
  BY <1>1, <1>3, MoveStep DEF CommentEnqueue, Ended

LEMMA FindCommentStep ==
  ASSUME IInv, NEW r \in Requests, NEW c \in Made, NEW u, NEW l \in {"rewrite", "erase"},
         FindComment(r, c, u, l)
  PROVE  IInv'
<1>1. CASE Refuse(r)
  BY <1>1, RefuseStep DEF FindComment, At, Ended
<1>2. CASE tgt' = [tgt EXCEPT ![r] = c] /\ Goto(r, l) /\ UNCHANGED <<rows, com, jobs, who, ref, seen, history>>
  <2>1. /\ who' \in [Requests -> People \cup {None}] /\ ref' \in [Requests -> Refs]
        /\ seen' \in [Requests -> Alive]
        /\ \A x \in Requests \ {r} : who'[x] = who[x] /\ seen'[x] = seen[x] /\ ref'[x] = ref[x]
    BY <1>2 DEF IInv, TypeOK
  <2>2. pc[r] = "idle" /\ UNCHANGED <<rows, com, jobs, history>>
    BY <1>2 DEF FindComment, At
  <2> QED
    BY <1>2, <2>1, <2>2, BeginStep
<1> QED
  BY <1>1, <1>2 DEF FindComment

LEMMA RewriteStep ==
  ASSUME IInv, NEW r \in Requests, Rewrite(r)
  PROVE  IInv'
<1> DEFINE c == tgt[r]
<1>0. pc[r] = "rewrite" /\ c \in Made /\ c \in Requests
  BY DEF Rewrite, At, IInv, Found, Made
<1>1. CASE Refuse(r)
  BY <1>0, <1>1, RefuseStep DEF Ended
<1>2. CASE /\ com' = [com EXCEPT ![c].text = r]
           /\ Goto(r, "ok") /\ UNCHANGED <<rows, jobs, input, seen, history>>
  <2>1. pc'[r] = "ok" /\ \A q \in Requests \ {r} : pc'[q] = pc[q]
    BY <1>2 DEF Goto, IInv, TypeOK
  <2>2. UNCHANGED <<status, text, owner, jobs, who, tgt, ref, seen, approved, verdict>>
    BY <1>2 DEF rows, input, history
  <2>3. com' \in [Requests -> Comment]
    <3>1. com \in [Requests -> Comment] /\ com[c] \in Comment
      BY <1>0 DEF IInv, TypeOK
    <3>2. [com[c] EXCEPT !.text = r] \in Comment
      BY <3>1 DEF Comment
    <3> QED
      BY <1>0, <1>2, <3>1, <3>2
  <2>4. \A d \in Requests : /\ com'[d].row = com[d].row /\ com'[d].item = com[d].item
                            /\ com'[d].parent = com[d].parent /\ com'[d].replyTo = com[d].replyTo
    BY <1>0, <1>2 DEF IInv, TypeOK, Comment
  <2>5. Made' = Made
    BY <2>4 DEF Made
  <2>6. com[r].row = "absent" /\ \A p \in Posts : verdict[p] # r
    BY <1>0 DEF IInv, MadeSoundly, Judged, Made, TypeOK
  <2>7. TypeOK'
    <3>1. pc' \in [Requests -> Steps]
      BY <1>2 DEF Goto, Steps, IInv, TypeOK
    <3> QED
      BY <2>2, <2>3, <3>1 DEF IInv, TypeOK, Exists
  <2>8. Found'
    BY <2>1, <2>2, <2>4, <2>5 DEF IInv, Found
  <2>9. MadeSoundly'
    BY <2>1, <2>2, <2>5, <2>6 DEF IInv, MadeSoundly, Made
  <2>10. Judged'
    BY <2>1, <2>2, <2>6 DEF IInv, Judged
  <2>11. VerdictAnnounced'
    BY <2>1, <2>2, <2>6 DEF IInv, VerdictAnnounced, Notice, Judged
  <2>12. ApprovedAsItStands'
    BY <2>2 DEF IInv, ApprovedAsItStands
  <2>13. RefsSound'
    <3> SUFFICES ASSUME NEW d \in Made, ExistsCom(d)'
                 PROVE  /\ com'[d].item = IF Exists(tgt[d]) THEN tgt[d] ELSE None
                        /\ \A e \in {com'[d].parent, com'[d].replyTo} \ {None} : ExistsCom(e)'
      BY <2>2, <2>5 DEF RefsSound, Exists
    <3>1. d \in Requests /\ com[d].parent \in Requests \cup {None} /\ com[d].replyTo \in Requests \cup {None}
      BY DEF Made, IInv, TypeOK, Comment
    <3> QED
      BY <2>4, <3>1 DEF IInv, RefsSound, ExistsCom
  <2> QED
    BY <2>7, <2>8, <2>9, <2>10, <2>11, <2>12, <2>13 DEF IInv
<1> QED
  BY <1>1, <1>2 DEF Rewrite

\* The answers to a comment lose it when it goes.
LEMMA UncommentStep ==
  ASSUME IInv, NEW r \in Requests, Uncomment(r)
  PROVE  IInv'
<1> DEFINE c == tgt[r]
<1>0. pc[r] = "erase" /\ c \in Made /\ c \in Requests
  BY DEF Uncomment, At, IInv, Found, Made
<1>1. CASE Refuse(r)
  BY <1>0, <1>1, RefuseStep DEF Ended
<1>2. CASE /\ com' = [d \in Requests |->
                [com[d] EXCEPT !.row = IF d = c THEN "deleted" ELSE @,
                               !.parent = Unlink(@, c), !.replyTo = Unlink(@, c)]]
           /\ Goto(r, "ok") /\ UNCHANGED <<rows, jobs, input, seen, history>>
  <2>1. pc'[r] = "ok" /\ \A q \in Requests \ {r} : pc'[q] = pc[q]
    BY <1>2 DEF Goto, IInv, TypeOK
  <2>2. UNCHANGED <<status, text, owner, jobs, who, tgt, ref, seen, approved, verdict>>
    BY <1>2 DEF rows, input, history
  <2>3. \A d \in Requests :
          /\ com'[d] \in Comment /\ com'[d].item = com[d].item
          /\ com'[d].row = IF d = c THEN "deleted" ELSE com[d].row
          /\ com'[d].parent = Unlink(com[d].parent, c) /\ com'[d].replyTo = Unlink(com[d].replyTo, c)
    <3> SUFFICES ASSUME NEW d \in Requests
                 PROVE  /\ com'[d] \in Comment /\ com'[d].item = com[d].item
                        /\ com'[d].row = IF d = c THEN "deleted" ELSE com[d].row
                        /\ com'[d].parent = Unlink(com[d].parent, c)
                        /\ com'[d].replyTo = Unlink(com[d].replyTo, c)
      OBVIOUS
    <3>1. com[d] \in Comment
          /\ com'[d] = [com[d] EXCEPT !.row = IF d = c THEN "deleted" ELSE @,
                                      !.parent = Unlink(@, c), !.replyTo = Unlink(@, c)]
      BY <1>2 DEF IInv, TypeOK
    <3> QED
      BY <3>1 DEF Comment, Unlink
  <2>4. Made' = Made
    BY <1>0, <2>3 DEF Made
  <2>5. com[r].row = "absent" /\ \A p \in Posts : verdict[p] # r
    BY <1>0 DEF IInv, MadeSoundly, Judged, Made, TypeOK
  <2>6. TypeOK'
    <3>1. pc' \in [Requests -> Steps]
      BY <1>2 DEF Goto, Steps, IInv, TypeOK
    <3>2. com' \in [Requests -> Comment]
      BY <1>2, <2>3
    <3> QED
      BY <2>2, <3>1, <3>2 DEF IInv, TypeOK, Exists
  <2>7. Found'
    BY <2>1, <2>2, <2>4 DEF IInv, Found, Made
  <2>8. MadeSoundly'
    BY <2>1, <2>2, <2>4, <2>5 DEF IInv, MadeSoundly, Made
  <2>9. Judged'
    BY <2>1, <2>2, <2>5 DEF IInv, Judged
  <2>10. VerdictAnnounced'
    BY <2>1, <2>2, <2>5 DEF IInv, VerdictAnnounced, Notice, Judged
  <2>11. ApprovedAsItStands'
    BY <2>2 DEF IInv, ApprovedAsItStands
  <2>12. RefsSound'
    <3> SUFFICES ASSUME NEW d \in Made, ExistsCom(d)'
                 PROVE  /\ com'[d].item = IF Exists(tgt[d]) THEN tgt[d] ELSE None
                        /\ \A e \in {com'[d].parent, com'[d].replyTo} \ {None} : ExistsCom(e)'
      BY <2>2, <2>4 DEF RefsSound, Exists
    <3>1. d \in Requests /\ d # c /\ ExistsCom(d)
      BY <2>3 DEF Made, ExistsCom
    <3>2. com[d].parent \in Requests \cup {None} /\ com[d].replyTo \in Requests \cup {None}
      BY <3>1 DEF IInv, TypeOK, Comment
    <3>3. /\ com[d].item = IF Exists(tgt[d]) THEN tgt[d] ELSE None
          /\ \A e \in {com[d].parent, com[d].replyTo} \ {None} : ExistsCom(e)
      BY <3>1 DEF IInv, RefsSound
    <3> QED
      BY <1>0, <2>3, <3>1, <3>2, <3>3 DEF ExistsCom, Unlink
  <2> QED
    BY <2>6, <2>7, <2>8, <2>9, <2>10, <2>11, <2>12 DEF IInv
<1> QED
  BY <1>1, <1>2 DEF Uncomment

LEMMA AbortStep ==
  ASSUME IInv, NEW r \in Requests, Abort(r)
  PROVE  IInv'
<1>1. pc[r] \notin Ended /\ Goto(r, "aborted") /\ UNCHANGED <<rows, com, jobs, input, seen, history>>
  BY DEF Abort
<1>2. jobs \subseteq jobs' /\ jobs' \subseteq Job
  BY <1>1 DEF IInv, TypeOK
<1> QED
  BY <1>1, <1>2, MoveStep

-----------------------------------------------------------------------------
(* The theorems.                                                           *)

\* Steps that change nothing.
LEMMA Stuttering == IInv /\ UNCHANGED vars => IInv'
<1> SUFFICES ASSUME IInv, UNCHANGED vars PROVE IInv'
  OBVIOUS
<1>1. UNCHANGED <<status, text, owner, com, jobs, pc, who, tgt, ref, seen, approved, verdict>>
  BY DEF vars, rows, input, history
<1>2. TypeOK' /\ Made' = Made
  BY <1>1 DEF IInv, TypeOK, Made, Exists
<1>3. Found' /\ MadeSoundly' /\ Judged'
  BY <1>1, <1>2 DEF IInv, Found, MadeSoundly, Judged
<1>4. ApprovedAsItStands' /\ VerdictAnnounced' /\ RefsSound'
  BY <1>1, <1>2 DEF IInv, ApprovedAsItStands, VerdictAnnounced, Notice, RefsSound, Exists, ExistsCom
<1> QED
  BY <1>2, <1>3, <1>4 DEF IInv

\* Every step of every request keeps IInv.
THEOREM Invariance == Spec => []IInv
<1>1. IInv /\ [Next]_vars => IInv'
  <2> SUFFICES ASSUME IInv, [Next]_vars PROVE IInv'
    OBVIOUS
  <2>1. CASE UNCHANGED vars
    BY <2>1, Stuttering
  <2>2. ASSUME NEW r \in Requests, Request(r)
        PROVE  IInv'
    <3>1. ASSUME NEW u \in People, NEW i \in Items, Create(r, i, u) \/ FindAny(r, i, u)
          PROVE  IInv'
      BY <3>1, CreateStep, FindAnyStep
    <3>2. ASSUME NEW u \in People, NEW i \in Items, NEW p \in Made \cup {None}, NEW q \in Made \cup {None},
                 CommentBegin(r, i, u, [parent |-> p, replyTo |-> q])
          PROVE  IInv'
      BY <3>2, CommentBeginStep
    <3>3. ASSUME NEW u \in People, NEW c \in Made, NEW l \in {"rewrite", "erase"}, FindComment(r, c, u, l)
          PROVE  IInv'
      BY <3>3, FindCommentStep
    <3>4. CASE Update(r) \/ Submit(r) \/ Moderate(r) \/ Announce(r) \/ Remove(r)
      BY <3>4, UpdateStep, SubmitStep, ModerateStep, AnnounceStep, RemoveStep
    <3>5. CASE CommentInsert(r) \/ CommentLookup(r) \/ CommentEnqueue(r) \/ Rewrite(r) \/ Uncomment(r)
      BY <3>5, CommentInsertStep, CommentLookupStep, CommentEnqueueStep, RewriteStep, UncommentStep
    <3>6. CASE Abort(r)
      BY <3>6, AbortStep
    <3> QED
      BY <2>2, <3>1, <3>2, <3>3, <3>4, <3>5, <3>6 DEF Request
  <2> QED
    BY <2>1, <2>2 DEF Next
<1> QED
  BY <1>1, InitIInv, PTL DEF Spec

\* Every variable of Content keeps its type.
THEOREM TypeCorrect == Spec => []TypeOK
BY Invariance, PTL DEF IInv

\* A post that is APPROVED has the text it had when approve last wrote that: no
\* edit that raced with the moderators is under the verdict.
THEOREM ApprovalsStand == Spec => []ApprovedAsItStands
BY Invariance, PTL DEF IInv

\* The last verdict on a post is announced to its author, or its request is
\* still under way or was cut short.
THEOREM VerdictReachesAuthor == Spec => []VerdictAnnounced
BY Invariance, PTL DEF IInv

\* Comments point at rows that exist, and lose their item only with it.
THEOREM ReferencesHold == Spec => []RefsSound
BY Invariance, PTL DEF IInv
=============================================================================
