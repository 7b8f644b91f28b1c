------------------------------ MODULE Content ------------------------------
(***************************************************************************)
(* Posts, questions and comments of content-service (PostsService,         *)
(* QuestionsService, CommentsService).  A handler reads the row, decides,  *)
(* and writes it by its id in another statement; the two are actions of    *)
(* their own.  A request is used once, and names the text it writes and    *)
(* the comment it makes.  A question is an item whose status is "NONE".    *)
(***************************************************************************)
EXTENDS Naturals, FiniteSets

CONSTANTS
  Requests,
  Posts, Questions,   \* ids of the items
  Users,              \* users with a row in user_replicas
  Stranger,           \* a user whose replica has not been made
  None,               \* null
  MaxAborts           \* bound: requests that fail at an await

Items == Posts \cup Questions
People == Users \cup {Stranger}

ASSUME ContentAssumption ==
  /\ Posts \cap Questions = {} /\ Stranger \notin Users
  /\ None \notin Requests \cup Items \cup People /\ MaxAborts \in Nat

VARIABLES
  status,    \* tables posts and questions: the status of an item
  text,      \* its title and content, None for the first
  owner,     \* its authorId, never changed
  com,       \* table comments, by the request that made the row
  jobs,      \* notification jobs enqueued
  pc,        \* position of a request
  who,       \* the user of a request that makes a comment
  tgt,       \* the item or comment it is about
  seen,      \* the status it has read or, after a verdict, written
  ref,       \* parentId and replyToId of its comment
  approved,  \* history: the text approve last wrote APPROVED over
  verdict    \* history: the request that last wrote a verdict

rows == <<status, text, owner>>
input == <<who, tgt, ref>>
history == <<approved, verdict>>
vars == <<rows, com, jobs, pc, input, seen, history>>

Statuses == {"DRAFT", "PENDING", "APPROVED", "REJECTED"}
Alive == Statuses \cup {"NONE"}
Refs == [parent : Requests \cup {None}, replyTo : Requests \cup {None}]
Comment == [row : {"absent", "there", "deleted"}, item : Items \cup {None},
            parent : Requests \cup {None}, replyTo : Requests \cup {None},
            text : Requests \cup {None}]
Steps == {"idle", "update", "submit", "approve", "reject", "remove", "notice",
          "insert", "lookup", "enqueue", "rewrite", "erase", "ok", "refused", "aborted"}
Ended == {"ok", "refused", "aborted"}
Job == [type : {"POST_APPROVE", "POST_REJECT", "COMMENT_REPLY", "COMMENT_ON_POST"},
        about : Items \cup Requests, to : Users]

Exists(i) == status[i] \in Alive
ExistsCom(c) == com[c].row = "there"

TypeOK ==
  /\ status \in [Items -> {"absent", "deleted"} \cup Alive]
  /\ \A i \in Items : status[i] \in {"absent", "deleted"} \cup (IF i \in Posts THEN Statuses ELSE {"NONE"})
  /\ text \in [Items -> Requests \cup {None}]
  /\ owner \in [Items -> Users \cup {None}] /\ \A i \in Items : Exists(i) => owner[i] # None
  /\ com \in [Requests -> Comment]
  /\ jobs \subseteq Job
  /\ pc \in [Requests -> Steps]
  /\ who \in [Requests -> People \cup {None}]
  /\ tgt \in [Requests -> Items \cup Requests \cup {None}]
  /\ seen \in [Requests -> Alive]
  /\ ref \in [Requests -> Refs]
  /\ approved \in [Posts -> Requests \cup {None}]
  /\ verdict \in [Posts -> Requests \cup {None}]

\* An item is absent, or there in any status its handlers give it.  Those
\* that are there have one author.
Init ==
  /\ \E u \in Users : owner \in [Items -> {u, None}]
  /\ status \in [Items -> {"absent"} \cup Alive]
  /\ \A i \in Items : status[i] \in IF owner[i] = None THEN {"absent"}
                                    ELSE IF i \in Posts THEN Statuses ELSE {"NONE"}
  /\ text = [i \in Items |-> None]
  /\ com = [r \in Requests |->
       [row |-> "absent", item |-> None, parent |-> None, replyTo |-> None, text |-> None]]
  /\ jobs = {}
  /\ pc = [r \in Requests |-> "idle"]
  /\ who = [r \in Requests |-> None] /\ tgt = [r \in Requests |-> None]
  /\ seen = [r \in Requests |-> "NONE"]
  /\ ref = [r \in Requests |-> [parent |-> None, replyTo |-> None]]
  /\ approved = [p \in Posts |-> None] /\ verdict = [p \in Posts |-> None]

-----------------------------------------------------------------------------

At(r, l) == pc[r] = l
Goto(r, l) == pc' = [pc EXCEPT ![r] = l]
Refuse(r) == Goto(r, "refused") /\ UNCHANGED <<rows, com, jobs, input, seen, history>>

\* Mutated Create: no foreign key.
CreateUnchecked(r, i, u) ==
  /\ At(r, "idle") /\ status[i] = "absent"
  /\ status' = [status EXCEPT ![i] = IF i \in Posts THEN "DRAFT" ELSE "NONE"]
  /\ owner' = [owner EXCEPT ![i] = u] /\ text' = [text EXCEPT ![i] = r]
  /\ Goto(r, "ok")
  /\ UNCHANGED <<com, jobs, input, seen, history>>

\* create reads the replica for the avatar; the foreign key of the author
\* then refuses a user who has none.
Create(r, i, u) ==
  /\ At(r, "idle") /\ status[i] = "absent"
  /\ \/ u = Stranger /\ Refuse(r)
     \/ /\ u \in Users
        /\ status' = [status EXCEPT ![i] = IF i \in Posts THEN "DRAFT" ELSE "NONE"]
        /\ owner' = [owner EXCEPT ![i] = u] /\ text' = [text EXCEPT ![i] = r]
        /\ Goto(r, "ok")
        /\ UNCHANGED <<com, jobs, input, seen, history>>

\* findUnique and the checks after it: the row is there, its status is one of
\* `allowed`.  step is the write that follows.
Find(r, i, step, allowed) ==
  /\ At(r, "idle")
  /\ \/ status[i] \notin allowed /\ Refuse(r)
     \/ /\ status[i] \in allowed
        /\ tgt' = [tgt EXCEPT ![r] = i] /\ seen' = [seen EXCEPT ![r] = status[i]]
        /\ Goto(r, step) /\ UNCHANGED <<rows, com, jobs, who, ref, history>>

\* Authors only.
FindOwn(r, i, u, step, allowed) ==
  IF Exists(i) /\ owner[i] # u THEN At(r, "idle") /\ Refuse(r) ELSE Find(r, i, step, allowed)

\* posts:moderate is checked by the guard (see Permissions), not here.
FindAny(r, i, u) ==
  \/ FindOwn(r, i, u, "update", Alive) \/ FindOwn(r, i, u, "remove", Alive)
  \/ i \in Posts /\ \/ FindOwn(r, i, u, "submit", {"DRAFT"})
                    \/ Find(r, i, "approve", {"PENDING"})
                    \/ Find(r, i, "reject", {"PENDING"})

\* Mutated NewStatus: a status that does not change is not written.
NewStatusUnwritten(old, current) == IF old \in {"APPROVED", "REJECTED"} THEN "PENDING" ELSE current

\* The status an edit writes follows from the one it read.
NewStatus(old, current) == IF old \in {"APPROVED", "REJECTED"} THEN "PENDING" ELSE old

\* Here and below, update({where: {id}}) throws when the row is gone.
Update(r) ==
  /\ At(r, "update")
  /\ LET i == tgt[r] IN
     \/ ~Exists(i) /\ Refuse(r)
     \/ /\ Exists(i)
        /\ text' = [text EXCEPT ![i] = r] /\ status' = [status EXCEPT ![i] = NewStatus(seen[r], @)]
        /\ Goto(r, "ok") /\ UNCHANGED <<owner, com, jobs, input, seen, history>>

Submit(r) ==
  /\ At(r, "submit")
  /\ LET i == tgt[r] IN
     \/ ~Exists(i) /\ Refuse(r)
     \/ /\ Exists(i)
        /\ status' = [status EXCEPT ![i] = "PENDING"]
        /\ Goto(r, "ok") /\ UNCHANGED <<text, owner, com, jobs, input, seen, history>>

\* approve and reject: the verdict is written whatever the status has become.
Moderate(r) ==
  /\ pc[r] \in {"approve", "reject"}
  /\ LET i == tgt[r]
         new == IF At(r, "approve") THEN "APPROVED" ELSE "REJECTED"
     IN \/ ~Exists(i) /\ Refuse(r)
        \/ /\ Exists(i)
           /\ status' = [status EXCEPT ![i] = new] /\ seen' = [seen EXCEPT ![r] = new]
           /\ verdict' = [verdict EXCEPT ![i] = r]
           /\ approved' = [approved EXCEPT ![i] = IF new = "APPROVED" THEN text[i] ELSE @]
           /\ Goto(r, "notice") /\ UNCHANGED <<text, owner, com, jobs, input>>

Notice(i, new) ==
  [type |-> IF new = "APPROVED" THEN "POST_APPROVE" ELSE "POST_REJECT", about |-> i, to |-> owner[i]]

\* Mutated Announce: the row is read again and a job made if the verdict stands.
AnnounceStanding(r) ==
  /\ At(r, "notice")
  /\ jobs' = IF status[tgt[r]] = seen[r] THEN jobs \cup {Notice(tgt[r], seen[r])} ELSE jobs
  /\ Goto(r, "ok") /\ UNCHANGED <<rows, com, input, seen, history>>

\* approvePost, rejectPost, with the row the update returned.
Announce(r) ==
  /\ At(r, "notice")
  /\ jobs' = jobs \cup {Notice(tgt[r], seen[r])}
  /\ Goto(r, "ok") /\ UNCHANGED <<rows, com, input, seen, history>>

Unlink(x, gone) == IF x = gone THEN None ELSE x

\* delete: the foreign keys of the comments are set to null.
Remove(r) ==
  /\ At(r, "remove")
  /\ LET i == tgt[r] IN
     \/ ~Exists(i) /\ Refuse(r)
     \/ /\ Exists(i)
        /\ status' = [status EXCEPT ![i] = "deleted"]
        /\ com' = [c \in Requests |-> [com[c] EXCEPT !.item = Unlink(@, i)]]
        /\ Goto(r, "ok") /\ UNCHANGED <<text, owner, jobs, input, seen, history>>

-----------------------------------------------------------------------------
\* Comments

\* The reads before the insert, taken together: the insert looks at the same
\* rows again.  A parent need not be a comment of the same item.
CommentBegin(r, i, u, refs) ==
  /\ At(r, "idle")
  /\ \/ /\ ~Exists(i) \/ \E c \in {refs.parent, refs.replyTo} \ {None} : ~ExistsCom(c)
        /\ Refuse(r)
     \/ /\ Exists(i) /\ \A c \in {refs.parent, refs.replyTo} \ {None} : ExistsCom(c)
        /\ who' = [who EXCEPT ![r] = u] /\ tgt' = [tgt EXCEPT ![r] = i]
        /\ ref' = [ref EXCEPT ![r] = refs]
        /\ Goto(r, "insert") /\ UNCHANGED <<rows, com, jobs, seen, history>>

NewRow(r) == [row |-> "there", item |-> tgt[r], parent |-> ref[r].parent,
              replyTo |-> ref[r].replyTo, text |-> r]

\* Mutated CommentInsert: the insert trusts the reads before it.
CommentInsertUnchecked(r) ==
  /\ At(r, "insert")
  /\ com' = [com EXCEPT ![r] = NewRow(r)]
  /\ Goto(r, "lookup") /\ UNCHANGED <<rows, jobs, input, seen, history>>

\* The foreign keys of item, parent, replyTo and author decide.
CommentInsert(r) ==
  /\ At(r, "insert")
  /\ LET sound == /\ Exists(tgt[r]) /\ who[r] \in Users
                  /\ \A c \in {ref[r].parent, ref[r].replyTo} \ {None} : ExistsCom(c)
     IN \/ ~sound /\ Refuse(r)
        \/ /\ sound
           /\ com' = [com EXCEPT ![r] = NewRow(r)]
           /\ Goto(r, "lookup") /\ UNCHANGED <<rows, jobs, input, seen, history>>

Author(r) == IF ref[r].replyTo # None THEN who[ref[r].replyTo] ELSE owner[tgt[r]]

\* The author of the comment replied to, else of the item, if it is still
\* there and somebody else's.
CommentLookup(r) ==
  /\ At(r, "lookup")
  /\ LET there == IF ref[r].replyTo # None THEN ExistsCom(ref[r].replyTo) ELSE Exists(tgt[r])
     IN Goto(r, IF there /\ Author(r) # who[r] THEN "enqueue" ELSE "ok")
  /\ UNCHANGED <<rows, com, jobs, input, seen, history>>

\* commentReply, commentOnPost.
CommentEnqueue(r) ==
  /\ At(r, "enqueue")
  /\ jobs' = jobs \cup {[type |-> IF ref[r].replyTo # None THEN "COMMENT_REPLY" ELSE "COMMENT_ON_POST",
                         about |-> r, to |-> Author(r)]}
  /\ Goto(r, "ok") /\ UNCHANGED <<rows, com, input, seen, history>>

\* update and remove of a comment by its author; step is the write that follows.
FindComment(r, c, u, step) ==
  /\ At(r, "idle")
  /\ \/ (~ExistsCom(c) \/ who[c] # u) /\ Refuse(r)
     \/ /\ ExistsCom(c) /\ who[c] = u
        /\ tgt' = [tgt EXCEPT ![r] = c]
        /\ Goto(r, step) /\ UNCHANGED <<rows, com, jobs, who, ref, seen, history>>

Rewrite(r) ==
  /\ At(r, "rewrite")
  /\ LET c == tgt[r] IN
     \/ ~ExistsCom(c) /\ Refuse(r)
     \/ /\ ExistsCom(c)
        /\ com' = [com EXCEPT ![c].text = r]
        /\ Goto(r, "ok") /\ UNCHANGED <<rows, jobs, input, seen, history>>

\* delete: the answers to the comment lose their parent, not their item.
Uncomment(r) ==
  /\ At(r, "erase")
  /\ LET c == tgt[r] IN
     \/ ~ExistsCom(c) /\ Refuse(r)
     \/ /\ ExistsCom(c)
        /\ com' = [d \in Requests |->
             [com[d] EXCEPT !.row = IF d = c THEN "deleted" ELSE @,
                            !.parent = Unlink(@, c), !.replyTo = Unlink(@, c)]]
        /\ Goto(r, "ok") /\ UNCHANGED <<rows, jobs, input, seen, history>>

-----------------------------------------------------------------------------

\* A statement throws, or the process dies.
Abort(r) ==
  /\ pc[r] \notin Ended \cup {"idle"}
  /\ Cardinality({q \in Requests : At(q, "aborted")}) < MaxAborts
  /\ Goto(r, "aborted") /\ UNCHANGED <<rows, com, jobs, input, seen, history>>

\* Comments a request can name: those that have been made.
Made == {c \in Requests : com[c].row # "absent"}

Request(r) ==
  \/ \E u \in People :
       \/ \E i \in Items : Create(r, i, u) \/ FindAny(r, i, u)
       \/ \E i \in Items, p, q \in Made \cup {None} : CommentBegin(r, i, u, [parent |-> p, replyTo |-> q])
       \/ \E c \in Made, step \in {"rewrite", "erase"} : FindComment(r, c, u, step)
  \/ Update(r) \/ Submit(r) \/ Moderate(r) \/ Announce(r) \/ Remove(r)
  \/ CommentInsert(r) \/ CommentLookup(r) \/ CommentEnqueue(r) \/ Rewrite(r) \/ Uncomment(r)
  \/ Abort(r)

Next == \E r \in Requests : Request(r)

Spec == Init /\ [][Next]_vars

-----------------------------------------------------------------------------

\* A post that is APPROVED has the text that approve last wrote APPROVED over: no
\* edit, however it races with the moderators, slips another text under the
\* verdict.  (This is not about what can be read: findOne and a status in the
\* query of findAll show posts of any status.)
ApprovedAsItStands ==
  \A p \in Posts : status[p] = "APPROVED" => text[p] = approved[p]

\* The author is told of the last verdict on a post, unless its request is
\* still under way or was cut short between the update and the job; edits,
\* other verdicts and the removal of the post in between change nothing.
VerdictAnnounced ==
  \A p \in Posts :
    LET r == verdict[p] IN
    r # None => pc[r] \in {"notice", "aborted"} \/ Notice(p, seen[r]) \in jobs

\* A comment points at rows that exist, and at no item only if its own was
\* deleted.
RefsSound ==
  \A c \in Made :
    ExistsCom(c) =>
      /\ com[c].item = IF Exists(tgt[c]) THEN tgt[c] ELSE None
      /\ \A d \in {com[c].parent, com[c].replyTo} \ {None} : ExistsCom(d)
=============================================================================
