--------------------------- MODULE Notifications ---------------------------
(***************************************************************************)
(* One user's notifications, from the BullMQ job to the badge on the       *)
(* user's screen: the worker of notification-service (JobsService,         *)
(* NotificationService.createNoti), the NOTIFICATION_EVENT stream, the     *)
(* gateway's JetStream consumer, and notification:read and read-all        *)
(* (NotificationWsGateway).  Up to ten jobs run at once, each cut at its   *)
(* awaits.  The user stays connected (see SocketRegistry).                 *)
(*                                                                         *)
(* The row a job makes is named by the job and the run that made it.  A    *)
(* count of unread rows is abstracted to whether it is still right: no     *)
(* row was added or read since it was taken.                               *)
(***************************************************************************)
EXTENDS Naturals

CONSTANTS
  Jobs,         \* notification jobs for the user
  Reads,        \* read and read-all messages of the user
  Attempts,     \* attempts of each job, an option it is enqueued with
  MaxDeliver,   \* max_deliver of the consumer
  MaxFaults     \* bound: deaths of the worker, publishes that fail, deliveries
                \* not acknowledged and calls of the gateway that fail, in all

ASSUME NotificationsAssumption ==
  /\ Jobs \cap Reads = {}
  /\ Attempts \in [Jobs -> Nat \ {0}] /\ MaxDeliver \in Nat \ {0} /\ MaxFaults \in Nat

VARIABLES
  st,        \* state of a job, and position of its handler
  left,      \* attempts a job has left
  run,       \* times its handler was started
  rows,      \* table notifications
  num,       \* the count a handler, or a message, holds is right
  stream,    \* notification.created: [row, right, left]; a set, for redelivered
             \* events come in any order
  badge,     \* the unreadCount last emitted to the user is right
  shown,     \* rows emitted as notification:new
  consuming, \* the gateway's consumer loop runs: NATS was there at its start
  rd,        \* position of a message
  faults,    \* for the bound
  cut,       \* history: rows whose handler failed or died after the insert
  dropped,   \* history: rows whose event was never published, or given up
  disturbed  \* history: two changes overlapped, one came by HTTP, or a message failed

job == <<st, left, run>>
counts == <<num, stream, badge>>
screen == <<shown, consuming>>
history == <<cut, dropped, disturbed>>
vars == <<job, rows, counts, screen, rd, faults, history>>

Row == UNION {{j} \X (1..(Attempts[j] + 1)) : j \in Jobs}
Event == [row : Row, right : BOOLEAN, left : 1..MaxDeliver]
Running == {"insert", "count", "publish", "finish"}

TypeOK ==
  /\ st \in [Jobs -> {"new", "waiting", "done", "dead"} \cup Running]
  /\ left \in [Jobs -> Nat] /\ run \in [Jobs -> Nat]
  /\ \A j \in Jobs :
       /\ left[j] <= Attempts[j] /\ run[j] <= Attempts[j] + 1
       /\ left[j] = 0 => st[j] = "dead"
  /\ rows \subseteq Row
  /\ num \in [Jobs \cup Reads -> BOOLEAN]
  /\ stream \subseteq Event
  /\ badge \in BOOLEAN /\ shown \subseteq rows /\ consuming \in BOOLEAN
  /\ rd \in [Reads -> {"idle", "count", "emit", "done"}]
  /\ faults \in 0..MaxFaults
  /\ cut \subseteq rows /\ dropped \subseteq rows /\ disturbed \in BOOLEAN

Init ==
  /\ st = [j \in Jobs |-> "new"] /\ left = Attempts /\ run = [j \in Jobs |-> 0]
  /\ rows = {} /\ num = [x \in Jobs \cup Reads |-> FALSE]
  /\ stream = {} /\ badge = TRUE /\ shown = {} /\ consuming \in BOOLEAN
  /\ rd = [q \in Reads |-> "idle"] /\ faults = 0
  /\ cut = {} /\ dropped = {} /\ disturbed = FALSE

-----------------------------------------------------------------------------

Goto(j, l) == st' = [st EXCEPT ![j] = l]
RowOf(j) == <<j, run[j]>>
Fault == faults < MaxFaults /\ faults' = faults + 1

\* A change of the table has been made whose count has not been emitted.
Busy ==
  \/ \E j \in Jobs : st[j] \in {"count", "publish"}
  \/ stream # {}
  \/ \E q \in Reads : rd[q] \in {"count", "emit"}

\* A row is added or read: every count taken before, but those of known, is wrong.
Change(known) ==
  /\ num' = [x \in Jobs \cup Reads |-> x \in known]
  /\ stream' = {[e EXCEPT !.right = FALSE] : e \in stream}
  /\ badge' = FALSE
  /\ disturbed' = (disturbed \/ Busy) /\ UNCHANGED <<cut, dropped>>

\* notificationService.unreadCount
UnreadCount(x) == num' = [num EXCEPT ![x] = TRUE]

-----------------------------------------------------------------------------
\* The queue and the worker

\* approvePost, rejectPost, commentOnPost, commentReply (see Content).
Enqueue(j) ==
  /\ st[j] = "new" /\ Goto(j, "waiting")
  /\ UNCHANGED <<left, run, rows, counts, screen, rd, faults, history>>

Start(j) ==
  /\ st[j] = "waiting" /\ Goto(j, "insert") /\ run' = [run EXCEPT ![j] = @ + 1]
  /\ UNCHANGED <<left, rows, counts, screen, rd, faults, history>>

\* Mutated Insert: the unread rows are counted before the row is made.
InsertCounted(j) ==
  /\ st[j] = "insert" /\ Goto(j, "publish")
  /\ rows' = rows \cup {RowOf(j)} /\ Change({})
  /\ UNCHANGED <<left, run, screen, rd, faults>>

Insert(j) ==
  /\ st[j] = "insert" /\ Goto(j, "count")
  /\ rows' = rows \cup {RowOf(j)} /\ Change({})
  /\ UNCHANGED <<left, run, screen, rd, faults>>

Count(j) ==
  /\ st[j] = "count" /\ Goto(j, "publish") /\ UnreadCount(j)
  /\ UNCHANGED <<left, run, rows, stream, badge, screen, rd, faults, history>>

Emitted(j) == stream' = stream \cup {[row |-> RowOf(j), right |-> num[j], left |-> MaxDeliver]}
Swallowed(j) == Fault /\ dropped' = dropped \cup {RowOf(j)} /\ UNCHANGED <<stream, cut, disturbed>>

\* Mutated Publish: a failed publish is thrown, and the job tried again.
PublishThrows(j) ==
  /\ st[j] = "publish"
  /\ \/ Goto(j, "finish") /\ Emitted(j) /\ UNCHANGED <<left, faults, history>>
     \/ /\ Swallowed(j) /\ left' = [left EXCEPT ![j] = @ - 1]
        /\ Goto(j, IF left[j] = 1 THEN "dead" ELSE "waiting")
  /\ num' = [num EXCEPT ![j] = FALSE]
  /\ UNCHANGED <<run, rows, badge, screen, rd>>

\* natsService.publish swallows its errors and does nothing unconnected.
Publish(j) ==
  /\ st[j] = "publish" /\ Goto(j, "finish")
  /\ \/ Emitted(j) /\ UNCHANGED <<faults, history>>
     \/ Swallowed(j)
  /\ num' = [num EXCEPT ![j] = FALSE]
  /\ UNCHANGED <<left, run, rows, badge, screen, rd>>

\* BullMQ records that process() has returned.
Finish(j) ==
  /\ st[j] = "finish" /\ Goto(j, "done")
  /\ UNCHANGED <<left, run, rows, counts, screen, rd, faults, history>>

\* Mutated Throw: one attempt too many.
ThrowLate(j) ==
  /\ st[j] \in {"insert", "count"}
  /\ left' = [left EXCEPT ![j] = IF @ = 0 THEN 0 ELSE @ - 1]
  /\ Goto(j, IF left[j] = 0 THEN "dead" ELSE "waiting")
  /\ UNCHANGED <<run, rows, counts, screen, rd, faults, history>>

\* Mutated Throw: the last attempt is retried like the others.
ThrowForEver(j) ==
  /\ st[j] \in {"insert", "count"} /\ Goto(j, "waiting")
  /\ left' = [left EXCEPT ![j] = IF @ = 1 THEN Attempts[j] ELSE @ - 1]
  /\ run' = [run EXCEPT ![j] = IF left[j] = 1 THEN 0 ELSE @]
  /\ UNCHANGED <<rows, counts, screen, rd, faults, history>>

\* The insert or the count throws, process() throws on, and BullMQ tries again
\* after a delay until no attempt is left; the job then goes to the
\* dead-letter queue (or, if that fails too, is only logged).
Throw(j) ==
  /\ st[j] \in {"insert", "count"}
  /\ left' = [left EXCEPT ![j] = @ - 1]
  /\ Goto(j, IF left[j] = 1 THEN "dead" ELSE "waiting")
  /\ cut' = IF st[j] = "count" THEN cut \cup {RowOf(j)} ELSE cut
  /\ UNCHANGED <<run, rows, counts, screen, rd, faults, dropped, disturbed>>

\* The worker process dies: the jobs it held stall and wait again, without
\* the loss of an attempt.  BullMQ fails a job that stalls twice, and the
\* handler of "failed" keeps no record of it: attempts are left.
Stalls(j) == run[j] - 1 - (Attempts[j] - left[j])
Crash ==
  /\ Fault
  /\ \E j \in Jobs : st[j] \in Running
  /\ st' = [j \in Jobs |-> IF st[j] \notin Running THEN st[j]
                          ELSE IF Stalls(j) = 1 THEN "dead" ELSE "waiting"]
  /\ cut' = cut \cup {RowOf(j) : j \in {k \in Jobs : st[k] \in {"count", "publish", "finish"}}}
  /\ num' = [x \in Jobs \cup Reads |-> x \in Reads /\ num[x]]
  /\ UNCHANGED <<left, run, rows, stream, badge, screen, rd, dropped, disturbed>>

-----------------------------------------------------------------------------
\* The stream and the gateway

\* Mutated Redeliver: an event that was not acknowledged does not come back.
RedeliverNot(e) == stream' = stream \ {e}

\* Not acknowledged in time, or nak: delivered again, max_deliver times in all.
Redeliver(e) ==
  stream' = (stream \ {e}) \cup IF e.left > 1 THEN {[e EXCEPT !.left = @ - 1]} ELSE {}

Show(e) == badge' = e.right /\ shown' = shown \cup {e.row}

\* handle emits to the user's sockets, then the loop acknowledges.  The
\* acknowledgement may be lost; handle may throw before it emits.  A gateway that
\* found no NATS at its start has no loop until it is started again.
Deliver ==
  /\ consuming
  /\ \E e \in stream :
     \/ Show(e) /\ stream' = stream \ {e} /\ UNCHANGED <<faults, history>>
     \/ Fault /\ Show(e) /\ Redeliver(e) /\ UNCHANGED history
     \/ /\ Fault /\ Redeliver(e) /\ UNCHANGED <<badge, shown, cut, disturbed>>
        /\ dropped' = IF e.left = 1 /\ e.row \notin shown THEN dropped \cup {e.row} ELSE dropped
  /\ UNCHANGED <<job, rows, num, rd, consuming>>

-----------------------------------------------------------------------------
\* Messages of the user

\* markRead in notification-service.  The status of the answer is not looked
\* at, so a row already read, or a refusal, goes on like a success.
Read(q) ==
  /\ rd[q] = "idle" /\ rd' = [rd EXCEPT ![q] = "count"]
  /\ \/ rows # {} /\ Change({})
     \/ UNCHANGED <<counts, history>>
  /\ UNCHANGED <<job, rows, screen, faults>>

ReadCount(q) ==
  /\ rd[q] = "count" /\ rd' = [rd EXCEPT ![q] = "emit"]
  /\ UnreadCount(q)
  /\ UNCHANGED <<job, rows, stream, badge, screen, faults, history>>

\* read-all emits 0 without a count, after a refusal too.
ReadAll(q) ==
  /\ rd[q] = "idle" /\ rd' = [rd EXCEPT ![q] = "emit"]
  /\ \/ Change({q})
     \/ disturbed' = TRUE /\ UNCHANGED <<counts, cut, dropped>>
  /\ UNCHANGED <<job, rows, screen, faults>>

ReadEmit(q) ==
  /\ rd[q] = "emit" /\ rd' = [rd EXCEPT ![q] = "done"]
  /\ badge' = num[q] /\ num' = [num EXCEPT ![q] = FALSE]
  /\ UNCHANGED <<job, rows, stream, screen, faults, history>>

\* A call to notification-service fails: an error is emitted, or an update
\* without a count.
ReadFail(q) ==
  /\ rd[q] \in {"count", "emit"} /\ rd' = [rd EXCEPT ![q] = "done"]
  /\ Fault /\ disturbed' = TRUE /\ num' = [num EXCEPT ![q] = FALSE]
  /\ UNCHANGED <<job, rows, stream, badge, screen, cut, dropped>>

\* The same by HTTP (NotificationController): the caller gets an answer and
\* nothing is emitted, so the badge of the other tabs is left as it is.  A call
\* that finds nothing to change is no step of the model.
RestRead(q) ==
  /\ rd[q] = "idle" /\ rd' = [rd EXCEPT ![q] = "done"]
  /\ rows # {}
  /\ num' = [x \in Jobs \cup Reads |-> FALSE]
  /\ stream' = {[e EXCEPT !.right = FALSE] : e \in stream}
  /\ badge' = FALSE /\ disturbed' = TRUE
  /\ UNCHANGED <<job, rows, screen, faults, cut, dropped>>

-----------------------------------------------------------------------------

Work(j) == Start(j) \/ Insert(j) \/ Count(j) \/ Publish(j) \/ Finish(j) \/ Throw(j)

Next ==
  \/ \E j \in Jobs : Enqueue(j) \/ Work(j)
  \/ Crash \/ Deliver
  \/ \E q \in Reads : Read(q) \/ ReadCount(q) \/ ReadAll(q) \/ ReadEmit(q) \/ ReadFail(q)
                    \/ RestRead(q)

\* The worker takes every job it can and a consumer loop that runs never stops.
\* Nothing is assumed of the producers, the user or the faults.
Spec == Init /\ [][Next]_vars /\ (\A j \in Jobs : WF_vars(Work(j))) /\ WF_vars(Deliver)

-----------------------------------------------------------------------------

\* A second row for one job means that a handler failed or died between the
\* insert and the end: nothing else, and no failed publish, repeats a
\* notification.
DuplicateHasCause ==
  \A x, y \in rows : x[1] = y[1] /\ x[2] < y[2] => x \in cut

\* A job is never forgotten: it waits, runs, left a row, or is dead.
JobAccounted ==
  \A j \in Jobs : st[j] = "done" => \E row \in rows : row[1] = j

\* A row is shown, or its event is on the way, or its handler is, or a failure
\* named in the code stopped it.
RowAccounted ==
  \A row \in rows :
    \/ row \in shown \cup dropped \cup cut
    \/ \E e \in stream : e.row = row
    \/ row = RowOf(row[1]) /\ st[row[1]] \in {"count", "publish"}

\* From the queue to the screen nothing is lost without one of the failures
\* the code provides for.
NothingLost == JobAccounted /\ RowAccounted

\* Once everything is quiet the badge is the number of unread rows, if no two
\* changes overlapped, none came by HTTP and nothing failed.  (Overlaps do leave
\* it wrong: counts are emitted in another order than they were taken.)
BadgeRight == ~Busy /\ ~disturbed /\ cut = {} /\ dropped = {} => badge

\* Every job that was enqueued ends on the user's screen, in the dead-letter
\* queue (or stalled for good), with an event that was given up, or with one that
\* waits on the stream for a gateway without a consumer loop.
Settled(j) ==
  \/ st[j] = "dead"
  \/ st[j] = "done" /\ \E row \in shown \cup dropped : row[1] = j
  \/ st[j] = "done" /\ ~consuming /\ \E e \in stream : e.row[1] = j
JobSettles == []<>(\A j \in Jobs : st[j] # "new" => Settled(j))
=============================================================================
