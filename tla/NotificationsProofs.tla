------------------------ MODULE NotificationsProofs ------------------------
(***************************************************************************)
(* Theorems about Notifications, for any jobs, attempts, messages and      *)
(* bounds: its type invariant, DuplicateHasCause, NothingLost and          *)
(* BadgeRight.  IInv adds the count of a job's runs, whose row is whose,   *)
(* and what is right of every count under way as long as nothing overlaps. *)
(***************************************************************************)
EXTENDS Notifications, TLAPS

USE NotificationsAssumption

-----------------------------------------------------------------------------
(* The inductive invariant.                                                *)

\* A job has been started once, and again for each attempt lost and for at most
\* one stall.
Counted == \A j \in Jobs :
  /\ run[j] <= Attempts[j] + 1 /\ left[j] <= Attempts[j]
  /\ st[j] = "new" => run[j] = 0 /\ left[j] = Attempts[j]
  /\ st[j] = "waiting" => run[j] + left[j] \in {Attempts[j], Attempts[j] + 1}
  /\ st[j] \in Running \cup {"done"} => run[j] + left[j] \in {Attempts[j] + 1, Attempts[j] + 2}
  /\ st[j] # "dead" => left[j] > 0

\* A row that no failed run left is the one of the last run, which goes on.
Owned == \A row \in rows :
  /\ row[2] <= run[row[1]]
  /\ st[row[1]] = "insert" => row[2] < run[row[1]]
  /\ row \in cut \/ (row = RowOf(row[1]) /\ st[row[1]] \in {"count", "publish", "finish", "done"})

\* Past its insert a job has a row, which it has not published before "publish".
\* Every event is about a row.
Published ==
  /\ \A j \in Jobs : st[j] \in {"count", "publish", "finish", "done"} => RowOf(j) \in rows
  /\ \A j \in Jobs : st[j] \in {"count", "publish"} =>
       RowOf(j) \notin shown /\ \A e \in stream : e.row # RowOf(j)
  /\ \A e \in stream : e.row \in rows

\* While nothing has overlapped or failed, every count under way is right, and
\* so is the badge unless such a count is coming.
Calm == ~disturbed /\ cut = {} /\ dropped = {}
Counts == Calm =>
  /\ \A j \in Jobs : st[j] = "publish" => num[j]
  /\ \A q \in Reads : rd[q] = "emit" => num[q]
  /\ \A e \in stream : e.right /\ (e.row \in shown => badge)
  /\ badge \/ Busy

IInv == TypeOK /\ Counted /\ Owned /\ Published /\ RowAccounted /\ Counts

-----------------------------------------------------------------------------
(* Facts about rows and events.                                            *)

LEMMA RowFacts ==
  /\ \A row \in Row : row[1] \in Jobs /\ row[2] \in 1..(Attempts[row[1]] + 1) /\ row = <<row[1], row[2]>>
  /\ \A j \in Jobs : \A n \in 1..(Attempts[j] + 1) : <<j, n>> \in Row
BY DEF Row

\* What Change does to num.
LEMMA Indicator ==
  ASSUME NEW known, NEW D, NEW f, f = [x \in D |-> x \in known]
  PROVE  f \in [D -> BOOLEAN]
<1>1. \A x \in D : f[x] = TRUE \/ f[x] = FALSE
  <2> TAKE x \in D
  <2>1. CASE x \in known
    BY <2>1
  <2>2. CASE x \notin known
    BY <2>2
  <2> QED
    BY <2>1, <2>2
<1>2. f = [x \in D |-> f[x]]
  BY SMT
<1>3. \A x \in D : f[x] \in BOOLEAN
  BY <1>1
<1> QED
  BY <1>2, <1>3, Zenon

\* The events keep their rows when their counts become wrong.
LEMMA WrongFacts ==
  ASSUME stream \subseteq Event, stream' = {[e EXCEPT !.right = FALSE] : e \in stream}
  PROVE  /\ stream' \subseteq Event
         /\ \A f \in stream' : \E e \in stream : f.row = e.row
         /\ \A e \in stream : \E f \in stream' : f.row = e.row
<1>1. \A e \in stream : [e EXCEPT !.right = FALSE] \in Event /\ [e EXCEPT !.right = FALSE].row = e.row
  BY DEF Event
<1> QED
  BY <1>1

LEMMA InitIInv == Init => IInv
<1> SUFFICES ASSUME Init PROVE IInv
  OBVIOUS
<1>1. TypeOK
  <2>1. \A j \in Jobs : Attempts[j] \in Nat /\ Attempts[j] # 0
    OBVIOUS
  <2>2. num \in [Jobs \cup Reads -> BOOLEAN] /\ badge \in BOOLEAN /\ disturbed \in BOOLEAN
    BY DEF Init
  <2>3. left \in [Jobs -> Nat] /\ \A j \in Jobs : left[j] <= Attempts[j] /\ left[j] # 0
    BY <2>1 DEF Init
  <2>4. st \in [Jobs -> {"new", "waiting", "done", "dead"} \cup Running] /\ rd \in [Reads -> {"idle", "count", "emit", "done"}]
    BY DEF Init, Running
  <2>5. run \in [Jobs -> Nat] /\ \A j \in Jobs : run[j] <= Attempts[j] + 1
    BY <2>1 DEF Init
  <2> QED
    BY <2>2, <2>3, <2>4, <2>5 DEF Init, TypeOK
<1>2. Counted /\ Owned /\ Published /\ RowAccounted /\ Counts
  BY DEF Init, Counted, Owned, Published, RowAccounted, Counts, Running
<1> QED
  BY <1>1, <1>2 DEF IInv

-----------------------------------------------------------------------------
(* The steps of a job.                                                     *)

LEMMA EnqueueStep ==
  ASSUME IInv, NEW j \in Jobs, Enqueue(j)
  PROVE  IInv'
<1>1. /\ st[j] = "new" /\ st'[j] = "waiting" /\ \A k \in Jobs \ {j} : st'[k] = st[k]
      /\ UNCHANGED <<left, run, rows, num, stream, badge, shown, consuming, rd, faults, cut, dropped, disturbed>>
  BY DEF Enqueue, Goto, counts, history, screen, IInv, TypeOK
<1>2. TypeOK'
  BY <1>1 DEF Enqueue, Goto, IInv, TypeOK
<1>3. Counted'
  BY <1>1 DEF IInv, Counted, Running, TypeOK
<1>4. Owned' /\ Published' /\ RowAccounted'
  BY <1>1, RowFacts DEF IInv, Owned, Published, RowAccounted, RowOf, TypeOK
<1>5. Counts'
  BY <1>1 DEF IInv, Counts, Calm, Busy
<1> QED
  BY <1>2, <1>3, <1>4, <1>5 DEF IInv

LEMMA StartStep ==
  ASSUME IInv, NEW j \in Jobs, Start(j)
  PROVE  IInv'
<1>1. /\ st[j] = "waiting" /\ st'[j] = "insert" /\ run'[j] = run[j] + 1
      /\ \A k \in Jobs \ {j} : st'[k] = st[k] /\ run'[k] = run[k]
      /\ UNCHANGED <<left, rows, num, stream, badge, shown, consuming, rd, faults, cut, dropped, disturbed>>
  BY DEF Start, Goto, counts, history, screen, IInv, TypeOK
<1>2. /\ left[j] \in Nat /\ run[j] \in Nat /\ left[j] > 0 /\ Attempts[j] \in Nat
      /\ run[j] + left[j] \in {Attempts[j], Attempts[j] + 1}
  BY <1>1 DEF IInv, Counted, TypeOK
<1>3. TypeOK'
  <2>1. st' \in [Jobs -> {"new", "waiting", "done", "dead"} \cup Running] /\ run' \in [Jobs -> Nat]
    BY <1>2 DEF Start, Goto, IInv, TypeOK, Running
  <2> QED
    BY <1>1, <1>2, <2>1 DEF IInv, TypeOK
<1>4. Counted'
  BY <1>1, <1>2 DEF IInv, Counted, Running, TypeOK
<1>5. \A row \in rows : row[1] \in Jobs /\ row[2] \in Nat
  BY RowFacts DEF IInv, TypeOK
<1>6. Owned'
  BY <1>1, <1>2, <1>5 DEF IInv, Owned, RowOf, TypeOK
<1>7. Published'
  BY <1>1 DEF IInv, Published, RowOf
<1>8. RowAccounted'
  BY <1>1, <1>5 DEF IInv, RowAccounted, RowOf
<1>9. Counts'
  BY <1>1 DEF IInv, Counts, Calm, Busy
<1> QED
  BY <1>3, <1>4, <1>6, <1>7, <1>8, <1>9 DEF IInv

\* The row is new, and a count is coming.
LEMMA InsertStep ==
  ASSUME IInv, NEW j \in Jobs, Insert(j)
  PROVE  IInv'
<1>1. /\ st[j] = "insert" /\ st'[j] = "count" /\ \A k \in Jobs \ {j} : st'[k] = st[k]
      /\ rows' = rows \cup {RowOf(j)}
      /\ UNCHANGED <<left, run, shown, consuming, rd, faults, cut, dropped>>
      /\ num' = [x \in Jobs \cup Reads |-> x \in {}] /\ badge' = FALSE
      /\ stream' = {[e EXCEPT !.right = FALSE] : e \in stream}
      /\ disturbed' = (disturbed \/ Busy)
  BY DEF Insert, Goto, Change, screen, IInv, TypeOK
<1>2. /\ stream' \subseteq Event
      /\ \A f \in stream' : \E e \in stream : f.row = e.row
      /\ \A e \in stream : \E f \in stream' : f.row = e.row
  BY <1>1, WrongFacts DEF IInv, TypeOK
<1>3. RowOf(j) \in Row
  <2>1. run[j] \in 1..(Attempts[j] + 1)
    BY <1>1 DEF IInv, TypeOK, Counted, Running
  <2> QED
    BY <2>1, RowFacts DEF RowOf
<1>4. \A row \in rows : row[1] \in Jobs /\ row[2] \in Nat
  BY RowFacts DEF IInv, TypeOK
<1>5. RowOf(j) \notin rows /\ RowOf(j)' = RowOf(j) /\ RowOf(j)[1] = j /\ RowOf(j)[2] = run[j] /\ run[j] \in Nat
  BY <1>1, <1>4 DEF IInv, Owned, RowOf, TypeOK
<1>6. TypeOK'
  <2>1. st' \in [Jobs -> {"new", "waiting", "done", "dead"} \cup Running]
    BY DEF Insert, Goto, IInv, TypeOK, Running
  <2>2. num' \in [Jobs \cup Reads -> BOOLEAN]
    <3>1. num' = [x \in Jobs \cup Reads |-> x \in {}]
      BY <1>1, Zenon
    <3> QED
      BY <3>1, Indicator
  <2>3. disturbed' \in BOOLEAN
    BY <1>1
  <2> QED
    BY <1>1, <1>2, <1>3, <2>1, <2>2, <2>3 DEF IInv, TypeOK
<1>7. Counted'
  BY <1>1 DEF IInv, Counted, Running
<1>8. Owned'
  BY <1>1, <1>4, <1>5 DEF IInv, Owned, RowOf
<1>9. Published'
  <2>1. RowOf(j) \notin shown /\ \A e \in stream : e.row # RowOf(j)
    BY <1>5 DEF IInv, TypeOK, Published
  <2>2. \A k \in Jobs : RowOf(k)' = RowOf(k)
    BY <1>1 DEF RowOf
  <2>3. \A k \in Jobs : st'[k] \in {"count", "publish", "finish", "done"} => RowOf(k) \in rows'
    BY <1>1 DEF IInv, Published
  <2>4. \A k \in Jobs : st'[k] \in {"count", "publish"} =>
          RowOf(k) \notin shown /\ \A e \in stream : e.row # RowOf(k)
    BY <1>1, <2>1 DEF IInv, Published
  <2>5. \A f \in stream' : f.row \in rows'
    BY <1>1, <1>2 DEF IInv, Published
  <2>6. \A k \in Jobs : st'[k] \in {"count", "publish"} =>
          RowOf(k) \notin shown' /\ \A f \in stream' : f.row # RowOf(k)
    BY <1>1, <1>2, <2>4
  <2> QED
    BY <2>2, <2>3, <2>5, <2>6 DEF Published
<1>10. RowAccounted'
  <2> SUFFICES ASSUME NEW row \in rows'
               PROVE  \/ row \in shown \cup dropped \cup cut
                      \/ \E f \in stream' : f.row = row
                      \/ row = RowOf(row[1])' /\ st'[row[1]] \in {"count", "publish"}
    BY <1>1 DEF RowAccounted
  <2>1. CASE row = RowOf(j)
    BY <1>1, <1>5, <2>1
  <2>2. CASE row \in rows
    <3>1. row[1] \in Jobs /\ RowOf(row[1])' = RowOf(row[1])
      BY <1>1, <1>4, <2>2 DEF RowOf
    <3>2. CASE \E e \in stream : e.row = row
      BY <1>2, <3>2
    <3>3. CASE row \in shown \cup dropped \cup cut
      BY <3>3
    <3>4. CASE row = RowOf(row[1]) /\ st[row[1]] \in {"count", "publish"}
      BY <1>1, <3>1, <3>4
    <3> QED
      BY <2>2, <3>2, <3>3, <3>4 DEF IInv, RowAccounted
  <2> QED
    BY <1>1, <2>1, <2>2
<1>11. Counts'
  <2> SUFFICES ASSUME Calm' PROVE Counts'
    BY DEF Counts
  <2>1. ~Busy
    BY <1>1 DEF Calm
  <2>2. stream' = {} /\ Busy'
    BY <1>1, <2>1 DEF Busy
  <2>3. (\A k \in Jobs : st'[k] # "publish") /\ (\A q \in Reads : rd'[q] # "emit")
    BY <1>1, <2>1 DEF Busy
  <2> QED
    BY <2>2, <2>3 DEF Counts
<1> QED
  BY <1>6, <1>7, <1>8, <1>9, <1>10, <1>11 DEF IInv

LEMMA CountStep ==
  ASSUME IInv, NEW j \in Jobs, Count(j)
  PROVE  IInv'
<1>1. /\ st[j] = "count" /\ st'[j] = "publish" /\ \A k \in Jobs \ {j} : st'[k] = st[k]
      /\ num'[j] = TRUE /\ \A x \in (Jobs \cup Reads) \ {j} : num'[x] = num[x]
      /\ UNCHANGED <<left, run, rows, stream, badge, shown, consuming, rd, faults, cut, dropped, disturbed>>
  BY DEF Count, UnreadCount, Goto, history, screen, IInv, TypeOK
<1>2. TypeOK'
  BY <1>1 DEF Count, UnreadCount, Goto, IInv, TypeOK, Running
<1>3. Counted'
  BY <1>1 DEF IInv, Counted, Running
<1>4. Owned' /\ Published' /\ RowAccounted'
  BY <1>1, RowFacts DEF IInv, Owned, Published, RowAccounted, RowOf, TypeOK
<1>5. Counts'
  <2> SUFFICES ASSUME Calm' PROVE Counts'
    BY DEF Counts
  <2>1. Calm /\ Busy'
    BY <1>1 DEF Calm, Busy
  <2>2. (\A k \in Jobs : st'[k] = "publish" => num'[k]) /\ (\A q \in Reads : rd'[q] = "emit" => num'[q])
    BY <1>1, <2>1 DEF IInv, Counts
  <2> QED
    BY <1>1, <2>1, <2>2 DEF IInv, Counts
<1> QED
  BY <1>2, <1>3, <1>4, <1>5 DEF IInv

\* The event carries the count, or the row is dropped.
LEMMA PublishStep ==
  ASSUME IInv, NEW j \in Jobs, Publish(j)
  PROVE  IInv'
<1> DEFINE new == [row |-> RowOf(j), right |-> num[j], left |-> MaxDeliver]
<1>1. /\ st[j] = "publish" /\ st'[j] = "finish" /\ \A k \in Jobs \ {j} : st'[k] = st[k]
      /\ num' \in [Jobs \cup Reads -> BOOLEAN] /\ \A x \in (Jobs \cup Reads) \ {j} : num'[x] = num[x]
      /\ UNCHANGED <<left, run, rows, badge, shown, consuming, rd, cut, disturbed>>
      /\ faults' \in 0..MaxFaults
  BY DEF Publish, Swallowed, Fault, Goto, history, screen, IInv, TypeOK
<1>2. \/ stream' = stream \cup {new} /\ dropped' = dropped
      \/ stream' = stream /\ dropped' = dropped \cup {RowOf(j)}
  BY DEF Publish, Emitted, Swallowed, history, screen
<1>3. RowOf(j) \in rows /\ RowOf(j) \notin shown /\ RowOf(j)[1] = j
  BY <1>1 DEF IInv, Published, RowOf
<1>4. new \in Event /\ new.row = RowOf(j) /\ new.right = num[j]
  BY <1>3 DEF Event, IInv, TypeOK
<1>5. \A row \in rows : row[1] \in Jobs
  BY RowFacts DEF IInv, TypeOK
<1>6. \A k \in Jobs \ {j} : RowOf(k) # RowOf(j)
  BY DEF RowOf
<1> HIDE DEF new
<1>7. TypeOK'
  <2>1. st' \in [Jobs -> {"new", "waiting", "done", "dead"} \cup Running]
    BY DEF Publish, Goto, IInv, TypeOK, Running
  <2> QED
    BY <1>1, <1>2, <1>3, <1>4, <2>1 DEF IInv, TypeOK
<1>8. Counted'
  BY <1>1 DEF IInv, Counted, Running
<1>9. Owned'
  BY <1>1, <1>5 DEF IInv, Owned, RowOf
<1>10. Published'
  BY <1>1, <1>2, <1>3, <1>4, <1>6 DEF IInv, Published, RowOf
<1>11. RowAccounted'
  <2>1. \A row \in rows : row # RowOf(j) =>
          \/ row \in shown' \cup dropped' \cup cut'
          \/ \E e \in stream' : e.row = row
          \/ row = RowOf(row[1])' /\ st'[row[1]] \in {"count", "publish"}
    BY <1>1, <1>2, <1>5 DEF IInv, RowAccounted, RowOf
  <2>2. RowOf(j) \in dropped' \/ \E e \in stream' : e.row = RowOf(j)
    BY <1>2, <1>4
  <2> QED
    BY <1>1, <2>1, <2>2 DEF RowAccounted
<1>12. Counts'
  <2> SUFFICES ASSUME Calm' PROVE Counts'
    BY DEF Counts
  <2>1. Calm /\ stream' = stream \cup {new}
    BY <1>1, <1>2 DEF Calm
  <2>2. Busy'
    BY <2>1 DEF Busy
  <2>3. (\A k \in Jobs : st'[k] = "publish" => num'[k]) /\ (\A q \in Reads : rd'[q] = "emit" => num'[q])
    BY <1>1, <2>1 DEF IInv, Counts
  <2>4. \A e \in stream' : e.right /\ (e.row \in shown' => badge')
    BY <1>1, <1>3, <1>4, <2>1 DEF IInv, Counts
  <2> QED
    BY <2>2, <2>3, <2>4 DEF Counts
<1> QED
  BY <1>7, <1>8, <1>9, <1>10, <1>11, <1>12 DEF IInv

LEMMA FinishStep ==
  ASSUME IInv, NEW j \in Jobs, Finish(j)
  PROVE  IInv'
<1>1. /\ st[j] = "finish" /\ st'[j] = "done" /\ \A k \in Jobs \ {j} : st'[k] = st[k]
      /\ UNCHANGED <<left, run, rows, num, stream, badge, shown, consuming, rd, faults, cut, dropped, disturbed>>
  BY DEF Finish, Goto, counts, history, screen, IInv, TypeOK
<1>2. TypeOK'
  BY <1>1 DEF Finish, Goto, IInv, TypeOK
<1>3. Counted'
  BY <1>1 DEF IInv, Counted, Running
<1>4. Owned' /\ Published' /\ RowAccounted'
  BY <1>1, RowFacts DEF IInv, Owned, Published, RowAccounted, RowOf, TypeOK
<1>5. Counts'
  BY <1>1 DEF IInv, Counts, Calm, Busy
<1> QED
  BY <1>2, <1>3, <1>4, <1>5 DEF IInv

LEMMA ThrowStep ==
  ASSUME IInv, NEW j \in Jobs, Throw(j)
  PROVE  IInv'
<1>1. /\ st[j] \in {"insert", "count"} /\ left'[j] = left[j] - 1
      /\ st'[j] = IF left[j] = 1 THEN "dead" ELSE "waiting"
      /\ \A k \in Jobs \ {j} : st'[k] = st[k] /\ left'[k] = left[k]
      /\ UNCHANGED <<run, rows, num, stream, badge, shown, consuming, rd, faults, dropped, disturbed>>
      /\ cut' = IF st[j] = "count" THEN cut \cup {RowOf(j)} ELSE cut
  BY DEF Throw, Goto, counts, screen, IInv, TypeOK
<1>2. /\ left[j] \in Nat \ {0} /\ run[j] \in Nat /\ Attempts[j] \in Nat /\ left[j] <= Attempts[j]
      /\ run[j] + left[j] \in {Attempts[j] + 1, Attempts[j] + 2}
  BY <1>1 DEF IInv, Counted, TypeOK, Running
<1>3. \A row \in rows : row[1] \in Jobs /\ row[2] \in Nat
  BY RowFacts DEF IInv, TypeOK
<1>4. st[j] = "count" => RowOf(j) \in rows
  BY DEF IInv, Published
<1>5. TypeOK'
  <2>1. st' \in [Jobs -> {"new", "waiting", "done", "dead"} \cup Running] /\ left' \in [Jobs -> Nat]
    BY <1>2 DEF Throw, Goto, IInv, TypeOK, Running
  <2> QED
    BY <1>1, <1>2, <1>4, <2>1 DEF IInv, TypeOK
<1>6. Counted'
  BY <1>1, <1>2 DEF IInv, Counted, Running, TypeOK
<1>7. Owned'
  BY <1>1, <1>2, <1>3 DEF IInv, Owned, RowOf
<1>8. Published'
  BY <1>1 DEF IInv, Published, RowOf
<1>9. RowAccounted'
  BY <1>1, <1>3 DEF IInv, RowAccounted, RowOf
<1>10. Counts'
  <2> SUFFICES ASSUME Calm' PROVE Counts'
    BY DEF Counts
  <2>1. Calm /\ st[j] = "insert"
    BY <1>1 DEF Calm
  <2> QED
    BY <1>1, <2>1 DEF IInv, Counts, Busy
<1> QED
  BY <1>5, <1>6, <1>7, <1>8, <1>9, <1>10 DEF IInv

\* The rows of the jobs that were past their insert are cut.
LEMMA CrashStep ==
  ASSUME IInv, Crash
  PROVE  IInv'
<1> DEFINE hit == {RowOf(j) : j \in {k \in Jobs : st[k] \in {"count", "publish", "finish"}}}
<1>1. /\ \A j \in Jobs : st'[j] = IF st[j] \notin Running THEN st[j]
                                  ELSE IF Stalls(j) = 1 THEN "dead" ELSE "waiting"
      /\ cut' = cut \cup hit /\ faults' \in 0..MaxFaults
      /\ num' = [x \in Jobs \cup Reads |-> x \in Reads /\ num[x]]
      /\ UNCHANGED <<left, run, rows, stream, badge, shown, consuming, rd, dropped, disturbed>>
  BY DEF Crash, Fault, screen, IInv, TypeOK
<1>2. \A row \in rows : row[1] \in Jobs /\ row[2] \in Nat
  BY RowFacts DEF IInv, TypeOK
<1>3. hit \subseteq rows
  BY DEF IInv, Published
<1>4. TypeOK'
  <2>1. st' \in [Jobs -> {"new", "waiting", "done", "dead"} \cup Running]
    BY DEF Crash, IInv, TypeOK
  <2>2. num' = [x \in Jobs \cup Reads |-> x \in {y \in Reads : num[y]}]
    BY <1>1
  <2>3. num' \in [Jobs \cup Reads -> BOOLEAN]
    BY <2>2, Indicator
  <2>4. \A j \in Jobs : left[j] = 0 => st'[j] = "dead"
    BY <1>1 DEF IInv, TypeOK, Running
  <2> QED
    BY <1>1, <1>3, <2>1, <2>3, <2>4 DEF IInv, TypeOK
<1>5. Counted'
  <2> SUFFICES ASSUME NEW j \in Jobs
               PROVE  /\ run[j] <= Attempts[j] + 1 /\ left[j] <= Attempts[j]
                      /\ st'[j] = "new" => run[j] = 0 /\ left[j] = Attempts[j]
                      /\ st'[j] = "waiting" => run[j] + left[j] \in {Attempts[j], Attempts[j] + 1}
                      /\ st'[j] \in Running \cup {"done"} =>
                           run[j] + left[j] \in {Attempts[j] + 1, Attempts[j] + 2}
                      /\ st'[j] # "dead" => left[j] > 0
    BY <1>1 DEF Counted
  <2>1. run[j] \in Nat /\ left[j] \in Nat /\ Attempts[j] \in Nat
    BY DEF IInv, TypeOK
  <2>2. st[j] \in Running /\ st'[j] = "waiting" => run[j] + left[j] = Attempts[j] + 1
    BY <1>1, <2>1 DEF IInv, Counted, Stalls
  <2> QED
    BY <1>1, <2>1, <2>2 DEF IInv, Counted, Running
<1>6. Owned'
  <2> SUFFICES ASSUME NEW row \in rows
               PROVE  /\ row[2] <= run[row[1]]
                      /\ st'[row[1]] = "insert" => row[2] < run[row[1]]
                      /\ \/ row \in cut'
                         \/ row = RowOf(row[1]) /\ st'[row[1]] \in {"count", "publish", "finish", "done"}
    BY <1>1 DEF Owned, RowOf
  <2>1. row = RowOf(row[1]) /\ st[row[1]] \in {"count", "publish", "finish"} => row \in hit
    BY <1>2
  <2>2. row \in cut' \/ (row = RowOf(row[1]) /\ st[row[1]] = "done")
    BY <1>1, <2>1 DEF IInv, Owned
  <2> QED
    BY <1>1, <1>2, <2>2 DEF IInv, Owned, Running
<1>7. Published'
  BY <1>1 DEF IInv, Published, RowOf, Running
<1>8. RowAccounted'
  <2> SUFFICES ASSUME NEW row \in rows
               PROVE  row \in shown \cup dropped \cup cut' \/ \E e \in stream : e.row = row
    BY <1>1 DEF RowAccounted
  <2>1. row = RowOf(row[1]) /\ st[row[1]] \in {"count", "publish"} => row \in hit
    BY <1>2
  <2> QED
    BY <1>1, <2>1 DEF IInv, RowAccounted
<1>9. Counts'
  <2> SUFFICES ASSUME Calm' PROVE Counts'
    BY DEF Counts
  <2>1. Calm /\ \A k \in Jobs : st[k] \notin {"count", "publish"}
    BY <1>1 DEF Calm
  <2>2. \A q \in Reads : num'[q] <=> num[q]
    BY <1>1
  <2>3. (\A k \in Jobs : st'[k] # "publish") /\ (\A q \in Reads : rd'[q] = "emit" => num'[q])
    BY <1>1, <2>1, <2>2 DEF IInv, Counts
  <2>4. badge' \/ Busy'
    BY <1>1, <2>1 DEF IInv, Counts, Busy
  <2> QED
    BY <1>1, <2>1, <2>3, <2>4 DEF IInv, Counts
<1> QED
  BY <1>4, <1>5, <1>6, <1>7, <1>8, <1>9 DEF IInv

-----------------------------------------------------------------------------
(* The gateway and the user.                                               *)

\* A step that leaves the jobs and their rows alone.
LEMMA NoJobStep == IInv /\ UNCHANGED <<job, rows, cut>> => Counted' /\ Owned'
BY DEF IInv, Counted, Owned, RowOf, job

LEMMA RedeliverFacts ==
  ASSUME TypeOK, NEW e \in stream, Redeliver(e)
  PROVE  /\ stream' \subseteq Event
         /\ \A f \in stream' : \E g \in stream : f.row = g.row /\ f.right = g.right
         /\ \A g \in stream : g # e => g \in stream'
         /\ e.left # 1 => \E f \in stream' : f.row = e.row
<1>1. e \in Event /\ e.left \in 1..MaxDeliver
  BY DEF TypeOK, Event
<1> DEFINE again == [e EXCEPT !.left = @ - 1]
<1>2. again.row = e.row /\ again.right = e.right /\ (e.left > 1 => again \in Event)
  BY <1>1 DEF Event
<1>3. stream' = (stream \ {e}) \cup IF e.left > 1 THEN {again} ELSE {}
  BY DEF Redeliver
<1> HIDE DEF again
<1> QED
  BY <1>1, <1>2, <1>3 DEF TypeOK

\* An event leaves the stream shown, or dropped when it was never shown.
LEMMA DeliverStep ==
  ASSUME IInv, Deliver
  PROVE  IInv'
<1>1. PICK e \in stream :
     \/ Show(e) /\ stream' = stream \ {e} /\ UNCHANGED <<faults, history>>
     \/ Fault /\ Show(e) /\ Redeliver(e) /\ UNCHANGED history
     \/ /\ Fault /\ Redeliver(e) /\ UNCHANGED <<badge, shown, cut, disturbed>>
        /\ dropped' = IF e.left = 1 /\ e.row \notin shown THEN dropped \cup {e.row} ELSE dropped
  BY DEF Deliver
<1>2. /\ UNCHANGED <<st, left, run, rows, num, consuming, rd, cut, disturbed>>
      /\ faults' \in 0..MaxFaults
      /\ \/ badge' = e.right /\ shown' = shown \cup {e.row} /\ dropped' = dropped
         \/ /\ UNCHANGED <<badge, shown>>
            /\ dropped' = IF e.left = 1 /\ e.row \notin shown THEN dropped \cup {e.row} ELSE dropped
  BY <1>1 DEF Deliver, job, history, screen, Show, Fault, IInv, TypeOK
<1>3. /\ stream' \subseteq Event
      /\ \A f \in stream' : \E g \in stream : f.row = g.row /\ f.right = g.right
      /\ \A g \in stream : g # e => g \in stream'
      /\ shown' # shown \cup {e.row} /\ e.left # 1 => \E f \in stream' : f.row = e.row
  <2>1. CASE Redeliver(e)
    BY <2>1, RedeliverFacts DEF IInv
  <2>2. CASE Show(e) /\ stream' = stream \ {e}
    BY <2>2 DEF Show, IInv, TypeOK
  <2> QED
    BY <1>1, <2>1, <2>2
<1>4. e \in Event /\ e.row \in rows
  BY DEF IInv, TypeOK, Published
<1>5. TypeOK'
  <2>1. badge' \in BOOLEAN
    BY <1>2, <1>4 DEF IInv, TypeOK, Event
  <2> QED
    BY <1>2, <1>3, <1>4, <2>1 DEF IInv, TypeOK
<1>6. Counted' /\ Owned'
  BY <1>2, NoJobStep DEF job
<1>7. Published'
  BY <1>2, <1>3, <1>4 DEF IInv, Published, RowOf
<1>8. RowAccounted'
  <2> SUFFICES ASSUME NEW row \in rows
               PROVE  \/ row \in shown' \cup dropped' \cup cut
                      \/ \E f \in stream' : f.row = row
                      \/ row = RowOf(row[1]) /\ st[row[1]] \in {"count", "publish"}
    BY <1>2 DEF RowAccounted, RowOf
  <2>1. CASE row = e.row
    BY <1>2, <1>3, <2>1
  <2>2. CASE \E g \in stream : g # e /\ g.row = row
    BY <1>3, <2>2
  <2>3. CASE row \in shown \cup dropped \cup cut
    BY <1>2, <2>3
  <2> QED
    BY <2>1, <2>2, <2>3 DEF IInv, RowAccounted
<1>9. Counts'
  <2> SUFFICES ASSUME Calm' PROVE Counts'
    BY DEF Counts
  <2>1. Calm
    BY <1>2 DEF Calm
  <2>2. e.right /\ (e.row \in shown => badge)
    BY <2>1 DEF IInv, Counts
  <2>3. \A f \in stream' : f.right /\ (f.row \in shown' => badge')
    BY <1>2, <1>3, <2>1, <2>2 DEF IInv, Counts
  <2>4. badge' \/ Busy'
    <3>1. CASE shown' = shown \cup {e.row} /\ badge' = e.right
      BY <2>2, <3>1
    <3>2. CASE UNCHANGED <<badge, shown>> /\ dropped' = IF e.left = 1 /\ e.row \notin shown THEN dropped \cup {e.row} ELSE dropped
      <4>1. CASE e.row \in shown
        BY <2>2, <3>2, <4>1
      <4>2. CASE e.row \notin shown
        <5>1. e.left # 1
          BY <2>1, <3>2, <4>2 DEF Calm
        <5>2. stream' # {}
          BY <1>3, <3>2, <4>2, <5>1
        <5> QED
          BY <5>2 DEF Busy
      <4> QED
        BY <4>1, <4>2
    <3> QED
      BY <1>2, <3>1, <3>2
  <2> QED
    BY <1>2, <2>1, <2>3, <2>4 DEF IInv, Counts
<1> QED
  BY <1>5, <1>6, <1>7, <1>8, <1>9 DEF IInv

\* A row is read: the counts under way are wrong, and one of known is coming.
LEMMA ReadChange ==
  ASSUME IInv, NEW q \in Reads, rd[q] = "idle", NEW l \in {"count", "emit"},
         rd' = [rd EXCEPT ![q] = l], NEW known, known = (IF l = "emit" THEN {q} ELSE {}),
         Change(known), UNCHANGED <<job, rows, shown, consuming, faults>>
  PROVE  IInv'
<1>1. /\ num' = [x \in Jobs \cup Reads |-> x \in known] /\ badge' = FALSE
      /\ stream' = {[e EXCEPT !.right = FALSE] : e \in stream}
      /\ disturbed' = (disturbed \/ Busy)
      /\ UNCHANGED <<st, left, run, rows, shown, consuming, faults, cut, dropped>>
      /\ rd'[q] = l /\ \A p \in Reads \ {q} : rd'[p] = rd[p]
  BY DEF Change, job, IInv, TypeOK
<1>2. /\ stream' \subseteq Event
      /\ \A f \in stream' : \E e \in stream : f.row = e.row
      /\ \A e \in stream : \E f \in stream' : f.row = e.row
  BY <1>1, WrongFacts DEF IInv, TypeOK
<1>3. TypeOK'
  <2>1. num' \in [Jobs \cup Reads -> BOOLEAN]
    <3>1. num' = [x \in Jobs \cup Reads |-> x \in known]
      BY <1>1, Zenon
    <3> QED
      BY <3>1, Indicator
  <2>2. disturbed' \in BOOLEAN
    BY <1>1
  <2> QED
    BY <1>1, <1>2, <2>1, <2>2 DEF IInv, TypeOK
<1>4. Counted' /\ Owned'
  BY <1>1, NoJobStep DEF job
<1>5. Published'
  <2>1. \A k \in Jobs : RowOf(k)' = RowOf(k)
    BY <1>1 DEF RowOf
  <2>2. \A f \in stream' : f.row \in rows'
    BY <1>1, <1>2 DEF IInv, Published
  <2>3. \A k \in Jobs : st'[k] \in {"count", "publish"} =>
          RowOf(k) \notin shown /\ \A e \in stream : e.row # RowOf(k)
    BY <1>1 DEF IInv, Published
  <2>4. ASSUME NEW k \in Jobs, st'[k] \in {"count", "publish"}
        PROVE  RowOf(k) \notin shown' /\ \A f \in stream' : f.row # RowOf(k)
    <3>1. RowOf(k) \notin shown /\ \A e \in stream : e.row # RowOf(k)
      BY <1>1, <2>3, <2>4
    <3> QED
      BY <1>1, <1>2, <3>1
  <2> QED
    BY <1>1, <2>1, <2>2, <2>4 DEF IInv, Published
<1>6. RowAccounted'
  <2> SUFFICES ASSUME NEW row \in rows
               PROVE  \/ row \in shown \cup dropped \cup cut
                      \/ \E f \in stream' : f.row = row
                      \/ row = RowOf(row[1]) /\ st[row[1]] \in {"count", "publish"}
    BY <1>1 DEF RowAccounted, RowOf
  <2>1. CASE \E e \in stream : e.row = row
    BY <1>2, <2>1
  <2> QED
    BY <2>1 DEF IInv, RowAccounted
<1>7. Counts'
  <2> SUFFICES ASSUME Calm' PROVE Counts'
    BY DEF Counts
  <2>1. ~Busy
    BY <1>1 DEF Calm
  <2>2. stream' = {} /\ Busy'
    BY <1>1, <2>1 DEF Busy
  <2>3. \A k \in Jobs : st'[k] # "publish"
    BY <1>1, <2>1 DEF Busy
  <2>4. \A p \in Reads : rd'[p] = "emit" => num'[p]
    BY <1>1, <2>1 DEF Busy
  <2> QED
    BY <2>2, <2>3, <2>4 DEF Counts
<1> QED
  BY <1>3, <1>4, <1>5, <1>6, <1>7 DEF IInv

\* A message moves without a change of the table, or after one that disturbs.
LEMMA ReadMove ==
  ASSUME IInv, NEW q \in Reads, NEW l \in {"count", "emit", "done"}, rd' = [rd EXCEPT ![q] = l],
         num' \in [Jobs \cup Reads -> BOOLEAN], \A x \in (Jobs \cup Reads) \ {q} : num'[x] = num[x],
         badge' \in BOOLEAN, disturbed' \in BOOLEAN, faults' \in 0..MaxFaults,
         UNCHANGED <<job, rows, stream, shown, consuming, cut, dropped>>,
         disturbed => disturbed',
         \/ disturbed'
         \/ l = "count" /\ UNCHANGED badge
         \/ l = "emit" /\ num'[q] /\ UNCHANGED badge
         \/ l = "done" /\ rd[q] = "emit" /\ badge' = num[q]
  PROVE  IInv'
<1>1. /\ UNCHANGED <<st, left, run>> /\ rd'[q] = l /\ \A p \in Reads \ {q} : rd'[p] = rd[p]
  BY DEF job, IInv, TypeOK
<1>2. TypeOK'
  BY <1>1 DEF IInv, TypeOK
<1>3. Counted' /\ Owned'
  BY NoJobStep
<1>4. Published' /\ RowAccounted'
  BY <1>1 DEF IInv, Published, RowAccounted, RowOf
<1>5. Counts'
  <2> SUFFICES ASSUME Calm' PROVE Counts'
    BY DEF Counts
  <2>1. Calm /\ ~disturbed'
    BY DEF Calm
  <2>2. \A j \in Jobs : st'[j] = "publish" => num'[j]
    BY <1>1, <2>1 DEF IInv, Counts
  <2>3. \A p \in Reads : rd'[p] = "emit" => num'[p]
    BY <1>1, <2>1 DEF IInv, Counts
  <2>4. badge => badge'
    BY <2>1 DEF IInv, Counts
  <2>5. badge' \/ Busy'
    <3>1. CASE l \in {"count", "emit"}
      BY <1>1, <3>1 DEF Busy
    <3>2. CASE l = "done"
      BY <2>1, <3>2 DEF IInv, Counts
    <3> QED
      BY <3>1, <3>2
  <2> QED
    BY <2>1, <2>2, <2>3, <2>4, <2>5 DEF IInv, Counts
<1> QED
  BY <1>2, <1>3, <1>4, <1>5 DEF IInv

LEMMA MessageStep ==
  ASSUME IInv, NEW q \in Reads,
         Read(q) \/ ReadCount(q) \/ ReadAll(q) \/ ReadEmit(q) \/ ReadFail(q)
  PROVE  IInv'
<1>0. /\ num \in [Jobs \cup Reads -> BOOLEAN] /\ badge \in BOOLEAN /\ disturbed \in BOOLEAN
      /\ faults \in 0..MaxFaults
  BY DEF IInv, TypeOK
<1>1. CASE Read(q)
  <2>1. CASE Change({})
    BY <1>1, <2>1, ReadChange DEF Read, screen
  <2>2. CASE UNCHANGED <<counts, history>>
    BY <1>0, <1>1, <2>2, ReadMove DEF Read, counts, history, screen
  <2> QED
    BY <1>1, <2>1, <2>2 DEF Read
<1>2. CASE ReadCount(q)
  BY <1>0, <1>2, ReadMove DEF ReadCount, UnreadCount, history, screen
<1>3. CASE ReadAll(q)
  <2>1. CASE Change({q})
    BY <1>3, <2>1, ReadChange DEF ReadAll, screen
  <2>2. CASE disturbed' = TRUE /\ UNCHANGED <<counts, cut, dropped>>
    BY <1>0, <1>3, <2>2, ReadMove DEF ReadAll, counts, screen
  <2> QED
    BY <1>3, <2>1, <2>2 DEF ReadAll
<1>4. CASE ReadEmit(q)
  BY <1>0, <1>4, ReadMove DEF ReadEmit, history, screen
<1>5. CASE ReadFail(q)
  <2>1. /\ rd' = [rd EXCEPT ![q] = "done"] /\ disturbed' = TRUE /\ faults' \in 0..MaxFaults
        /\ num' \in [Jobs \cup Reads -> BOOLEAN] /\ \A x \in (Jobs \cup Reads) \ {q} : num'[x] = num[x]
        /\ UNCHANGED <<job, rows, stream, badge, shown, consuming, cut, dropped>>
    BY <1>0, <1>5 DEF ReadFail, Fault, screen
  <2> QED
    BY <1>0, <2>1, ReadMove
<1> QED
  BY <1>1, <1>2, <1>3, <1>4, <1>5

\* A read by HTTP disturbs, so nothing is promised of the counts.
LEMMA RestReadStep ==
  ASSUME IInv, NEW q \in Reads, RestRead(q)
  PROVE  IInv'
<1>1. /\ num' = [x \in Jobs \cup Reads |-> FALSE] /\ badge' = FALSE
      /\ stream' = {[e EXCEPT !.right = FALSE] : e \in stream}
      /\ disturbed' = TRUE
      /\ UNCHANGED <<st, left, run, rows, shown, consuming, faults, cut, dropped>>
      /\ rd' = [rd EXCEPT ![q] = "done"]
  BY DEF RestRead, job, screen
<1>2. /\ stream' \subseteq Event
      /\ \A f \in stream' : \E e \in stream : f.row = e.row
      /\ \A e \in stream : \E f \in stream' : f.row = e.row
  BY <1>1, WrongFacts DEF IInv, TypeOK
<1>3. TypeOK'
  BY <1>1, <1>2 DEF IInv, TypeOK
<1>4. Counted' /\ Owned'
  BY <1>1, NoJobStep DEF job
<1>5. Published'
  <2>1. \A k \in Jobs : RowOf(k)' = RowOf(k)
    BY <1>1 DEF RowOf
  <2>2. \A f \in stream' : f.row \in rows'
    BY <1>1, <1>2 DEF IInv, Published
  <2>3. \A k \in Jobs : st'[k] \in {"count", "publish"} =>
          RowOf(k) \notin shown /\ \A e \in stream : e.row # RowOf(k)
    BY <1>1 DEF IInv, Published
  <2>4. ASSUME NEW k \in Jobs, st'[k] \in {"count", "publish"}
        PROVE  RowOf(k) \notin shown' /\ \A f \in stream' : f.row # RowOf(k)
    <3>1. RowOf(k) \notin shown /\ \A e \in stream : e.row # RowOf(k)
      BY <1>1, <2>3, <2>4
    <3> QED
      BY <1>1, <1>2, <3>1
  <2> QED
    BY <1>1, <2>1, <2>2, <2>4 DEF IInv, Published
<1>6. RowAccounted'
  <2> SUFFICES ASSUME NEW row \in rows
               PROVE  \/ row \in shown \cup dropped \cup cut
                      \/ \E f \in stream' : f.row = row
                      \/ row = RowOf(row[1]) /\ st[row[1]] \in {"count", "publish"}
    BY <1>1 DEF RowAccounted, RowOf
  <2>1. CASE \E e \in stream : e.row = row
    BY <1>2, <2>1
  <2> QED
    BY <2>1 DEF IInv, RowAccounted
<1>7. Counts'
  BY <1>1 DEF Counts, Calm
<1> QED
  BY <1>3, <1>4, <1>5, <1>6, <1>7 DEF IInv

-----------------------------------------------------------------------------
(* The theorems.                                                           *)

\* Every step of the worker, the gateway and the user keeps IInv.
THEOREM Invariance == Spec => []IInv
<1>1. IInv /\ [Next]_vars => IInv'
  <2> SUFFICES ASSUME IInv, [Next]_vars PROVE IInv'
    OBVIOUS
  <2>1. CASE UNCHANGED vars
    <3>1. UNCHANGED <<st, left, run, rows, num, stream, badge, shown, consuming, rd, faults, cut, dropped, disturbed>>
      BY <2>1 DEF vars, job, counts, history, screen
    <3>2. TypeOK' /\ Counted' /\ Owned'
      BY <3>1 DEF IInv, TypeOK, Counted, Owned, RowOf
    <3>3. Published' /\ RowAccounted' /\ Counts'
      BY <3>1 DEF IInv, Published, RowAccounted, RowOf, Counts, Calm, Busy
    <3> QED
      BY <3>2, <3>3 DEF IInv
  <2>2. CASE \E j \in Jobs : Enqueue(j) \/ Work(j)
    BY <2>2, EnqueueStep, StartStep, InsertStep, CountStep, PublishStep, FinishStep, ThrowStep DEF Work
  <2>3. CASE Crash
    BY <2>3, CrashStep
  <2>4. CASE Deliver
    BY <2>4, DeliverStep
  <2>5. CASE \E q \in Reads : Read(q) \/ ReadCount(q) \/ ReadAll(q) \/ ReadEmit(q) \/ ReadFail(q) \/ RestRead(q)
    BY <2>5, MessageStep, RestReadStep
  <2> QED
    BY <2>1, <2>2, <2>3, <2>4, <2>5 DEF Next
<1> QED
  BY <1>1, InitIInv, PTL DEF Spec

\* Every variable of Notifications keeps its type: no job runs more often than
\* its attempts and one stall allow.
THEOREM TypeCorrect == Spec => []TypeOK
BY Invariance, PTL DEF IInv

\* A job leaves a second row only after a run that failed or died between its
\* insert and its end.
THEOREM DuplicatesHaveCause == Spec => []DuplicateHasCause
<1>1. IInv => DuplicateHasCause
  <2> SUFFICES ASSUME IInv, NEW x \in rows, NEW y \in rows, x[1] = y[1], x[2] < y[2], x \notin cut
               PROVE  FALSE
    BY DEF DuplicateHasCause
  <2>1. x[1] \in Jobs /\ x[2] = run[x[1]] /\ y[2] <= run[x[1]] /\ x[2] \in Nat /\ y[2] \in Nat
    BY RowFacts DEF IInv, TypeOK, Owned, RowOf
  <2> QED
    BY <2>1
<1> QED
  BY <1>1, Invariance, PTL

\* Between the queue and the screen nothing is lost but by a failure the code
\* provides for.
THEOREM NothingIsLost == Spec => []NothingLost
<1>1. IInv => NothingLost
  <2> SUFFICES ASSUME IInv, NEW j \in Jobs, st[j] = "done" PROVE \E row \in rows : row[1] = j
    BY DEF NothingLost, JobAccounted, IInv
  <2>1. RowOf(j) \in rows /\ RowOf(j)[1] = j
    BY DEF IInv, Published, RowOf
  <2> QED
    BY <2>1
<1> QED
  BY <1>1, Invariance, PTL

\* Once everything is quiet the badge is the number of unread rows, if no two
\* changes overlapped and nothing failed.
THEOREM BadgeIsRight == Spec => []BadgeRight
<1>1. IInv => BadgeRight
  BY DEF IInv, Counts, Calm, BadgeRight
<1> QED
  BY <1>1, Invariance, PTL
=============================================================================
