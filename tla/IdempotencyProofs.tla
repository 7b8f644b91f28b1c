------------------------- MODULE IdempotencyProofs -------------------------
(***************************************************************************)
(* Theorems about Idempotency, for any requests, keys and bodies: its type *)
(* invariant, SuccessIsReal, OneCallUnlessFailed and the action property   *)
(* SettledForGood.  IInv ties the position of a request to its call, the   *)
(* payload of a completed record to an account, and a second call under a  *)
(* key to an earlier one that failed or was given up.                      *)
(***************************************************************************)
EXTENDS Idempotency, TLAPS

USE IdempotencyAssumption, RecordAssumption

-----------------------------------------------------------------------------
(* The inductive invariant.                                                *)

\* What the position of a request says of its key, its call and its answer.
Placed == \A r \in Requests :
  /\ pc[r] = "idle" => call[r] = "none"
  /\ pc[r] # "idle" => body[r] \in Bodies
  /\ pc[r] \in {"lookup", "create", "retake"} => key[r] \in Keys /\ call[r] = "none"
  /\ pc[r] \in {"calling", "caching", "catch"} => call[r] # "none"
  /\ pc[r] = "caching" => call[r] = "ok"
  /\ pc[r] \notin {"done", "lost"} => reply[r] = "none"

\* Nothing is called a success before auth-service has made the account.
Real == /\ \A r \in Requests : call[r] = "ok" => body[r] \in accounts
        /\ \A k \in Keys : rec[k] # None /\ rec[k].status = "completed" => rec[k].body \in accounts

\* A call under key k failed, was given up or was lost.
Failed(r, k) == /\ key[r] = k /\ call[r] # "none" /\ reply[r] # "ok"
                /\ pc[r] \in {"catch", "done", "lost"}
Broken(k) == \E r \in Requests : Failed(r, k)

\* The record is there before the first call.  Only a broken key is called
\* under again, and only its record is failed or about to be taken over.
Guarded == \A k \in Keys :
  /\ rec[k] = None => \A r \in Requests : key[r] = k => call[r] = "none" /\ pc[r] # "retake"
  /\ rec[k] # None /\ rec[k].status = "failed" => Broken(k)
  /\ (\E r \in Requests : key[r] = k /\ pc[r] = "retake") => Broken(k)
  /\ ~Broken(k) => \A p, r \in Requests :
       key[p] = k /\ key[r] = k /\ call[p] # "none" /\ call[r] # "none" => p = r

IInv == TypeOK /\ Placed /\ Real /\ Guarded /\ SuccessIsReal

-----------------------------------------------------------------------------
(* Shapes of steps.                                                        *)

\* A broken key stays broken.
LEMMA BrokenStep ==
  ASSUME NEW r \in Requests, \A k \in Keys : Failed(r, k) => Failed(r, k)',
         \A q \in Requests \ {r} : pc'[q] = pc[q] /\ key'[q] = key[q] /\ call'[q] = call[q] /\ reply'[q] = reply[q]
  PROVE  \A k \in Keys : Broken(k) => Broken(k)'
<1> SUFFICES ASSUME NEW k \in Keys, NEW q \in Requests, Failed(q, k) PROVE Failed(q, k)'
  BY DEF Broken
<1> QED
  BY DEF Failed

\* Of the requests only r moves.  It calls for the first time under a key that
\* is broken, or has no record yet, and takes over a record of a broken key.
LEMMA GuardedStep ==
  ASSUME IInv, NEW r \in Requests,
         \A q \in Requests \ {r} : pc'[q] = pc[q] /\ key'[q] = key[q] /\ call'[q] = call[q] /\ reply'[q] = reply[q],
         \A k \in Keys : Failed(r, k) => Failed(r, k)',
         \A k \in Keys : rec'[k] = None => rec[k] = None,
         \A k \in Keys : rec'[k] # None /\ rec'[k].status = "failed" =>
                           (rec[k] # None /\ rec[k].status = "failed") \/ Failed(r, k)',
         \A k \in Keys : key'[r] = k /\ pc'[r] = "retake" => Broken(k),
         \A k \in Keys : key'[r] = k /\ call'[r] # "none" =>
                           /\ rec'[k] # None
                           /\ (key[r] = k /\ call[r] # "none") \/ Broken(k) \/ rec[k] = None
  PROVE  Guarded'
<1> SUFFICES ASSUME NEW k \in Keys
             PROVE  /\ rec'[k] = None => \A q \in Requests : key'[q] = k => call'[q] = "none" /\ pc'[q] # "retake"
                    /\ rec'[k] # None /\ rec'[k].status = "failed" => Broken(k)'
                    /\ (\E q \in Requests : key'[q] = k /\ pc'[q] = "retake") => Broken(k)'
                    /\ ~Broken(k)' => \A p, q \in Requests :
                         key'[p] = k /\ key'[q] = k /\ call'[p] # "none" /\ call'[q] # "none" => p = q
  BY DEF Guarded
<1>1. Broken(k) => Broken(k)'
  BY BrokenStep
<1>2. rec[k] = None => ~Broken(k)
  BY DEF IInv, Guarded, Broken, Failed
<1>3. rec'[k] = None => \A q \in Requests : key'[q] = k => call'[q] = "none" /\ pc'[q] # "retake"
  BY <1>2 DEF IInv, Guarded
<1>4. rec'[k] # None /\ rec'[k].status = "failed" => Broken(k)'
  BY <1>1 DEF IInv, Guarded, Broken
<1>5. (\E q \in Requests : key'[q] = k /\ pc'[q] = "retake") => Broken(k)'
  BY <1>1 DEF IInv, Guarded
<1>6. ASSUME ~Broken(k)', NEW p \in Requests, NEW q \in Requests,
             key'[p] = k, key'[q] = k, call'[p] # "none", call'[q] # "none"
      PROVE  p = q
  <2>1. ~Broken(k)
    BY <1>1, <1>6
  <2>2. CASE rec[k] = None
    BY <1>6, <2>2 DEF IInv, Guarded
  <2>3. CASE rec[k] # None
    <3>1. \A x \in Requests : key'[x] = k /\ call'[x] # "none" => key[x] = k /\ call[x] # "none"
      BY <2>1, <2>3
    <3> QED
      BY <1>6, <2>1, <3>1 DEF IInv, Guarded
  <2> QED
    BY <2>2, <2>3
<1> QED
  BY <1>3, <1>4, <1>5, <1>6

\* What a mark does to the records.
LEMMA MarkStep ==
  ASSUME IInv, NEW r \in Requests, pc[r] \in {"calling", "catch"}, NEW s \in {"completed", "failed"},
         NEW b, s = "completed" => b = body[r], s = "failed" => b = None, Mark(r, s, b)
  PROVE  /\ rec' \in [Keys -> Record \cup {None}]
         /\ \A k \in Keys :
              \/ rec'[k] = rec[k]
              \/ /\ key[r] = k /\ rec[k] # None /\ rec'[k] # None
                 /\ rec'[k].status = s /\ rec'[k].body = b
<1>1. CASE key[r] = NoKey
  BY <1>1 DEF Mark, IInv, TypeOK
<1>2. CASE key[r] # NoKey
  <2>1. key[r] \in Keys /\ rec[key[r]] # None /\ call[r] # "none"
    BY <1>2 DEF IInv, TypeOK, Placed, Guarded
  <2>2. rec[key[r]] \in Record /\ b \in Bodies \cup {None}
    BY <2>1 DEF IInv, TypeOK, Placed
  <2>3. rec' = [rec EXCEPT ![key[r]] = [rec[key[r]] EXCEPT !.status = s, !.body = b]]
    BY <1>2, <2>1, <2>2 DEF Mark, IInv, TypeOK, Record
  <2> DEFINE new == [rec[key[r]] EXCEPT !.status = s, !.body = b]
  <2>4. new \in Record /\ new # None /\ new.status = s /\ new.body = b
    BY <2>2 DEF Record
  <2> HIDE DEF new
  <2> QED
    BY <2>1, <2>3, <2>4 DEF IInv, TypeOK, new
<1> QED
  BY <1>1, <1>2

LEMMA InitIInv == Init => IInv
BY DEF Init, IInv, TypeOK, Placed, Real, Guarded, Broken, Failed, SuccessIsReal, Steps

-----------------------------------------------------------------------------
(* The steps.                                                              *)

LEMMA StartStep ==
  ASSUME IInv, NEW r \in Requests, NEW k \in Keys \cup {NoKey}, NEW b \in Bodies, Start(r, k, b)
  PROVE  IInv'
<1> USE DEF Start, Goto, Send, Silent, Succeed
<1>1. /\ pc[r] = "idle" /\ call[r] = "none" /\ reply[r] = "none" /\ UNCHANGED <<rec, cache, accounts>>
      /\ key'[r] = k /\ body'[r] = b
      /\ \A q \in Requests \ {r} : /\ pc'[q] = pc[q] /\ key'[q] = key[q] /\ body'[q] = body[q]
                                   /\ call'[q] = call[q] /\ reply'[q] = reply[q] /\ got'[q] = got[q]
  BY DEF IInv, TypeOK, Placed
<1>2. \/ k = NoKey /\ pc'[r] = "calling" /\ call'[r] = "sent" /\ reply'[r] = "none" /\ got'[r] = got[r]
      \/ /\ k \in Keys /\ call'[r] = "none"
         /\ \/ cache[k] # None /\ pc'[r] = "done" /\ reply'[r] = "ok" /\ got'[r] = cache[k]
            \/ pc'[r] = "lookup" /\ reply'[r] = "none" /\ got'[r] = got[r]
  BY <1>1 DEF IInv, TypeOK
<1>3. TypeOK'
  BY <1>1 DEF IInv, TypeOK, Steps
<1>4. Placed'
  BY <1>1, <1>2 DEF IInv, Placed
<1>5. Real'
  BY <1>1, <1>2 DEF IInv, Real
<1>6. SuccessIsReal'
  BY <1>1, <1>2 DEF IInv, SuccessIsReal
<1>7. Guarded'
  <2>1. \A l \in Keys : Failed(r, l) => Failed(r, l)'
    BY <1>1 DEF Failed
  <2> QED
    BY <1>1, <1>2, <2>1, GuardedStep DEF IInv, Guarded
<1> QED
  BY <1>3, <1>4, <1>5, <1>6, <1>7 DEF IInv

LEMMA LookupStep ==
  ASSUME IInv, NEW r \in Requests, Lookup(r)
  PROVE  IInv'
<1> USE DEF Lookup, Goto, Silent, Succeed, Reply
<1>1. /\ pc[r] = "lookup" /\ key[r] \in Keys /\ call[r] = "none" /\ reply[r] = "none"
      /\ UNCHANGED <<rec, accounts, call, key, body>>
      /\ \A q \in Requests \ {r} : pc'[q] = pc[q] /\ reply'[q] = reply[q] /\ got'[q] = got[q]
  BY DEF IInv, TypeOK, Placed
<1>2. \/ pc'[r] = "create" /\ UNCHANGED <<reply, got, cache>>
      \/ pc'[r] = "done" /\ reply'[r] = "conflict" /\ UNCHANGED <<got, cache>>
      \/ /\ pc'[r] = "done" /\ reply'[r] = "ok"
         /\ rec[key[r]] # None /\ rec[key[r]].status = "completed"
         /\ got'[r] = rec[key[r]].body /\ cache' = [cache EXCEPT ![key[r]] = rec[key[r]].body]
      \/ /\ pc'[r] = "retake" /\ rec[key[r]] # None /\ rec[key[r]].status = "failed"
         /\ UNCHANGED <<reply, got, cache>>
  BY <1>1 DEF IInv, TypeOK
<1>3. rec[key[r]] # None => rec[key[r]].body \in Bodies \cup {None}
  BY <1>1 DEF IInv, TypeOK, Record
<1>4. TypeOK'
  BY <1>1, <1>2, <1>3 DEF IInv, TypeOK, Steps
<1>5. Placed'
  BY <1>1, <1>2 DEF IInv, Placed
<1>6. Real'
  BY <1>1 DEF IInv, Real
<1>7. SuccessIsReal'
  BY <1>1, <1>2 DEF IInv, SuccessIsReal, Real, TypeOK
<1>8. Guarded'
  <2>1. \A l \in Keys : Failed(r, l) => Failed(r, l)'
    BY <1>1 DEF Failed
  <2> QED
    BY <1>1, <1>2, <2>1, GuardedStep DEF IInv, Guarded
<1> QED
  BY <1>4, <1>5, <1>6, <1>7, <1>8 DEF IInv

LEMMA CreateStep ==
  ASSUME IInv, NEW r \in Requests, Create(r)
  PROVE  IInv'
<1> USE DEF Create, Goto, Silent, Send, Reply
<1> DEFINE new == [hash |-> body[r], status |-> "processing", body |-> None]
<1>1. /\ pc[r] = "create" /\ key[r] \in Keys /\ call[r] = "none" /\ reply[r] = "none" /\ body[r] \in Bodies
      /\ UNCHANGED <<cache, accounts, key, body, got>>
      /\ \A q \in Requests \ {r} : pc'[q] = pc[q] /\ reply'[q] = reply[q] /\ call'[q] = call[q]
  BY DEF IInv, TypeOK, Placed
<1>2. \/ /\ rec[key[r]] = None /\ rec' = [rec EXCEPT ![key[r]] = new]
         /\ pc'[r] = "calling" /\ call'[r] = "sent" /\ UNCHANGED reply
      \/ pc'[r] = "done" /\ reply'[r] = "error" /\ UNCHANGED <<rec, call>>
  BY <1>1 DEF IInv, TypeOK
<1>3. new \in Record /\ new # None /\ new.status = "processing"
  BY <1>1 DEF Record
<1> HIDE DEF new
<1>4. \A k \in Keys : rec'[k] = rec[k] \/ (k = key[r] /\ rec[k] = None /\ rec'[k] = new)
  BY <1>1, <1>2 DEF IInv, TypeOK
<1>5. TypeOK'
  <2>1. rec' \in [Keys -> Record \cup {None}]
    BY <1>1, <1>2, <1>3 DEF IInv, TypeOK
  <2> QED
    BY <1>1, <1>3, <1>4, <2>1 DEF IInv, TypeOK, Steps
<1>6. Placed'
  BY <1>1, <1>2 DEF IInv, Placed
<1>7. Real'
  BY <1>1, <1>2, <1>3, <1>4 DEF IInv, Real
<1>8. SuccessIsReal'
  BY <1>1, <1>2 DEF IInv, SuccessIsReal
<1>9. Guarded'
  <2>1. \A l \in Keys : Failed(r, l) => Failed(r, l)'
    BY <1>1 DEF Failed
  <2>2. \A k \in Keys : rec'[k] = None => rec[k] = None
    BY <1>3, <1>4
  <2>3. \A k \in Keys : rec'[k] # None /\ rec'[k].status = "failed" => rec[k] # None /\ rec[k].status = "failed"
    BY <1>3, <1>4
  <2>4. rec'[key[r]] = new \/ call'[r] = "none"
    BY <1>1, <1>2 DEF IInv, TypeOK
  <2>5. \A k \in Keys : key'[r] = k /\ call'[r] # "none" => rec'[k] # None /\ rec[k] = None
    BY <1>1, <1>2, <1>3, <2>4
  <2> QED
    BY <1>1, <1>2, <2>1, <2>2, <2>3, <2>5, GuardedStep
<1> QED
  BY <1>5, <1>6, <1>7, <1>8, <1>9 DEF IInv

LEMMA RetakeStep ==
  ASSUME IInv, NEW r \in Requests, Retake(r)
  PROVE  IInv'
<1> USE DEF Retake, Goto, Silent, Send
<1>1. /\ pc[r] = "retake" /\ key[r] \in Keys /\ call[r] = "none" /\ reply[r] = "none" /\ body[r] \in Bodies
      /\ UNCHANGED <<cache, accounts, key, body, reply, got>>
      /\ pc'[r] = "calling" /\ call'[r] = "sent"
      /\ \A q \in Requests \ {r} : pc'[q] = pc[q] /\ call'[q] = call[q]
  BY DEF IInv, TypeOK, Placed
<1>2. Broken(key[r]) /\ rec[key[r]] \in Record /\ rec[key[r]] # None
  BY <1>1 DEF IInv, Guarded, TypeOK
<1> DEFINE new == [rec[key[r]] EXCEPT !.status = "processing"]
<1>3. new \in Record /\ new # None /\ new.status = "processing"
  BY <1>2 DEF Record
<1>4. rec' = [rec EXCEPT ![key[r]] = new]
  BY <1>1, <1>2 DEF IInv, TypeOK, Record
<1> HIDE DEF new
<1>5. \A k \in Keys : rec'[k] = rec[k] \/ (k = key[r] /\ rec'[k] = new)
  BY <1>1, <1>4 DEF IInv, TypeOK
<1>6. TypeOK'
  <2>1. rec' \in [Keys -> Record \cup {None}]
    BY <1>1, <1>3, <1>4 DEF IInv, TypeOK
  <2> QED
    BY <1>1, <1>3, <1>5, <2>1 DEF IInv, TypeOK, Steps
<1>7. Placed'
  BY <1>1 DEF IInv, Placed
<1>8. Real'
  BY <1>1, <1>3, <1>5 DEF IInv, Real
<1>9. SuccessIsReal'
  BY <1>1 DEF IInv, SuccessIsReal
<1>10. Guarded'
  <2>1. \A l \in Keys : Failed(r, l) => Failed(r, l)'
    BY <1>1 DEF Failed
  <2>2. \A k \in Keys : rec'[k] = None => rec[k] = None
    BY <1>3, <1>5
  <2>3. \A k \in Keys : rec'[k] # None /\ rec'[k].status = "failed" => rec[k] # None /\ rec[k].status = "failed"
    BY <1>3, <1>5
  <2>4. rec'[key[r]] # None
    BY <1>2, <1>3, <1>5, <1>1
  <2> QED
    BY <1>1, <1>2, <2>1, <2>2, <2>3, <2>4, GuardedStep
<1> QED
  BY <1>6, <1>7, <1>8, <1>9, <1>10 DEF IInv

\* The answer was a success, so the account is there.
LEMMA MarkCompletedStep ==
  ASSUME IInv, NEW r \in Requests, MarkCompleted(r)
  PROVE  IInv'
<1> USE DEF MarkCompleted, Goto, Silent
<1>1. /\ pc[r] = "calling" /\ call[r] = "ok" /\ body[r] \in accounts /\ reply[r] = "none" /\ body[r] \in Bodies
      /\ UNCHANGED <<cache, accounts, call, key, body, reply, got>>
      /\ pc'[r] = "caching" /\ \A q \in Requests \ {r} : pc'[q] = pc[q]
  BY DEF IInv, TypeOK, Placed, Real
<1>2. /\ rec' \in [Keys -> Record \cup {None}]
      /\ \A k \in Keys :
           \/ rec'[k] = rec[k]
           \/ /\ key[r] = k /\ rec[k] # None /\ rec'[k] # None
              /\ rec'[k].status = "completed" /\ rec'[k].body = body[r]
  BY <1>1, MarkStep
<1>3. TypeOK'
  BY <1>1, <1>2 DEF IInv, TypeOK, Steps
<1>4. Placed'
  BY <1>1 DEF IInv, Placed
<1>5. Real'
  BY <1>1, <1>2 DEF IInv, Real
<1>6. SuccessIsReal'
  BY <1>1 DEF IInv, SuccessIsReal
<1>7. Guarded'
  <2>1. \A l \in Keys : Failed(r, l) => Failed(r, l)'
    BY <1>1 DEF Failed
  <2>2. \A k \in Keys : key[r] = k => rec'[k] # None
    BY <1>1, <1>2 DEF IInv, Guarded
  <2> QED
    BY <1>1, <1>2, <2>1, <2>2, GuardedStep
<1> QED
  BY <1>3, <1>4, <1>5, <1>6, <1>7 DEF IInv

LEMMA RespondStep ==
  ASSUME IInv, NEW r \in Requests, Respond(r)
  PROVE  IInv'
<1> USE DEF Respond, Goto, Succeed
<1>1. /\ pc[r] = "caching" /\ call[r] = "ok" /\ body[r] \in accounts /\ body[r] \in Bodies
      /\ UNCHANGED <<rec, accounts, call, key, body>>
      /\ pc'[r] = "done" /\ reply'[r] = "ok" /\ got'[r] = body[r]
      /\ \A q \in Requests \ {r} : pc'[q] = pc[q] /\ reply'[q] = reply[q] /\ got'[q] = got[q]
  BY DEF IInv, TypeOK, Placed, Real
<1>2. cache' \in [Keys -> Bodies \cup {None}] /\ \A k \in Keys : cache'[k] \in {cache[k], body[r]}
  BY <1>1 DEF IInv, TypeOK
<1>3. TypeOK'
  BY <1>1, <1>2 DEF IInv, TypeOK, Steps
<1>4. Placed'
  BY <1>1 DEF IInv, Placed
<1>5. Real'
  BY <1>1 DEF IInv, Real
<1>6. SuccessIsReal'
  BY <1>1, <1>2 DEF IInv, SuccessIsReal
<1>7. Guarded'
  <2>1. \A l \in Keys : Failed(r, l) => Failed(r, l)'
    BY <1>1 DEF Failed
  <2>2. \A k \in Keys : key[r] = k => rec[k] # None
    BY <1>1 DEF IInv, Guarded
  <2> QED
    BY <1>1, <2>1, <2>2, GuardedStep
<1> QED
  BY <1>3, <1>4, <1>5, <1>6, <1>7 DEF IInv

\* A request gives its call up: markFailed, an exception or the catch block.
LEMMA GiveUpStep ==
  ASSUME IInv, NEW r \in Requests, pc[r] \in {"calling", "catch"},
         UNCHANGED <<cache, accounts, call, key, body, got>>,
         UNCHANGED rec \/ Mark(r, "failed", None),
         \/ Goto(r, "catch") /\ UNCHANGED reply
         \/ (Goto(r, "done") \/ Goto(r, "lost")) /\ reply' = [reply EXCEPT ![r] = "error"]
  PROVE  IInv'
<1>1. /\ call[r] # "none" /\ reply[r] = "none" /\ pc'[r] \in {"catch", "done", "lost"} /\ reply'[r] # "ok"
      /\ (pc'[r] = "catch" => reply'[r] = "none")
      /\ \A q \in Requests \ {r} : pc'[q] = pc[q] /\ reply'[q] = reply[q]
  BY DEF IInv, TypeOK, Placed, Goto
<1>2. /\ rec' \in [Keys -> Record \cup {None}]
      /\ \A k \in Keys :
           \/ rec'[k] = rec[k]
           \/ key[r] = k /\ rec[k] # None /\ rec'[k] # None /\ rec'[k].status = "failed"
  <2>1. CASE UNCHANGED rec
    BY <2>1 DEF IInv, TypeOK
  <2>2. CASE Mark(r, "failed", None)
    BY <2>2, MarkStep
  <2> QED
    BY <2>1, <2>2
<1>3. TypeOK'
  <2>1. pc' \in [Requests -> Steps] /\ reply' \in [Requests -> {"none", "ok", "conflict", "error"}]
    BY DEF IInv, TypeOK, Steps, Goto
  <2> QED
    BY <1>2, <2>1 DEF IInv, TypeOK
<1>4. Placed'
  BY <1>1 DEF IInv, Placed
<1>5. Real'
  BY <1>2 DEF IInv, Real
<1>6. SuccessIsReal'
  BY <1>1 DEF IInv, SuccessIsReal
<1>7. Guarded'
  <2>1. \A l \in Keys : key[r] = l => Failed(r, l)'
    BY <1>1 DEF Failed
  <2>2. \A l \in Keys : Failed(r, l) => Failed(r, l)'
    BY <2>1 DEF Failed
  <2>3. \A k \in Keys : key[r] = k => rec'[k] # None
    BY <1>1, <1>2 DEF IInv, Guarded
  <2> QED
    BY <1>1, <1>2, <2>1, <2>2, <2>3, GuardedStep
<1> QED
  BY <1>3, <1>4, <1>5, <1>6, <1>7 DEF IInv

LEMMA DbErrorStep ==
  ASSUME IInv, NEW r \in Requests, DbError(r)
  PROVE  IInv'
<1> USE DEF DbError, Reply
<1>1. CASE pc[r] = "catch"
  BY <1>1, GiveUpStep
<1>2. CASE pc[r] \in {"lookup", "create", "retake"}
  <2>1. /\ call[r] = "none" /\ reply[r] = "none"
        /\ UNCHANGED <<rec, cache, accounts, call, key, body, got>>
        /\ pc'[r] = "done" /\ reply'[r] = "error"
        /\ \A q \in Requests \ {r} : pc'[q] = pc[q] /\ reply'[q] = reply[q]
    BY <1>2 DEF IInv, TypeOK, Placed, Goto
  <2>2. TypeOK'
    BY <1>2, <2>1 DEF IInv, TypeOK, Steps, Goto
  <2>3. Placed' /\ Real' /\ SuccessIsReal'
    BY <1>2, <2>1 DEF IInv, Placed, Real, SuccessIsReal
  <2>4. Guarded'
    <3>1. \A l \in Keys : Failed(r, l) => Failed(r, l)'
      BY <2>1 DEF Failed
    <3> QED
      BY <2>1, <3>1, GuardedStep
  <2> QED
    BY <2>2, <2>3, <2>4 DEF IInv
<1> QED
  BY <1>1, <1>2

LEMMA AuthHandleStep ==
  ASSUME IInv, NEW r \in Requests, AuthHandle(r)
  PROVE  IInv'
<1> USE DEF AuthHandle
<1>1. /\ call[r] = "sent" /\ UNCHANGED <<rec, cache, pc, key, body, reply, got>>
      /\ pc[r] \notin {"idle", "lookup", "create", "retake", "caching"} /\ body[r] \in Bodies
      /\ call'[r] \in {"ok", "error"} /\ \A q \in Requests \ {r} : call'[q] = call[q]
      /\ accounts \subseteq accounts' /\ accounts' \subseteq Bodies
      /\ call'[r] = "ok" => body[r] \in accounts'
  BY DEF IInv, TypeOK, Placed
<1>2. TypeOK'
  BY <1>1 DEF IInv, TypeOK, Steps
<1>3. Placed' /\ Real' /\ SuccessIsReal'
  BY <1>1 DEF IInv, Placed, Real, SuccessIsReal
<1>4. Guarded'
  <2>1. \A l \in Keys : Failed(r, l) => Failed(r, l)'
    BY <1>1 DEF Failed
  <2>2. \A k \in Keys : key[r] = k => rec[k] # None
    BY <1>1 DEF IInv, Guarded
  <2> QED
    BY <1>1, <2>1, <2>2, GuardedStep
<1> QED
  BY <1>2, <1>3, <1>4 DEF IInv

LEMMA CacheExpireStep ==
  ASSUME IInv, NEW k \in Keys, CacheExpire(k)
  PROVE  IInv'
<1>1. /\ UNCHANGED <<rec, accounts, call, pc, key, body, reply, got>>
      /\ cache' \in [Keys -> Bodies \cup {None}] /\ \A l \in Keys : cache'[l] \in {cache[l], None}
  BY DEF CacheExpire, IInv, TypeOK
<1>2. TypeOK' /\ Placed' /\ Real' /\ SuccessIsReal'
  BY <1>1 DEF IInv, TypeOK, Placed, Real, SuccessIsReal
<1>3. Guarded'
  BY <1>1 DEF IInv, Guarded, Broken, Failed
<1> QED
  BY <1>2, <1>3 DEF IInv

\* The calls of the dead process are lost, and their keys broken.
LEMMA RestartStep ==
  ASSUME IInv, Restart
  PROVE  IInv'
<1>1. /\ UNCHANGED <<rec, accounts, call, key, body, reply, got>>
      /\ pc' \in [Requests -> Steps] /\ cache' \in [Keys -> Bodies \cup {None}]
      /\ \A k \in Keys : cache'[k] = None
      /\ \A r \in Requests : pc'[r] = IF pc[r] \in {"idle", "done"} THEN pc[r] ELSE "lost"
  BY DEF Restart, IInv, TypeOK, Steps
<1>2. TypeOK' /\ Placed' /\ Real' /\ SuccessIsReal'
  BY <1>1 DEF IInv, TypeOK, Placed, Real, SuccessIsReal
<1>3. \A k \in Keys : Broken(k) => Broken(k)'
  BY <1>1 DEF Broken, Failed
<1>4. Guarded'
  BY <1>1, <1>3 DEF IInv, Guarded
<1> QED
  BY <1>2, <1>4 DEF IInv

-----------------------------------------------------------------------------
(* The theorems.                                                           *)

LEMMA HandleStep ==
  ASSUME IInv, NEW r \in Requests, Handle(r)
  PROVE  IInv'
<1>1. CASE MarkFailed(r)
  BY <1>1, GiveUpStep DEF MarkFailed, Silent
<1>2. CASE Throw(r)
  BY <1>2, GiveUpStep DEF Throw, Silent
<1>3. CASE Catch(r)
  BY <1>3, GiveUpStep DEF Catch, Reply
<1> QED
  BY <1>1, <1>2, <1>3, LookupStep, CreateStep, RetakeStep, MarkCompletedStep, RespondStep DEF Handle

\* Every step of the gateway and of auth-service keeps IInv.
THEOREM Invariance == Spec => []IInv
<1>1. IInv /\ [Next]_vars => IInv'
  <2> SUFFICES ASSUME IInv, [Next]_vars PROVE IInv'
    OBVIOUS
  <2>1. CASE UNCHANGED vars
    <3>1. UNCHANGED <<rec, cache, accounts, call, pc, key, body, reply, got>>
      BY <2>1 DEF vars
    <3>2. TypeOK' /\ Placed' /\ Real' /\ SuccessIsReal'
      BY <3>1 DEF IInv, TypeOK, Placed, Real, SuccessIsReal
    <3>3. Guarded'
      BY <3>1 DEF IInv, Guarded, Broken, Failed
    <3> QED
      BY <3>2, <3>3 DEF IInv
  <2>2. CASE \E r \in Requests, k \in Keys \cup {NoKey}, b \in Bodies : Start(r, k, b)
    BY <2>2, StartStep
  <2>3. CASE \E r \in Requests : Handle(r) \/ AuthHandle(r) \/ DbError(r)
    BY <2>3, HandleStep, AuthHandleStep, DbErrorStep
  <2>4. CASE \E k \in Keys : CacheExpire(k)
    BY <2>4, CacheExpireStep
  <2>5. CASE Restart
    BY <2>5, RestartStep
  <2> QED
    BY <2>1, <2>2, <2>3, <2>4, <2>5 DEF Next
<1> QED
  BY <1>1, InitIInv, PTL DEF Spec

\* Every variable of Idempotency keeps its type.
THEOREM TypeCorrect == Spec => []TypeOK
BY Invariance, PTL DEF IInv

\* A client is never told, at first hand or from the record or the cache, of an
\* account that auth-service has not created.
THEOREM SuccessesAreReal == Spec => []SuccessIsReal
BY Invariance, PTL DEF IInv

\* While every call made under a key is waiting or has succeeded, one request
\* alone has called under it.
THEOREM OneCallPerKey == Spec => []OneCallUnlessFailed
<1>1. IInv => OneCallUnlessFailed
  <2> DEFINE Callers(k) == {r \in OfKey(k) : call[r] # "none"}
  <2> SUFFICES ASSUME IInv, NEW k \in Keys,
                      \A r \in Callers(k) : pc[r] \in {"calling", "caching"} \/ reply[r] = "ok"
               PROVE  \A p, r \in Callers(k) : p = r
    BY DEF OneCallUnlessFailed
  <2>1. ~Broken(k)
    BY DEF Broken, Failed, OfKey
  <2> QED
    BY <2>1 DEF IInv, Guarded, OfKey
<1> QED
  BY <1>1, Invariance, PTL

\* What a completed key says stays so for good: no request, mark or restart
\* changes its record, or starts to execute under it, once nobody executes.
THEOREM SettledStays == Spec => SettledForGood
<1>1. ASSUME IInv, [Next]_vars
      PROVE  [\A k \in Keys : Settled(k) => Settled(k)' /\ rec'[k] = rec[k]]_vars
  <2> SUFFICES ASSUME Next, NEW k \in Keys, Settled(k) PROVE Settled(k)' /\ rec'[k] = rec[k]
    BY <1>1
  <2>0. /\ rec[k] # None /\ rec[k].status = "completed" /\ TypeOK /\ Placed
        /\ \A r \in Requests : key[r] = k => pc[r] \notin {"calling", "catch", "retake"}
    BY <1>1 DEF Settled, OfKey, Executing, IInv
  <2> SUFFICES /\ rec'[k] = rec[k]
               /\ \A r \in Requests : key'[r] = k => pc'[r] \notin {"calling", "catch", "retake"}
    BY <2>0 DEF Settled, OfKey, Executing
  <2>1. ASSUME NEW r \in Requests, NEW l \in Keys \cup {NoKey}, NEW b \in Bodies, Start(r, l, b)
        PROVE  /\ rec'[k] = rec[k]
               /\ \A q \in Requests : key'[q] = k => pc'[q] \notin {"calling", "catch", "retake"}
    BY <2>0, <2>1 DEF Start, Goto, TypeOK
  <2>2. ASSUME NEW r \in Requests, Lookup(r) \/ Create(r) \/ Respond(r)
        PROVE  /\ rec'[k] = rec[k]
               /\ \A q \in Requests : key'[q] = k => pc'[q] \notin {"calling", "catch", "retake"}
    BY <2>0, <2>2 DEF Lookup, Create, Respond, Goto, TypeOK, Placed
  <2>3. ASSUME NEW r \in Requests, Retake(r) \/ MarkCompleted(r) \/ MarkFailed(r) \/ Throw(r) \/ Catch(r)
        PROVE  /\ rec'[k] = rec[k]
               /\ \A q \in Requests : key'[q] = k => pc'[q] \notin {"calling", "catch", "retake"}
    <3>1. key[r] # k
      BY <2>0, <2>3 DEF Retake, MarkCompleted, MarkFailed, Throw, Catch
    <3>2. rec'[k] = rec[k]
      BY <2>0, <2>3, <3>1 DEF Retake, MarkCompleted, MarkFailed, Throw, Catch, Mark, TypeOK
    <3>3. UNCHANGED key /\ \A q \in Requests \ {r} : pc'[q] = pc[q]
      BY <2>0, <2>3 DEF Retake, MarkCompleted, MarkFailed, Throw, Catch, Goto, TypeOK
    <3> QED
      BY <2>0, <3>1, <3>2, <3>3
  <2>4. ASSUME NEW r \in Requests, AuthHandle(r) \/ DbError(r)
        PROVE  /\ rec'[k] = rec[k]
               /\ \A q \in Requests : key'[q] = k => pc'[q] \notin {"calling", "catch", "retake"}
    BY <2>0, <2>4 DEF AuthHandle, DbError, Goto, TypeOK
  <2>5. CASE (\E l \in Keys : CacheExpire(l)) \/ Restart
    BY <2>0, <2>5 DEF CacheExpire, Restart, TypeOK
  <2> QED
    BY <2>1, <2>2, <2>3, <2>4, <2>5 DEF Next, Handle
<1> QED
  BY <1>1, Invariance, PTL DEF Spec, SettledForGood
=============================================================================
