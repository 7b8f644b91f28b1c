---------------------------- MODULE Idempotency ----------------------------
(***************************************************************************)
(* The gateway's idempotency keys: IdempotencyService and its only user,   *)
(* AuthClientService.register, which forwards POST /client/auth/register   *)
(* to auth-service.  A request is used once and is cut at its awaits: the  *)
(* read of the record, its creation or reuse, the call, and the marks.     *)
(***************************************************************************)
EXTENDS Naturals

CONSTANTS
  Requests,   \* register requests reaching the gateway
  Keys,       \* values of the Idempotency-Key header
  Bodies,     \* request bodies, one e-mail address each; also their hashes and
              \* the successful responses to them
  NoKey,      \* the header is missing
  None        \* null

VARIABLES
  rec,        \* table IdempotencyRecord, by its unique key
  cache,      \* idempotencyCache of the gateway process
  accounts,   \* bodies for which auth-service has created the user
  call,       \* the POST of a request to auth-service
  pc, key, body,
  reply, got  \* the answer to the client, and its payload

vars == <<rec, cache, accounts, call, pc, key, body, reply, got>>

ASSUME IdempotencyAssumption == NoKey \notin Keys /\ None \notin Bodies

Record == [hash : Bodies, status : {"processing", "completed", "failed"},
           body : Bodies \cup {None}]

ASSUME RecordAssumption == None \notin Record

Steps == {"idle", "lookup", "create", "retake", "calling", "caching", "catch",
          "done", "lost"}

TypeOK ==
  /\ rec \in [Keys -> Record \cup {None}]
  /\ \A k \in Keys : rec[k] # None /\ rec[k].status = "completed" => rec[k].body # None
  /\ cache \in [Keys -> Bodies \cup {None}]
  /\ accounts \subseteq Bodies
  /\ call \in [Requests -> {"none", "sent", "ok", "error"}]
  /\ pc \in [Requests -> Steps]
  /\ key \in [Requests -> Keys \cup {NoKey}]
  /\ body \in [Requests -> Bodies \cup {None}]
  /\ reply \in [Requests -> {"none", "ok", "conflict", "error"}]
  /\ got \in [Requests -> Bodies \cup {None}]

Init ==
  /\ rec = [k \in Keys |-> None]
  /\ cache = [k \in Keys |-> None]
  /\ accounts = {}
  /\ call = [r \in Requests |-> "none"]
  /\ pc = [r \in Requests |-> "idle"]
  /\ key = [r \in Requests |-> NoKey]
  /\ body = [r \in Requests |-> None]
  /\ reply = [r \in Requests |-> "none"]
  /\ got = [r \in Requests |-> None]

-----------------------------------------------------------------------------

Goto(r, l) == pc' = [pc EXCEPT ![r] = l]
Reply(r, kind) == reply' = [reply EXCEPT ![r] = kind] /\ UNCHANGED got
Succeed(r, b) == reply' = [reply EXCEPT ![r] = "ok"] /\ got' = [got EXCEPT ![r] = b]
Send(r) == call' = [call EXCEPT ![r] = "sent"]
Silent == UNCHANGED <<reply, got>>

\* Mutated Mark: the response body is not stored with a status.
MarkNoBody(r, status, b) ==
  IF key[r] = NoKey THEN UNCHANGED rec
  ELSE rec' = [rec EXCEPT ![key[r]].status = status]

\* update({where: {id}}) of the record of request r; nothing without a key.
Mark(r, status, b) ==
  IF key[r] = NoKey THEN UNCHANGED rec
  ELSE rec' = [rec EXCEPT ![key[r]].status = status, ![key[r]].body = b]

\* The in-memory cache is asked first, by key alone.
Start(r, k, b) ==
  /\ pc[r] = "idle"
  /\ key' = [key EXCEPT ![r] = k]
  /\ body' = [body EXCEPT ![r] = b]
  /\ \/ k = NoKey /\ Goto(r, "calling") /\ Send(r) /\ Silent
     \/ /\ k \in Keys
        /\ \/ cache[k] # None /\ Goto(r, "done") /\ Succeed(r, cache[k])
           \/ cache[k] = None /\ Goto(r, "lookup") /\ Silent
        /\ UNCHANGED call
  /\ UNCHANGED <<rec, cache, accounts>>

\* Mutated Lookup: only a record still processing stops a second execution.
LookupReexecutes(r) ==
  /\ pc[r] = "lookup"
  /\ LET k == key[r] IN
     \/ rec[k] = None /\ Goto(r, "create") /\ Silent
     \/ /\ rec[k] # None
        /\ \/ /\ rec[k].hash # body[r] \/ rec[k].status = "processing"
              /\ Goto(r, "done") /\ Reply(r, "conflict")
           \/ /\ rec[k].hash = body[r] /\ rec[k].status # "processing"
              /\ Goto(r, "retake") /\ Silent
  /\ UNCHANGED <<rec, cache, accounts, call, key, body>>

\* findUnique, then what its answer decides.
Lookup(r) ==
  /\ pc[r] = "lookup"
  /\ LET k == key[r] IN
     \/ rec[k] = None /\ Goto(r, "create") /\ Silent /\ UNCHANGED cache
     \/ /\ rec[k] # None
        /\ rec[k].hash # body[r] \/ rec[k].status = "processing"
        /\ Goto(r, "done") /\ Reply(r, "conflict")
        /\ UNCHANGED cache
     \/ /\ rec[k] # None
        /\ rec[k].hash = body[r] /\ rec[k].status = "completed"
        /\ cache' = [cache EXCEPT ![k] = rec[k].body]
        /\ Goto(r, "done") /\ Succeed(r, rec[k].body)
     \/ /\ rec[k] # None
        /\ rec[k].hash = body[r] /\ rec[k].status = "failed"
        /\ Goto(r, "retake") /\ Silent
        /\ UNCHANGED cache
  /\ UNCHANGED <<rec, accounts, call, key, body>>

\* Mutated Create: an upsert, the loser of the race goes on as well.
CreateUpsert(r) ==
  /\ pc[r] = "create"
  /\ rec' = [rec EXCEPT ![key[r]] =
               [hash |-> body[r], status |-> "processing", body |-> None]]
  /\ Goto(r, "calling") /\ Send(r) /\ Silent
  /\ UNCHANGED <<cache, accounts, key, body>>

\* create of the 'processing' record: the unique key refuses a second one, and
\* the exception is answered as a 500.
Create(r) ==
  /\ pc[r] = "create"
  /\ \/ /\ rec[key[r]] = None
        /\ rec' = [rec EXCEPT ![key[r]] =
                     [hash |-> body[r], status |-> "processing", body |-> None]]
        /\ Goto(r, "calling") /\ Send(r) /\ Silent
     \/ /\ rec[key[r]] # None
        /\ Goto(r, "done") /\ Reply(r, "error")
        /\ UNCHANGED <<rec, call>>
  /\ UNCHANGED <<cache, accounts, key, body>>

\* A failed record is taken over by an update that does not look at its status.
Retake(r) ==
  /\ pc[r] = "retake"
  /\ rec' = [rec EXCEPT ![key[r]].status = "processing"]
  /\ Goto(r, "calling") /\ Send(r) /\ Silent
  /\ UNCHANGED <<cache, accounts, key, body>>

\* Mutated MarkCompleted: the status of the answer is not looked at.
MarkCompletedAnyStatus(r) ==
  /\ pc[r] = "calling" /\ call[r] \in {"ok", "error"}
  /\ Mark(r, "completed", body[r])
  /\ Goto(r, "caching") /\ Silent
  /\ UNCHANGED <<cache, accounts, call, key, body>>

\* A successful answer is recorded first ...
MarkCompleted(r) ==
  /\ pc[r] = "calling" /\ call[r] = "ok"
  /\ Mark(r, "completed", body[r])
  /\ Goto(r, "caching") /\ Silent
  /\ UNCHANGED <<cache, accounts, call, key, body>>

\* ... then cached (cacheResponse) and given to the client.
Respond(r) ==
  /\ pc[r] = "caching"
  /\ cache' = IF key[r] = NoKey THEN cache ELSE [cache EXCEPT ![key[r]] = body[r]]
  /\ Goto(r, "done") /\ Succeed(r, body[r])
  /\ UNCHANGED <<rec, accounts, call, key, body>>

\* An answer of 400 or more: markFailed, then an exception to the catch block.
MarkFailed(r) ==
  /\ pc[r] = "calling" /\ call[r] = "error"
  /\ Mark(r, "failed", None)
  /\ Goto(r, "catch") /\ Silent
  /\ UNCHANGED <<cache, accounts, call, key, body>>

\* axios gives up after its timeout, or a mark threw: straight to the catch block.
Throw(r) ==
  /\ pc[r] = "calling"
  /\ Goto(r, "catch") /\ Silent
  /\ UNCHANGED <<rec, cache, accounts, call, key, body>>

\* Mutated Catch: the record is only marked when auth-service answered.
CatchAnswered(r) ==
  /\ pc[r] = "catch"
  /\ IF call[r] = "error" THEN Mark(r, "failed", None) ELSE UNCHANGED rec
  /\ Goto(r, "done") /\ Reply(r, "error")
  /\ UNCHANGED <<cache, accounts, call, key, body>>

\* The catch block marks the record failed (again) and answers with an error.
Catch(r) ==
  /\ pc[r] = "catch"
  /\ Mark(r, "failed", None)
  /\ Goto(r, "done") /\ Reply(r, "error")
  /\ UNCHANGED <<cache, accounts, call, key, body>>

\* auth-service handles the POST, perhaps long after the gateway gave up: it
\* refuses it or fails, or creates the user, after which a later step may fail.
AuthHandle(r) ==
  /\ call[r] = "sent"
  /\ \/ /\ body[r] \notin accounts
        /\ accounts' = accounts \cup {body[r]}
        /\ \E a \in {"ok", "error"} : call' = [call EXCEPT ![r] = a]
     \/ call' = [call EXCEPT ![r] = "error"] /\ UNCHANGED accounts
  /\ UNCHANGED <<rec, cache, pc, key, body, reply, got>>

-----------------------------------------------------------------------------

CacheExpire(k) ==
  /\ cache[k] # None
  /\ cache' = [cache EXCEPT ![k] = None]
  /\ UNCHANGED <<rec, accounts, call, pc, key, body, reply, got>>

\* The gateway process dies and comes back: its requests and its cache are gone.
Restart ==
  /\ \E r \in Requests : pc[r] \notin {"idle", "done", "lost"}
  /\ pc' = [r \in Requests |-> IF pc[r] \in {"idle", "done"} THEN pc[r] ELSE "lost"]
  /\ cache' = [k \in Keys |-> None]
  /\ UNCHANGED <<rec, accounts, call, key, body, reply, got>>

\* The database refuses a statement while the process lives on: before the
\* call nothing is marked; in the catch block the mark is lost and the client
\* still gets an error.
DbError(r) ==
  /\ pc[r] \in {"lookup", "create", "retake", "catch"}
  /\ pc[r] = "catch" => key[r] # NoKey
  /\ Goto(r, IF pc[r] = "catch" THEN "lost" ELSE "done")
  /\ Reply(r, "error")
  /\ UNCHANGED <<rec, cache, accounts, call, key, body>>

Handle(r) ==
  \/ Lookup(r) \/ Create(r) \/ Retake(r)
  \/ MarkCompleted(r) \/ Respond(r) \/ MarkFailed(r) \/ Throw(r) \/ Catch(r)

Next ==
  \/ \E r \in Requests, k \in Keys \cup {NoKey}, b \in Bodies : Start(r, k, b)
  \/ \E r \in Requests : Handle(r) \/ AuthHandle(r) \/ DbError(r)
  \/ \E k \in Keys : CacheExpire(k)
  \/ Restart

Spec == Init /\ [][Next]_vars

\* A handler that has begun goes on: every await is a query or a call with a
\* timeout.  Clients, auth-service, failures and restarts promise nothing.
FairSpec == Spec /\ \A r \in Requests : WF_vars(Handle(r))

-----------------------------------------------------------------------------
(* Properties.                                                             *)

Executing == {"calling", "catch"}
OfKey(k) == {r \in Requests : key[r] = k /\ pc[r] # "idle"}

\* No client is told that an account exists which auth-service has not created,
\* neither at first hand nor out of the record or the cache.
SuccessIsReal ==
  /\ \A r \in Requests : reply[r] = "ok" => got[r] \in accounts
  /\ \A k \in Keys : cache[k] # None => cache[k] \in accounts

\* As long as every call made under a key is still waiting or has succeeded, at
\* most one request with that key has called auth-service: the unique key
\* decides the race of first requests, the record stops the later ones.
OneCallUnlessFailed ==
  \A k \in Keys :
    LET Callers == {r \in OfKey(k) : call[r] # "none"} IN
    (\A r \in Callers : pc[r] \in {"calling", "caching"} \/ reply[r] = "ok")
      => \A p, r \in Callers : p = r

Processing(k) == rec[k] # None /\ rec[k].status = "processing"

\* Once a key is completed and nobody executes under it, it stays completed with
\* the same payload and nobody executes under it again, restarts included.
Settled(k) ==
  /\ rec[k] # None /\ rec[k].status = "completed"
  /\ \A r \in OfKey(k) : pc[r] \notin Executing \cup {"retake"}
SettledForGood ==
  [][\A k \in Keys : Settled(k) => Settled(k)' /\ rec'[k] = rec[k]]_vars

\* A key is not held for ever by a request that was answered: 'processing' ends,
\* whatever auth-service does, unless a crash or the database cut the owner off.
KeyReleased ==
  \A k \in Keys :
    Processing(k) ~> (~Processing(k) \/ \E r \in OfKey(k) : pc[r] = "lost")

(* What the documents say and the code does not do.                        *)

\* SECURITY.md: the same key with a different hash is answered 409.
OtherBodyIsConflict ==
  \A p, r \in Requests : key[r] # NoKey /\ key[p] = key[r] /\ reply[r] = "ok"
    /\ reply[p] = "ok" => body[p] = body[r]
=============================================================================
