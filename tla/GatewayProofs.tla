--------------------------- MODULE GatewayProofs ---------------------------
(***************************************************************************)
(* Theorems about Gateway, for any browsers, requests, menu and bounds:    *)
(* its type invariant, AnswersTrue, ActsForCaller, SignedOutHasCause and   *)
(* SessionsAreSignIns.  IInv adds how far the gateway and the service can  *)
(* be with one request, and to whom a token belongs.  SInv says which      *)
(* cookies a browser can hold and a request can carry, and what the live   *)
(* rows can be; Owned, whose they are.                                     *)
(***************************************************************************)
EXTENDS Gateway, TLAPS

-----------------------------------------------------------------------------
(* The inductive invariant.                                                *)

Before == {"admitted", "found", "writing"}
After == {"changed", "spent", "done"}
Refusals == Statuses \ {"ok", "error"}
ActsFor(area, h) == h \in Handlers[area].user \cup Handlers[area].data

\* Why a success may be reported without the work done, and a refusal after it.
Hushed(r) == r \in faults /\ Failure(r) = "ok"
Excused(r) == r \in lost \/ (r \in faults /\ Failure(r) \notin {"ok", "error"})

\* A token was issued to the browser.
Belongs(t, b) ==
  \/ t = None \/ t = b
  \/ t \in Requests /\ in[t] # None /\ in[t].by = b

Held ==
  /\ \A r \in Requests : in[r] # None => Belongs(in[r].acc, in[r].by)
  /\ \A b \in Browsers : Belongs(jar[b].acc, b)

\* The service sees only what the gateway's guard let through.
Taken == \A r \in Requests :
  /\ gw[r] = "new" <=> in[r] = None
  /\ gw[r] = "new" => svc[r] = "idle"
  /\ svc[r] # "idle" =>
       Method(r) \in Controller[Area(r)].open \/ in[r].acc # None

Worked == \A r \in Requests :
  /\ svc[r] = "replied" <=> reply[r] # None
  /\ svc[r] \in Before \cup {"idle", "called"} => ran[r] = None
  /\ svc[r] \in After => ran[r] # None
  /\ reply[r] = "ok" => ran[r] # None \/ Hushed(r)
  /\ reply[r] \in Refusals => ran[r] = None \/ Excused(r)

\* A request answered with anything but a 5xx has nobody working for it any more.
Settled == \A r \in Requests :
  /\ told[r] # None => gw[r] = "answered"
  /\ told[r] \in Refusals \cup {"ok"} => svc[r] \in {"idle", "replied"}

IInv == TypeOK /\ Held /\ Taken /\ Worked /\ Settled /\ AnswersTrue /\ ActsForCaller

USE GatewayAssumption

-----------------------------------------------------------------------------
(* The tables of the routes.                                               *)

Fits(area, m) ==
  LET h == Client[area].calls[m] IN
  ActsFor(area, h) => /\ m \notin Controller[area].open
                      /\ m \in Client[area].own
                      /\ h \in Handlers[area][Strategy[area].userIn]

LEMMA RouteShape ==
  ASSUME NEW route \in Routes
  PROVE  /\ route.area \in Areas
         /\ route.method \in Controller[route.area].open \cup Controller[route.area].guarded
BY DEF Routes

\* A handler that acts for a user is reached by guarded methods only, with the
\* caller's token sent on, and looks for the user where the strategy puts it.
LEMMA AuthFits ==
  ASSUME NEW m \in AuthController.open \cup AuthController.guarded
  PROVE  Fits("auth", m)
BY DEF Fits, ActsFor, Client, Controller, Handlers, Strategy, AuthStrategy,
       AuthController, AuthClient, AuthHandlers, Same

LEMMA RolesFit ==
  ASSUME NEW m \in RoleController.open \cup RoleController.guarded
  PROVE  Fits("roles", m)
BY DEF Fits, ActsFor, Handlers, RolesHandlers

LEMMA PostsFit ==
  ASSUME NEW m \in PostsController.open \cup PostsController.guarded
  PROVE  Fits("posts", m)
BY DEF Fits, ActsFor, Client, Controller, Handlers, Strategy, ContentStrategy,
       PostsController, PostsClient, PostsHandlers, Same

LEMMA CommentsFit ==
  ASSUME NEW m \in CommentsController.open \cup CommentsController.guarded
  PROVE  Fits("comments", m)
BY DEF Fits, ActsFor, Client, Controller, Handlers, Strategy, ContentStrategy,
       CommentsController, CommentsClient, CommentsHandlers, Same

LEMMA QuestionsFit ==
  ASSUME NEW m \in QuestionsController.open \cup QuestionsController.guarded
  PROVE  Fits("questions", m)
BY DEF Fits, ActsFor, Client, Controller, Handlers, Strategy, ContentStrategy,
       QuestionsController, QuestionsClient, QuestionsHandlers, Same

LEMMA NotificationFits ==
  ASSUME NEW m \in NotificationController.open \cup NotificationController.guarded
  PROVE  Fits("notification", m)
BY DEF Fits, ActsFor, Client, Controller, Handlers, Strategy, NotificationStrategy,
       NotificationController, NotificationClient, NotificationHandlers, Same

LEMMA CloudinaryFits ==
  ASSUME NEW m \in CloudinaryController.open \cup CloudinaryController.guarded
  PROVE  Fits("cloudinary", m)
BY DEF Fits, ActsFor, Handlers, CloudinaryHandlers

LEMMA TablesFit ==
  ASSUME NEW route \in Routes
  PROVE  Fits(route.area, route.method)
<1> DEFINE a == route.area
<1> route.method \in Controller[a].open \cup Controller[a].guarded
  BY RouteShape
<1> CASE a = "auth" BY AuthFits DEF Controller
<1> CASE a = "roles" BY RolesFit DEF Controller
<1> CASE a = "posts" BY PostsFit DEF Controller
<1> CASE a = "comments" BY CommentsFit DEF Controller
<1> CASE a = "questions" BY QuestionsFit DEF Controller
<1> CASE a = "notification" BY NotificationFits DEF Controller
<1> CASE a = "cloudinary" BY CloudinaryFits DEF Controller
<1> QED BY RouteShape DEF Areas

-----------------------------------------------------------------------------
(* Steps of the service.                                                   *)

\* Initially nothing has been asked.
LEMMA InitIInv == Init => IInv
<1> SUFFICES ASSUME Init PROVE IInv
  OBVIOUS
<1>1. TypeOK
  BY DEF Init, TypeOK, Jar, Names, Steps
<1>2. Held /\ Taken
  BY DEF Init, Held, Taken, Belongs
<1>3. Worked /\ Settled /\ AnswersTrue /\ ActsForCaller
  BY DEF Init, Worked, Settled, AnswersTrue, ActsForCaller, Refusals, Statuses, Names,
         Before, After
<1> QED
  BY <1>1, <1>2, <1>3 DEF IInv

\* Nothing that IInv speaks of changes.
LEMMA Unchanged ==
  ASSUME IInv, UNCHANGED vars
  PROVE  IInv'
BY DEF IInv, vars, tables, TypeOK, Held, Belongs, Taken, Worked, Settled, AnswersTrue,
       ActsForCaller, Hushed, Excused, Failure, Method, Area, Table, Handler

\* The request a handler works on.
LEMMA Busy ==
  ASSUME IInv, NEW r \in Requests, svc[r] \notin {"idle", "replied"}
  PROVE  /\ in[r] \in Request /\ in[r].route \in Routes /\ in[r].by \in Browsers
         /\ gw[r] # "new" /\ reply[r] = None
         /\ svc[r] \in Before \cup {"called"} => ran[r] = None
         /\ told[r] \notin Refusals \cup {"ok"}
<1>1. gw[r] # "new" /\ reply[r] = None /\ (svc[r] \in Before \cup {"called"} => ran[r] = None)
  BY DEF IInv, Taken, Worked
<1>2. in[r] \in Request
  BY <1>1 DEF IInv, Taken, TypeOK
<1>3. told[r] \notin Refusals \cup {"ok"}
  BY DEF IInv, Settled
<1> QED
  BY <1>1, <1>2, <1>3 DEF Request

\* The user a handler runs for.
LEMMA RunsFor ==
  ASSUME IInv, NEW r \in Requests, svc[r] \notin {"idle", "replied"}
  PROVE  /\ Actor(r) \in Browsers \cup {Nobody}
         /\ Actor(r) # Nobody => Actor(r) = in[r].by
         /\ Actor(r) = Nobody => ~ActsFor(Area(r), Handler(r))
<1>1. in[r].by \in Browsers /\ in[r].route \in Routes /\ in[r] # None
  BY Busy
<1>2. in[r].acc # None => Owner(in[r].acc) = in[r].by
  <2>1. Belongs(in[r].acc, in[r].by)
    BY <1>1 DEF IInv, Held
  <2> QED
    BY <2>1, <1>1 DEF Belongs, Owner
<1>3. Credential(r) = "user" => in[r].acc # None
  BY DEF Credential
<1>4. Actor(r) \in {in[r].by, Nobody}
  BY <1>2, <1>3 DEF Actor
<1>5. ASSUME ActsFor(Area(r), Handler(r))
      PROVE  Actor(r) # Nobody
  <2>1. /\ Method(r) \notin Controller[Area(r)].open
        /\ Method(r) \in Client[Area(r)].own
        /\ Handler(r) \in Table(r)[Strategy[Area(r)].userIn]
    BY <1>1, <1>5, TablesFit DEF Fits, Method, Area, Handler, Table
  <2>2. in[r].acc # None
    BY <2>1 DEF IInv, Taken
  <2>3. Credential(r) = "user"
    BY <2>1, <2>2 DEF Credential
  <2> QED
    BY <2>1, <2>2, <2>3, <1>1, <1>2 DEF Actor, Names
<1> QED
  BY <1>1, <1>4, <1>5

\* What excuses an answer stays.
LEMMA ExcuseKept ==
  ASSUME NEW q \in Requests, in'[q] = in[q], lost \subseteq lost', faults \subseteq faults'
  PROVE  (Hushed(q) => Hushed(q)') /\ (Excused(q) => Excused(q)')
BY DEF Hushed, Excused, Failure, Handler, Method, Area

\* A handler goes one await further, with what it writes.
LEMMA Advance ==
  ASSUME IInv, NEW r \in Requests, svc[r] \notin {"idle", "replied"},
         NEW step \in Before \cup After, Goto(r, step),
         \/ UNCHANGED ran /\ (svc[r] \in After <=> step \in After)
         \/ Ran(r) /\ step \in After,
         row' \in [Names -> Names \cup {None}], stale' \subseteq Names, cut' \subseteq Names,
         lost \subseteq lost', lost' \subseteq Requests,
         UNCHANGED <<in, gw, reply, told, jar, age, faults>>
  PROVE  IInv'
<1>1. svc'[r] = step /\ \A q \in Requests \ {r} : svc'[q] = svc[q]
  BY DEF Goto, IInv, TypeOK
<1>2. /\ step \notin {"idle", "called", "replied"} /\ step \in Steps
      /\ ~(step \in Before /\ step \in After)
  BY DEF Before, After, Steps
<1>3. /\ ran' \in [Requests -> Browsers \cup {Nobody, None}]
      /\ \A q \in Requests \ {r} : ran'[q] = ran[q]
      /\ ran'[r] = ran[r] \/ (ran'[r] = Actor(r) /\ step \in After)
  BY RunsFor DEF Ran, IInv, TypeOK
<1>4. Actor(r) # None
  BY RunsFor DEF Names
<1>5. ran'[r] = None <=> step \notin After
  <2>1. CASE Ran(r) /\ step \in After
    BY <1>4, <2>1 DEF Ran, IInv, TypeOK
  <2>2. CASE UNCHANGED ran /\ (svc[r] \in After <=> step \in After)
    <3>1. svc[r] \in Before \cup After \cup {"called"}
      BY DEF IInv, TypeOK, Steps, Before, After
    <3> QED
      BY <2>2, <3>1 DEF IInv, Worked
  <2> QED
    BY <2>1, <2>2
<1>6. TypeOK'
  <2>1. svc' \in [Requests -> Steps]
    BY <1>2 DEF Goto, IInv, TypeOK
  <2> QED
    BY <2>1, <1>3 DEF IInv, TypeOK
<1>7. Held'
  BY DEF IInv, Held, Belongs
<1>8. Taken'
  BY <1>1, <1>2, Busy DEF IInv, Taken, Method, Area
<1>9. \A q \in Requests : (Hushed(q) => Hushed(q)') /\ (Excused(q) => Excused(q)')
  BY ExcuseKept
<1>10. Worked'
  <2>1. ~(reply'[r] = "ok") /\ reply'[r] \notin Refusals
    BY Busy DEF Statuses, Refusals
  <2> QED
    BY <2>1, <1>1, <1>2, <1>3, <1>5, <1>9, Busy DEF IInv, Worked
<1>11. Settled'
  BY <1>1, Busy DEF IInv, Settled
<1>12. AnswersTrue'
  <2>1. told'[r] # "ok" /\ told'[r] \notin Refusals
    BY Busy
  <2> QED
    BY <2>1, <1>3, <1>9 DEF IInv, AnswersTrue, Hushed, Excused, Refusals, Method, Area
<1>13. ActsForCaller'
  <2>1. \/ ran'[r] = ran[r]
        \/ /\ ran'[r] \in Browsers => ran'[r] = in[r].by
           /\ ran'[r] = Nobody => ~ActsFor(Area(r), Handler(r))
    BY <1>3, RunsFor DEF Names
  <2> QED
    BY <2>1, <1>3 DEF IInv, ActsForCaller, ActsFor, Area, Method, Handler, Table
<1> QED
  BY <1>6, <1>7, <1>8, <1>10, <1>11, <1>12, <1>13 DEF IInv

\* A handler answers.
LEMMA Answering ==
  ASSUME IInv, NEW r \in Requests, svc[r] \notin {"idle", "replied"},
         NEW status \in Statuses, Reply(r, status),
         status = "ok" => ran[r] # None \/ Hushed(r)',
         status \in Refusals => ran[r] = None \/ Excused(r)',
         UNCHANGED <<in, gw, told, ran, jar, age, tables>>,
         faults \subseteq faults', faults' \subseteq Requests
  PROVE  IInv'
<1>1. svc'[r] = "replied" /\ \A q \in Requests \ {r} : svc'[q] = svc[q]
  BY DEF Reply, Goto, IInv, TypeOK
<1>2. reply'[r] = status /\ \A q \in Requests \ {r} : reply'[q] = reply[q]
  BY DEF Reply, IInv, TypeOK
<1>3. TypeOK'
  <2>1. reply' \in [Requests -> Statuses \cup {None}]
    BY DEF Reply, IInv, TypeOK
  <2>2. svc' \in [Requests -> Steps]
    BY DEF Reply, Goto, IInv, TypeOK, Steps
  <2> QED
    BY <2>1, <2>2 DEF IInv, TypeOK, tables
<1>4. Held'
  BY DEF IInv, Held, Belongs
<1>5. Taken'
  BY <1>1, Busy DEF IInv, Taken, Method, Area
<1>6. \A q \in Requests : (Hushed(q) => Hushed(q)') /\ (Excused(q) => Excused(q)')
  BY ExcuseKept DEF tables
<1>7. Worked'
  <2>1. status # None /\ svc'[r] \notin Before \cup After \cup {"idle", "called"}
    BY <1>1 DEF Before, After
  <2> QED
    BY <2>1, <1>1, <1>2, <1>6 DEF IInv, Worked
<1>8. Settled'
  BY <1>1 DEF IInv, Settled
<1>9. AnswersTrue'
  BY <1>6 DEF IInv, AnswersTrue, Hushed, Excused, Method, Area
<1>10. ActsForCaller'
  BY DEF IInv, ActsForCaller, Area, Method, Handler, Table
<1> QED
  BY <1>3, <1>4, <1>5, <1>7, <1>8, <1>9, <1>10 DEF IInv

-----------------------------------------------------------------------------
(* Steps of the gateway.                                                   *)

\* The gateway turns a request into an answer or into a call.
LEMMA Asked ==
  ASSUME IInv, NEW r \in Requests, gw[r] = "new", NEW b \in Browsers, NEW route \in Routes,
         NEW t \in Carried(b, route), Ask(r, b, route, t),
         \/ /\ \E status \in Refusals : Answer(r, status)
            /\ UNCHANGED svc
         \/ /\ Passes(route, t) /\ gw' = [gw EXCEPT ![r] = "waiting"]
            /\ svc' = [svc EXCEPT ![r] = "called"] /\ UNCHANGED told,
         UNCHANGED <<reply, ran, jar, age, faults, tables>>
  PROVE  IInv'
<1>1. in[r] = None /\ svc[r] = "idle" /\ told[r] = None /\ reply[r] = None /\ ran[r] = None
  BY DEF IInv, TypeOK, Taken, Settled, Worked
<1>2. t = None \/ t = jar[b].acc
  BY DEF Carried
<1>3. t \in Names \cup {None} /\ Belongs(t, b)
  BY <1>2 DEF IInv, TypeOK, Jar, Held, Belongs
<1>4. /\ in'[r] \in Request /\ in'[r] # None
      /\ in'[r].by = b /\ in'[r].acc = t /\ in'[r].route = route
      /\ \A q \in Requests \ {r} : in'[q] = in[q]
      /\ in' \in [Requests -> Request \cup {None}]
  <2> DEFINE asked == [by |-> b, route |-> route, acc |-> t, device |-> jar[b].device,
                token |-> jar[b].token,
                heard |-> {q \in Requests : told[q] = "ok" /\ in[q].by = b}]
  <2>1. asked \in Request
    BY <1>3 DEF IInv, TypeOK, Jar, Request
  <2>2. in' = [in EXCEPT ![r] = asked]
    BY DEF Ask
  <2>3. in \in [Requests -> Request \cup {None}]
    BY DEF IInv, TypeOK
  <2> HIDE DEF asked
  <2>4. in'[r] = asked /\ in' \in [Requests -> Request \cup {None}]
        /\ \A q \in Requests \ {r} : in'[q] = in[q]
    BY <2>1, <2>2, <2>3
  <2>5. asked.by = b /\ asked.acc = t /\ asked.route = route
    BY DEF asked
  <2>6. asked # None
    BY <2>1
  <2> QED
    BY <2>1, <2>4, <2>5, <2>6
<1>5. /\ gw'[r] \in {"waiting", "answered"} /\ svc'[r] \in {"idle", "called"}
      /\ svc'[r] # "idle" => Passes(route, t)
      /\ told'[r] \in Refusals \cup {None} /\ (told'[r] # None => gw'[r] = "answered" /\ svc'[r] = "idle")
      /\ \A q \in Requests \ {r} : gw'[q] = gw[q] /\ svc'[q] = svc[q] /\ told'[q] = told[q]
  BY <1>1 DEF Answer, IInv, TypeOK
<1>6. TypeOK'
  <2>1. gw' \in [Requests -> {"new", "waiting", "answered"}]
        /\ told' \in [Requests -> Statuses \cup {None, "lost"}]
        /\ svc' \in [Requests -> Steps]
    BY DEF Answer, IInv, TypeOK, Refusals, Steps
  <2> QED
    BY <2>1, <1>4 DEF IInv, TypeOK, tables
<1>7. Held'
  <2>1. \A x, c : Belongs(x, c) => Belongs(x, c)'
    BY <1>1, <1>4 DEF Belongs
  <2> QED
    BY <2>1, <1>3, <1>4 DEF IInv, Held
<1>8. Taken'
  <2>1. svc'[r] # "idle" => route.method \in Controller[route.area].open \/ t # None
    BY <1>5 DEF Passes, Verified
  <2> QED
    BY <2>1, <1>4, <1>5 DEF IInv, Taken, Method, Area
<1>9. Worked' /\ Settled'
  <2>1. None \notin Refusals /\ None # "ok" /\ svc'[r] \notin After \cup {"replied"}
    BY <1>5 DEF Refusals, Statuses, After
  <2>2. \A q \in Requests \ {r} : (Hushed(q) => Hushed(q)') /\ (Excused(q) => Excused(q)')
    BY <1>4, ExcuseKept DEF tables
  <2> QED
    BY <2>1, <2>2, <1>1, <1>5 DEF IInv, Worked, Settled
<1>10. AnswersTrue'
  <2>1. ran'[r] = None /\ told'[r] # "ok"
    BY <1>1, <1>5 DEF Refusals, Statuses
  <2>2. \A q \in Requests \ {r} : (Hushed(q) => Hushed(q)') /\ (Excused(q) => Excused(q)')
    BY <1>4, ExcuseKept DEF tables
  <2> QED
    BY <2>1, <2>2, <1>4, <1>5 DEF IInv, AnswersTrue, Hushed, Excused, Method, Area
<1>11. ActsForCaller'
  <2>1. ran'[r] = None /\ None \notin Browsers \cup {Nobody}
    BY <1>1 DEF Names
  <2> QED
    BY <2>1, <1>4 DEF IInv, ActsForCaller, Method, Area, Handler, Table
<1> QED
  BY <1>6, <1>7, <1>8, <1>9, <1>10, <1>11 DEF IInv

\* The menu offers routes to browsers.
LEMMA OfferedTyped ==
  ASSUME NEW r \in Requests, NEW s \in Offered(r)
  PROVE  s.by \in Browsers /\ s.route \in Routes
<1> DEFINE Item == [by : Browsers, route : Routes]
<1>1. PICK m \in Menu : s = m[r] /\ r <= Len(m)
  BY DEF Offered
<1>2. m \in Seq(Item)
  OBVIOUS
<1>3. s \in Item
  <2> HIDE DEF Item
  <2>1. Len(m) \in Nat /\ r \in Nat /\ 1 <= r
    BY <1>2 DEF Requests
  <2>2. r \in 1..Len(m)
    BY <1>1, <2>1
  <2>3. m[r] \in Item
    BY <1>2, <2>2
  <2> QED
    BY <1>1, <2>3
<1> QED
  BY <1>3

\* Whatever the gateway does first with a request.
LEMMA TakeStep ==
  ASSUME IInv, NEW r \in Requests, IsNext(r), NEW s \in Offered(r), Take(r, s.by, s.route)
  PROVE  IInv'
<1>1. s.by \in Browsers /\ s.route \in Routes
  BY OfferedTyped
<1>2. PICK t \in Carried(s.by, s.route) :
        \/ Reject(r, s.by, s.route, t) \/ Limit(r, s.by, s.route, t)
        \/ Forward(r, s.by, s.route, t)
  BY DEF Take
<1>3. gw[r] = "new"
  BY DEF IsNext
<1>4. "unauthorized" \in Refusals /\ "limited" \in Refusals
  BY DEF Refusals, Statuses
<1>5. CASE Reject(r, s.by, s.route, t)
  BY <1>1, <1>3, <1>4, <1>5, Asked DEF Reject
<1>6. CASE Limit(r, s.by, s.route, t)
  BY <1>1, <1>3, <1>4, <1>6, Asked DEF Limit
<1>7. CASE Forward(r, s.by, s.route, t)
  BY <1>1, <1>3, <1>7, Asked DEF Forward
<1> QED
  BY <1>2, <1>5, <1>6, <1>7

\* The gateway answers a request it has taken.
LEMMA Answered ==
  ASSUME IInv, NEW r \in Requests, gw[r] = "waiting",
         NEW status \in Statuses \cup {"lost"}, Answer(r, status),
         status = "ok" => /\ At(r, "replied")
                          /\ ran[r] # None \/ Hushed(r) \/ Method(r) \in Client[Area(r)].unchecked,
         status \in Refusals => At(r, "replied") /\ (ran[r] = None \/ Excused(r)),
         svc' = svc \/ (At(r, "called") /\ Goto(r, "idle") /\ status = "error"),
         jar' \in [Browsers -> Jar], \A b \in Browsers : Belongs(jar'[b].acc, b),
         faults \subseteq faults', faults' \subseteq Requests,
         UNCHANGED <<in, reply, ran, age, tables>>
  PROVE  IInv'
<1>1. /\ gw'[r] = "answered" /\ told'[r] = status
      /\ \A q \in Requests \ {r} : gw'[q] = gw[q] /\ told'[q] = told[q]
  BY DEF Answer, IInv, TypeOK
<1>2. /\ \A q \in Requests \ {r} : svc'[q] = svc[q]
      /\ svc'[r] = svc[r] \/ (svc[r] = "called" /\ svc'[r] = "idle" /\ status = "error")
  BY DEF Goto, At, IInv, TypeOK
<1>3. TypeOK'
  <2>1. gw' \in [Requests -> {"new", "waiting", "answered"}]
        /\ told' \in [Requests -> Statuses \cup {None, "lost"}]
        /\ svc' \in [Requests -> Steps]
    BY DEF Answer, Goto, IInv, TypeOK, Steps
  <2> QED
    BY <2>1 DEF IInv, TypeOK, tables
<1>4. Held'
  BY DEF IInv, Held, Belongs
<1>5. Taken'
  BY <1>1, <1>2 DEF IInv, Taken, Method, Area
<1>6. \A q \in Requests : (Hushed(q) => Hushed(q)') /\ (Excused(q) => Excused(q)')
  BY ExcuseKept DEF tables
<1>7. Worked'
  BY <1>2, <1>6 DEF IInv, Worked, Before, After
<1>8. Settled'
  BY <1>1, <1>2 DEF IInv, Settled, At, Refusals
<1>9. AnswersTrue'
  BY <1>1, <1>6 DEF IInv, AnswersTrue, Hushed, Excused, Refusals, Method, Area
<1>10. ActsForCaller'
  BY DEF IInv, ActsForCaller, Method, Area, Table, Handler
<1> QED
  BY <1>3, <1>4, <1>5, <1>7, <1>8, <1>9, <1>10 DEF IInv

\* The jar that an answer fills holds tokens of its browser.
LEMMA RelayStep ==
  ASSUME IInv, NEW r \in Requests, Relay(r)
  PROVE  IInv'
<1>1. gw[r] = "waiting" /\ At(r, "replied") /\ Answer(r, Told(r))
  BY DEF Relay
<1>2. in[r] \in Request /\ in[r] # None /\ in[r].by \in Browsers
  BY <1>1 DEF IInv, Taken, TypeOK, Request
<1>3. reply[r] \in Statuses
  BY <1>1 DEF IInv, Worked, TypeOK, At
<1>4. Told(r) \in Statuses /\ (Told(r) = "ok" => Method(r) \in Client[Area(r)].unchecked \/ reply[r] = "ok")
      /\ (Told(r) # "ok" => Told(r) = reply[r])
  BY <1>3 DEF Told, Statuses
<1>5. \A j \in Jar : JarAfter(r, j) \in Jar /\ (JarAfter(r, j).acc = r \/ JarAfter(r, j).acc = j.acc)
  <2> SUFFICES ASSUME NEW j \in Jar
               PROVE  JarAfter(r, j) \in Jar /\ (JarAfter(r, j).acc = r \/ JarAfter(r, j).acc = j.acc)
    OBVIOUS
  <2>1. r \in Names /\ in[r].device \in Names \cup {None}
    BY <1>2 DEF Names, Request
  <2> QED
    BY <2>1, <1>2 DEF JarAfter, Jar, Is
<1>6. jar' \in [Browsers -> Jar] /\ \A b \in Browsers : Belongs(jar'[b].acc, b)
  <2>1. jar \in [Browsers -> Jar] /\ jar' = [jar EXCEPT ![in[r].by] = JarAfter(r, jar[in[r].by])]
    BY DEF Relay, IInv, TypeOK
  <2>2. Belongs(r, in[r].by)
    BY <1>2 DEF Belongs
  <2> QED
    BY <2>1, <2>2, <1>2, <1>5 DEF IInv, Held
<1>7. Told(r) = "ok" => ran[r] # None \/ Hushed(r) \/ Method(r) \in Client[Area(r)].unchecked
  BY <1>4 DEF IInv, Worked
<1>8. Told(r) \in Refusals => ran[r] = None \/ Excused(r)
  BY <1>4 DEF IInv, Worked, Refusals
<1>9. faults \subseteq faults' /\ faults' \subseteq Requests
  BY DEF Relay, IInv, TypeOK
<1> QED
  BY <1>1, <1>4, <1>6, <1>7, <1>8, <1>9, Answered DEF Relay

LEMMA FaultSteps ==
  ASSUME IInv, NEW r \in Requests, Timeout(r) \/ Unreachable(r) \/ Vanish(r)
  PROVE  IInv'
<1>1. "error" \in Statuses /\ "error" \notin Refusals /\ "lost" \notin Refusals
  BY DEF Statuses, Refusals
<1>2. /\ jar' \in [Browsers -> Jar] /\ \A b \in Browsers : Belongs(jar'[b].acc, b)
      /\ faults \subseteq faults' /\ faults' \subseteq Requests
  BY DEF Timeout, Unreachable, Vanish, Fault, IInv, TypeOK, Held
<1>3. CASE Timeout(r)
  BY <1>1, <1>2, <1>3, Answered DEF Timeout
<1>4. CASE Unreachable(r)
  BY <1>1, <1>2, <1>4, Answered DEF Unreachable
<1>5. CASE Vanish(r)
  BY <1>1, <1>2, <1>5, Answered DEF Vanish
<1> QED
  BY <1>3, <1>4, <1>5

LEMMA AgeStep ==
  ASSUME IInv, NEW t \in Names, Age(t)
  PROVE  IInv'
<1>1. age' \in [Names -> {"fresh", "expired", "lapsed"}]
  BY DEF Age, IInv, TypeOK
<1> QED
  BY <1>1 DEF Age, IInv, tables, TypeOK, Held, Belongs, Taken, Worked, Settled, AnswersTrue,
       ActsForCaller, Hushed, Excused, Failure, Method, Area, Table, Handler

-----------------------------------------------------------------------------
(* The handlers, action by action, and the theorems.                       *)

\* A check fails before anything is written.
LEMMA TurnStep ==
  ASSUME IInv, NEW r \in Requests, Turn(r) \/ Object(r) \/ RefreshRefused(r)
  PROVE  IInv'
<1>1. PICK status \in {"missing", "unauthorized", "limited", "forbidden", "refused", "error"} :
        Send(r, status)
  BY DEF Turn, Object, RefreshRefused
<1>2. svc[r] \notin {"idle", "replied"} /\ ran[r] = None
  <2>1. svc[r] \in {"called", "admitted", "found"}
    BY DEF Turn, Object, RefreshRefused, At
  <2> QED
    BY <2>1, Busy DEF Before
<1>3. status \in Statuses /\ status # "ok"
  BY DEF Statuses
<1> QED
  BY <1>1, <1>2, <1>3, Answering DEF Send, IInv, TypeOK

\* The answer after the work.
LEMMA ReturnStep ==
  ASSUME IInv, NEW r \in Requests, Return(r) \/ UpdateLost(r) \/ ResetLost(r)
  PROVE  IInv'
<1>1. svc[r] \in After /\ svc[r] \notin {"idle", "replied"}
  BY DEF Return, UpdateLost, ResetLost, At, After
<1>2. ran[r] # None
  BY <1>1 DEF IInv, Worked
<1>3. PICK status \in {"ok", "missing", "refused", "error"} :
        Send(r, status) /\ (status \in {"missing", "refused"} => r \in lost)
  BY DEF Return, UpdateLost, ResetLost
<1>4. status \in Statuses /\ (status \in Refusals => Excused(r)')
  BY <1>3 DEF Statuses, Refusals, Excused, Send, tables
<1> QED
  BY <1>1, <1>2, <1>3, <1>4, Answering DEF Send, IInv, TypeOK

LEMMA AdvanceSteps ==
  ASSUME IInv, NEW r \in Requests,
         \/ Admit(r) \/ LoginFind(r) \/ RefreshFind(r) \/ RefreshLookup(r)
         \/ ResetFind(r)
  PROVE  IInv'
<1>1. svc[r] \notin {"idle", "replied"} \cup After
  BY DEF Admit, LoginFind, RefreshFind, RefreshLookup, ResetFind, At, After
<1>2. PICK step \in Before : Goto(r, step)
  BY DEF Admit, LoginFind, RefreshFind, RefreshLookup, ResetFind, Before
<1>3. UNCHANGED <<in, gw, reply, told, ran, jar, age, faults, tables>>
  BY DEF Admit, LoginFind, RefreshFind, RefreshLookup, ResetFind
<1>4. step \notin After
  BY DEF Before, After
<1> QED
  BY <1>1, <1>2, <1>3, <1>4, Advance DEF tables, IInv, TypeOK

LEMMA RunStep ==
  ASSUME IInv, NEW r \in Requests, Run(r)
  PROVE  IInv'
<1>1. svc[r] \notin {"idle", "replied"} /\ "done" \in After
  BY DEF Run, At, After
<1>2. lost \subseteq lost' /\ lost' \subseteq Requests
  BY DEF Run, IInv, TypeOK
<1> QED
  BY <1>1, <1>2, Advance DEF Run, Work, IInv, TypeOK

LEMMA RoleChangeStep ==
  ASSUME IInv, NEW r \in Requests, NEW u \in Browsers, RoleChange(r, u)
  PROVE  IInv'
<1>1. svc[r] \notin {"idle", "replied"} /\ "done" \in After
  BY DEF RoleChange, At, After
<1>2. Signed(u) \subseteq Names
  BY DEF Signed, Names
<1> QED
  BY <1>1, <1>2, Advance DEF RoleChange, Work, IInv, TypeOK

LEMMA SaveSteps ==
  ASSUME IInv, NEW r \in Requests, LoginSave(r) \/ RefreshSave(r)
  PROVE  IInv'
<1>1. svc[r] \notin {"idle", "replied"} /\ "done" \in After
  BY DEF LoginSave, RefreshSave, At, After
<1>2. PICK d : Save(r, d)
  BY DEF LoginSave, RefreshSave
<1>3. row' \in [Names -> Names \cup {None}]
  BY <1>2 DEF Save, Names, IInv, TypeOK
<1> QED
  BY <1>1, <1>2, <1>3, Advance DEF Save, Work, IInv, TypeOK

LEMMA RevokeSteps ==
  ASSUME IInv, NEW r \in Requests, LogoutDevice(r) \/ LogoutAll(r) \/ ResetRevoke(r)
  PROVE  IInv'
<1>1. svc[r] \notin {"idle", "replied"} /\ "done" \in After
  BY DEF LogoutDevice, LogoutAll, ResetRevoke, At, After
<1>2. PICK D \in SUBSET Names : Revoke(D)
  BY DEF LogoutDevice, LogoutAll, ResetRevoke
<1>3. row' \in [Names -> Names \cup {None}] /\ cut' \subseteq Names
  BY <1>2 DEF Revoke, IInv, TypeOK
<1>4. Goto(r, "done") /\ (Ran(r) \/ (UNCHANGED ran /\ svc[r] \in After))
  BY DEF LogoutDevice, LogoutAll, ResetRevoke, Work, At, After
<1>5. UNCHANGED <<in, gw, reply, told, jar, age, faults, stale, lost>>
  BY DEF LogoutDevice, LogoutAll, ResetRevoke
<1> QED
  BY <1>1, <1>3, <1>4, <1>5, Advance DEF IInv, TypeOK

\* The password of a reset, and the row of its code.
LEMMA ResetSteps ==
  ASSUME IInv, NEW r \in Requests, ResetChange(r) \/ ResetSpend(r)
  PROVE  IInv'
<1>1. /\ svc[r] \in {"found", "changed"} /\ "changed" \in After /\ "spent" \in After
      /\ UNCHANGED <<in, gw, reply, told, jar, age, faults, row, stale, cut>>
  BY DEF ResetChange, ResetSpend, At, tables, After
<1>2. lost \subseteq lost' /\ lost' \subseteq Requests
  BY DEF ResetChange, ResetSpend, tables, IInv, TypeOK
<1>3. CASE ResetChange(r)
  BY <1>1, <1>2, <1>3, Advance DEF ResetChange, IInv, TypeOK
<1>4. CASE ResetSpend(r)
  BY <1>1, <1>2, <1>4, Advance DEF ResetSpend, At, IInv, TypeOK
<1> QED
  BY <1>3, <1>4

\* What a handler answers when a statement of it fails.
LEMMA FailStep ==
  ASSUME IInv, NEW r \in Requests, Fail(r)
  PROVE  IInv'
<1>1. /\ svc[r] \notin {"idle", "replied"} /\ r \in faults'
      /\ faults \subseteq faults' /\ faults' \subseteq Requests
      /\ UNCHANGED <<in, gw, told, ran, jar, age, tables>>
  BY DEF Fail, Fault, IInv, TypeOK
<1>2. PICK status \in {"error", Failure(r)} : Reply(r, status)
  BY DEF Fail
<1>3. status \in Statuses
  BY DEF Failure, Caught, Statuses
<1>4. Failure(r)' = Failure(r)
  BY <1>1 DEF Failure, Handler, Method, Area
<1>5. (status = "ok" => Hushed(r)') /\ (status \in Refusals => Excused(r)')
  BY <1>1, <1>4 DEF Hushed, Excused, Refusals
<1> QED
  BY <1>1, <1>2, <1>3, <1>5, Answering

\* IInv is an invariant.
THEOREM Invariance == Spec => []IInv
<1>1. IInv /\ [Next]_vars => IInv'
  <2> SUFFICES ASSUME IInv, [Next]_vars PROVE IInv'
    OBVIOUS
  <2>1. CASE \E r \in Requests : IsNext(r) /\ \E s \in Offered(r) : Take(r, s.by, s.route)
    BY <2>1, TakeStep
  <2>2. ASSUME NEW r \in Requests, Handle(r) PROVE IInv'
    BY <2>2, TurnStep, ReturnStep, AdvanceSteps, RunStep, RoleChangeStep, SaveSteps,
       RevokeSteps, ResetSteps, FailStep DEF Handle
  <2>3. CASE \E r \in Requests : Relay(r) \/ Timeout(r) \/ Unreachable(r) \/ Vanish(r)
    BY <2>3, RelayStep, FaultSteps
  <2>4. CASE \E t \in Names : Age(t)
    BY <2>4, AgeStep
  <2>5. CASE UNCHANGED vars
    BY <2>5, Unchanged
  <2> QED
    BY <2>1, <2>2, <2>3, <2>4, <2>5 DEF Next
<1> QED
  BY <1>1, InitIInv, PTL DEF Spec

\* Every reachable state is well typed; the table rows and cookies name tokens,
\* the users that handlers run for are browsers' users or nobody.
THEOREM TypeCorrect == Spec => []TypeOK
BY Invariance, PTL DEF IInv

\* What a browser is told agrees with what the handler wrote, but for the failed
\* statements and lost rows that AnswersTrue names, with any number of requests,
\* timeouts and refused connections.
THEOREM ToldTheTruth == Spec => []AnswersTrue
BY Invariance, PTL DEF IInv

\* No sequence of requests makes a handler that acts for a user run for nobody
\* or for another user than the caller.
THEOREM RunsForCaller == Spec => []ActsForCaller
BY Invariance, PTL DEF IInv

-----------------------------------------------------------------------------
(* Why a browser is signed out.                                            *)

Done == {q \in Requests : told[q] = "ok"}
Heard(b) == {q \in Done : in[q].by = b}

\* The login that made a device has saved its row; its answer has arrived.
LoggedIn(d) == d \in Requests /\ in[d] # None /\ Is(d, "login") /\ ran[d] # None
Made(d) == d \in Browsers \/ LoggedIn(d)
Given(d) == d \in Browsers \/ (LoggedIn(d) /\ told[d] = "ok")

\* Cookies of one device, with the token of the last answer among H about it:
\* no refresh of the device that was told to the browser had heard of the token.
Cookies(d, t, H) ==
  \/ d = None /\ t = None
  \/ /\ Given(d)
     /\ t = d \/ (t \in H /\ Refreshes(t, d))
     /\ \A w \in H : Refreshes(w, d) /\ w # t => t # d /\ t \notin in[w].heard

Jars == \A b \in Browsers : Cookies(jar[b].device, jar[b].token, Heard(b))
Carries == \A r \in Requests : in[r] # None =>
  /\ in[r].heard \subseteq Done
  /\ Cookies(in[r].device, in[r].token, in[r].heard)

\* Only a refresh with a token gets past its first check; only a reset has a
\* password changed.
Finds == \A r \in Requests : in[r] # None =>
  /\ svc[r] = "writing" => Is(r, "refresh")
  /\ svc[r] \in {"changed", "spent"} => Is(r, "forgotPasswordReset")
  /\ Is(r, "refresh") /\ (svc[r] \in {"found", "writing"} \/ ran[r] # None)
       => in[r].token # None

\* The row of a device: there until it is revoked; made by its login or by a
\* refresh, and no refresh that has run leaves it with a token from before.
Rows == \A d \in Names :
  /\ Made(d) /\ d \notin cut => row[d] # None
  /\ row[d] # None =>
       \/ row[d] = d /\ Made(d)
       \/ row[d] \in Requests /\ Refreshes(row[d], d) /\ ran[row[d]] # None
  /\ \A q \in Requests : Refreshes(q, d) /\ ran[q] # None =>
       row[d] # d /\ row[d] \notin in[q].heard

SInv == Jars /\ Carries /\ Finds /\ Rows

-----------------------------------------------------------------------------
(* Frames.                                                                 *)

\* What every step keeps of requests, answers and runs.
Grows == \A q \in Requests :
  /\ in[q] # None => in'[q] = in[q]
  /\ told[q] = "ok" => told'[q] = "ok"
  /\ ran[q] # None => ran'[q] # None

\* No login and no refresh has run in this step.
NoSave == \A q \in Requests :
  in'[q] # None /\ (Is(q, "login")' \/ Is(q, "refresh")') /\ ran'[q] # None
    => in[q] # None /\ ran[q] # None

\* A login or a refresh answers any error with 401.
LEMMA AuthFailure ==
  ASSUME NEW q, Is(q, "login") \/ Is(q, "refresh")
  PROVE  Failure(q) = "unauthorized"
<1>1. "login" \in AuthController.open /\ "refresh" \in AuthController.open
  BY DEF AuthController
<1>2. AuthClient.calls["login"] = "login" /\ AuthClient.calls["refresh"] = "refresh"
  BY <1>1 DEF AuthClient, Same
<1>3. Client[Area(q)] = AuthClient /\ Area(q) = "auth"
  BY DEF Is, Client
<1>4. Handler(q) \in {"login", "refresh"}
  BY <1>2, <1>3 DEF Handler, Is
<1> QED
  BY <1>3, <1>4 DEF Failure, Caught

\* A browser is told of a login or a refresh only after it ran.
LEMMA ToldRan ==
  ASSUME IInv, NEW q \in Done
  PROVE  /\ in[q] # None
         /\ Is(q, "login") \/ Is(q, "refresh") => ran[q] # None
<1>1. q \in Requests /\ told[q] = "ok" /\ told[q] # None
  BY DEF Done, Statuses
<1>2. gw[q] = "answered"
  BY <1>1 DEF IInv, Settled
<1>3. in[q] # None
  BY <1>1, <1>2 DEF IInv, Taken
<1>4. Area(q) = "auth" => Client[Area(q)].unchecked = {}
  BY DEF Client, AuthClient
<1>5. Is(q, "login") \/ Is(q, "refresh") => ~Hushed(q)
  BY AuthFailure DEF Hushed
<1> QED
  BY <1>1, <1>3, <1>4, <1>5 DEF IInv, AnswersTrue, Is, Hushed

LEMMA GivenKept ==
  ASSUME Grows, NEW d
  PROVE  (Made(d) => Made(d)') /\ (Given(d) => Given(d)')
BY DEF Grows, Made, Given, LoggedIn, Is, Area, Method

\* Cookies once held or carried stay what they were.
LEMMA CookiesKept ==
  ASSUME IInv, Grows, NEW d, NEW t, NEW H \in SUBSET Done, Cookies(d, t, H)
  PROVE  Cookies(d, t, H)'
<1>1. \A w \in H : in[w] # None /\ in'[w] = in[w]
  BY ToldRan DEF Grows, Done
<1>2. \A w \in H : Refreshes(w, d)' <=> Refreshes(w, d)
  BY <1>1 DEF Refreshes, Is, Area, Method
<1>3. CASE d = None /\ t = None
  BY <1>3 DEF Cookies
<1>4. CASE ~(d = None /\ t = None)
  <2>1. /\ Given(d) /\ (t = d \/ (t \in H /\ Refreshes(t, d)))
        /\ \A w \in H : Refreshes(w, d) /\ w # t => t # d /\ t \notin in[w].heard
    BY <1>4 DEF Cookies
  <2>2. Given(d)'
    BY <2>1, GivenKept
  <2>3. t = d \/ (t \in H /\ Refreshes(t, d)')
    BY <2>1, <1>2
  <2>4. \A w \in H : Refreshes(w, d)' /\ w # t => t # d /\ t \notin in'[w].heard
    BY <2>1, <1>1, <1>2
  <2> QED
    BY <2>2, <2>3, <2>4 DEF Cookies
<1> QED
  BY <1>3, <1>4

LEMMA CarriesKept ==
  ASSUME IInv, Carries, Grows, UNCHANGED in
  PROVE  Carries'
<1> SUFFICES ASSUME NEW r \in Requests, in[r] # None
             PROVE  /\ in[r].heard \subseteq Done'
                    /\ Cookies(in[r].device, in[r].token, in[r].heard)'
  BY DEF Carries
<1> DEFINE d == in[r].device
           t == in[r].token
           H == in[r].heard
<1>1. H \subseteq Done /\ Cookies(d, t, H)
  BY DEF Carries
<1>2. Done \subseteq Done'
  BY DEF Done, Grows
<1>3. PICK e, u, G : e = d /\ u = t /\ G = H
  OBVIOUS
<1>4. Cookies(e, u, G)'
  BY <1>1, <1>3, CookiesKept
<1>5. d' = d /\ t' = t /\ H' = H
  OBVIOUS
<1> QED
  BY <1>1, <1>2, <1>3, <1>4, <1>5

LEMMA JarsKept ==
  ASSUME IInv, Jars, Grows, NEW b \in Browsers, jar'[b] = jar[b], Heard(b)' = Heard(b)
  PROVE  Cookies(jar[b].device, jar[b].token, Heard(b))'
<1>1. Heard(b) \subseteq Done
  BY DEF Heard
<1>2. PICK e, u, G : e = jar[b].device /\ u = jar[b].token /\ G = Heard(b)
  OBVIOUS
<1>3. Cookies(e, u, G)'
  BY <1>1, <1>2, CookiesKept DEF Jars
<1> QED
  BY <1>2, <1>3

\* Rows are only emptied, and what is emptied is cut.
LEMMA RowsKept ==
  ASSUME IInv, Rows, Grows, NoSave,
         \A d \in Names : row'[d] = row[d] \/ (row'[d] = None /\ d \in cut'),
         cut \subseteq cut'
  PROVE  Rows'
<1> SUFFICES ASSUME NEW d \in Names
             PROVE  /\ Made(d)' /\ d \notin cut' => row'[d] # None
                    /\ row'[d] # None =>
                         \/ row'[d] = d /\ Made(d)'
                         \/ row'[d] \in Requests /\ Refreshes(row[d], d)' /\ ran'[row'[d]] # None
                    /\ \A q \in Requests : Refreshes(q, d)' /\ ran'[q] # None =>
                         row'[d] # d /\ row'[d] \notin in'[q].heard
  BY DEF Rows
<1>1. Made(d)' <=> Made(d)
  BY GivenKept DEF Made, LoggedIn, NoSave, Grows, Is, Area, Method
<1>2. \A q \in Requests : Refreshes(q, d) /\ ran[q] # None => Refreshes(q, d)' /\ ran'[q] # None
  BY DEF Grows, Refreshes, Is, Area, Method
<1>3. \A q \in Requests : Refreshes(q, d)' /\ ran'[q] # None =>
        Refreshes(q, d) /\ ran[q] # None /\ in'[q] = in[q]
  BY DEF Grows, NoSave, Refreshes, Is, Area, Method
<1>4. None \notin Names /\ \A q \in Requests : Refreshes(q, d) => None \notin in[q].heard
  BY DEF IInv, TypeOK, Refreshes, Request, Names
<1>5. CASE row'[d] = row[d]
  BY <1>1, <1>2, <1>3, <1>5 DEF Rows
<1>6. CASE row'[d] = None /\ d \in cut'
  BY <1>3, <1>4, <1>6
<1> QED
  BY <1>5, <1>6

-----------------------------------------------------------------------------
(* The steps.                                                              *)

LEMMA InitSInv == Init => SInv
<1> SUFFICES ASSUME Init PROVE SInv
  OBVIOUS
<1>1. Jars
  <2> SUFFICES ASSUME NEW b \in Browsers PROVE Cookies(jar[b].device, jar[b].token, Heard(b))
    BY DEF Jars
  <2>1. jar[b].device = b /\ jar[b].token = b
    BY DEF Init
  <2>2. Heard(b) = {}
    BY DEF Init, Heard, Done, Statuses
  <2> QED
    BY <2>1, <2>2 DEF Cookies, Given
<1>2. Carries /\ Finds
  BY DEF Init, Carries, Finds
<1>3. Rows
  BY DEF Init, Rows, Made, LoggedIn, Refreshes, Names
<1> QED
  BY <1>1, <1>2, <1>3 DEF SInv

\* A step that only moves a handler on, or answers to the gateway.
LEMMA QuietStep ==
  ASSUME IInv, SInv, UNCHANGED <<in, ran, jar, row, cut>>, Done' = Done, Finds'
  PROVE  SInv'
<1>1. Grows /\ NoSave
  BY DEF Grows, NoSave, Done, Is, Area, Method
<1>2. Carries'
  BY <1>1, CarriesKept DEF SInv
<1>3. Rows'
  BY <1>1, RowsKept DEF SInv
<1>4. Jars'
  <2> SUFFICES ASSUME NEW b \in Browsers
               PROVE  Cookies(jar[b].device, jar[b].token, Heard(b))'
    BY DEF Jars
  <2>1. Heard(b)' = Heard(b)
    BY DEF Heard
  <2> QED
    BY <1>1, <2>1, JarsKept DEF SInv
<1> QED
  BY <1>2, <1>3, <1>4 DEF SInv

\* A handler other than login and refresh works, and may revoke rows.
LEMMA OtherStep ==
  ASSUME IInv, SInv, NEW r \in Requests, in[r] # None, ~Is(r, "login"), ~Is(r, "refresh"),
         (Ran(r) /\ ran[r] = None) \/ UNCHANGED ran, NEW step \in After, Goto(r, step),
         step \in {"changed", "spent"} => Is(r, "forgotPasswordReset"),
         \A d \in Names : row'[d] = row[d] \/ (row'[d] = None /\ d \in cut'),
         cut \subseteq cut', UNCHANGED <<in, told, jar>>
  PROVE  SInv'
<1>1. /\ svc'[r] = step /\ step \notin {"found", "writing"} /\ (ran[r] = None \/ ran'[r] = ran[r])
      /\ \A q \in Requests \ {r} : ran'[q] = ran[q] /\ svc'[q] = svc[q]
  BY DEF Ran, Goto, After, IInv, TypeOK
<1>2. Grows /\ NoSave
  BY <1>1 DEF Grows, NoSave, Is, Area, Method
<1>3. Carries'
  BY <1>2, CarriesKept DEF SInv
<1>4. Rows'
  BY <1>2, RowsKept DEF SInv
<1>5. Jars'
  <2> SUFFICES ASSUME NEW b \in Browsers
               PROVE  Cookies(jar[b].device, jar[b].token, Heard(b))'
    BY DEF Jars
  <2>1. Heard(b)' = Heard(b)
    BY DEF Heard, Done
  <2> QED
    BY <1>2, <2>1, JarsKept DEF SInv
<1>6. Finds'
  BY <1>1 DEF SInv, Finds, Is, Area, Method
<1> QED
  BY <1>3, <1>4, <1>5, <1>6 DEF SInv

\* A login or a refresh with a token writes its row.
LEMMA SaveStep ==
  ASSUME IInv, SInv, NEW r \in Requests, in[r] # None, ran[r] = None, NEW d, Save(r, d),
         \/ Is(r, "login") /\ d = r
         \/ Is(r, "refresh") /\ d = in[r].device /\ in[r].token # None
  PROVE  SInv'
<1>1. svc'[r] = "done"
      /\ \A q \in Requests \ {r} : ran'[q] = ran[q] /\ svc'[q] = svc[q]
  BY DEF Save, Work, Ran, Goto, IInv, TypeOK
<1>2. ran'[r] # None
  <2>1. Actor(r) # None
    <3>1. Actor(r) = Nobody \/ Actor(r) = Owner(in[r].acc)
      BY DEF Actor
    <3>2. in[r].acc # None => Owner(in[r].acc) \in Browsers
      <4>1. Belongs(in[r].acc, in[r].by) /\ in[r].by \in Browsers
        BY DEF IInv, Held, TypeOK, Request
      <4> QED
        BY <4>1 DEF Belongs, Owner
    <3>3. Actor(r) # Nobody => in[r].acc # None
      BY DEF Actor, Credential
    <3> QED
      BY <3>1, <3>2, <3>3 DEF Names
  <2> QED
    BY <2>1 DEF Save, Work, Ran, IInv, TypeOK
<1>3. Grows /\ UNCHANGED <<in, told, jar, cut>>
  BY <1>1 DEF Save, Grows
<1>4. Carries'
  BY <1>3, CarriesKept DEF SInv
<1>5. Jars'
  <2> SUFFICES ASSUME NEW b \in Browsers
               PROVE  Cookies(jar[b].device, jar[b].token, Heard(b))'
    BY DEF Jars
  <2>1. Heard(b)' = Heard(b)
    BY <1>3 DEF Heard, Done
  <2> QED
    BY <1>3, <2>1, JarsKept DEF SInv
<1>6. Finds'
  BY <1>1, <1>3 DEF SInv, Finds, Is, Area, Method
<1>7. d \in Names /\ row' = [row EXCEPT ![d] = r] /\ row'[d] = r
      /\ \A e \in Names \ {d} : row'[e] = row[e]
  <2>1. d \in Names
    <3>1. CASE d = r
      BY <3>1 DEF Names
    <3>2. CASE Is(r, "refresh") /\ d = in[r].device /\ in[r].token # None
      BY <3>2 DEF SInv, Carries, Cookies, Given, LoggedIn, Names
    <3> QED
      BY <3>1, <3>2
  <2> QED
    BY <2>1 DEF Save, IInv, TypeOK
<1>8. Made(d)' /\ \A e \in Names \ {d} : Made(e)' <=> Made(e)
  <2>1. Made(d)'
    <3>1. CASE Is(r, "login") /\ d = r
      BY <1>2, <1>3, <3>1 DEF Made, LoggedIn, Is, Area, Method
    <3>2. CASE Is(r, "refresh") /\ d = in[r].device /\ in[r].token # None
      <4>1. Made(d)
        BY <3>2 DEF SInv, Carries, Cookies, Given, Made
      <4> QED
        BY <4>1, <1>3, GivenKept
    <3> QED
      BY <3>1, <3>2
  <2>2. ASSUME NEW e \in Names \ {d} PROVE Made(e)' <=> Made(e)
    <3>1. CASE e # r
      BY <1>1, <1>3, <3>1 DEF Made, LoggedIn, Is, Area, Method
    <3>2. CASE e = r
      BY <1>3, <3>2 DEF Made, LoggedIn, Is, Area, Method, Names
    <3> QED
      BY <3>1, <3>2
  <2> QED
    BY <2>1, <2>2
<1>9. Rows'
  <2> SUFFICES ASSUME NEW e \in Names
               PROVE  /\ Made(e)' /\ e \notin cut' => row'[e] # None
                      /\ row'[e] # None =>
                           \/ row'[e] = e /\ Made(e)'
                           \/ row'[e] \in Requests /\ Refreshes(row[e], e)' /\ ran'[row'[e]] # None
                      /\ \A q \in Requests : Refreshes(q, e)' /\ ran'[q] # None =>
                           row'[e] # e /\ row'[e] \notin in'[q].heard
    BY DEF Rows
  <2>1. \A x : Refreshes(x, e)' <=> Refreshes(x, e)
    BY <1>3 DEF Refreshes, Is, Area, Method
  <2>2. CASE e # d
    <3>1. ~Refreshes(r, e)
      BY <2>2 DEF Refreshes, Is
    <3> QED
      BY <1>1, <1>2, <1>3, <1>7, <1>8, <2>1, <2>2, <3>1 DEF SInv, Rows
  <2>3. CASE e = d
    <3>1. r # None
      BY DEF Names
    <3>2. ASSUME NEW q \in Requests, Refreshes(q, d), ran'[q] # None
          PROVE  r # d /\ r \notin in[q].heard
      <4>1. Cookies(in[q].device, in[q].token, in[q].heard) /\ in[q].heard \subseteq Done
            /\ in[q] # None /\ in[q].device = d
        BY <3>2 DEF SInv, Carries, Refreshes
      <4>2. Given(d)
        BY <4>1, <1>7 DEF Cookies
      <4>3. CASE Is(r, "login") /\ d = r
        BY <4>2, <4>3 DEF Given, LoggedIn
      <4>4. CASE Is(r, "refresh")
        <5>1. r # d
          BY <4>2, <4>4 DEF Given, LoggedIn, Is
        <5>2. r \notin Done
          BY <4>4, ToldRan
        <5> QED
          BY <4>1, <5>1, <5>2
      <4> QED
        BY <4>3, <4>4
    <3>3. row'[d] = d \/ Refreshes(r, d)
      BY <1>7 DEF Refreshes
    <3> QED
      BY <1>2, <1>3, <1>7, <1>8, <2>1, <2>3, <3>1, <3>2, <3>3
  <2> QED
    BY <2>2, <2>3
<1> QED
  BY <1>4, <1>5, <1>6, <1>9 DEF SInv

\* A request is taken with the cookies of its browser.
LEMMA TakeSInv ==
  ASSUME IInv, SInv, NEW r \in Requests, IsNext(r), NEW s \in Offered(r), Take(r, s.by, s.route)
  PROVE  SInv'
<1>1. s.by \in Browsers /\ s.route \in Routes
  BY OfferedTyped
<1>2. PICK t \in Carried(s.by, s.route) :
        \/ Reject(r, s.by, s.route, t) \/ Limit(r, s.by, s.route, t)
        \/ Forward(r, s.by, s.route, t)
  BY DEF Take
<1>3. in[r] = None /\ told[r] = None /\ ran[r] = None /\ svc[r] = "idle"
  BY DEF IsNext, IInv, TypeOK, Taken, Settled, Worked
<1>4. /\ Ask(r, s.by, s.route, t)
      /\ UNCHANGED <<ran, jar, row, cut>>
      /\ svc'[r] \in {"idle", "called"} /\ \A q \in Requests \ {r} : svc'[q] = svc[q]
      /\ told'[r] # "ok" /\ \A q \in Requests \ {r} : told'[q] = told[q]
  BY <1>2, <1>3 DEF Reject, Limit, Forward, Answer, tables, IInv, TypeOK, Statuses
<1>5. /\ in'[r].by = s.by
      /\ in'[r].device = jar[s.by].device /\ in'[r].token = jar[s.by].token
      /\ in'[r].heard = Heard(s.by)
      /\ \A q \in Requests \ {r} : in'[q] = in[q]
  BY <1>4 DEF Ask, Heard, Done, IInv, TypeOK
<1>6. Done' = Done /\ Done \subseteq Requests \ {r}
  BY <1>3, <1>4 DEF Done, Statuses
<1>7. Grows /\ NoSave
  BY <1>3, <1>4, <1>5 DEF Grows, NoSave, Is, Area, Method, Statuses
<1>8. Rows'
  BY <1>4, <1>7, RowsKept DEF SInv
<1>9. \A b \in Browsers : Cookies(jar[b].device, jar[b].token, Heard(b))' /\ Heard(b)' = Heard(b)
  <2> TAKE b \in Browsers
  <2>1. Heard(b)' = Heard(b)
    BY <1>5, <1>6 DEF Heard
  <2> QED
    BY <1>4, <1>7, <2>1, JarsKept DEF SInv
<1>10. Carries'
  <2> SUFFICES ASSUME NEW q \in Requests, in'[q] # None
               PROVE  /\ in'[q].heard \subseteq Done
                      /\ Cookies(in[q].device, in[q].token, in[q].heard)'
    BY <1>6 DEF Carries
  <2>1. CASE q = r
    <3>1. Cookies(jar[s.by].device, jar[s.by].token, Heard(s.by))'
      BY <1>1, <1>9
    <3>2. Heard(s.by)' = Heard(s.by) /\ Heard(s.by) \subseteq Done /\ jar' = jar
      BY <1>1, <1>4, <1>9 DEF Heard
    <3>3. /\ in'[q].device = jar'[s.by].device /\ in'[q].token = jar'[s.by].token
          /\ in'[q].heard = Heard(s.by)'
      BY <1>5, <2>1, <3>2
    <3> QED
      BY <3>1, <3>2, <3>3
  <2>2. CASE q # r
    <3>1. PICK e, u, G : e = in[q].device /\ u = in[q].token /\ G = in[q].heard
      OBVIOUS
    <3>2. Cookies(e, u, G) /\ G \subseteq Done /\ in'[q] = in[q]
      BY <1>5, <2>2, <3>1 DEF SInv, Carries
    <3>3. Cookies(e, u, G)'
      BY <1>7, <3>2, CookiesKept
    <3> QED
      BY <3>1, <3>2, <3>3
  <2> QED
    BY <2>1, <2>2
<1>11. Finds'
  BY <1>3, <1>4, <1>5 DEF SInv, Finds, Is, Area, Method
<1> QED
  BY <1>8, <1>9, <1>10, <1>11 DEF SInv, Jars

\* An answer reaches the browser, with its cookies.
LEMMA RelaySInv ==
  ASSUME IInv, SInv, NEW r \in Requests, Relay(r)
  PROVE  SInv'
<1>1. gw[r] = "waiting" /\ svc[r] = "replied" /\ Answer(r, Told(r))
      /\ UNCHANGED <<in, svc, ran, row, cut>>
  BY DEF Relay, At, tables
<1>2. in[r] \in Request /\ in[r] # None /\ in[r].by \in Browsers /\ told[r] = None
  BY <1>1 DEF IInv, Taken, TypeOK, Request, Settled
<1>3. told'[r] = Told(r) /\ \A q \in Requests \ {r} : told'[q] = told[q]
  BY <1>1 DEF Answer, IInv, TypeOK
<1>4. Grows /\ NoSave
  BY <1>1, <1>2, <1>3 DEF Grows, NoSave, Is, Area, Method, Statuses
<1>5. Carries'
  BY <1>1, <1>4, CarriesKept DEF SInv
<1>6. Rows'
  BY <1>1, <1>4, RowsKept DEF SInv
<1>7. Finds'
  BY <1>1 DEF SInv, Finds, Is, Area, Method
<1>8. r \notin Done /\ (told'[r] = "ok" => Done' = Done \cup {r})
      /\ (told'[r] # "ok" => Done' = Done)
  BY <1>2, <1>3 DEF Done, Statuses
<1>9. \A w \in Requests : in[w] # None => r \notin in[w].heard
  BY <1>8 DEF SInv, Carries
<1>10. \A d, w : Refreshes(w, d)' <=> Refreshes(w, d)
  BY <1>1 DEF Refreshes, Is, Area, Method
<1>11. jar' = [jar EXCEPT ![in[r].by] = JarAfter(r, jar[in[r].by])]
  BY DEF Relay
<1>12. ASSUME NEW b \in Browsers PROVE Cookies(jar[b].device, jar[b].token, Heard(b))'
  <2> DEFINE c == in[r].by
  <2>1. jar \in [Browsers -> Jar]
    BY DEF IInv, TypeOK
  <2>2. CASE b # c \/ Told(r) # "ok"
    <3>1. jar'[b] = jar[b]
      BY <1>2, <1>11, <2>1, <2>2 DEF JarAfter
    <3>2. Heard(b)' = Heard(b)
      BY <1>1, <1>3, <1>8, <2>2 DEF Heard
    <3> QED
      BY <1>4, <3>1, <3>2, JarsKept DEF SInv
  <2>3. CASE b = c /\ Told(r) = "ok"
    <3>1. jar'[b] = JarAfter(r, jar[b]) /\ Heard(b)' = Heard(b) \cup {r}
      BY <1>1, <1>2, <1>3, <1>8, <1>11, <2>1, <2>3 DEF Heard
    <3>2. Heard(b)' \subseteq Done'
      BY DEF Heard
    <3>3. CASE Is(r, "login")
      <4>1. jar'[b].device = r /\ jar'[b].token = r
        BY <2>3, <3>1, <3>3 DEF JarAfter, Is
      <4>2. r \in Done'
        BY <1>3, <2>3 DEF Done
      <4>3. ran'[r] # None
        <5>1. reply[r] = "ok"
          BY <2>3, <3>3 DEF Told, Is, Client, AuthClient
        <5> QED
          BY <1>1, <3>3, <5>1, AuthFailure DEF IInv, Worked, Hushed
      <4>4. Given(r)'
        BY <1>1, <1>2, <1>3, <2>3, <3>3, <4>3 DEF Given, LoggedIn, Is, Area, Method
      <4>5. \A w \in Heard(b)' : ~Refreshes(w, r)'
        <5> SUFFICES ASSUME NEW w \in Heard(b)', Refreshes(w, r) PROVE FALSE
          BY <1>10
        <5>1. w \in Requests /\ in[w] # None /\ in[w].device = r
          BY DEF Refreshes, Heard, Done
        <5>2. Cookies(r, in[w].token, in[w].heard)
          BY <5>1 DEF SInv, Carries
        <5>3. Given(r)
          BY <5>2 DEF Cookies, Names
        <5> QED
          BY <1>2, <5>3, <1>8 DEF Given, Done
      <4> QED
        BY <4>1, <4>4, <4>5 DEF Cookies
    <3>4. CASE Is(r, "refresh")
      <4>0. PICK d : d = in[r].device
        OBVIOUS
      <4>1. jar'[b].device = d /\ jar'[b].token = r
        BY <4>0, <2>3, <3>1, <3>4 DEF JarAfter, Is
      <4>2. ran[r] # None
        <5>1. reply[r] = "ok"
          BY <2>3, <3>4 DEF Told, Is, Client, AuthClient
        <5> QED
          BY <1>1, <3>4, <5>1, AuthFailure DEF IInv, Worked, Hushed
      <4>3. in[r].token # None
        BY <1>2, <3>4, <4>2 DEF SInv, Finds
      <4>4. Given(d)
        BY <4>0, <1>2, <4>3 DEF SInv, Carries, Cookies
      <4>5. Given(d)'
        BY <1>4, <4>4, GivenKept
      <4>6. Refreshes(r, d)' /\ r \in Heard(b)'
        BY <4>0, <1>2, <1>10, <3>1, <3>4 DEF Refreshes
      <4>7. r # d
        BY <3>4, <4>4 DEF Given, LoggedIn, Is
      <4>8. \A w \in Heard(b)' : Refreshes(w, d)' => r \notin in'[w].heard
        BY <1>1, <1>9, <1>10 DEF Refreshes, Heard, Done
      <4> QED
        BY <4>1, <4>5, <4>6, <4>7, <4>8 DEF Cookies
    <3>5. CASE Is(r, "logoutDevice") \/ Is(r, "logoutAll")
      <4>1. jar'[b].device = None /\ jar'[b].token = None
        BY <2>1, <2>3, <3>1, <3>5 DEF JarAfter, Is, Jar
      <4> QED
        BY <4>1 DEF Cookies
    <3>6. CASE ~(Is(r, "login") \/ Is(r, "refresh") \/ Is(r, "logoutDevice") \/ Is(r, "logoutAll"))
      <4>1. jar'[b] = jar[b]
        BY <2>3, <3>1, <3>6 DEF JarAfter
      <4>2. PICK e, u, G : e = jar[b].device /\ u = jar[b].token /\ G = Heard(b)
        OBVIOUS
      <4>3. Cookies(e, u, G)'
        BY <1>4, <4>2, CookiesKept DEF SInv, Jars, Heard
      <4>4. ~Refreshes(r, e)'
        BY <1>10, <3>6 DEF Refreshes
      <4>5. Cookies(e, u, G \cup {r})'
        BY <4>3, <4>4 DEF Cookies
      <4> QED
        BY <3>1, <4>1, <4>2, <4>5
    <3> QED
      BY <3>3, <3>4, <3>5, <3>6
  <2> QED
    BY <2>2, <2>3
<1> QED
  BY <1>5, <1>6, <1>7, <1>12 DEF SInv, Jars

-----------------------------------------------------------------------------
(* The actions.                                                            *)

\* A handler that goes on, or answers.
Answers(r) ==
  Turn(r) \/ Object(r) \/ Return(r) \/ UpdateLost(r) \/ ResetLost(r) \/ RefreshRefused(r) \/ Fail(r)
GoesOn(r) ==
  Admit(r) \/ LoginFind(r) \/ RefreshFind(r) \/ RefreshLookup(r) \/ ResetFind(r) \/ ResetSpend(r)

LEMMA AnswersKeep ==
  ASSUME IInv, NEW r \in Requests, Answers(r)
  PROVE  /\ svc[r] \notin {"idle", "replied"} /\ svc'[r] = "replied"
         /\ UNCHANGED <<in, gw, told, ran, jar, age, tables>>
         /\ \A q \in Requests \ {r} : svc'[q] = svc[q] /\ reply'[q] = reply[q]
<1>1. svc[r] \notin {"idle", "replied"}
  BY DEF Answers, Turn, Object, Return, UpdateLost, ResetLost, RefreshRefused, Fail, At
<1>2. PICK status : Reply(r, status) /\ UNCHANGED <<in, gw, told, ran, jar, age, tables>>
  BY DEF Answers, Turn, Object, Return, UpdateLost, ResetLost, RefreshRefused, Fail, Send
<1> QED
  BY <1>1, <1>2 DEF Reply, Goto, IInv, TypeOK

LEMMA OnSInv ==
  ASSUME IInv, SInv, NEW r \in Requests, Answers(r) \/ GoesOn(r)
  PROVE  SInv'
<1>1. svc[r] \notin {"idle", "replied"}
  BY AnswersKeep DEF GoesOn, Admit, LoginFind, RefreshFind, RefreshLookup, ResetFind, ResetSpend, At
<1>2. in[r] # None
  BY <1>1, Busy
<1>3. /\ UNCHANGED <<in, told, ran, jar, row, cut>>
      /\ \A q \in Requests \ {r} : svc'[q] = svc[q]
      /\ svc'[r] = "writing" => Is(r, "refresh") /\ svc[r] = "found"
      /\ svc'[r] \in {"changed", "spent"} => svc[r] = "changed"
      /\ Is(r, "refresh") /\ svc'[r] = "found" => in[r].token # None
  <2>1. CASE Answers(r)
    BY <2>1, AnswersKeep DEF tables
  <2>2. CASE Admit(r)
    BY <2>2 DEF Admit, Goto, tables, IInv, TypeOK
  <2>3. CASE LoginFind(r) \/ ResetFind(r)
    BY <2>3 DEF LoginFind, ResetFind, Goto, Is, tables, IInv, TypeOK
  <2>4. CASE RefreshFind(r)
    BY <2>4 DEF RefreshFind, Refreshable, Goto, tables, IInv, TypeOK
  <2>5. CASE RefreshLookup(r)
    BY <2>5 DEF RefreshLookup, At, Goto, tables, IInv, TypeOK
  <2>6. CASE ResetSpend(r)
    BY <2>6 DEF ResetSpend, At, Goto, IInv, TypeOK
  <2> QED
    BY <2>1, <2>2, <2>3, <2>4, <2>5, <2>6 DEF GoesOn
<1>4. Finds'
  BY <1>2, <1>3 DEF SInv, Finds, Is, Area, Method
<1> QED
  BY <1>3, <1>4, QuietStep DEF Done

\* The gateway gives up, or the answer is lost.
LEMMA FaultSInv ==
  ASSUME IInv, SInv, NEW r \in Requests, Timeout(r) \/ Unreachable(r) \/ Vanish(r)
  PROVE  SInv'
<1>1. /\ gw[r] = "waiting" /\ UNCHANGED <<in, ran, jar, row, cut>>
      /\ Answer(r, "error") \/ Answer(r, "lost")
      /\ svc' = svc \/ Goto(r, "idle")
  BY DEF Timeout, Unreachable, Vanish, tables
<1>2. told[r] = None
  BY <1>1 DEF IInv, TypeOK, Settled
<1>3. Done' = Done
  BY <1>1, <1>2 DEF Answer, Done, Statuses, IInv, TypeOK
<1>4. \A q \in Requests : svc'[q] = svc[q] \/ svc'[q] = "idle"
  BY <1>1 DEF Goto, IInv, TypeOK
<1>5. Finds'
  BY <1>1, <1>4 DEF SInv, Finds, Is, Area, Method
<1> QED
  BY <1>1, <1>3, <1>5, QuietStep

\* A handler of another route works, or one that changes roles or ends sessions.
Works(r) ==
  Run(r) \/ (\E u \in Browsers : RoleChange(r, u)) \/ LogoutDevice(r) \/ LogoutAll(r) \/ ResetChange(r)

LEMMA OtherSInv ==
  ASSUME IInv, SInv, NEW r \in Requests, Works(r) \/ ResetRevoke(r)
  PROVE  SInv'
<1>1. svc[r] \in {"admitted", "found", "spent"} /\ (Works(r) => svc[r] \in Before)
  BY DEF Works, Run, RoleChange, LogoutDevice, LogoutAll, ResetChange, ResetRevoke, At, Before
<1>2. in[r] # None /\ (Works(r) => ran[r] = None)
  BY <1>1, Busy
<1>3. ~Is(r, "login") /\ ~Is(r, "refresh")
  <2>1. CASE Works(r)
    BY <2>1 DEF Works, Run, Plain, Special, RoleChange, LogoutDevice, LogoutAll, ResetChange, Is
  <2>2. CASE ResetRevoke(r)
    BY <1>2, <2>2 DEF ResetRevoke, At, SInv, Finds, Is
  <2> QED
    BY <2>1, <2>2
<1>4. /\ (Ran(r) /\ ran[r] = None) \/ UNCHANGED ran
      /\ \E step \in After :
           Goto(r, step) /\ (step \in {"changed", "spent"} => Is(r, "forgotPasswordReset"))
      /\ UNCHANGED <<in, told, jar>>
  BY <1>2 DEF Works, Run, RoleChange, LogoutDevice, LogoutAll, ResetChange, ResetRevoke, Work, After
<1>5. /\ \A d \in Names : row'[d] = row[d] \/ (row'[d] = None /\ d \in cut')
      /\ cut \subseteq cut'
  <2>1. CASE Run(r) \/ ResetChange(r) \/ \E u \in Browsers : RoleChange(r, u)
    BY <2>1 DEF Run, ResetChange, RoleChange, tables
  <2>2. CASE LogoutDevice(r) \/ LogoutAll(r) \/ ResetRevoke(r)
    <3>1. PICK D \in SUBSET Names : Revoke(D)
      BY <2>2 DEF LogoutDevice, LogoutAll, ResetRevoke
    <3> QED
      BY <3>1 DEF Revoke
  <2> QED
    BY <2>1, <2>2 DEF Works
<1> QED
  BY <1>2, <1>3, <1>4, <1>5, OtherStep

LEMMA SaveSInv ==
  ASSUME IInv, SInv, NEW r \in Requests, LoginSave(r) \/ RefreshSave(r)
  PROVE  SInv'
<1>1. svc[r] \in {"found", "writing"}
  BY DEF LoginSave, RefreshSave, At
<1>2. in[r] # None /\ ran[r] = None
  BY <1>1, Busy DEF Before
<1>3. CASE LoginSave(r)
  BY <1>2, <1>3, SaveStep DEF LoginSave
<1>4. CASE RefreshSave(r)
  <2>1. Is(r, "refresh") /\ in[r].token # None
    BY <1>2, <1>4 DEF RefreshSave, At, SInv, Finds
  <2> QED
    BY <1>2, <1>4, <2>1, SaveStep DEF RefreshSave
<1> QED
  BY <1>3, <1>4

\* SInv is an invariant.
LEMMA CookiesFit == Spec => [](IInv /\ SInv)
<1>1. IInv /\ SInv /\ [Next]_vars => SInv'
  <2> SUFFICES ASSUME IInv, SInv, [Next]_vars PROVE SInv'
    OBVIOUS
  <2>1. CASE \E r \in Requests : IsNext(r) /\ \E s \in Offered(r) : Take(r, s.by, s.route)
    BY <2>1, TakeSInv
  <2>2. ASSUME NEW r \in Requests, Handle(r) PROVE SInv'
    BY <2>2, OnSInv, OtherSInv, SaveSInv DEF Handle, Answers, GoesOn, Works
  <2>3. CASE \E r \in Requests : Relay(r) \/ Timeout(r) \/ Unreachable(r) \/ Vanish(r)
    BY <2>3, RelaySInv, FaultSInv
  <2>4. CASE (\E t \in Names : Age(t)) \/ UNCHANGED vars
    <3>1. UNCHANGED <<in, svc, told, ran, jar, row, cut>>
      BY <2>4 DEF Age, vars, tables
    <3>2. Finds' /\ Done' = Done
      BY <3>1 DEF SInv, Finds, Done, Is, Area, Method
    <3> QED
      BY <3>1, <3>2, QuietStep
  <2> QED
    BY <2>1, <2>2, <2>3, <2>4 DEF Next
<1>2. Init => IInv /\ SInv
  BY InitIInv, InitSInv
<1> QED
  BY <1>1, <1>2, Invariance, PTL DEF Spec

-----------------------------------------------------------------------------
(* A refused refresh.                                                      *)

\* A browser's cookies do not name the live row of their device, though neither
\* was revoked: another refresh of the device replaced it, unheard of.
LEMMA RotatedAway ==
  ASSUME IInv, SInv, NEW r \in Requests, Refreshes(r, in[r].device), ran[r] = None,
         in[r].token # None, in[r].device \notin cut, row[in[r].device] # in[r].token
  PROVE  Rotated(r)
<1>1. PICK d, t, H : d = in[r].device /\ t = in[r].token /\ H = in[r].heard
  OBVIOUS
<1>2. Cookies(d, t, H) /\ H \subseteq Done
  BY <1>1 DEF SInv, Carries, Refreshes
<1>3. /\ Given(d) /\ d \in Names
      /\ t = d \/ (t \in H /\ Refreshes(t, d))
      /\ \A w \in H : Refreshes(w, d) /\ w # t => t # d /\ t \notin in[w].heard
  BY <1>1, <1>2 DEF Cookies, Given, LoggedIn, Names
<1>4. row[d] # None
  BY <1>1, <1>3 DEF SInv, Rows, Given, Made
<1>5. \A q \in H : Refreshes(q, d) => ran[q] # None
  BY <1>2, ToldRan DEF Refreshes
<1>6. \A p, q \in Requests :
        p < q /\ Refreshes(p, d) /\ Refreshes(q, d) /\ p \notin in[q].heard
        /\ (ran[p] # None \/ (p = r /\ ran[q] # None)) => Rotated(r)
  BY <1>1 DEF Rotated
<1>7. PICK w \in Requests : w = row[d] /\ Refreshes(w, d) /\ ran[w] # None
  <2>1. CASE row[d] = d
    <3>1. t \in H /\ Refreshes(t, d) /\ t \in Requests
      BY <1>1, <1>2, <1>3, <2>1 DEF Done
    <3> QED
      BY <1>3, <1>5, <2>1, <3>1 DEF SInv, Rows
  <2> QED
    BY <1>3, <1>4, <2>1 DEF SInv, Rows
<1>8. w # r /\ w # t
  BY <1>1, <1>7
<1>9. w \in Nat /\ r \in Nat
  BY DEF Requests
<1>10. CASE r < w
  <2>1. r \notin in[w].heard
    <3>1. r \notin Done
      BY ToldRan DEF Refreshes
    <3> QED
      BY <1>7, <3>1 DEF SInv, Carries, Refreshes
  <2> QED
    BY <1>1, <1>6, <1>7, <1>10, <2>1
<1>11. CASE w < r /\ w \notin H
  BY <1>1, <1>6, <1>7, <1>11
<1>12. CASE w < r /\ w \in H
  <2>1. t # d /\ t \notin in[w].heard
    BY <1>3, <1>7, <1>8, <1>12
  <2>2. t \in Requests /\ t \in H /\ Refreshes(t, d) /\ ran[t] # None
    BY <1>2, <1>3, <1>5, <2>1 DEF Done
  <2>3. w \notin in[t].heard
    BY <1>3, <1>7, <2>2 DEF SInv, Rows
  <2>4. t < w \/ w < t
    BY <1>8, <2>2 DEF Requests
  <2> QED
    BY <1>6, <1>7, <2>1, <2>2, <2>3, <2>4
<1> QED
  BY <1>8, <1>9, <1>10, <1>11, <1>12

\* The answer of a refresh that the service refuses comes from one of its checks
\* or from a failed statement, never from the guard.
LEMMA RefusedHasCause ==
  ASSUME IInv, SInv, [Next]_vars, NEW r \in Requests,
         reply[r] = None, reply'[r] = "unauthorized", Is(r, "refresh")
  PROVE  HasCause(r)
<1>1. RefreshRefused(r) \/ Fail(r)
  <2>1. reply' # reply /\ reply \in [Requests -> Statuses \cup {None}] /\ "unauthorized" # None
    BY DEF IInv, TypeOK, Statuses
  <2>2. \A q \in Requests : \A status : Reply(q, status) => q = r /\ status = "unauthorized"
    BY <2>1 DEF Reply
  <2>3. PICK q \in Requests : Handle(q)
    BY <2>1 DEF Next, Take, Reject, Limit, Forward, Relay, Timeout, Unreachable, Vanish, Age, vars
  <2>4. ~GoesOn(q) /\ ~Works(q) /\ ~LoginSave(q) /\ ~RefreshSave(q) /\ ~ResetRevoke(q)
    BY <2>1 DEF GoesOn, Admit, LoginFind, RefreshFind, RefreshLookup, ResetFind, ResetSpend,
       Works, Run, RoleChange, LogoutDevice, LogoutAll, ResetChange, LoginSave, RefreshSave,
       Save, ResetRevoke
  <2>6. ~Return(q) /\ ~UpdateLost(q) /\ ~ResetLost(q) /\ ~Object(q)
    BY <2>2 DEF Return, UpdateLost, ResetLost, Object, Send
  <2>7. Turn(q) => q = r
    BY <2>2 DEF Turn, Send
  <2>8. ~Turn(r)
    <3>1. Handler(r) = "refresh"
      <4>1. "refresh" \in AuthController.open
        BY DEF AuthController
      <4>2. AuthClient.calls["refresh"] = "refresh"
        BY <4>1 DEF AuthClient, Same
      <4>3. Method(r) = "refresh" /\ Client[Area(r)] = AuthClient
        BY DEF Is, Client
      <4> QED
        BY <4>2, <4>3 DEF Handler
    <3>2. Handler(r) \in Table(r).all /\ Handler(r) \in Table(r).open
      BY <3>1 DEF Table, Is, Handlers, AuthHandlers
    <3> QED
      BY <2>2, <3>2 DEF Turn, Send, Authorized, Open
  <2>9. RefreshRefused(q) \/ Fail(q)
    BY <2>3, <2>4, <2>6, <2>7, <2>8 DEF Handle, GoesOn, Works
  <2>10. q = r
    BY <2>2, <2>9 DEF RefreshRefused, Send, Fail
  <2> QED
    BY <2>9, <2>10
<1>2. CASE Fail(r)
  BY <1>2 DEF Fail, Fault, HasCause
<1>3. CASE RefreshRefused(r)
  <2>1. svc[r] \in {"admitted", "found"}
    BY <1>3 DEF RefreshRefused, At
  <2>2. in[r] # None /\ ran[r] = None
    BY <2>1, Busy DEF Before
  <2>3. Refreshes(r, in[r].device)
    BY <2>2 DEF Refreshes
  <2>4. \/ in[r].token = None \/ age[in[r].token] = "lapsed" \/ in[r].token \in stale
        \/ row[in[r].device] # in[r].token
    BY <1>3 DEF RefreshRefused, Refreshable
  <2> QED
    BY <2>2, <2>3, <2>4, RotatedAway DEF HasCause
<1> QED
  BY <1>1, <1>2, <1>3

\* A browser that refreshes with the cookies it was last given is refused only
\* for one of the causes that HasCause names, in whatever order its requests and
\* those of the other browsers run and whatever is lost on the way.
THEOREM SignedOut == Spec => SignedOutHasCause
<1>1. IInv /\ SInv /\ [Next]_vars =>
        [\A r \in Requests :
           reply[r] = None /\ reply'[r] = "unauthorized" /\ Is(r, "refresh") => HasCause(r)]_vars
  BY RefusedHasCause
<1> QED
  BY <1>1, CookiesFit, PTL DEF Spec, SignedOutHasCause

-----------------------------------------------------------------------------
(* The sessions are SignIns.                                               *)

\* The refresh tokens in the jars and on the way belong to the browser, too.
Owned ==
  /\ \A r \in Requests : in[r] # None => Belongs(in[r].token, in[r].by)
  /\ \A b \in Browsers : Belongs(jar[b].token, b)

\* Requests stay what they are.
Stays == \A q \in Requests : in[q] # None => in'[q] = in[q]

LEMMA BelongsKept ==
  ASSUME Stays, NEW t, NEW b, Belongs(t, b)
  PROVE  Belongs(t, b)'
BY DEF Stays, Belongs

LEMMA OwnedKept ==
  ASSUME Owned, UNCHANGED <<in, jar>>
  PROVE  Owned'
BY DEF Owned, Belongs

LEMMA TakeOwned ==
  ASSUME IInv, Owned, NEW r \in Requests, IsNext(r), NEW s \in Offered(r), Take(r, s.by, s.route)
  PROVE  /\ Owned' /\ Stays /\ UNCHANGED <<ran, row>>
         /\ in[r] = None /\ ran[r] = None /\ svc'[r] \notin {"found", "writing"}
         /\ \A q \in Requests \ {r} : in'[q] = in[q] /\ svc'[q] = svc[q]
<1>1. s.by \in Browsers /\ s.route \in Routes
  BY OfferedTyped
<1>2. PICK t \in Carried(s.by, s.route) :
        \/ Reject(r, s.by, s.route, t) \/ Limit(r, s.by, s.route, t)
        \/ Forward(r, s.by, s.route, t)
  BY DEF Take
<1>3. in[r] = None /\ ran[r] = None /\ svc[r] = "idle"
  BY DEF IsNext, IInv, Taken, Worked
<1>4. /\ Ask(r, s.by, s.route, t) /\ UNCHANGED <<ran, jar, row>>
      /\ svc'[r] \in {"idle", "called"} /\ \A q \in Requests \ {r} : svc'[q] = svc[q]
  BY <1>2, <1>3 DEF Reject, Limit, Forward, Answer, tables, IInv, TypeOK
<1>5. /\ in'[r].by = s.by /\ in'[r].token = jar[s.by].token
      /\ \A q \in Requests \ {r} : in'[q] = in[q]
  BY <1>4 DEF Ask, IInv, TypeOK
<1>6. Stays
  BY <1>3, <1>5 DEF Stays
<1>7. Owned'
  <2>1. ASSUME NEW b \in Browsers PROVE Belongs(jar[b].token, b)'
    <3>1. PICK u : u = jar[b].token
      OBVIOUS
    <3>2. Belongs(u, b)'
      BY <1>6, <3>1, BelongsKept DEF Owned
    <3> QED
      BY <1>4, <3>1, <3>2
  <2>2. ASSUME NEW q \in Requests, in'[q] # None PROVE Belongs(in[q].token, in[q].by)'
    <3>1. CASE q = r
      <4>1. PICK u : u = jar[s.by].token
        OBVIOUS
      <4>2. Belongs(u, s.by)'
        BY <1>1, <1>6, <4>1, BelongsKept DEF Owned
      <4>3. in'[q].token = u /\ in'[q].by = s.by
        BY <1>5, <3>1, <4>1
      <4> QED
        BY <4>2, <4>3
    <3>2. CASE q # r
      <4>1. PICK u, b : u = in[q].token /\ b = in[q].by
        OBVIOUS
      <4>2. Belongs(u, b)'
        BY <1>5, <1>6, <2>2, <3>2, <4>1, BelongsKept DEF Owned
      <4> QED
        BY <1>5, <3>2, <4>1, <4>2
    <3> QED
      BY <3>1, <3>2
  <2> QED
    BY <2>1, <2>2 DEF Owned
<1> QED
  BY <1>3, <1>4, <1>5, <1>6, <1>7

LEMMA RelayOwned ==
  ASSUME IInv, Owned, NEW r \in Requests, Relay(r)
  PROVE  Owned' /\ UNCHANGED <<in, svc, ran, row>>
<1>1. gw[r] = "waiting" /\ UNCHANGED <<in, svc, ran, row>>
      /\ jar' = [jar EXCEPT ![in[r].by] = JarAfter(r, jar[in[r].by])]
  BY DEF Relay, tables
<1>2. in[r] # None /\ in[r].by \in Browsers /\ jar \in [Browsers -> Jar]
  BY <1>1 DEF IInv, Taken, TypeOK, Request
<1>3. ASSUME NEW b \in Browsers PROVE Belongs(jar'[b].token, b)
  <2>1. CASE b # in[r].by
    BY <1>1, <1>2, <2>1 DEF Owned
  <2>2. CASE b = in[r].by
    <3>1. jar'[b] = JarAfter(r, jar[b])
      BY <1>1, <1>2, <2>2
    <3>2. jar'[b].token \in {r, None, jar[b].token}
      BY <1>2, <3>1 DEF JarAfter, Jar, Is
    <3> QED
      BY <1>2, <2>2, <3>2 DEF Owned, Belongs
  <2> QED
    BY <2>1, <2>2
<1> QED
  BY <1>1, <1>3 DEF Owned, Belongs

LEMMA HandleKeeps ==
  ASSUME IInv, NEW r \in Requests, Handle(r) \/ Timeout(r) \/ Unreachable(r) \/ Vanish(r)
  PROVE  UNCHANGED <<in, jar>>
<1>1. CASE Answers(r)
  BY <1>1, AnswersKeep
<1> QED
  BY <1>1 DEF Handle, Answers, Admit, Run, LoginFind, LoginSave, Save, RefreshFind, RefreshLookup,
     RefreshSave, LogoutDevice, LogoutAll, ResetFind, ResetChange, ResetSpend, ResetRevoke,
     RoleChange, Timeout, Unreachable, Vanish

LEMMA OwnedAlways == Spec => [](IInv /\ SInv /\ Owned)
<1>1. Init => Owned
  BY DEF Init, Owned, Belongs
<1>2. IInv /\ Owned /\ [Next]_vars => Owned'
  <2> SUFFICES ASSUME IInv, Owned, [Next]_vars PROVE Owned'
    OBVIOUS
  <2>1. CASE \E r \in Requests : IsNext(r) /\ \E s \in Offered(r) : Take(r, s.by, s.route)
    BY <2>1, TakeOwned
  <2>2. ASSUME NEW r \in Requests, Handle(r) \/ Timeout(r) \/ Unreachable(r) \/ Vanish(r)
        PROVE  Owned'
    BY <2>2, HandleKeeps, OwnedKept
  <2>3. ASSUME NEW r \in Requests, Relay(r) PROVE Owned'
    BY <2>3, RelayOwned
  <2>4. CASE (\E t \in Names : Age(t)) \/ UNCHANGED vars
    BY <2>4, OwnedKept DEF Age, vars
  <2> QED
    BY <2>1, <2>2, <2>3, <2>4 DEF Next
<1> QED
  BY <1>1, <1>2, CookiesFit, PTL DEF Spec

-----------------------------------------------------------------------------
\* A refresh that has found its row, and one that is about to.
Refreshing(q) == svc[q] \in {"found", "writing"} /\ Is(q, "refresh")
Finding(q) == in[q] # None /\ in[q].token # None /\ row[in[q].device] = in[q].token

\* No login has run in this step.
NoLogin == \A q \in Requests :
  in'[q] # None /\ Is(q, "login")' /\ ran'[q] # None => in[q] # None /\ ran[q] # None
RanStays == \A q \in Requests : ran[q] # None => ran'[q] # None

\* What can act after such a step could act before.
LEMMA NoNewSession ==
  ASSUME IInv, SInv, Owned, Stays, NoLogin, RanStays,
         \A d \in Names : row'[d] # None =>
           \/ row'[d] = row[d]
           \/ \E q \in Requests : Refreshing(q) /\ d = in[q].device /\ row'[d] = q,
         \A q \in Requests : Refreshing(q)' => Refreshing(q) \/ Finding(q)
  PROVE  Abs!End
<1>1. GivenOut' = GivenOut
  BY DEF GivenOut, Stays, NoLogin, RanStays, Is, Area, Method
<1>2. ASSUME NEW t, t \in Browsers \/ (t \in Requests /\ in[t] # None)
      PROVE  Owner(t)' = Owner(t)
  BY <1>2 DEF Owner, Stays
<1>3. \A q \in Requests : Refreshing(q) => in[q] # None
  BY Busy DEF Refreshing
<1>4. ASSUME NEW d \in Names, row'[d] # None
      PROVE  <<d, Owner(row[d])', 0>> \in InUse
  <2>1. CASE row'[d] = row[d]
    <3>1. row[d] \in Browsers \/ (row[d] \in Requests /\ in[row[d]] # None)
      BY <1>4, <2>1 DEF SInv, Rows, Made, LoggedIn, Refreshes
    <3>2. PICK t : t = row[d]
      OBVIOUS
    <3>3. Owner(t)' = Owner(t)
      BY <1>2, <3>1, <3>2
    <3> QED
      BY <1>4, <2>1, <3>2, <3>3 DEF InUse
  <2>2. ASSUME NEW q \in Requests, Refreshing(q), d = in[q].device, row'[d] = q
        PROVE  <<d, Owner(row[d])', 0>> \in InUse
    <3>1. q \notin Browsers /\ in'[q] = in[q]
      BY <1>3, <2>2 DEF Stays
    <3>2. Owner(row[d])' = in[q].by
      BY <2>2, <3>1 DEF Owner
    <3> QED
      BY <2>2, <3>2 DEF InUse, Refreshing
  <2> QED
    BY <1>4, <2>1, <2>2
<1>5. ASSUME NEW q \in Requests, Refreshing(q)'
      PROVE  <<in'[q].device, in'[q].by, 0>> \in InUse
  <2>1. in[q] # None /\ in'[q] = in[q]
    BY <1>3, <1>5 DEF Finding, Stays
  <2>2. CASE Refreshing(q)
    BY <2>1, <2>2 DEF InUse, Refreshing
  <2>3. CASE Finding(q)
    <3>1. in[q].device \in Names
      BY <2>1, <2>3 DEF SInv, Carries, Cookies, Given, LoggedIn, Finding, Names
    <3>2. Owner(row[in[q].device]) = in[q].by
      <4>1. in[q].by \in Browsers
        BY <2>1 DEF IInv, TypeOK, Request
      <4> QED
        BY <2>1, <2>3, <4>1 DEF Owned, Belongs, Owner, Finding
    <3> QED
      BY <2>1, <2>3, <3>1, <3>2 DEF InUse, Finding
  <2> QED
    BY <1>5, <2>2, <2>3
<1>6. InUse' \subseteq InUse
  BY <1>4, <1>5 DEF InUse, Refreshing
<1> QED
  BY <1>1, <1>6 DEF Abs!End

\* A login gives out its device and writes its row.
LEMMA LoginSignsIn ==
  ASSUME IInv, SInv, NEW r \in Requests, LoginSave(r)
  PROVE  Abs!SignIn(r, in[r].by)
<1>1. svc[r] = "found" /\ Is(r, "login") /\ Save(r, r)
  BY DEF LoginSave, At
<1>2. in[r] # None /\ in[r].by \in Browsers /\ ran[r] = None
  BY <1>1, Busy DEF Before
<1>3. /\ UNCHANGED in /\ row' = [row EXCEPT ![r] = r]
      /\ \A q \in Requests \ {r} : ran'[q] = ran[q] /\ svc'[q] = svc[q]
      /\ svc'[r] = "done" /\ ran' = [ran EXCEPT ![r] = Actor(r)]
  BY <1>1 DEF Save, Work, Ran, Goto, IInv, TypeOK
<1>4. ran'[r] # None
  <2>1. Actor(r) \in Browsers \cup {Nobody}
    BY <1>1, RunsFor
  <2>2. Actor(r) # None
    BY <2>1 DEF Names
  <2> QED
    BY <1>3, <2>2 DEF IInv, TypeOK
<1>5. r \in Names /\ r \notin Browsers
  BY DEF Names
<1>6. r \notin GivenOut
  BY <1>2, <1>5 DEF GivenOut
<1>7. GivenOut' = GivenOut \cup {r}
  BY <1>1, <1>2, <1>3, <1>4 DEF GivenOut, Is, Area, Method
<1>8. row[r] = None
  <2>1. ASSUME NEW q \in Requests, Refreshes(q, r) PROVE FALSE
    <3>1. Cookies(r, in[q].token, in[q].heard)
      BY <2>1 DEF SInv, Carries, Refreshes
    <3> QED
      BY <1>2, <1>5, <3>1 DEF Cookies, Given, LoggedIn, Names
  <2> QED
    BY <1>2, <1>5, <2>1 DEF SInv, Rows, Made, LoggedIn
<1>9. row'[r] = r /\ \A d \in Names \ {r} : row'[d] = row[d]
  BY <1>3, <1>5 DEF IInv, TypeOK
<1>10. {d \in Names : row'[d] # None} = {d \in Names : row[d] # None} \cup {r}
  BY <1>5, <1>8, <1>9
<1>11. \A t : Owner(t)' = Owner(t)
  BY <1>3 DEF Owner
<1>12. {<<d, Owner(row[d])', 0>> : d \in {e \in Names : row'[e] # None}}
         = {<<d, Owner(row[d]), 0>> : d \in {e \in Names : row[e] # None}}
             \cup {<<r, in[r].by, 0>>}
  <2>1. Owner(row[r])' = in[r].by
    BY <1>3, <1>5, <1>9 DEF Owner
  <2>2. \A d \in Names \ {r} : Owner(row[d])' = Owner(row[d])
    BY <1>3, <1>9 DEF Owner
  <2> QED
    BY <1>5, <1>8, <1>10, <2>1, <2>2
<1>13. \A q \in Requests : Refreshing(q)' <=> Refreshing(q)
  <2>1. ~Refreshing(r) /\ ~Refreshing(r)'
    BY <1>1, <1>3 DEF Refreshing, Is, Area, Method
  <2> QED
    BY <1>3, <2>1 DEF Refreshing, Is, Area, Method
<1>14. InUse' = InUse \cup {<<r, in[r].by, 0>>}
  BY <1>3, <1>12, <1>13 DEF InUse, Refreshing
<1> QED
  BY <1>2, <1>6, <1>7, <1>14 DEF Abs!SignIn

\* The other steps of a handler write the row of a refresh, or none.
LEMMA HandleEnds ==
  ASSUME IInv, SInv, Owned, NEW r \in Requests, Handle(r), ~LoginSave(r)
  PROVE  Abs!End
<1>1. UNCHANGED in /\ Stays
  BY HandleKeeps DEF Stays
<1>2. svc[r] \notin {"idle", "replied"}
  BY AnswersKeep DEF Handle, Answers, Admit, Run, LoginFind, LoginSave, RefreshFind, RefreshLookup,
     RefreshSave, LogoutDevice, LogoutAll, ResetFind, ResetChange, ResetSpend, ResetRevoke,
     RoleChange, At
<1>3. in[r] # None
  BY <1>2, Busy
<1>4. ASSUME NEW q \in Requests \ {r} PROVE svc'[q] = svc[q] /\ ran'[q] = ran[q]
  <2>1. CASE Answers(r)
    BY <1>4, <2>1, AnswersKeep
  <2> QED
    BY <1>4, <2>1 DEF Handle, Answers, Admit, Run, LoginFind, LoginSave, Save, RefreshFind,
       RefreshLookup, RefreshSave, LogoutDevice, LogoutAll, ResetFind, ResetChange, ResetSpend,
       ResetRevoke, RoleChange, Work, Goto, Ran, IInv, TypeOK
<1>5. ran[r] = None \/ UNCHANGED ran
  <2>1. CASE Works(r) \/ RefreshSave(r)
    <3>1. svc[r] \in Before
      BY <2>1 DEF Works, Run, RoleChange, LogoutDevice, LogoutAll, ResetChange, RefreshSave,
         At, Before
    <3> QED
      BY <3>1, Busy DEF Before
  <2>2. CASE Answers(r)
    BY <2>2, AnswersKeep
  <2>3. CASE GoesOn(r) \/ ResetRevoke(r)
    BY <2>3 DEF GoesOn, Admit, LoginFind, RefreshFind, RefreshLookup, ResetFind, ResetSpend,
       ResetRevoke
  <2> QED
    BY <2>1, <2>2, <2>3 DEF Handle, Answers, GoesOn, Works
<1>6. RanStays
  BY <1>4, <1>5 DEF RanStays
<1>7. Is(r, "login") => UNCHANGED ran
  <2>1. CASE Works(r)
    BY <2>1 DEF Works, Run, Plain, Special, RoleChange, LogoutDevice, LogoutAll, ResetChange, Is
  <2>2. CASE RefreshSave(r)
    BY <1>3, <2>2 DEF RefreshSave, At, SInv, Finds, Is
  <2>3. CASE Answers(r)
    BY <2>3, AnswersKeep
  <2>4. CASE GoesOn(r) \/ ResetRevoke(r)
    BY <2>4 DEF GoesOn, Admit, LoginFind, RefreshFind, RefreshLookup, ResetFind, ResetSpend,
       ResetRevoke
  <2> QED
    BY <2>1, <2>2, <2>3, <2>4 DEF Handle, Answers, GoesOn, Works
<1>8. NoLogin
  BY <1>1, <1>4, <1>7 DEF NoLogin, Is, Area, Method
<1>9. Refreshing(r)' => Refreshing(r) \/ Finding(r)
  <2>1. Is(r, "refresh")' <=> Is(r, "refresh")
    BY <1>1 DEF Is, Area, Method
  <2>2. CASE RefreshFind(r)
    BY <1>3, <2>2 DEF RefreshFind, Refreshable, Finding
  <2>3. CASE LoginFind(r) \/ ResetFind(r)
    BY <2>1, <2>3 DEF LoginFind, ResetFind, Is, Refreshing
  <2>4. CASE RefreshLookup(r)
    BY <2>4 DEF RefreshLookup, At, Refreshing
  <2>5. CASE Answers(r)
    BY <2>5, AnswersKeep DEF Refreshing
  <2>6. CASE Admit(r) \/ ResetSpend(r) \/ ResetRevoke(r) \/ Works(r) \/ RefreshSave(r)
    <3>1. svc'[r] \in {"admitted", "changed", "spent", "done"}
      BY <2>6 DEF Admit, ResetSpend, ResetRevoke, Works, Run, RoleChange, LogoutDevice, LogoutAll,
         ResetChange, RefreshSave, Save, Work, Goto, IInv, TypeOK
    <3> QED
      BY <3>1 DEF Refreshing
  <2> QED
    BY <2>2, <2>3, <2>4, <2>5, <2>6 DEF Handle, Answers, Works
<1>10. \A q \in Requests : Refreshing(q)' => Refreshing(q) \/ Finding(q)
  BY <1>1, <1>4, <1>9 DEF Refreshing, Is, Area, Method
<1>11. \A d \in Names : row'[d] # None =>
         \/ row'[d] = row[d]
         \/ \E q \in Requests : Refreshing(q) /\ d = in[q].device /\ row'[d] = q
  <2>1. CASE RefreshSave(r)
    <3>1. Refreshing(r)
      BY <1>3, <2>1 DEF RefreshSave, At, SInv, Finds, Refreshing
    <3> QED
      BY <2>1, <3>1 DEF RefreshSave, Save, IInv, TypeOK
  <2>2. CASE Answers(r)
    BY <2>2, AnswersKeep DEF tables
  <2>3. CASE GoesOn(r) \/ Works(r) \/ ResetRevoke(r)
    BY <2>3 DEF GoesOn, Admit, LoginFind, RefreshFind, RefreshLookup, ResetFind, ResetSpend,
       Works, Run, RoleChange, LogoutDevice, LogoutAll, ResetChange, ResetRevoke, Revoke, tables
  <2> QED
    BY <2>1, <2>2, <2>3 DEF Handle, Answers, GoesOn, Works
<1> QED
  BY <1>1, <1>6, <1>8, <1>10, <1>11, NoNewSession

LEMMA QuietEnds ==
  ASSUME IInv, SInv, Owned, Stays, UNCHANGED <<ran, row>>,
         \A q \in Requests : svc'[q] = svc[q] \/ svc'[q] \notin {"found", "writing"},
         \A q \in Requests : in'[q] = in[q] \/ (ran[q] = None /\ svc'[q] \notin {"found", "writing"})
  PROVE  Abs!End
<1>1. NoLogin /\ RanStays
  BY DEF NoLogin, RanStays, Worked, IInv, Taken
<1>2. \A q \in Requests : Refreshing(q)' => Refreshing(q)
  BY DEF Refreshing, Is, Area, Method
<1> QED
  BY <1>1, <1>2, NoNewSession

\* A session goes on only for the browser that signed in on its device, for any
\* menu, whatever races with the refreshes and whatever the faults.
THEOREM SessionsSignedIn == Spec => SessionsAreSignIns
<1>1. IInv /\ SInv /\ Owned /\ [Next]_vars => [Abs!Next]_(Abs!vars)
  <2> SUFFICES ASSUME IInv, SInv, Owned, [Next]_vars PROVE Abs!Next
    OBVIOUS
  <2>1. CASE \E r \in Requests : IsNext(r) /\ \E s \in Offered(r) : Take(r, s.by, s.route)
    <3>1. PICK r \in Requests : IsNext(r) /\ \E s \in Offered(r) : Take(r, s.by, s.route)
      BY <2>1
    <3>2. Abs!End
      BY <3>1, TakeOwned, QuietEnds
    <3> QED
      BY <3>2 DEF Abs!Next
  <2>2. ASSUME NEW r \in Requests, Handle(r) PROVE Abs!Next
    <3>1. CASE LoginSave(r)
      <4>1. r \in Names /\ in[r].by \in Browsers
        BY <3>1, Busy DEF LoginSave, At, Names
      <4> QED
        BY <3>1, <4>1, LoginSignsIn DEF Abs!Next
    <3>2. CASE ~LoginSave(r)
      BY <2>2, <3>2, HandleEnds DEF Abs!Next
    <3> QED
      BY <3>1, <3>2
  <2>3. ASSUME NEW r \in Requests, Relay(r) \/ Timeout(r) \/ Unreachable(r) \/ Vanish(r)
        PROVE  Abs!Next
    <3>1. /\ UNCHANGED <<in, ran, row>>
          /\ \A q \in Requests : svc'[q] = svc[q] \/ svc'[q] = "idle"
      BY <2>3 DEF Relay, Timeout, Unreachable, Vanish, Goto, tables, IInv, TypeOK
    <3>2. Abs!End
      BY <3>1, QuietEnds DEF Stays
    <3> QED
      BY <3>2 DEF Abs!Next
  <2>4. CASE (\E t \in Names : Age(t)) \/ UNCHANGED vars
    <3>1. UNCHANGED <<in, svc, ran, row>>
      BY <2>4 DEF Age, vars, tables
    <3>2. Abs!End
      BY <3>1, QuietEnds DEF Stays
    <3> QED
      BY <3>2 DEF Abs!Next
  <2> QED
    BY <2>1, <2>2, <2>3, <2>4 DEF Next
<1> QED
  BY <1>1, OwnedAlways, PTL DEF Spec, SessionsAreSignIns
=============================================================================
