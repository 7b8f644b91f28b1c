------------------------------- MODULE Routes -------------------------------
(***************************************************************************)
(* The decorators of the HTTP routes, as tables: what a controller of the  *)
(* gateway declares, how its client service calls the service behind it,   *)
(* and what the handler there declares.  An area is a controller of the    *)
(* gateway with its client service and the controller they lead to; a      *)
(* method goes by the name of the gateway's controller, a handler by the   *)
(* name in the service.                                                    *)
(***************************************************************************)

Same(S) == [m \in S |-> m]

-----------------------------------------------------------------------------
(* Controllers of the gateway.  open: @Public(); guarded: behind           *)
(* JwtAuthGuard; limited: a rate limit of the method or of its class.      *)

AuthController ==
  LET guarded == {"me", "logoutDevice", "logoutAll"} IN
  [open |-> {"login", "register", "verify", "confirm", "resendCode", "refresh",
             "forgotPassword", "forgotPasswordVerify", "forgotPasswordReset"},
   guarded |-> guarded,
   limited |-> {"login", "register", "resendCode", "refresh",
                "forgotPassword", "forgotPasswordVerify", "forgotPasswordReset"}]

RoleMethods == {"create", "findAll", "getRolesForUser", "getPermissionsForUser",
                "findOne", "update", "remove", "assignRole", "unassignRole"}

RoleController == [open |-> {}, guarded |-> RoleMethods, limited |-> RoleMethods]

\* Mutated PostsController: @Public() over 'my', as over its neighbours.
PostsControllerOpen ==
  LET open == {"findAll", "findMyPosts", "findOne"}
      guarded == {"create", "update", "submit", "approve", "reject", "remove"}
  IN [open |-> open, guarded |-> guarded, limited |-> open \cup guarded]

PostsController ==
  LET open == {"findAll", "findOne"}
      guarded == {"create", "findMyPosts", "update", "submit", "approve", "reject", "remove"}
  IN [open |-> open, guarded |-> guarded, limited |-> open \cup guarded]

CommentsController ==
  LET open == {"findByPost", "findByQuestion", "findOne"}
      guarded == {"create", "update", "remove"}
  IN [open |-> open, guarded |-> guarded, limited |-> open \cup guarded]

QuestionsController ==
  LET open == {"findAll", "findOne"}
      guarded == {"create", "findMyQuestions", "update", "remove"}
  IN [open |-> open, guarded |-> guarded, limited |-> open \cup guarded]

NotificationController ==
  LET open == {"ping"}
      guarded == {"create", "findAll", "unreadCount", "markRead", "readAll"}
  IN [open |-> open, guarded |-> guarded, limited |-> open \cup guarded]

CloudinaryController ==
  [open |-> {"getImages"}, guarded |-> {"uploadImage"}, limited |-> {}]

Controller == [auth |-> AuthController, roles |-> RoleController,
  posts |-> PostsController, comments |-> CommentsController,
  questions |-> QuestionsController, notification |-> NotificationController,
  cloudinary |-> CloudinaryController]

Areas == {"auth", "roles", "posts", "comments", "questions", "notification", "cloudinary"}
Routes == UNION {[area : {a}, method : Controller[a].open \cup Controller[a].guarded] :
                 a \in Areas}

-----------------------------------------------------------------------------
(* Client services of the gateway.  own: the caller's token is sent on;    *)
(* signed: without one, an internal token is sent in its place; unchecked: *)
(* the status of the answer is not looked at; calls: the handler reached.  *)

AuthClient ==
  [own |-> {"me", "logoutDevice", "logoutAll"},
   signed |-> AuthController.open \cup AuthController.guarded,
   unchecked |-> {},
   calls |-> [Same(AuthController.open \cup AuthController.guarded)
                EXCEPT !["confirm"] = "verify", !["resendCode"] = "resend"]]

RoleClient == [own |-> RoleMethods, signed |-> RoleMethods, unchecked |-> {},
               calls |-> Same(RoleMethods)]

\* reject passes its headers where axios takes the body: no token is sent.
PostsClient ==
  LET methods == PostsController.open \cup PostsController.guarded IN
  [own |-> methods \ {"reject"}, signed |-> methods \ {"reject"}, unchecked |-> {},
   calls |-> Same(methods)]

CommentsClient ==
  LET methods == CommentsController.open \cup CommentsController.guarded IN
  [own |-> methods, signed |-> methods, unchecked |-> {}, calls |-> Same(methods)]

QuestionsClient ==
  LET methods == QuestionsController.open \cup QuestionsController.guarded IN
  [own |-> methods, signed |-> methods, unchecked |-> {}, calls |-> Same(methods)]

\* No internal token, and only ping looks at the status.
NotificationClient ==
  LET methods == NotificationController.open \cup NotificationController.guarded IN
  [own |-> methods \ {"ping"}, signed |-> {}, unchecked |-> methods \ {"ping"},
   calls |-> [Same(methods) EXCEPT !["ping"] = "health"]]

CloudinaryClient ==
  LET methods == {"getImages", "uploadImage"} IN
  [own |-> methods, signed |-> methods, unchecked |-> {}, calls |-> Same(methods)]

Client == [auth |-> AuthClient, roles |-> RoleClient, posts |-> PostsClient,
  comments |-> CommentsClient, questions |-> QuestionsClient,
  notification |-> NotificationClient, cloudinary |-> CloudinaryClient]

-----------------------------------------------------------------------------
(* Controllers of the services.  open: @Public(); limited: a rate limit;   *)
(* needs: @RequirePermission; internal: @InternalOnly; and where a handler *)
(* looks for the user it acts for: user for @User('userId'), data for      *)
(* @Info('data').userId, id for the `id` of @User().                       *)

AuthHandlers ==
  [all |-> {"register", "verify", "confirmPage", "resend", "login", "refresh", "me",
            "logoutDevice", "logoutAll", "forgotPassword", "forgotPasswordVerify",
            "forgotPasswordReset"},
   open |-> {"resend", "login", "refresh"},
   limited |-> {"register", "resend", "login", "refresh", "forgotPassword",
                "forgotPasswordVerify", "forgotPasswordReset"},
   needs |-> {}, internal |-> {},
   user |-> {}, data |-> {"me"}, id |-> {"logoutDevice", "logoutAll"}]

RolesHandlers ==
  [all |-> RoleMethods, open |-> {}, limited |-> {},
   needs |-> {"create"}, internal |-> {"create"}, user |-> {}, data |-> {}, id |-> {}]

PostsHandlers ==
  [all |-> {"create", "findAll", "findMyPosts", "findOne", "update", "submit",
            "approve", "reject", "remove"},
   open |-> {}, limited |-> {},
   needs |-> {"approve", "reject"}, internal |-> {},
   user |-> {"create", "findMyPosts", "update", "submit", "remove"}, data |-> {}, id |-> {}]

CommentsHandlers ==
  [all |-> {"create", "findByPost", "findByQuestion", "findOne", "update", "remove"},
   open |-> {}, limited |-> {}, needs |-> {}, internal |-> {},
   user |-> {"create", "update", "remove"}, data |-> {}, id |-> {}]

QuestionsHandlers ==
  [all |-> {"create", "findAll", "findMyQuestions", "findOne", "update", "remove"},
   open |-> {}, limited |-> {}, needs |-> {}, internal |-> {},
   user |-> {"create", "findMyQuestions", "update", "remove"}, data |-> {}, id |-> {}]

\* health is a method of the service's AppController; there is none for create.
NotificationHandlers ==
  LET reads == {"findAll", "unreadCount", "markRead", "readAll"} IN
  [all |-> reads \cup {"health"}, open |-> {"health"}, limited |-> {},
   needs |-> {"findAll", "unreadCount"}, internal |-> {},
   user |-> reads, data |-> reads, id |-> {}]

CloudinaryHandlers ==
  [all |-> {"getImages", "uploadImage"}, open |-> {}, limited |-> {},
   needs |-> {}, internal |-> {}, user |-> {}, data |-> {}, id |-> {}]

Handlers == [auth |-> AuthHandlers, roles |-> RolesHandlers, posts |-> PostsHandlers,
  comments |-> CommentsHandlers, questions |-> QuestionsHandlers,
  notification |-> NotificationHandlers, cloudinary |-> CloudinaryHandlers]

\* What a handler that catches every error makes of it; without a catch of its own
\* the exception filter answers 500.
Caught(area, h) ==
  CASE area = "auth" /\ h \in {"login", "refresh", "verify", "resend"} -> "unauthorized"
    [] area = "auth" /\ h \in {"forgotPasswordVerify", "forgotPasswordReset"} -> "refused"
    [] area = "auth" /\ h = "forgotPassword" -> "ok"
    [] OTHER -> "error"

-----------------------------------------------------------------------------
(* What the JWT strategy of a service makes of a caller's token: the type  *)
(* the guards compare, and where the handlers find the user.               *)

AuthStrategy == [type |-> "api", userIn |-> "data"]
ContentStrategy == [type |-> "user", userIn |-> "user"]
NotificationStrategy == [type |-> "user", userIn |-> "user"]

Strategy == [auth |-> AuthStrategy, roles |-> AuthStrategy,
  posts |-> ContentStrategy, comments |-> ContentStrategy, questions |-> ContentStrategy,
  notification |-> NotificationStrategy, cloudinary |-> ContentStrategy]
=============================================================================
