--------------------------------- MODULE Api ---------------------------------
(***************************************************************************)
(* One request through the Go backend: the chain of middlewares around the *)
(* handler of its route (router.go), the row of the operation log that is  *)
(* written behind the handler (operation_log_service.go), and the answer,  *)
(* held against the OpenAPI document the server hands out (ApiContract).   *)
(*                                                                         *)
(* Abstracted: permission codes, which Access has; the request log, which  *)
(* nothing reads; /swagger-ui/*any, a library's pages.  Requests that      *)
(* overlap are in the other modules; here a row is there or it is not.     *)
(***************************************************************************)
EXTENDS ApiRoutes, ApiContract

\* The routes of one path; handlers maps the methods to their handlers.
routes(chain, path, handlers, ok) ==
    {[method |-> m, path |-> path, handler |-> handlers[m], chain |-> chain, ok |-> ok] :
        m \in DOMAIN handlers}

open(path, handlers, ok) == routes("open", path, handlers, ok)
own(path, handlers) == routes("own", path, handlers, 200)
system(path, handlers) == routes("guarded", path, handlers, 200)

PublicRoutes == UNION {
    open("/", [get |-> <<>>], 302),
    open("/favicon.ico", [get |-> <<>>], 204),
    open("/health", [get |-> <<>>], 200),
    open("/v3/api-docs", [get |-> OpenAPIDocs], 200),
    open("/swagger-ui.html", [get |-> <<>>], 302),
    open("/system/publicConfig", [get |-> PublicConfig], 200),
    open("/system/login", [post |-> Login], 200)}

OwnRoutes == UNION {
    own("/system/logout", [post |-> Logout]),
    own("/system/me", [get |-> Me]),
    own("/system/password", [put |-> Password]),
    own("/system/profile", [put |-> Profile])}

UserRoutes == UNION {
    system("/system/user", [get |-> Users, post |-> CreateUser]),
    system("/system/user/:id", [get |-> User, put |-> UpdateUser, delete |-> DeleteUser]),
    system("/system/user/:id/status", [put |-> UserStatus]),
    system("/system/user/:id/unlock", [post |-> UnlockUser]),
    system("/system/user/:id/role", [put |-> UserRoles]),
    system("/system/user/:id/resetPassword", [post |-> ResetPassword])}

RoleRoutes == UNION {
    system("/system/role", [get |-> Roles, post |-> CreateRole]),
    system("/system/role/option", [get |-> RoleOptions]),
    system("/system/role/:id", [get |-> Role, put |-> UpdateRole, delete |-> DeleteRole]),
    system("/system/role/:id/user", [get |-> RoleUsers]),
    system("/system/role/:id/permission", [get |-> RolePermissions, put |-> AssignRoleMenus]),
    system("/system/role/:id/status", [put |-> RoleStatus])}

MenuRoutes == UNION {
    system("/system/menu", [get |-> Menus, post |-> CreateMenu]),
    system("/system/menu/:id", [put |-> UpdateMenu, delete |-> DeleteMenu]),
    system("/system/menu/:id/status", [put |-> MenuStatus])}

DeptRoutes == UNION {
    system("/system/dept", [get |-> Depts, post |-> CreateDept]),
    system("/system/dept/:id", [get |-> Dept, put |-> UpdateDept, delete |-> DeleteDept]),
    system("/system/dept/:id/status", [put |-> DeptStatus])}

ConfigRoutes == UNION {
    system("/system/config", [get |-> Configs, post |-> CreateConfig]),
    system("/system/config/:id", [put |-> UpdateConfig, delete |-> DeleteConfig]),
    system("/system/config/:id/status", [put |-> ConfigStatus])}

DictRoutes == UNION {
    system("/system/dict/type", [get |-> DictTypes, post |-> CreateDictType]),
    system("/system/dict/type/:id", [put |-> UpdateDictType, delete |-> DeleteDictType]),
    system("/system/dict/type/:id/item", [get |-> DictItems]),
    system("/system/dict/item", [post |-> CreateDictItem]),
    system("/system/dict/item/:id", [put |-> UpdateDictItem, delete |-> DeleteDictItem]),
    system("/system/dict/item/:id/status", [put |-> DictItemStatus]),
    system("/system/dict/cache/refresh", [post |-> RefreshDictCache])}

OnlineUserRoutes == UNION {
    system("/system/onlineUser", [get |-> OnlineUsers]),
    system("/system/onlineUser/:tokenId", [get |-> OnlineUser]),
    system("/system/onlineUser/:tokenId/kickout", [post |-> KickoutOnlineUser])}

LogRoutes == UNION {
    system("/system/loginLog", [get |-> LoginLogs]),
    system("/system/loginLog/:id", [get |-> LoginLog]),
    system("/system/operationLog", [get |-> OperationLogs]),
    system("/system/operationLog/:id", [get |-> OperationLog])}

JobRoutes == UNION {
    system("/system/job", [get |-> Jobs, post |-> CreateJob]),
    system("/system/job/scripts", [get |-> JobScripts]),
    system("/system/job/:id", [get |-> Job, put |-> UpdateJob, delete |-> DeleteJob]),
    system("/system/job/:id/status", [put |-> JobStatus]),
    system("/system/job/:id/run", [post |-> RunJob]),
    system("/system/job/:id/runLog", [get |-> JobLogs]),
    system("/system/jobRunLog", [get |-> JobRunLogs])}

FileRoutes == system("/system/files", [post |-> UploadFile])

PrintTemplateRoutes == UNION {
    system("/system/print-template", [get |-> PrintTemplates, post |-> CreatePrintTemplate]),
    system("/system/print-template/:id",
           [get |-> PrintTemplate, put |-> UpdatePrintTemplate, delete |-> DeletePrintTemplate]),
    system("/system/print-template/:id/copy", [post |-> CopyPrintTemplate]),
    system("/system/print-template/:id/status", [put |-> PrintTemplateStatus])}

ProtectedRoutes ==
    OwnRoutes \cup UserRoutes \cup RoleRoutes \cup MenuRoutes \cup DeptRoutes
    \cup ConfigRoutes \cup DictRoutes \cup OnlineUserRoutes \cup LogRoutes \cup JobRoutes
    \cup FileRoutes \cup PrintTemplateRoutes

Routes == PublicRoutes \cup ProtectedRoutes

\* The keys of operationLogDefinitions.
operationLogDefinitions ==
    {"put"} \X {"/system/profile"}
    \cup {"post"} \X {"/system/user", "/system/role", "/system/menu", "/system/dept",
                      "/system/config", "/system/dict/type", "/system/dict/item",
                      "/system/job", "/system/files", "/system/print-template"}
    \cup {"put", "delete"} \X {"/system/user/:id", "/system/role/:id", "/system/menu/:id",
                               "/system/dept/:id", "/system/config/:id",
                               "/system/dict/type/:id", "/system/dict/item/:id",
                               "/system/job/:id", "/system/print-template/:id"}
    \cup {"put"} \X {"/system/user/:id/status", "/system/user/:id/role",
                     "/system/role/:id/status", "/system/role/:id/permission",
                     "/system/menu/:id/status", "/system/dept/:id/status",
                     "/system/config/:id/status", "/system/dict/item/:id/status",
                     "/system/job/:id/status", "/system/print-template/:id/status"}
    \cup {"post"} \X {"/system/user/:id/unlock", "/system/user/:id/resetPassword",
                      "/system/onlineUser/:tokenId/kickout", "/system/job/:id/run",
                      "/system/print-template/:id/copy"}

-----------------------------------------------------------------------------
VARIABLES
    route,     \* the route of the request, NoRoute between requests
    there,     \* whether the row the path names is there
    at,        \* how far the request is
    rest,      \* the stages of the handler that are still to come
    status,    \* the status of the answer, 0 before it
    changed,   \* whether the request has changed anything
    panicked,  \* whether it ended in a panic
    entry      \* its row of the operation log

vars == <<route, there, at, rest, status, changed, panicked, entry>>

CONSTANT NoRoute
ASSUME NoRouteAssumption == NoRoute \notin Routes

TypeOK ==
    /\ route \in Routes \cup {NoRoute}
    /\ there \in BOOLEAN
    /\ at \in {"idle", "session", "permission", "handler", "log", "done"}
    /\ route = NoRoute <=> at = "idle"
    /\ rest # <<>> => at = "handler"
    /\ status \in Statuses \cup {0}
    /\ status = 0 <=> at \in {"idle", "session", "permission", "handler"}
    /\ changed \in BOOLEAN
    /\ panicked \in BOOLEAN
    /\ entry \in {"none", "SUCCESS", "FAIL", "lost"}

Init ==
    /\ route = NoRoute /\ there = FALSE /\ at = "idle" /\ rest = <<>>
    /\ status = 0 /\ changed = FALSE /\ panicked = FALSE /\ entry = "none"

Arrive ==
    /\ at = "idle"
    /\ route' \in Routes
    /\ there' \in BOOLEAN
    /\ IF route'.chain = "open"
       THEN at' = "handler" /\ rest' = route'.handler
       ELSE at' = "session" /\ UNCHANGED rest
    /\ UNCHANGED <<status, changed, panicked, entry>>

operation == <<route.method, route.path>>
isLogged == route.chain # "open" /\ operation \in operationLogDefinitions

respond(code) == status' = code

\* OperationLogMiddleware has its turn after the handlers behind it.
leave ==
    /\ at' = IF isLogged THEN "log" ELSE "done"
    /\ rest' = <<>>

toHandler == at' = "handler" /\ rest' = route.handler

-----------------------------------------------------------------------------
(* The middlewares. *)

AuthRefuses ==
    /\ at = "session"
    /\ \E code \in {401000, 500000} : respond(HTTPStatus(code))
    /\ at' = "done"
    /\ UNCHANGED <<route, there, rest, changed, panicked, entry>>

AuthAccepts ==
    /\ at = "session"
    /\ IF route.chain = "own" THEN toHandler ELSE at' = "permission" /\ UNCHANGED rest
    /\ UNCHANGED <<route, there, status, changed, panicked, entry>>

PermissionMissing ==
    /\ at = "permission"
    /\ \E code \in {403000, 500000} : respond(HTTPStatus(code))
    /\ leave
    /\ UNCHANGED <<route, there, changed, panicked, entry>>

PermissionHeld ==
    /\ at = "permission"
    /\ toHandler
    /\ UNCHANGED <<route, there, status, changed, panicked, entry>>

\* Mutant: the status is read before the handler has run.
LogBug ==
    /\ at = "log"
    /\ entry' \in {"SUCCESS", "lost"}
    /\ at' = "done"
    /\ UNCHANGED <<route, there, rest, status, changed, panicked>>

\* The INSERT may fail, which only the server's log tells.
Log ==
    /\ at = "log"
    /\ entry' \in {IF status >= 400 THEN "FAIL" ELSE "SUCCESS", "lost"}
    /\ at' = "done"
    /\ UNCHANGED <<route, there, rest, status, changed, panicked>>

\* RecoveryMiddleware is outside of the operation log, which the panic passes by.
Panic ==
    /\ at \in {"session", "permission", "handler"}
    /\ respond(500)
    /\ panicked' = TRUE
    /\ at' = "done"
    /\ rest' = <<>>
    /\ UNCHANGED <<route, there, changed, entry>>

-----------------------------------------------------------------------------
(* The handler. *)

Effects(s) ==
    CASE s.effect = "sure" -> {TRUE}
      [] s.effect = "row" -> {there}
      [] s.effect = "maybe" -> BOOLEAN
      [] OTHER -> {FALSE}

PassStage ==
    /\ at = "handler" /\ rest # <<>>
    /\ Head(rest).needs => there
    /\ \E e \in Effects(Head(rest)) : changed' = (changed \/ e)
    /\ rest' = Tail(rest)
    /\ UNCHANGED <<route, there, at, status, panicked, entry>>

Refuse ==
    /\ at = "handler" /\ rest # <<>>
    /\ \E code \in Head(rest).refuses : respond(HTTPStatus(code))
    /\ \E e \in IF Head(rest).effect = "penalty" THEN BOOLEAN ELSE {FALSE} :
          changed' = (changed \/ e)
    /\ leave
    /\ UNCHANGED <<route, there, panicked, entry>>

Succeed ==
    /\ at = "handler" /\ rest = <<>>
    /\ respond(route.ok)
    /\ leave
    /\ UNCHANGED <<route, there, changed, panicked, entry>>

\* The answer is out, or the server stops and the request is gone.
End ==
    /\ at # "idle"
    /\ route' = NoRoute /\ there' = FALSE /\ at' = "idle" /\ rest' = <<>>
    /\ status' = 0 /\ changed' = FALSE /\ panicked' = FALSE /\ entry' = "none"

Next ==
    \/ Arrive
    \/ AuthRefuses \/ AuthAccepts \/ PermissionMissing \/ PermissionHeld
    \/ PassStage \/ Refuse \/ Succeed \/ Panic
    \/ Log
    \/ End

Spec == Init /\ [][Next]_vars

-----------------------------------------------------------------------------
(* What must hold. *)

login == <<"post", "/system/login">>

\* A request that is refused has changed nothing, so that it can be sent again:
\* no handler looks at a condition after its first write.  The exceptions are a
\* login, which counts failures and removes the session it replaces, the save of
\* an item, which has taken the default from another, and a panic.
RefusalChangesNothing ==
    at = "done" /\ status >= 400 /\ changed =>
        \/ panicked
        \/ operation \in {login, <<"post", "/system/dict/item">>,
                          <<"put", "/system/dict/item/:id">>}

\* Handlers that answer 200 when their UPDATE or DELETE meets no row, because
\* nothing looked for the row before and nobody looks at RowsAffected; and those
\* that change nothing or need not, as the DEL of a Redis key that does not exist.
Unchecked ==
    {"put"} \X {"/system/role/:id", "/system/menu/:id", "/system/dept/:id",
                "/system/job/:id", "/system/dict/type/:id", "/system/dict/item/:id",
                "/system/print-template/:id"}
    \cup {"delete"} \X {"/system/menu/:id", "/system/dept/:id", "/system/job/:id",
                        "/system/print-template/:id"}
    \cup {"put"} \X {"/system/user/:id/status", "/system/role/:id/status",
                     "/system/menu/:id/status", "/system/dept/:id/status",
                     "/system/dict/item/:id/status", "/system/job/:id/status",
                     "/system/print-template/:id/status"}
    \cup {"post"} \X {"/system/user/:id/resetPassword", "/system/user/:id/unlock",
                      "/system/logout", "/system/files",
                      "/system/onlineUser/:tokenId/kickout", "/system/dict/cache/refresh"}

\* Who is told that a write succeeded has written: with the exception of those
\* named above, the handlers of POST, PUT and DELETE tell a missing row.
SuccessMeansEffect ==
    at = "done" /\ status = 200 /\ route.method # "get" /\ operation \notin Unchecked
        => changed

\* Where the document promises that an operation needs no session, needs no
\* permission or has no conflicts, the server does not answer 401, 403 or 409.
\* The login is the exception: it answers 401, and the document names no 401.
AccessAsDocumented ==
    at = "done" /\ status \in {401, 403, 409} /\ operation # login =>
        status \in Documented(route.method, route.path)

\* What a session has changed is in the operation log, with the outcome the
\* client was told, and so is what it was refused; except when its row could not
\* be inserted or the handler panicked.  A change of one's own password, a
\* logout and a cache refresh leave no row.
ChangesAreLogged ==
    at = "done" /\ ~panicked /\ route.chain # "open" /\ (changed \/ status = 403) =>
        \/ route.method = "get"
        \/ operation \in {<<"put", "/system/password">>, <<"post", "/system/logout">>,
                          <<"post", "/system/dict/cache/refresh">>}
        \/ entry = "lost"
        \/ entry = IF status < 400 THEN "SUCCESS" ELSE "FAIL"

=============================================================================
