---------------------------- MODULE ApiContract ----------------------------
(***************************************************************************)
(* What the served OpenAPI document (docs/docs.go, generated from the      *)
(* annotations of the controllers and answered at /api/v3/api-docs)        *)
(* promises of each operation: the statuses it may answer.                 *)
(*                                                                         *)
(* Abstracted: parameters, schemas, tags and texts.  Paths are below the   *)
(* document's basePath /api; a parameter, {id} in the document, is written *)
(* as the router writes it, :id.                                           *)
(***************************************************************************)

\* The operations of one path; answers maps the methods to their statuses.
Path(path, answers) ==
    {[method |-> m, path |-> path, answers |-> answers[m]] : m \in DOMAIN answers}

\* The sets of statuses that come back: a list, a row, a write that reads a
\* body, a write to a row, a deletion of what nothing may use any more, and the
\* operations on one's own account.
Read == {200, 401, 403}
ReadRow == Read \cup {404}
Write == Read \cup {400}
WriteRow == Write \cup {404}
Free == Read \cup {409}
Own == {200, 401}
OwnWrite == Own \cup {400}

RootPath == Path("/", [get |-> {302}])
FaviconIcoPath == Path("/favicon.ico", [get |-> {204}])
HealthPath == Path("/health", [get |-> {200}])
SwaggerUiHtmlPath == Path("/swagger-ui.html", [get |-> {302}])
ConfigPath == Path("/system/config", [get |-> Read, post |-> Write])
ConfigIdPath == Path("/system/config/:id", [put |-> WriteRow, delete |-> ReadRow])
ConfigIdStatusPath == Path("/system/config/:id/status", [put |-> Write])
DeptPath == Path("/system/dept", [get |-> Read, post |-> Write])
DeptIdPath == Path("/system/dept/:id", [get |-> ReadRow, put |-> WriteRow, delete |-> Free])
DeptIdStatusPath == Path("/system/dept/:id/status", [put |-> Write])
DictCacheRefreshPath == Path("/system/dict/cache/refresh", [post |-> Read])
DictItemPath == Path("/system/dict/item", [post |-> Write])
DictItemIdPath == Path("/system/dict/item/:id", [put |-> Write, delete |-> Read])
DictItemIdStatusPath == Path("/system/dict/item/:id/status", [put |-> Write])
DictTypePath == Path("/system/dict/type", [get |-> Read, post |-> Write])
DictTypeIdPath == Path("/system/dict/type/:id", [put |-> Write, delete |-> Free])
DictTypeIdItemPath == Path("/system/dict/type/:id/item", [get |-> Read])
FilesPath == Path("/system/files", [post |-> Write])
JobPath == Path("/system/job", [get |-> Read, post |-> Write])
JobScriptsPath == Path("/system/job/scripts", [get |-> Read])
JobIdPath == Path("/system/job/:id", [get |-> ReadRow, put |-> WriteRow, delete |-> ReadRow])
JobIdRunPath == Path("/system/job/:id/run", [post |-> ReadRow])
JobIdRunLogPath == Path("/system/job/:id/runLog", [get |-> Read])
JobIdStatusPath == Path("/system/job/:id/status", [put |-> Write])
JobRunLogPath == Path("/system/jobRunLog", [get |-> Read])
LoginPath == Path("/system/login", [post |-> {200, 400}])
LoginLogPath == Path("/system/loginLog", [get |-> Read])
LoginLogIdPath == Path("/system/loginLog/:id", [get |-> ReadRow])
LogoutPath == Path("/system/logout", [post |-> Own])
MePath == Path("/system/me", [get |-> Own])
MenuPath == Path("/system/menu", [get |-> Read, post |-> Write])
MenuIdPath == Path("/system/menu/:id", [put |-> Write, delete |-> Free])
MenuIdStatusPath == Path("/system/menu/:id/status", [put |-> Write])
OnlineUserPath == Path("/system/onlineUser", [get |-> Read])
OnlineUserTokenIdPath == Path("/system/onlineUser/:tokenId", [get |-> ReadRow])
OnlineUserTokenIdKickoutPath == Path("/system/onlineUser/:tokenId/kickout", [post |-> ReadRow])
OperationLogPath == Path("/system/operationLog", [get |-> Read])
OperationLogIdPath == Path("/system/operationLog/:id", [get |-> ReadRow])
PasswordPath == Path("/system/password", [put |-> OwnWrite])
PrintTemplatePath == Path("/system/print-template", [get |-> Read, post |-> Write])
PrintTemplateIdPath ==
    Path("/system/print-template/:id",
         [get |-> ReadRow, put |-> WriteRow, delete |-> ReadRow])
PrintTemplateIdCopyPath == Path("/system/print-template/:id/copy", [post |-> WriteRow])
PrintTemplateIdStatusPath == Path("/system/print-template/:id/status", [put |-> Write])
ProfilePath == Path("/system/profile", [put |-> OwnWrite])
PublicConfigPath == Path("/system/publicConfig", [get |-> {200, 500}])
RolePath == Path("/system/role", [get |-> Read, post |-> Write])
RoleOptionPath == Path("/system/role/option", [get |-> Read])
RoleIdPath ==
    Path("/system/role/:id",
         [get |-> ReadRow, put |-> WriteRow, delete |-> {200, 401, 403, 404, 409}])
RoleIdPermissionPath == Path("/system/role/:id/permission", [get |-> Read, put |-> Write])
RoleIdStatusPath == Path("/system/role/:id/status", [put |-> Write])
RoleIdUserPath == Path("/system/role/:id/user", [get |-> Read])
UserPath == Path("/system/user", [get |-> Read, post |-> Write])
UserIdPath == Path("/system/user/:id", [get |-> ReadRow, put |-> WriteRow, delete |-> ReadRow])
UserIdResetPasswordPath == Path("/system/user/:id/resetPassword", [post |-> Write])
UserIdRolePath == Path("/system/user/:id/role", [put |-> Write])
UserIdStatusPath == Path("/system/user/:id/status", [put |-> Write])
UserIdUnlockPath == Path("/system/user/:id/unlock", [post |-> ReadRow])
V3ApiDocsPath == Path("/v3/api-docs", [get |-> {200, 500}])

Contract ==
    UNION {
    RootPath, FaviconIcoPath, HealthPath, SwaggerUiHtmlPath, ConfigPath, ConfigIdPath,
    ConfigIdStatusPath, DeptPath, DeptIdPath, DeptIdStatusPath, DictCacheRefreshPath,
    DictItemPath, DictItemIdPath, DictItemIdStatusPath, DictTypePath, DictTypeIdPath,
    DictTypeIdItemPath, FilesPath, JobPath, JobScriptsPath, JobIdPath, JobIdRunPath,
    JobIdRunLogPath, JobIdStatusPath, JobRunLogPath, LoginPath, LoginLogPath, LoginLogIdPath,
    LogoutPath, MePath, MenuPath, MenuIdPath, MenuIdStatusPath, OnlineUserPath,
    OnlineUserTokenIdPath, OnlineUserTokenIdKickoutPath, OperationLogPath,
    OperationLogIdPath, PasswordPath, PrintTemplatePath, PrintTemplateIdPath,
    PrintTemplateIdCopyPath, PrintTemplateIdStatusPath, ProfilePath, PublicConfigPath,
    RolePath, RoleOptionPath, RoleIdPath, RoleIdPermissionPath, RoleIdStatusPath,
    RoleIdUserPath, UserPath, UserIdPath, UserIdResetPasswordPath, UserIdRolePath,
    UserIdStatusPath, UserIdUnlockPath, V3ApiDocsPath}

\* The statuses documented for an operation.
Documented(method, path) ==
    UNION {op.answers : op \in {o \in Contract : o.method = method /\ o.path = path}}

=============================================================================
