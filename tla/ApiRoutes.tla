------------------------------ MODULE ApiRoutes ------------------------------
(***************************************************************************)
(* The handlers of the Go backend and the table that routes to them        *)
(* (router.go).  A handler is the sequence of its stages: each may refuse  *)
(* the request with an error code, and some change what is stored.  The    *)
(* order of the stages is that of the code.                                *)
(*                                                                         *)
(* Abstracted: which inputs a check refuses; what is read and written; the *)
(* loops over rows.  A statement that fails has changed nothing: an answer *)
(* of the database that is lost on the way back is not modelled.           *)
(***************************************************************************)
EXTENDS Integers, Sequences

Statuses == {200, 204, 302, 400, 401, 403, 404, 409, 500}

\* Mutant: the business code goes out as the status.
HTTPStatusBug(code) == code

\* Every other code below 500000 is a 400.
HTTPStatus(code) ==
    CASE code \in {401000, 403000, 404000, 409000} -> code \div 1000
      [] code >= 500000 -> 500
      [] OTHER -> 400

-----------------------------------------------------------------------------
(* Stages.  refuses: the codes it may answer; needs: it refuses if the row *)
(* the path names is not there; effect: what passing it changes: nothing,  *)
(* the row if it is there, something, something or nothing; "penalty" may  *)
(* change something when it refuses.  What the create and the update of a   *)
(* handler share before they write has the name of its saveX function.     *)

stage(codes, needs, effect) == <<[refuses |-> codes, needs |-> needs, effect |-> effect]>>

check(codes) == stage(codes, FALSE, "none")
page == check({400000})
query == check({400000})
id == check({400000})
body == check({400000})
text == check({400000})
rule(code) == check({code})
rows == check({500000})
present(code) == check({code, 500000})
paged == rows \o rows
find == stage({404000}, TRUE, "none")
first == stage({404000, 500000}, TRUE, "none")
write == stage({500000}, FALSE, "sure")
change == stage({500000}, FALSE, "row")
clear == stage({500000}, FALSE, "maybe")
attempt == stage({}, FALSE, "maybe")
start == stage({}, FALSE, "sure")
statusRequest == body \o rule(400000)

-----------------------------------------------------------------------------
(* common_controller.go *)

OpenAPIDocs == rule(500000)

(* auth_service.go *)

Login ==
    body \o text \o present(401000) \o rule(401000) \o present(401000)
    \o stage({401000, 500000}, FALSE, "penalty")
    \o attempt \o attempt \o write \o attempt
Logout == attempt
Me == find \o rows \o rows \o rows
Password == body \o text \o find \o rule(400000) \o change
Profile == body \o text \o write \o attempt

(* user_service.go *)

guard == check({403000, 500000})
saveUser == text \o present(400000)
assignUserRoles == find \o present(400000) \o write
Users == page \o query \o paged \o rows
User == id \o find
CreateUser == body \o saveUser \o write
UpdateUser == id \o body \o saveUser \o find \o change
DeleteUser == id \o rule(400000) \o guard \o find \o change
UserStatus == id \o statusRequest \o rule(400000) \o guard \o change
UnlockUser == id \o find \o clear
UserRoles == id \o body \o guard \o assignUserRoles
ResetPassword == id \o body \o rule(400000) \o guard \o change

(* role_service.go *)

assignRoleMenuIDs == find \o present(400000) \o write
Roles == page \o query \o paged
Role == id \o find
RoleUsers == id \o page \o paged
RolePermissions == id \o rows
RoleOptions == rows
saveRole == text
CreateRole == body \o saveRole \o write
UpdateRole == id \o body \o saveRole \o change

\* Mutant: the roles of users are looked at after the row has been written.
DeleteRoleBug == id \o find \o rule(400000) \o change \o present(409000)

DeleteRole == id \o find \o rule(400000) \o present(409000) \o change
RoleStatus == id \o statusRequest \o change
AssignRoleMenus == id \o body \o assignRoleMenuIDs

(* menu_service.go, dept_service.go *)

saveMenu == text \o present(404000)
Menus == rows
CreateMenu == body \o saveMenu \o write
UpdateMenu == id \o body \o saveMenu \o rule(400000) \o change
DeleteMenu == id \o present(400301) \o change
MenuStatus == id \o statusRequest \o change

saveDept == present(404000) \o present(400000) \o present(400000)
Depts == rows
Dept == id \o find
CreateDept == body \o text \o saveDept \o write
UpdateDept == id \o body \o text \o rule(400000) \o saveDept \o change
DeleteDept == id \o present(400401) \o present(400401) \o change
DeptStatus == id \o statusRequest \o change

(* config_service.go *)

Configs == page \o query \o paged
PublicConfig == rule(500000)
saveConfig == text
CreateConfig == body \o saveConfig \o write

\* Mutant: the row is not looked up before it is written.
UpdateConfigBug == id \o body \o saveConfig \o change

UpdateConfig == id \o body \o saveConfig \o find \o change
DeleteConfig == id \o find \o rule(400000) \o change
ConfigStatus == id \o statusRequest \o find \o rule(400000) \o change

(* dict_service.go *)

DictTypes == rows
CreateDictType == body \o text \o write
UpdateDictType == id \o body \o change
DeleteDictType == id \o find \o rule(400501) \o present(400501) \o change
DictItems == id \o rows
saveDictItem == text \o present(404000) \o clear
CreateDictItem == body \o saveDictItem \o write
UpdateDictItem == id \o body \o saveDictItem \o change

\* Mutant: a builtin item is a conflict.
DeleteDictItemBug == id \o find \o rule(409000) \o change

DeleteDictItem == id \o find \o rule(400501) \o change
DictItemStatus == id \o statusRequest \o change
RefreshDictCache == <<>>

(* online_user_service.go, log_service.go, file_service.go *)

OnlineUsers == page \o rows
OnlineUser == present(404000)
KickoutOnlineUser == rule(400000) \o rows \o clear
LoginLogs == page \o paged
LoginLog == id \o first
OperationLogs == page \o paged
OperationLog == id \o first
UploadFile == rule(400000) \o rule(500000) \o rule(400000)

(* job_service.go; RunJob starts a goroutine *)

Jobs == page \o query \o paged
JobScripts == query
Job == id \o find
saveJob == text
CreateJob == body \o saveJob \o write
UpdateJob == id \o body \o saveJob \o change
DeleteJob == id \o change
JobStatus == id \o statusRequest \o change
RunJob == id \o find \o start
jobRunLogPage == page \o paged
JobLogs == id \o jobRunLogPage
JobRunLogs == jobRunLogPage

(* print_template_service.go *)

savePrintTemplate == text \o present(400000)
PrintTemplates == page \o query \o paged
PrintTemplate == id \o find
CreatePrintTemplate == body \o savePrintTemplate \o write
CopyPrintTemplate == id \o body \o present(400000) \o find \o write
UpdatePrintTemplate == id \o body \o savePrintTemplate \o change
DeletePrintTemplate == id \o change
PrintTemplateStatus == id \o statusRequest \o change

=============================================================================
