# A specification of the Drip Admin backend

Drip Admin Vue is a template of an administration system: one HTTP contract, a
Java backend that defines it, Go, Python and Rust backends that repeat it, a Vue
front end and a mobile client, over one MySQL schema and one Redis. This directory
specifies the **Go backend** (`src/backend-go`) in TLA+: its login sessions, its
limit on failed logins, its two trees (menus and departments), its access control,
its dictionary, its jobs with the ids they get, and every route with its middlewares
and handler, held against the OpenAPI document the server hands out. TLC checks the modules on small instances, TLAPS proves theorems about
them for every instance.

The Go backend keeps nothing in memory between requests. Each HTTP request runs in
a goroutine of its own, takes its steps as separate Redis commands and separate SQL
statements, and uses a transaction in two places only (assigning roles and
assigning menus). The exceptions are the counter behind `NewID` and the goroutines that
run scripts. Every copy a request holds between two of these steps may be out
of date when it uses it. That is what the models are about: **one action is one
command or one statement**, and any number of requests interleave between them.

## 1. The system

### Components

| Component (Go) | State | Operations | What makes it hard | Modelled |
|---|---|---|---|---|
| Online sessions (`service.go`, `auth_service.go`, `online_user_service.go`) | Redis keys `drip:online:<user>:<device class>` with an expiry | login, `AuthMiddleware` with its touch, profile, logout, kick-out, list | read-then-write of whole sessions, key named by user and device but sought by token, expiry | `Sessions`, `SessionContract`, `SessionAge` |
| Login failure limit (`login_security_service.go`, `auth_service.go`) | one Redis counter per username | check, INCR, EXPIRE, DEL, unlock | check-then-act, INCR and EXPIRE apart, expiry | `LoginLimit` |
| Menu tree (`menu_service.go`) | `sys_menu.parent_id`, `deleted`, `sort` | create, move, delete, status, list tree, menus of a user | a walk over rows read before a write, no transaction, dropped errors; a tree built by copying nodes | `Hierarchy`, `TreeView` |
| Department tree (`dept_service.go`, `user_service.go`) | `sys_dept.parent_id`, `deleted`, `sort`, `sys_user.dept_id` | create, move, delete, status, tree, save of a user | the same, and users that join while a department goes | `Hierarchy`, `TreeView` |
| Users, roles, permissions (`user_service.go`, `role_service.go`, `permission_service.go`, `RequirePermission`) | `sys_user`, `sys_role`, `sys_menu` and the two assignment tables | create, status, delete, assign roles, assign menus, rename a role, permission check, guard on SUPER_ADMIN | four reads before one write, logical deletes that leave assignments behind, a role known by a code that may change | `Access` |
| Dictionary (`dict_service.go`) | `sys_dict_type`, `sys_dict_item` | save and delete of types and items, one default per type | clear-then-set of the default, count-then-delete | `Dict` |
| Jobs (`job_service.go`) | `sys_job`, `sys_job_run_log` | save, delete, status, run by hand | a goroutine that outlives its request, two writes around a script, errors dropped, a stop in between | `Jobs` |
| Identifiers (`common/id.go`) | a process-wide 12-bit counter | `NewID` | clock and counter read apart, a restart, a clock set back | `Identifiers` |
| Router and handlers (`router.go`, `*_service.go`, `common/types.go`, `common/errors.go`) | none of their own | 81 routes, error codes, answers | order of middlewares and checks; refusals after a write; writes that meet no row | `ApiRoutes`, `Api` |
| Operation, login and request logs | log tables | one insert after the answer | a panic or a failed INSERT leaves no row | `Api` (operation log) |
| OpenAPI document (`docs/docs.go`) | none | what each operation may answer | written by hand in annotations, apart from the code | `ApiContract` |
| Configuration table (`config_service.go`) | `sys_config` | save, delete, status, read by key | a setting that login needs can become unreadable | in part (`LoginLimit`, `ApiRoutes`) |
| Print templates (`print_template_service.go`) | `sys_print_template` | save, copy, delete, status | one check-then-insert that a unique key backs up | handlers only (`ApiRoutes`) |
| File upload (`file_service.go`) | none: it checks a file and keeps nothing | upload | - | handler only (`ApiRoutes`) |
| Excel export, password hash, start-up, clients | none | pure functions and wrappers | - | no |

How they interact. A protected request passes `RequestLogger`, `Recovery`,
`AuthMiddleware` (finds the session in Redis and writes it back with a new expiry),
`OperationLog`, `RequirePermission` (two queries: the actor's roles, then the
permission codes of their menus) and its handler. Login stands outside: it reads
the failure counter, the account, compares the password, counts or clears, deletes
the session of the slot and writes a new one. Users, roles, menus and departments
refer to one another by id without foreign keys; deletion sets `deleted = 1` and
leaves `status` and every reference as it is.

The hard behaviours of this code, each listed at its line under `hazards` in
`PROJECT.json`: interleaved read-then-write sequences (sessions, lock-out, trees,
assignments, dictionary), a request that stops between two of its steps (Redis or
MySQL fails, the client hangs up and its context is cancelled, the server stops),
Redis expiry racing the write that renews it, stale copies written back, errors that
are dropped and read as "no rows", recursion over data that another request has
changed, goroutines that outlive their request and a server that stops under them,
and answers that say more or less than what was done.

### What makes each component correct

* Sessions: a closed session stays closed; a removal hits the session it was asked
  for; a disabled account cannot get in; an idle session ends; one session per slot.
* Login limit: the limit can be exceeded only by what is concurrent; every lock ends.
* Trees: no row is its own ancestor (or the tree view loses it and the next walk
  recurses for ever); nothing live hangs on something deleted; a list shows the tree there is.
* Access: what was deleted grants nothing; behind the guard nobody below SUPER_ADMIN touches one who
  holds it; assignments name rows that exist.
* Dictionary: one default per type, as nearly as the statements allow, and not lost on
  the way; items belong to types that exist.
* Jobs: a row of the run log tells of one run, RUNNING only while it runs, and its outcome is
  final; runs end; ids are different.
* Routes: a refusal leaves nothing behind, a success has done what it says, who may do what is as
  documented, and every change is in the operation log.

## 2. Modules

| Module | What it is |
|---|---|
| `SessionRegistry` | the abstract store: a session opens, enters its slot, closes, for good |
| `Sessions` | the Redis store and the requests, one action per command |
| `SessionContract` | `Sessions` implements `SessionRegistry` (the refinement mapping) |
| `SessionAge` | `Sessions` with the time since each login, for the token timeout |
| `LoginLimit` | the failure counter under its key, with its expiry |
| `Hierarchy` | menus, or departments and their users, one action per statement |
| `TreeView` | what the lists show of the rows in `Hierarchy`, as functions of the rows and their order |
| `Access` | accounts, roles, menus, assignments, permission check and guard |
| `Dict` | types, items and the default item of a type |
| `Identifiers` | `NewID` between the clock and the counter; part of `Jobs` |
| `Jobs` | the goroutines that run a script, their rows in the run log, restarts |
| `ApiRoutes` | every handler as the sequence of its stages |
| `ApiContract` | the statuses the OpenAPI document names for each operation |
| `Api` | the routes and a request through middlewares, handler and operation log |
| `SessionsProofs`, `LoginLimitProofs`, `HierarchyProofs` (with `TreeView`), `AccessProofs`, `DictProofs`, `JobsProofs`, `ApiProofs` | theorems |
| `MC*` | small instances for TLC |

Every module has its state as VARIABLES, the instance as CONSTANTS with the
assumptions its proofs need, and the same way of writing a request: a control point
(`pc[r]`, or `req[r].at` in `Access` and `Dict`) that names the next command, and the request's own copy of what
it read. `Fail(r)` ends a request at any control point; it stands for an error of Redis or
MySQL, a client that hung up, and a stop of the server, which are the same to the
store: what was written is written and what was not is not.
An operator named `...Bug` that stands before a definition is that definition with a
plausible slip in it; no action uses it. `PROJECT.json` lists for each property the
slip that TLC finds with it.

### Sessions

`redis[k]` is the session under key `k = <<user, device class>>`, `ttl[k]` its life
in ticks; `held[r]` is a request's copy, `account[r]` the account a login was let in for.
`LoginCheck`, `LoginIssue`, `LoginEvict` and `LoginWrite` are `Login`: the account is read and
found enabled (lines 32-42); the lock-out and the password pass (they are in `LoginLimit`) and
`newToken` gives the session its token (63); `removeExistingUserDeviceSession` (77);
`writeSession` (78). The account is not read again after the first of them. `AuthFind` is
`sessionByToken` in `AuthMiddleware`, `Touch` is `touchSession`, `Serve` a handler that
does not write the session, `Profile` the one that writes its copy again. `Logout` and
`KickoutOnlineUser` go to `RemoveFind` and `RemoveDelete`, the two commands of
`removeSession`. `SetEnabled` is any of `UserStatus`, `DeleteUser`, `UpdateUser`: one UPDATE
that touches no session. `Tick` lets every key's life go down by one and drops it at zero.

The store promises less than its users may think. `touchSession` writes back the
session that was read one command earlier: after a logout, a kick-out, or a newer
login in the same slot it brings the old session back, in the last case in place
of the new one. The properties say exactly how far that goes: a session that has
left Redis **and that no request carries any more** is gone for good
(`DeadStaysDead`), which is also when the abstract registry calls it closed
(`RegistryContract`). An account that is disabled stays out once it has no session, in Redis or in
a request, **and no login that read its row before** (`DisabledStaysOut`): such a login makes
a session afterwards.

### LoginLimit

`Check` is `assertLoginNotLocked`, `Compare` the password, `Incr` and `Expire` the two
commands of `recordLoginFailure`, `Clear` the DEL after a success. `SetConfig` makes
`login.lockSeconds` unreadable and readable again. `cut` remembers the names whose
counter a login created and then left without an expiry.

### Hierarchy

`table` chooses the code that runs: menus look the parent up before the walk,
departments after it, and departments also count their users. `isMenuDescendant` and
`isDeptDescendant` read all live rows in one query and walk in memory, so a walk is one action
over the rows of that moment; it refuses, accepts, reads nothing (the error of the query is
dropped) or, on a cycle, recurses until the stack overflows, which ends the whole process
(`WalkOverflows`).
Three variables are history, and say of each request and row what the properties need to know.
`doubtful` are the requests whose walk may be wrong by now, because another row was moved since or the
query failed; `dubious` the live rows that such a request moved last; `raced` the rows that
one request was about to refer to and another about to delete, both past their checks, as long as
they are gone or their deletion may still come. `CycleNeedsRaceOrError` and `NoStrandingUnlessRaced`
speak of the rows these sets leave out, at any time: a race among some rows takes nothing from what
holds of the others, and a moved row is beyond doubt again as soon as a move of it went undisturbed.

### TreeView

`View(order)` is `buildMenuTree` and `buildDeptTree` for rows in that order, a tree being
the set of its paths from the top. The code attaches each row **by value** to its parent: the copy
has the children the row had got by then. `ViewShowsWhatComesFirst` says for every forest
that `Hierarchy` can produce, every set of rows a query may pick from it and every order, exactly
what comes out: the two uppermost levels whole, a deeper row if each row on its path
below the second level comes before its parent, and a row at the top if its
parent is not among the rows (deleted, disabled, a button). `visible` is the climb of
`menuTreeForUser`; `UserMenusAreClosed` says that it finds the same menus in whatever order the
grants come. Both are state functions without steps of their own: they are checked in the quiescent
states of `Hierarchy`. The loops of the code are recursive functions: of the number of rows that
have been attached (`below`), of the number of grants that have been followed (`seen`), and of the
place a climb has got to together with the rows it has passed (`way`, over `Climbs`).

### Access

A request reads its actor's roles (`Begin`), the permission codes (`PermitMenus`), passes the
guard (`GuardActor`, `GuardTarget`), finds what it needs (`FindUser`, `FindRoles`, `FindRole`,
`CountHolders`, `FindMenus`) and writes once. `first` and `afterGuard` are the order of these
statements in each handler. The transaction of an assignment (DELETE, then INSERTs) is
one action. `superRole` is the row with the code SUPER_ADMIN, a unique key: `UpdateRole` takes the
code from the builtin role or gives it to another, and `isSuper` goes by the code. Menus are rows without a tree here: `DeleteMenu`'s count of children is in `Hierarchy`.
Three variables are history: `raced` are the roles that one request was about to give to a user and another
about to delete, both past their checks, as long as they are gone or the deletion may still come; `outrun` the
requests whose actor lost SUPER_ADMIN, or whose target got it, after their guard and before their write; `bereft` those
whose target was deleted after their lookup and before their write. What changes before the guard or the lookup, or after
the write, puts no request into these sets. `DeletedRoleHasNoHolder` leaves out the roles in `raced`: a race over one role
takes nothing from what holds of the others. `SuperUsersAreProtected` looks at what happens to those who hold
SUPER_ADMIN, whoever does it: it leaves out `outrun`, since the guard and the write are different statements, and
`UpdateUser`, whose UPDATE of the status comes without the guard. `DeletedIsLeftAlone` says in the same way that a deleted
row keeps its status, its code and its assignments, but for `bereft`.

### Dict

`FindType`, `ClearDefault` and then `Insert`, `Update` or `UpdateNothing` are the statements of
`saveDictItem`, the last for a row that is gone, which the code answers with success.
`TypeRow`, `CountItems`, `DeleteType` are `DeleteDictType`; `ItemRow`, `DeleteItem` are
`DeleteDictItem`. `typeOf` and `defaults` are the columns `dict_type_id` and `is_default`. The flag
`builtin` only makes a deletion end early, as `Fail` does anyway. `kept` and `hurt` are history:
the types that were given a default nobody took away, and those where a save cleared
the old default and then wrote none.

Two saves that both clear before either writes leave two defaults. `DefaultsAreBounded` says that it
never gets worse than that: the defaults of a type are no more than the requests that can
be in progress at one time, however many came before. `DefaultIsKept` says that the
only ways to lose a default without asking for it are the ones in `hurt`.
`ItemsHaveTypes` leaves out the types in `raced` only, those that one request was about to delete while
another, past its lookup of the type, was about to save an item to it: the count before the deletion
does not keep such a save from writing.

### Jobs and Identifiers

`RunJob` answers and leaves a goroutine with a copy of the job; `Clock` and `Number` are the two steps of
`NewID`, `Create` the INSERT of the RUNNING row, `ScriptEnds` and `Timeout` the ends of `executeJobTarget`,
`Complete` the last UPDATE. Either write may fail without anyone looking. `Restart` is a stop and a start of the process
at any moment: the goroutines are gone, the rows stay, the counter starts again. `Others` call `NewID` too.
An id is the pair of a millisecond and a number below `SequenceSize` (4096 in the code). `mishaps`
are the milliseconds in which the process was restarted, to or past which the clock was set back, that
saw more calls than there are numbers, or whose number a call that had read them took in another
millisecond; `repeated` are the ids given twice. An id that is given twice bears one of these milliseconds, so
one mishap spoils no id of another time. `orphans` are the rows whose run was stopped or could not
write. `RunJob` reads no status: a disabled job runs as well, and a deleted job's runs go on.
`UpdateJob` and `JobStatus` write columns no run reads, so they are no actions here.

### ApiRoutes, ApiContract, Api

A handler is a sequence of stages in the order of the code: each names the codes it may refuse
with, whether it needs the row of the path to be there, and what passing it changes. `text`,
`body` and the like stand for checks of the input, `find` and `present` for queries, `change` for an
UPDATE or DELETE that changes something only if its row is there. `HTTPStatus` is the mapping
of codes to statuses. `Api` sends one request through the chain of its route: session, permission,
handler, operation log, with the panic that passes the log by. The routes stand in the groups of
`router.go` (`PublicRoutes`, `OwnRoutes`, `UserRoutes` and so on), a parameter of a path is written as
the router writes it (`:id`, where the document has braces). `ApiContract` is the document,
path by path. One request at a time is enough here, as overlapping ones are in the other modules.

## 3. What TLC checks

| Run | Instance | States | Question |
|---|---|---|---|
| `sessions` | 2 accounts, 3 device names in 2 slots each, 2 tokens, 2 requests, timeout 2 | 79 684 | safety of the store, that it implements the registry, and that a session which is not used any more leaves Redis |
| `session_age` | 1 account, 1 slot, 1 token, 1 request, active timeout 2, token timeout 4 | violation | `token.timeout-seconds` is honoured |
| `login_limit` | 1 name, 3 logins, limit 2, lock 2 ticks | 3 882 | overshoot, counters without expiry, locks end |
| `login_lock_forever` | the same | violation | every lock ends |
| `hierarchy` | 3 rows, 1 user, 2 requests, both tables, walks may read nothing | 1 225 403 | cycles, stranded rows and users, late writes, what the lists show |
| `hierarchy_race` | the same, `QueriesFail` FALSE | violation | no cycle |
| `tree_levels` | the same | violation | every row is in the list |
| `access` | 2 users, 2 roles, 1 menu, 2 requests | 650 074 | what the checks guarantee at the write |
| `access_deleted_menu` | the same | violation | a deleted menu grants nothing |
| `dict` | 2 types, 3 items, 2 requests | 802 518 | how many defaults, when none, items and their types |
| `jobs` | 1 job, 2 runs, 1 other caller of `NewID`, 3 calls, 2 numbers, 2 milliseconds | 431 616 | what the run log says of a run, when ids repeat, that runs end |
| `api` | all routes, with and without their row | 2 831 | refusals, successes, documented access, operation log |

Why the bounds are enough. Two requests are what every race here needs: one that
reads and one that writes in between. Two accounts tell a removal that hits another
account from one that does not; two names of one device class and a third of another
tell a slot from a device name; two tokens let a slot be taken over, and a second session be there when the first is removed. Three concurrent logins against a limit of
two are more than the limit, so that all can be past the check together. Three rows
give the smallest tree in which a grandchild differs from a child. In `Access` the two
requests may overlap or follow one another, and the initial states are every set of
assignments in which somebody holds SUPER_ADMIN, so that longer histories would
add little but the states they start from; `MaxRequests` is that bound. In `Dict` the third item would be a
third default, one more than the requests, and the second type tells clearing a type
from clearing everything. In `Jobs` two numbers make the counter wrap
and three calls are more than it has; two runs and a third caller can be given the same id, and two
milliseconds are what a preempted call and a clock set back need. `api` is exhaustive: the
routes are the constants. Three rows are also the smallest tree that shows what `buildMenuTree` does to a third
level. `TokenTimeout`
also bounds the age that `SessionAge` counts. Deadlock is checked except in `Access`, where the
requests run out. Symmetry is used in runs without liveness properties only.

Fairness. `WF(Tick)`: time passes in Redis whatever the server does. `WF(Step(r))` in
`LoginLimit`: the goroutine of a login that was accepted runs on. `Fail` is never fair: nothing
obliges a request to break, and nothing forbids it. No client is obliged to send
anything. In `Jobs` each step of a goroutine that waits for nothing is fair, and so is `Timeout`, since the
context of a script ends after 30 minutes; `ScriptEnds`, the clock and a restart are not. `IdleSessionExpires` therefore needs `WF(Tick)` alone.

### What the violated runs show

* `session_age`: each touch gives a session a new 1800-second life and nothing looks
  at the login date, so a session in use never ends. The development list claims both
  timeouts.
* `login_lock_forever`: INCR creates the counter, EXPIRE is sent after a read of
  `login.lockSeconds` from MySQL. If that fails, or the client hangs up, the counter has
  no expiry; once such counters reach the limit no login gets as far as EXPIRE again.
* `hierarchy_race`: two administrators move two rows under one another at once.
* `tree_levels`: a row of the third level that is sorted after its parent is in no list, because
  its parent has been copied into the level above by then. The buttons of every page in
  the shipped sample data are such rows, so the list of menus shows none of them.
* `access_deleted_menu`: the Go query for permission codes does not look at
  `sys_menu.deleted`; the Java one does.

### Other differences met

No run is spent on these; the first two groups can be read off `Api`, whose exceptions are spelled out in the
properties.

* Answers the OpenAPI document does not name: 46 pairs of an operation and a status (33 times 400,
  12 times 404, and the 401 of a login). It names a 409 for the deletion of menus, departments and
  dictionary types, where the code answers 400 (codes 400301, 400401, 400501 are no entries of `HTTPStatus`).
* The 18 PUT and DELETE operations of `Unchecked`, and the reset of a password, write without looking for the
  row and answer 200 when it is not there; for the update and deletion of departments and jobs and some others the document promises a 404.
  A kick-out, a logout and the unlocking of an account end with a DEL in Redis that may meet nothing, and answer 200 too.
* `UpdateUser` writes `status` without `assertNotSuperAdminTarget`, which `UserStatus` calls and which Java
  calls in its update as well (in `Access` it is therefore not among `GuardedOps`,
  and `SuperUsersAreProtected` names it as an exception).
* The permission codes of a user come from all roles assigned, disabled ones included, because the query
  joins `sys_user_role` with `sys_role_menu` without `sys_role`.
* `UploadFile` checks size and extension and stores nothing; doc/multi-backend-development-list.md:46 lists
  upload with storage as done.
* Unique keys count deleted rows, the checks for a code that is taken do not: the code of a deleted
  department cannot be used again, and the answer is a 500.

## 4. What is proved

All theorems hold for every value of the constants, under the assumptions
named in the modules (an absent value is not a value; limits are positive; the
requests of `LoginLimit` and `Dict` and the rows of a table are finitely many; the counter of `NewID` has
at least one number). They cover every invariant and every action property that a passing run checks, and the
refinement.

* `SessionsProofs`. `TypeCorrect`; `OnlyIssuedSessions`; `DeadSessionsStayDead`; `DisabledAccountsStayOut`; `RemovalsAreTargeted`;
  `StoreImplementsRegistry`. The invariant is `TypeOK /\ SessionsAreIssued /\ TargetFound`: `SessionsAreIssued`
  says that all copies stem from logins and tokens are unique, and `TargetFound` that a request
  about to delete holds a session with the token it is to remove, without which
  nothing ties the key that is deleted to the token that was sought. The action properties
  follow from it step by step, `DisabledAccountsStayOut` with `LetInWhenEnabled`: a login gets past the check only for an
  enabled account; the refinement maps every action to a registry step or
  a stutter.
* `LoginLimitProofs`. `TypeCorrect`; `OvershootBounded`, whose invariant counts the failures together
  with the logins that may still add one, so that passing the check moves a login from one
  side to the other; `OnlyCutLoginsLeaveNoExpiry`.
* `HierarchyProofs`. `TypeCorrect`; `DeletedRowsStayPut`; `CyclesNeedRaceOrError`; `StrandingNeedsRace`. That the rows
  outside `dubious` are on no cycle of their own is
  not inductive: between a walk and its UPDATE other requests create, move and delete rows.
  `CycleInv` adds that parents are known rows, and that the row of every request which has walked and is not
  doubtful is still separated from its
  new parent by a set of rows closed under "child of". Being below a row is written with
  closed sets instead of paths, so that no step needs induction. `StrandInv` adds to its property that every
  contested row is in `raced`, and that what a request looked up or counted about a row outside of
  `raced` still holds (`Relies`).
  `ListsShowWhatComesFirst` and `MenusOfUsersAreClosed` are about `TreeView`, and need of the states only that
  parents are known rows. Each states the invariant of a loop and shows it for every
  number of turns (by the smallest number that would refute it, `SmallestNumber`, as the prover
  cannot use an induction theorem). For the list: after `i` turns what hangs below a row are the
  paths that start at a child of it among the first `i` rows and go down along rows each of which comes before its
  parent (`PathsBelow`, `AttachAddsPaths`). For the menus of a user: after `i` grants
  the rows that were seen are those on the way up from one of them (`LeadingTo`, `GrantAddsWayUp`), where the way up from a
  row is the smallest set of enabled rows that holds it and is closed under parents, so a climb that stops at a row it
  has seen loses nothing (`ClimbAddsWayUp`). `LeadingToByPaths` turns that into the paths of the property. The
  finiteness of the rows is what makes a climb end (`NodesAssumption`).
* `AccessProofs`. `TypeCorrect`; `DeletedRolesHaveNoHolders`; `SuperUsersStayProtected`; `DeletedRowsAreLeftAlone`. `AccessInv` says
  that a request at a control point belongs to an operation that goes there (`OnPath`), that what the
  guard of a request that is not `outrun` and the lookup of one that is not `bereft` found out still holds (`Entitled`, `Finds`), that what any request found out about a role nobody
  races for still holds (`Relies`: it is not deleted before it is given away, and has no holder before it is deleted), and
  that a contested role is in `raced`. Without `Relies`, `Entitled` and `Finds` the properties are not inductive, as the writes look at nothing.
  `NamesKnown` adds that a request writes to a row that exists or creates one, so that no creation touches a deleted row.
* `DictProofs`. `TypeCorrect`; `DefaultsBounded`; `DefaultsAreKept`; `ItemsKeepTypes`. The bound on the defaults is not
  inductive, since a save may be about to add one. `BoundInv` counts it in: a save that has
  cleared and not yet written holds a claim, and the defaults that no claim is about to
  write again can be mapped one to one to requests without a claim. Clearing leaves
  no such default; a write turns the claim of its request into one. `RaceInv` says for the items what
  `StrandInv` says for the trees.

* `JobsProofs`. `TypeCorrect`; `RunningRowsHaveRuns`, inductive as it stands; `FinalRowsStayFinal`, from the invariant
  that a run whose id nobody else was given owns its row; `RepeatsNeedMishap`. For the last, `FreshInv` measures how
  far back in the counter an issued number of the current millisecond lies: for a millisecond without a mishap
  that distance is less than what was taken in it, so the next number would have to be a whole
  round away to repeat one, and no id bears such a millisecond before it has come.

* `ApiProofs`. `TypeCorrect`; `RefusalsChangeNothing`; `SuccessesHaveEffect`; `AccessIsDocumented`; `ChangesAreInTheLog`. A handler is of one
  of four kinds: it only looks (`Looks`), it looks and finds its row (`Finds`), it refuses in time (`Refusers`: no
  refusal behind a stage that may have changed something, `Safe`), or it does that and is sure to have changed something at its end
  (`Writers`). The first lemmas say how these kinds come out of the order of
  stages (`LookFirst`, `WriteOn`, `FindAndChange`, `TryLast`), the next ones give each of the handlers its kind
  (`ReadersLook`, `WritersWrite`, `RefusersRefuse`). `Sound` says that a route fits what the document and the operation log have
  for it, and is shown group by group. `IInv` then speaks of what is left of the handler under way:
  it cannot refuse what has changed something (`Safe`, `Harmless`), it has still to change what has not been changed (`WillChange`), and its
  codes lead to statuses the document allows. The properties themselves speak of the answer only and are not inductive.
  The exceptions (`RefusesLate`, `MayMiss`, the login, the routes without a row in the log) are those of the properties.

Only model-checked: the liveness properties (`IdleSessionExpires`, `LockEnds`, `RunEnds`), as liveness under fairness is out of
reach of the provers here, and what the violated runs show, which is that something does not hold.

## 5. Not modelled

The Java, Python and Rust backends implement the same contract on other frameworks;
Java served to tell what the contract is. The front ends follow the answers of the
backend. Start-up, the clients of MySQL and Redis, export and password hashing hold no state of this program
that another operation reads. The request log and the login log are written and not read; masking and cutting their texts
is string processing. Within the modelled components: contact data, names, passwords and most codes; the leader, the code and
the status of a department; the flag `builtin` of the dictionary, which `UpdateDictType` may write; which inputs
a check refuses and what a list filters by. Configurations and print templates have handlers in `ApiRoutes` and no
rows: their checks read a flag that never changes or a code that a unique key guards.

## 6. Plan

*Done:* sessions, login limit, trees and what the lists show of them, access control with roles that change their code,
dictionary, jobs and identifiers, routes against the document; proofs of all safety properties the passing
runs check.

*Left,* in this order:

1. Compose `Sessions` with `Access`: what an actor whose account or role changes in
   mid-session can still do, and for how long.
2. The `builtin` flag of the dictionary, and the leader of a department as one more row a deletion can strand.
3. `sys_config` as rows under the reads of `LoginLimit`.
