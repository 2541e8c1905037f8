# A TLA+ model of the permissions demo

The repository is a demonstration of fine-grained permissions: an HTTP service
keeps users, groups, roles, bindings and a tree of resources in SQLite,
translates them into OpenFGA relationship tuples, and answers authorization
questions from OpenFGA. Paths below are relative to the repository's root.

What is hard in it is the pair of stores. Every mutation changes SQLite first
and then runs `Service.Sync`, which reads all tables in separate statements,
computes every tuple the policy asks for, compares them with the tuples it
recorded last, writes the difference to OpenFGA and records the new set. There
is no transaction over the two, no lock around `Sync`, and the process may end
between any two calls. Around that pair are a start-up that creates its own
store and model in OpenFGA and remembers their ids, a generated HTTP client and
server, and a protocol between editors of a role (`If-Match` and previews).

## Inventory

| Part | State | Operations | Interacts with | What makes it correct |
| :-- | :-- | :-- | :-- | :-- |
| Permission catalogue, `internal/catalog/catalog.go` | none (tables in the code) | `Permission`, `Relation`, `Supports`, `ParentRule`, `CreatePermission`, ... | called by the three below | agrees with `model.fga` on relation names |
| OpenFGA adapter, `internal/openfga/openfga.go` and `model.fga` | the ids of the OpenFGA store and model (in `settings`) | `Bootstrap`, `Check`, `Write`, `PermissionTuples`, `SubjectTuple`, ... | OpenFGA by HTTP | decisions from the tuples of a binding are those the binding means; OpenFGA accepts them all |
| Store, `internal/store/store.go` | tables users, groups, group_members, roles, role_permissions, bindings, resources, synced_tuples, settings, audit | one statement or transaction for each operation, `seed` | one SQLite connection shared by all goroutines | keys; role revisions; one compatibility binding |
| Service, `internal/service/service.go` | none of its own | 12 mutations, reads, `Check`, `Sync` | store and adapter, from one goroutine per request | only authorized requests change the policy; what is answered with success is in force; OpenFGA follows the policy through failures |
| Process, `cmd/server/main.go` | whether it listens | open, seed, `Bootstrap` with retries, `Sync`, listen, shut down | all of the above | startup reconciles before it serves |
| HTTP adapter, `internal/httpapi/server.go` | none | one method per endpoint, the identity middleware, a mapping of errors per endpoint | service | nobody unnamed reaches the service; no failure is told as a success, no change as a refusal |
| OpenFGA (external) | stores, models, tuples | `CreateStore`, `WriteAuthorizationModel`, `Write` (one transaction), `Check` | - | - |
| `api/api.gen.go`, generated from `api/openapi.yaml` | none | requests built, routed, decoded; answers written and parsed | client and HTTP adapter | what the service is called with is what the caller meant |
| Client, `cmd/permissions-demo/main.go` | none | one HTTP request per command, with a timer | HTTP | says success only of what was done; always comes to an end |

Hard behaviours: handlers interleave between any two statements; a cancelled
request or a failing call stops a handler anywhere; SIGTERM ends `main` without
waiting for handlers; `seed` runs at every start over whatever a crash left;
`List` operations fetch row by row and fail on rows that disappear; checks
(preview, level of a revoke, children, authorization) are made in statements
before the one that relies on them. `PROJECT.json` lists each of them as a
hazard, at its line, with the properties that would catch it.

## Modules

| Module | Models | Correspondence |
| :-- | :-- | :-- |
| `Catalog` | `catalog.go` | A permission `a.b` is the pair `<<a, b>>`, a relation has the same shape. `Relation` and `InheritedRelation` do what `strings.NewReplacer` does in the code |
| `Translation` | `openfga.go` without `Bootstrap`, `model.fga`, OpenFGA's evaluation | Policy to tuples: `SubjectTuple`, `MembershipTuple`, `ParentTuple`, `PermissionTuples` (`Projectable` is the absence of its errors, `Repeats` that its list has a duplicate). Tuples to decisions: `GrantRelations`, `ParentTypes`, `FromParent` are model.fga, `Holds` is OpenFGA's Check, `Allows` is `Engine.Check` |
| `Store` | the tables and the queries over them | tables are sets of rows; `Project(policy)` is what a `Sync` that nobody disturbs computes. Also what a policy means, in its own terms (`Granted`), and what the keys and checks of the tables make of any policy (`WellFormed`) |
| `Decisions` | nothing new: a policy whose groups users join and leave | compares the decisions from `Project(policy)` with `Granted` |
| `Projection` | nothing: the abstract specification | the policy changes at will, the authority moves in one step to the projection of the policy of the moment |
| `PermissionService` | `service.go`, the writes of `store.go`, `main.go` | see below |
| `RoleEditing` | `GetRole`, `PreviewRoleUpdate`, `UpdateRole` of service and store, the `roles` commands | several clients edit one role, statement by statement; also the audit log, and what each client was shown |
| `Startup` | `main.go` of the server, `Bootstrap` of `openfga.go`, the settings table | one action for each call of the process; OpenFGA hands out ids; lost answers, signals, kills |
| `Tables` | nothing: tables kept in sections | `api.gen.go` goes through the operations section by section; `Joined` is the table of all sections |
| `ApiClient` | the client half of `api.gen.go` | tables of method, path template, body and header for each operation, what is put into a path and what becomes of it, the answers parsed |
| `ApiServer` | the server half of `api.gen.go` and the mux it registers with | routes, redirects, binding of path values and headers, decoding, how a response is written |
| `HttpServer` | `httpapi/server.go` | the middleware, and for each of the 28 operations the status of success and of each error |
| `Outcomes` | `service.go`, as seen by `httpapi` | for each operation the errors it may return with nothing changed, and those it may return after its change |
| `Exchange` | the client's `main.go`; composes `Startup` and the four above | one call, from the command to what is told of it, in a process that starts and ends as in `Startup` |
| `MCPermissionService`, `MCTranslation` (of `Decisions`), `MCRoleEditing`, `MCExchange` | instances | |
| `Translation_proofs`, `Decisions_proofs`, `PermissionService_proofs`, `PermissionService_serial`, `RoleEditing_proofs`, `Startup_proofs`, `Api_proofs`, `Exchange_proofs` | theorems | see Proofs |

`PermissionService` is about the policy and OpenFGA, with OpenFGA's store and
model given; `Startup` about which store and model those are, with the policy
given. `Exchange` takes the steps of `Startup` as they are and puts one call on
top, whose work in the service is reduced to the tables of `Outcomes`.
`RoleEditing` opens up what `PermissionService` has as one step, `GetRole`.

`PermissionService` has one action for each call on SQLite or OpenFGA. The
control state of goroutine `p` is `pc[p]`, its variables are `local[p]` and
`req[p]`. A mutation goes through `Authorize` (where the permission is needed,
and whether that resource is there), `Check` (OpenFGA's decision), `Validate`
(what the handler checks before it writes; `CreateBinding` and `CreateResource`
validate before they authorize, as in the code), for `UpdateRole` `PreviewRole`
and `PreviewBindings`, then the action named after the operation, which is its
one write, and the nine actions of `Sync`. `Start` is opening and seeding the
database; `Main` is the goroutine that runs the startup `Sync`; `Receive` needs
a server that is serving. `Abort` is any call that returns an error, `Crash`
the end of the process.

Choices a reader should know of:

- *Several reads, one action.* Rows of `users`, `groups` and `resources`, and
  bindings without the compatibility flag, are never updated: they appear once
  and may disappear (of users and groups, not even that). Ids that the service
  generates are uuids and do not come back. Statements that read only such rows
  one after the other are one action, because a row that is missing at the end
  makes the request fail whether it was missing earlier or not, and one that
  disappears after its look-up could as well have disappeared after all of
  them. `PreviewRole` also reads a role, but a role that changes after it
  fails the compare-and-swap in `UpdateRole`. Reads whose time matters
  (resources listed and fetched, memberships, each binding, each role,
  `synced_tuples`, the compatibility binding of a revoke) are actions of their
  own. `GetRole` reads the row and its permissions in two statements; of what
  `Sync` uses, the permissions, there is only the second.
- *Reads after the last write* are left out: `RevokeLegacy` ends with a `Check`
  for its answer, `CreateRole` and `UpdateRole` read their row again; none
  changes state and none is used. `RoleEditing` has those of `UpdateRole`, as
  there it matters what a client is shown.
- *Check and Write are atomic in OpenFGA*; the code asks for
  `HIGHER_CONSISTENCY`. Tuples are written by this service alone.
- *Requests that decoding or enum checks refuse* (unknown types, levels or
  permissions, empty names) read nothing and are left out, as are descriptions,
  display names, statuses, application configuration and, but for
  `RoleEditing`, the audit log.
- *`seed` inserts the permissions of built-in roles again* at every start; no
  request changes a built-in role, so nothing is added.
- *The tables of `Exchange`.* A path is the sequence of its segments. Names and
  ids that are no path segments (empty, `.`, `..`) are what the mux makes of
  them: a redirect to a cleaned path, after which the router may find another
  operation. Bodies are JSON, text or none; their fields are left out.
- *The 28 operations in `Exchange` have no policy.* Whether a call is refused,
  fails, or fails after its change is left open, each within what its code can
  return; `PermissionService` says when.

## Properties

Each is stated with its comment at the end of the module it is about
(`Decisions` for the translation).

*OpenFGA and the policy.* `Exact`: OpenFGA holds what was recorded last or the
projection of the present policy, never a mixture. `Implements`: the service
implements `Projection`. `SuccessIsEnforced`: when a request's Sync succeeds
the policy is in force. `StartupRepairs`: so it is after startup's Sync.
`StartupRecords`: startup records the policy of the moment, whatever races and
lost records came before. `EnforcedAtRest`, `Converges`: without failures,
nothing stays out of force. `DecidesAtRest`: at rest, whatever is asked is
answered as the policy means; this joins the translation with the
synchronization.

*The policy.* `AuthorizedChange`: whatever path a request takes to its write,
its actor has the permission it needs there. `UpdateKeepsSound`: a role update
leaves every binding with a projection. `RevokeLowers`,
`OneCompatibilityBinding`, `TreeIntact`.

*Editing roles.* `NoLostUpdate`: what an update replaces is what its sender was
shown. `PreviewIsKept`: an update that was previewed does what was reported.
Both rest on `ReadsAreNotBehind`: `GetRole` reads the row and its permissions in
two statements and may show the revision of one version with the permissions of
another, but only of a later one, and then comparing the revision refuses the
update. In the other order they would fail. `AuditIsHistory`: the "old" of an
audit entry, read before the transaction, is what was replaced.

*Start and end of the process.* `ServesRemembered`: whatever stores and models
were created and lost, what serves is the store and model that are remembered,
the model is one of that store, and the store has the policy's tuples.
`RecordOfRemembered`: `synced_tuples`, which does not say of which store, is
about the remembered one. `EngineThere`: the loop around `Bootstrap` can end
without an engine, and it is never called then. `StopsWhenTold`, `Bootstraps`.

*Calls.* `CalledAsMeant`: the service is called with what the command says, or
a read became another read; never a change. `Identified`, `Understood` (every
response is of the operation's own type and is parsed),
`RefusalChangesNothing` (after 401, 403 and 409 nothing has changed),
`SuccessIsDone`, `CallsEnd`.

*Translation.* `DecisionsFollowPolicy`: the decisions OpenFGA makes from the
projected tuples by the rules of `model.fga` are those the policy means
(`Granted`: some binding of the user, or of a group of theirs, has a role with
the permission and selects the resource, an ancestor, or exactly it).
`TuplesAccepted`, `DistinctTuples`.

*Progress.* `Answered`, `RequestsEnd`: every goroutine ends, with the loops of
`Sync` and of a preview, also when another request deletes the rows that they
are about to fetch.

## Runs

`tlc -config <run>.cfg <module>`; the module is `MCPermissionService` but for
`Translation` (`MCTranslation`), `RoleEditing` (`MCRoleEditing`), `Exchange` and
`DroppedError` (`MCExchange`). Deadlock is checked in all of them.

| Run | Instance | Shows |
| :-- | :-- | :-- |
| Policy | 1 handler; users, groups, members, a custom role, bindings to a group and with a mixed exact selector, role updates that do and do not fit; failing calls and crashes | `TypeOK`, `Exact`, `Implements`, `SuccessIsEnforced`, `StartupRepairs`, `UpdateKeepsSound` |
| Grants | 1 handler; grants and revokes of three levels by admin and by a user who gains and loses the right to make them, creation and deletion of applications and of a model; failing calls | `Exact`, `TreeIntact`, `RevokeLowers`, `AuthorizedChange` |
| Progress | 1 handler, no failures, fairness; each request that is followed by a Sync | `EnforcedAtRest`, `DecidesAtRest`, `Answered`, `Converges` |
| ConcurrentGrants | 2 handlers; grants and revokes of one user's access to one model while the seeded binding of admin is deleted; crashes and lost records; fairness | `OneCompatibilityBinding`, `StartupRecords`, `Answered` |
| RoleEditing | 2 clients that look at, preview and update one role, which is bound to a resource that does not support one of the two contents until the binding goes; any call fails, any answer is lost; fairness | `AuditIsHistory`, `ReadsAreNotBehind`, `NoLostUpdate`, `PreviewIsKept`, `RequestsEnd` |
| Translation | every binding to a user or a group, with each scope and each exact list of one or two of eight resources, with each single permission and each built-in role; pairs of bindings, one to a user and one to a group; users join and leave the group | `DecisionsFollowPolicy`, `TuplesAccepted`, `DistinctTuples` |
| Exchange | all 28 operations with and without a caller, with a body that is not JSON, without `If-Match`; each command with each of six names in each place; the process starting over what earlier ones left, with failing and unanswered OpenFGA calls, signals and kills; fairness | `ServesRemembered`, `RecordOfRemembered`, `EngineThere`, `CalledAsMeant`, `Identified`, `RefusalChangesNothing`, `SuccessIsDone`, `Understood`, `CallsEnd`, `StopsWhenTold`, `Bootstraps` |

What one handler cannot show. Policy, Grants and Progress have one request at a
time: they are about failures and crashes within a request and across restarts.
What happens between two requests is in ConcurrentGrants, RoleEditing and the
runs that end in a violation. In ConcurrentGrants rows vanish between a list and
the fetch of each row, and between an upsert and the read that follows it; and a
seeded row that was deleted comes back at the next start. Some properties of the
one-handler runs fail with two handlers; each is named below, and `PROJECT.json`
says at each hazard what is checked and what is not.

*Bounds.* The only unbounded counter of the code, the supply of uuids, is the
finite set `BindingId` or `ResourceId`: `Room` lets a request that needs one in
only while one is left. Two or three bindings and one or two created resources
are enough for a row to be read, deleted and replaced during a Sync. In
ConcurrentGrants, which checks liveness, two bindings can be created: both
handlers can be about to insert one. Role
revisions grow with updates only, and an update names the revision it expects,
so the requests bound them; in `RoleEditing` no update is sent from
`MaxRevision` on, which is 3, so that a version can be replaced by one that is
equal to an earlier one. The seed is that of `store.seed` with fewer
resources and with its roles cut down to the permissions the requests need and
some they do not; the roles of the real seed are all in `Translation`. Two
handlers are all that the races at hand need, each being between one reader and
one writer; three would only be needed for a race with an accomplice. In
`Translation` the tree has a resource of every type under every type of parent
and a second model. Every tuple of a binding has its own `grant:<id>`, so that
bindings hardly meet: pairs of them are only taken of three permissions and
three scopes, and any number of them is the matter of the theorem. In `Startup`, `MaxStore` and `MaxModel` are 2: a store or model
that is created and lost, and the one that is kept; `Spare` makes the last one
be kept, since OpenFGA's supply has no end and without it the process could run
out. In `Exchange` there is one call at a time (calls share nothing there but
the process), and a process that ended is started again between calls, not
during one. `MCNames` has an ordinary id, the three segments that paths treat
apart, and two words that are segments of the API's own paths.

*Fairness* (`FairSpec` of each module). `PermissionService`: weak fairness of
`Start` (the liveness properties are about a server that somebody starts;
`compose.yaml` has no restart policy), of each handler's calls and of each
`Sync`. The Go scheduler and the one database connection serve all goroutines in
turn, and OpenFGA is assumed to answer. `Receive`, `Abort` and `Crash` have
none: nobody has to send a request, and nothing has to fail. `RoleEditing`: weak
fairness of each handler, for the same reason. `Exchange`: weak fairness of the
process's own steps (they never wait but for the call they make, which the
context ends); strong fairness of the calls of `Bootstrap`, which says that a
call that is tried again and again succeeds at last, and is what the retry loop
is for; weak fairness of the client's timer and of its end. No fairness makes
OpenFGA or a handler answer a call, and none starts the process again.

### Runs that end in a violation

Where a document of the repository promises more than the code does, the run
checks that promise alone.

| Run | Property | Disagreement |
| :-- | :-- | :-- |
| LostRecord | `StartupRepairs` | `README.md`: "Startup reconciliation repairs the tuple projection". A request is cancelled between `Engine.Write` and `ReplaceSyncedTuples`, the next one undoes the change: desired and recorded tuples are equal, OpenFGA keeps the tuple, at every start again |
| SyncRace | `EnforcedAtRest` | `PERMISSIONS_API.md`: after a mutation the service "computes the complete desired set ... and writes the difference". Of two Syncs the one that read first may write last |
| Mismatch | `BindingsProjectable` | "Every role permission must match at least one selected resource type." `CreateBinding` stores the row first; the failing Sync then fails for every request and at startup |
| RevokeRace | `RevokeLowers` | "This prevents a mismatched revoke from accidentally upgrading access." The level is compared in an earlier statement than the change |
| DroppedError | `FailuresTold` | "An inability to obtain a decision fails closed and is reported as an error." The response mappers of the `List` operations know only `ErrForbidden`; for any other error they return nil, the generated handler writes nothing, net/http answers 200 and the client prints nothing |

`PERMISSIONS_API.md` itself says that this is "a demo-level reconciliation
mechanism, not a distributed transaction". The same machinery shows more (without runs):

- The race of SyncRace, without a failure or a crash, can leave OpenFGA and the
  record different for good. The second of two Syncs reads the record before the
  first has replaced it; its difference then deletes nothing of what the first
  wrote, and what it records has none of it. A tuple that OpenFGA holds and no
  record has is in no later difference, at startup neither, unless it is wanted
  again. `Exact`, `SuccessIsEnforced` and `Implements` fail with two handlers.
- `AuthorizedChange` fails with two handlers, when one deletes the binding that
  gave the other's actor the right it has just been found to have.
- "Deletion currently supports only leaf resources": `TreeIntact` fails with two
  handlers, when a child is created between `HasChildren` and the DELETE.
- `UpdateKeepsSound` fails with two handlers, when a binding is created between a
  preview and the update; `Exact` fails when an exact selector names a resource
  twice, which `openapi.yaml` forbids (`uniqueItems`) and nothing enforces;
  `StartupRepairs` fails when a crash interrupts the deletion of a seeded
  binding, which `seed` then inserts again under a record that still has it.
  These three, with LostRecord, are the conditions of `Serial`, below.
- The table of statuses in `PERMISSIONS_API.md` gives 503 to failures of the
  engine; most mappers give 400 or 404 to every error they do not know
  (`HttpServer`), also to an error after the change (`Outcomes`), while a check
  on a resource that does not exist is answered with 503.
- `main` calls `Shutdown` in a goroutine that it does not wait for: requests in
  flight are cut off at the end of the process (`Crash`, `HangUp`), though
  `Shutdown` is given time to drain them.
- When a seeded resource is deleted and another is created with its name, the
  `INSERT OR IGNORE` of the next start is ignored for it, for the name is taken,
  but not for its children, which come back without a parent: with crashes,
  `TreeIntact` fails in this way.

## Proofs

Checked by TLAPS, for every value of the constants that satisfies the named
assumptions of the modules. Those of `PermissionService` say that requests are
well-typed, that startup is not a handler, and of the seed what `store.seed`
shows: its rows are well-typed; ids of roles, bindings and resources are
distinct; compatibility bindings are on the controller, one to a subject; every
seeded binding has its role and can be projected; every seeded resource has a
parent of a type it may have, which is seeded too; and the three compatibility
roles are there. Those of `Decisions` say that the policies it begins with are
well-formed. Those of `RoleEditing` say that roles have permissions and that the
role fitted its bindings when it was created. `Startup` assumes positive
bounds, `Exchange` that calls have as many arguments as their operations take.

| Theorems | Hold for |
| :-- | :-- |
| `TypeCorrect`, `OneCompatibility`, `StartupRecorded`, `KeysHold`, `ParentsStayFit`, `PolicyIsWellFormed`, `ProjectionDecides` | any number of handlers, all faults |
| `HandlersInvariant`, `ChangesAreAuthorized`, `RevokesLower`, `UpdatesKeepSound` | one handler, all faults |
| `TreeStaysIntact` | one handler, all faults; no request deletes a seeded resource if the process may crash |
| `SerialInvariant`, `SerialExact`, `SerialSuccess`, `SerialImplements` | `Serial` |
| `RestInvariant`, `EnforcedWithoutErrors`, `DecidesWithoutErrors` | `Serial`, no "error" fault |
| `DecisionsOfProjection`, `ProjectionAccepted` | any well-formed policy |
| those of `Decisions_proofs`, `RoleEditing_proofs`, `Startup_proofs`, `Api_proofs`, `Exchange_proofs` | all constants |

Each condition is needed: without it one of the counterexamples above, or the
ones named below, is a behaviour.

`Translation_proofs` is about the operators of `Catalog`, `Translation` and
`Store`:

- `DecisionsOfProjection`: for every well-formed policy, OpenFGA's answer over
  `Project(policy)` is `Granted`. The argument has three parts. Objects and
  relations of different resources and permissions differ (`ObjectsDiffer`,
  `RelationsDiffer`), so that a tuple of a binding answers the one question it
  is meant for (`GrantAnswers`, `SelectsByTarget`). A parent is one level above
  its child in the tree of types (`ParentIsHigher`), which has four levels, so
  that the rounds of questions to parents in `Holds` and the steps of `Lineage`
  reach the same resources: one round is one level (`OneLevelUp`,
  `QuestionsFollowLineage`). And the members of a group are those of the
  membership tuples (`GrantSubjects`). `Holds` and `Lineage` unroll a fixed
  number of rounds, so no induction is needed.
- `ProjectionAccepted`: every tuple of the projection has a place in
  `model.fga`, binding by binding (`BindingAccepted`).

`Decisions_proofs` carries both over to `DecisionsFollowPolicy`,
`TuplesAccepted` and, with `FinitePermissions` and `FiniteTargets`,
`DistinctTuples`; `PoliciesStayWellFormed` is the invariant.

`PermissionService_proofs`:

- `TypeCorrect`: `Spec => []TypeOK`. `TypeOK` is inductive because it says which
  rows a goroutine holds at which call, that a busy handler has a request, and
  that startup and handlers never run together.
- `OneCompatibility`: a user has at most one compatibility binding on a model.
  The strengthening, `CompatibilityInv`, says also that all compatibility
  bindings are on models or on the controller, as seeded. The
  argument is the transaction of `UpsertCompatibilityBinding`: look-up and
  insert are one step.
- `StartupRecorded`: startup's Sync records the projection of the policy of the
  moment. The invariant, `StartupInv`, has `Collected(Main)`: at each call, what
  the Sync has collected is that part of the projection of the *present*
  policy, since nothing else runs. It needs the roles' key, and nothing of what
  was recorded before.
- `KeysHold`, `ParentsStayFit` and from them `PolicyIsWellFormed`: what is in the
  tables is a policy the theorem on decisions is about, whatever races and
  failures there were. Hence `ProjectionDecides`: whenever OpenFGA holds the
  projection, every check is answered as the policy means. `DecidesAsPolicy` can
  only fail where `Projected` does. Parents fit because types are compared
  before the insert and never change (`ParentsInv`); whether the parent is still
  *there* is another matter, that of `TreeIntact`.
- `HandlersInvariant`: `Established` says for each call of a handler what it
  has learnt (where the permission is needed and that OpenFGA gave it; that the
  request is valid; that the role fits its bindings; which binding a revoke
  read), and that this is still so. It is inductive with one handler, as nobody
  else writes. `ChangesAreAuthorized`, `RevokesLower` and `UpdatesKeepSound`
  follow at the write. With two handlers each of the three fails.
- `TreeStaysIntact`: children are looked for before a delete, parents before an
  insert. `TreeSeeded` says that seeding finds all of its resources or none, for
  otherwise it may insert children of a row whose name is taken.

`PermissionService_serial`, under `Serial`: one handler; no `lost-record`
fault; no selector that names a resource twice; and if the process may crash,
no request that deletes seeded rows.

- `SerialInvariant`: `SerialInv` is inductive. Its heart is `Tracked`, which
  says for each call of `Sync` what has been collected: after the bindings loop
  has passed a set of bindings, their tuples and those of resources and
  memberships, each with the present rows. `Exact` alone is not inductive: it
  does not say that what a Sync is about to write is the projection. `Recorded`
  says who may be between write and record. `SeedKept` says that seeding again
  after a crash changes nothing, which is what keeps a projection that was
  written and not recorded equal to the projection of the policy.
- `SerialExact`, `SerialSuccess`, `SerialImplements`: `Exact`,
  `SuccessIsEnforced` and `StartupRepairs`, and the refinement of `Projection`,
  from the same invariant. The lemma `Difference` is the arithmetic of it:
  applying the difference between recorded and desired tuples gives the desired
  ones if OpenFGA holds either.
- `EnforcedWithoutErrors`, `DecidesWithoutErrors`: if no call fails, but the
  process may crash at any point, then whenever it serves and no request is in
  progress, `Projected` and `DecidesAsPolicy`, provided that every binding has a
  projection (Mismatch is a binding that has none). The invariant, `RestInv`,
  says that the policy is in force unless a handler is between its write and its
  answer, and why no Sync fails there: every binding has its role
  (`RolesFound`), what was listed is there to be fetched (`RowsThere`), and
  OpenFGA takes every tuple (`ProjectionAccepted`, through
  `PolicyIsWellFormed`). Writes that are answered without a Sync leave the
  projection as it is; for a new role that is the lemma `NewRole`.

`RoleEditing_proofs`, without further conditions, for any number of clients:

- `TypeCorrect`, `AuditTellsTheHistory`, `ShownIsNotBehind`, `NothingIsLost`,
  `PreviewsAreKept`. The invariant `EditInv` adds to the properties what each
  statement has learnt (`HasRead`): after the second statement of a `GetRole`
  the row is not behind, and where the revision has been compared it is the one
  the client was shown. If such a row's revision is still the role's, its
  permissions are the role's: that is what the UPDATE's condition on the
  revision checks. The lemma `Prolongs` says that an update leaves
  the history before it alone, which keeps `NotBehind` for everyone else.

`Startup_proofs`, for any number of attempts, crashes, lost answers and signals:

- `StartupTypeCorrect`, `ServesTheRemembered`, `RecordsTheRemembered`,
  `EngineIsThere`. `StartupInv` says for each call of `Bootstrap` what it has in
  hand: before `SetStore` the client's store exists and none is remembered, and
  so no tuple has been written; a remembered model is one of the remembered
  store.

`Exchange_proofs`:

- `ProcessUnderCalls`: `Exchange` implements `Startup`, every step of it is a
  step of the process or none; hence `ServesUnderCalls`.
- `RefusalsChangeNothing` (`ChangeInv`: the errors that a service returns after
  a change are none that becomes a 401, 403 or 409 for that operation),
  `OnlyTheIdentified` (`UserInv`: redirects keep the identity, or its absence),
  `SuccessesAreDone` (`DoneInv`: a write of the service that is told as a
  success was made and concluded).
- `ExchangeTypeCorrect`, `AnswersUnderstood`: `AnswerInv` adds to the types what
  is known of the operation and of the answer at each stage. From `Api_proofs`
  it takes that every handler answers within its own operation's responses, and
  that the client has a case for each of them (`AllUnderstand`,
  `WrittenUnderstood`), and that the service returns no error that the handlers
  do not know (`ServiceErrors`). `Serving` ties the call to the process.
- `CallsAsMeant`: `CalledInv` says that a request on its way `Asks` for the call
  it was made of, and that what it was routed to is what was meant by it.
- `SuccessesAreOfTheCall`: `CalledInv` with `DoneInv`, and `HeardInv`: a success
  is told only of what the service was called with.

`Api_proofs` has no state: it is about what the tables of `ApiClient`,
`ApiServer`, `HttpServer` and `Outcomes` say together, for any names. The
argument for `CallsAsMeant` is there.

- `Entries` puts the builder, the route and the wrapper of each of the 28
  operations side by side; five lemmas (`PlainOneStated` to `DoubleStated`)
  follow a path of each shape through `OperationPath` and `Resolve`, and
  `AllStated` collects them.
- A name that is a segment like any other (`Usual`) gives a path that is clean,
  has the length, the method and the words of its operation's pattern, and binds
  the same values (`Direct`); no other pattern has those (`RoutedOnce`). This
  includes names that are words of other routes, as a group called "members".
- The names "", "." and ".." change the path. At its end they leave a "/" that
  no pattern has (`DeadEnd`, `DeadEndUnrouted`). Before its last segment they
  leave a path that the mux redirects, or one that is shorter by one segment or
  two (`Astray`); such a path is that of another operation only from one read to
  another read (`AstrayHarmless`). Redirects keep a path dead or astray, also
  when the client turns the method into GET (`RedirectedAsks`).

`Directories` and `Named` are recursive functions; paths have at most four
segments, for which `DirectoriesAre` and `NamedAre` spell them out, so that no
induction is needed.

Only model-checked: liveness (`Answered`, `Converges`, `RequestsEnd`,
`CallsEnd`, `StopsWhenTold`, `Bootstraps`), which is out of the prover's reach.
Every invariant and every action property of a run is a theorem.

## Not modelled

- The fields of request bodies and the one query parameter: the service checks
  what matters in them, and `PermissionService` takes its requests from there.
  The copy of `openapi.yaml` that is embedded in `api.gen.go` and its decoding.
- Parsing of flags and the layout of output in the client.
- `UpdateApplicationConfig`, `ListResources` and the other reads: only by their
  outcomes (`Outcomes`); no decision depends on a configuration.
- `Reset`: nothing calls it.
- OpenFGA's limit on tuples per write, and a write that takes effect after the
  service has given it up: see hazards.
- `database/sql`'s connection pool.

## Plan

Done: the modules and proofs above.

1. A late OpenFGA write: `Abort` during `Write` with its effect in a later
   step; which of the properties survive.
2. Reads: `ListResources` with its check per item, `GetResource`, configuration
   and SSH as actions of handlers of `PermissionService`. Property: nothing is
   shown that the reader had no permission for when it was checked.
3. Proofs: that the versions of a role in
   `RoleEditing` are those of `PermissionService`.
