# One Bridge in TLA+

One Bridge is a Home Assistant integration through which a GPT client reads a
Home Assistant installation and changes it: every change is first *prepared*
(validated, bound to a `prepare_id`, a digest and a session), then reviewed, and
then *applied* under an idempotency key.  This directory models the parts of it
whose correctness depends on the order of events, checks them with TLC and
proves the central facts with TLAPS.

Paths below are relative to `src/custom_components/one_bridge/`.

## The system

Everything runs in Home Assistant's asyncio event loop: code between two
suspending `await`s is atomic.  The awaits that really suspend are the audit
append (a lock and a disk write), jobs of the executor (backups, files, SMTP,
IMAP), calls of Home Assistant services and the internal websocket.  The locks of
`prepared.py` and `idempotency.py` are never held across one of them, so each
coroutine of these two stores is one atomic step.

| Component | State | Operations | What makes it correct |
|---|---|---|---|
| Prepared store (`prepared.py`) | prepared mutations with expiry, `in_flight`, `consumed` | `create`, `begin_apply`, `finish`, `status`, prune | an id is handed out once; a running one is never called ready |
| Idempotency store (`idempotency.py`) | bounded map key → fingerprint, in flight, result | `begin`, `finish`, `abort` | in-flight keys are never evicted; results are stable and leave oldest first |
| Apply engine (`engine.py`) | the requests under way | receive, begin key, start, handler, classify failure, settle key, receipts | a change happens at most once; a key or item stays in flight only while somebody executes it, or after a cancellation; replays tell the truth; every apply ends |
| Audit log (`audit.py`) | hash-chained records, in memory and on disk | `append`, `async_load` | one chain, never rewound, no saved record lost, the lock is released |
| Object edits (`lovelace.py`, `registry.py`, `helpers.py`, `file_ops.py`, `backup.py`, `ws_client.py`) | dashboards, registry entries, helpers, files of Home Assistant | prepare, check digest, back up, write, verify, compensate or roll back | exactly what was prepared, or nothing; stale prepares are refused |
| Mail (`mail_ops.py`, `mail_runtime.py`) | entry options; messages at SMTP and IMAP | send with archive and fallback, detect the Sent folder, set the fallback | a call brings nobody a mail twice, answers are truthful, records are not overwritten |
| Other handlers (`engine.py`) | none of their own; jobs and firmware of the Device Builder | service, sequence, config entry, core, supervisor, HACS, ESPHome | `not_applied` means nothing was done; a partial sequence is told exactly; an upload flashes its build |
| Authorization (`auth.py`, `views.py`) | recent calls per session and bucket; recent failures per address | identity check, authorization, rate limit, token and revocation proxy | every operation that runs was permitted as a whole at one moment; a client that waits longer than its hint gets in; a denied client keeps no session |
| Configuration (`config.py`, `config_flow.py`) | private file, entry options, runtime configuration | setup, options flow with staged save and rollback | an accepted configuration survives, a rejected one leaves no trace |
| Patches (`json_patch.py`, `file_ops.py`) | none | JSON patch, exact line patch | the result is what was asked of the original |
| Catalog and dispatch (`dispatch.py`, `operations.py`, the two catalogs) | none | resolve, validate, list | only declared operations with valid arguments run |
| Setup, entities, redaction | none | registration, queries, formatting | stateless |

Interactions: a view authorizes a request and calls the engine.  A prepare
operation reads Home Assistant and calls `PreparedMutationStore.create`; the
patch algorithms compute what a JSON or line patch makes of what it read.
`change.apply` appends `received` to the audit log, begins its idempotency key,
appends `started`, calls `begin_apply`, runs the handler of the operation, calls
`finish` on the prepared mutation, finishes or aborts the key and appends a
receipt.  The legacy endpoint calls `apply_mutation` without a key.  A mail
mutation is a `service.call` of a service that One Bridge registers itself, which
finds its material in the prepared store; automations and other prepared calls may
call that service too while the mutation is in flight.  `system.prepare.status` reads the
prepared store, `system.apply.status` the newest record of the audit log.  A save
in the options flow swaps the configuration that authorization reads, also in the
middle of requests.

What is hard: requests for one mutation interleave at every await and arrive on
two routes and under several keys; items expire, are pruned and are evicted while
their handlers run; a restart loses both stores but not the audit log; others
write the same dashboards, registries, files and options between any two awaits;
websocket answers and SMTP connections are lost after the far side acted; Home
Assistant cancels a request whose client disconnects, at whichever await it is;
compensations and rollbacks can fail themselves; a configuration, a user or a
session changes while a request waits for its body.  `PROJECT.json` lists these
hazards at their lines with the properties that cover them.

## Modules

| Module | Models | State and actions |
|---|---|---|
| `OneShot` | what a prepared mutation promises | one phase per id: unminted, open, running, closed; only four moves |
| `PreparedStore` | `prepared.py` | `items` is `_items`; `Create`, `BeginGranted`/`BeginRefused`, `FinishApply`, `Status` are its coroutines, each with its prune or its pop of an expired item; `AbandonApply` is a caller that is cancelled; `Tick` and `RestartPrepared` are the environment |
| `IdempotencyStore` | `idempotency.py` | `entries` is `_entries`, with the number of the insertion for the order of the dict; `BeginExecute`, `Replays`/`Refuses`, `FinishEntry`, `AbortEntry` |
| `ApplyEngine` | `engine.py` `_apply_request`, `apply_mutation`, `execute_direct_mutation` | `pc[r]` is the await a request waits at, `cancelled` the requests whose client went away; composes the two stores by `INSTANCE` over shared variables |
| `AuditLog` | `audit.py` | `queue` is the lock with its waiters, `saving` what `async_save` was given, `disk` the file |
| `RateLimit` | `auth.py` `_check_api_rate` | `log` and `popped` are the deque of each bucket; `Admit`, `Refuse`, `Pass` |
| `ObjectEdits` | the handlers that edit one object | `at[a]` is the await a run is at; one action per check, backup, write, verification, compensation, rollback; `Edit` is everybody else |
| `ActionRuns` | the handlers that act on something outside | `point` is the await the run is at, `results` of a sequence, `builds` and `binary` of the Device Builder; one action per check and call, `Others` is everybody else's editing and compiling |
| `FilePatch` | `prepare_file_patch` | one action per patch that is located, then overlap and replacement; `InOrder` is the stable sort, by rank; checked against the replacement of all blocks at once |
| `JsonPatch` | `json_patch.py` `apply_patch` | one action per operation on the document; checked against RFC 6902 stated over the set of a document's places, with the exceptions of `Expected` |
| `MailRuns` | the three mail mutations | `options` are the entry's options, `copies` and `filed` what reached mailboxes and the Sent folder; one action per network exchange; `CallAgain` is a further call of a service for the same prepared mail |
| `Permissions` | `resolve_allowed_capabilities`, `resolve_raw_permissions`, `enforce_capability_policy` | operators over a table of presets |
| `Access` | `BridgeAuthorizer`, the public and the direct views, the policy of an operation | `at[r]` is where a request waits; extends `RateLimit` and `Permissions`; `Outside` changes configuration, users and sessions |
| `OAuthProxy` | the token and the revocation proxy with their failure limiters | extends `Access` by `stage[x]` of each exchange; Home Assistant's endpoint is external and its answer may be lost |
| `OptionsFlow` | `config_flow.py`, `_load_file`, setup in `__init__.py` | `file` is the private file, `runtime` what the bridge enforces, `flow[f]` an options dialog; one action per form, write, reload, activation, rollback, and start |
| `...Limits` | constants and their assumptions | shared by a module and the instances that compose it |
| `MC...` | instances for TLC | constants, request sets, symmetry |
| `..._proofs` | theorems | see below |

`MCStores`, `MCMutations` and `MCExchanges` put modules that share no variable into one
instance: a behaviour picks one of them as its subject and the others stay as they
begin, so nothing is lost and nothing is multiplied.  The compositions that matter are
inside the modules: `ApplyEngine` over the two stores, `OAuthProxy` over `Access`
over `RateLimit` and `Permissions`.

Abstractions, and why they lose nothing the properties see:

* A `prepare_id` holds 192 random bits and its digest covers it, so ids are never
  reused and a digest is named by its id.  Likewise an audit hash is named by the
  record's number and a content digest by the content.
* `begin_apply` reads the clock twice; the second reading may be one tick later.
* A dict's insertion order is a number in the entry.
* `ApplyEngine` treats a handler as one change with an arbitrary end: success, or
  an exception with any outcome marker, before or after the change.  `ObjectEdits`,
  `MailRuns` and `ActionRuns` open it up, and leave the requests around it out.
* A disconnecting client cancels its request at any await (`Cancel`): `views.py` does
  not shield it, and `CancelledError` passes every `except Exception`.  The request
  keeps its place and all that it holds, and takes no further step, except that what
  its handler had already asked for may still happen (`LateChange`).  A cancelled
  append counts as not made; only `StatusTellsOutcome` reads the records, and it leaves
  mutations with a cancelled request aside.  The modules that open up the handlers, and
  those of the token proxy and the options flow, ask no fairness of a run or a dialog:
  one that stops for ever at an await is among their behaviours already.  What such a
  run never gets to is not promised: an exchange that is cancelled behind the upstream
  answer leaves a session that no client was told of.  `AuditLog` has no cancelled
  append (see *Not modelled*).
* `FinishEntry` and the answer to the client are in the step of the handler's end
  because no await that suspends lies between them.
* In `ObjectEdits` there is one object.  The digest of a whole collection, which a
  create is prepared against, is its absence or presence.  Files are replaced but
  do not vanish.
* A raw configuration keeps its permissions, lockdown, client secret and user
  allowlist; whether the rest of it passes `_load_file` is the field `usable`.
  `_apply_runtime_config` hands one configuration to all its holders without an
  await, so one variable stands for them.  `_write` is one step: two confirmations
  within one write would share its temporary file, which is not modelled.
* `accepted`, `crossed` and `live` in `OptionsFlow` are history: what was last
  accepted, whether a save has met another write or a crash since, and whether
  the bridge was given the accepted file.
* In `MailRuns` an address is folded to its mailbox by the constant `Box`.  A further call
  of a service is a run of its own with the same `mail`; its caller and its answer are
  left out.
* `ActionRuns` is one run at a time: it shares only the Device Builder with others,
  and `Others` may use that at any time.  A Supervisor call that returns `None` is
  not told from one that returns a result.
* `entitled` in `Access` is history: whether a request was wholly in order at some
  moment since it arrived.  `granted` and `born` in `OAuthProxy` are history too.
  `MCExchanges` follows API requests or token exchanges, not both: they meet only in the
  sessions, and what an exchange does to the session of a request
  `RemoveSession` does as well.
* A line is a word and whether it is ended, a text the sequence of its lines; two
  texts are equal if and only if their lines are.  A JSON scalar is a value; objects
  and lists are records with a function or a sequence, a `Failure` is what raises.  The
  code deep-copies what it puts into a document, so values are never shared.

## Runs

| Run | Instance | Shows |
|---|---|---|
| `stores` | prepared store: 2 ids, 2 sessions, TTL 2, clock to 4; cache: 4 keys, 2 fingerprints, 3 callers, capacity 2, 5 insertions; audit log: 3 tasks, log of 2, 5 records, 2 restarts; rate limit: buckets of 2 and 1 calls, window 5, clock to 7 | single use, honest status, `OneShot`; capacity, oldest first, stable replays; one chain, no rewind, saved records stay, appends end; no window over its limit, hints long enough |
| `apply_engine` | 2 requests, 2 ids, 2 keys, capacity 1, TTL 1, 1 restart, both routes | at most one change per id, outcomes and replays truthful, keys and items in flight only for a request that executes or was cancelled |
| `apply_liveness` | 2 requests, 1 id, 2 keys, capacity 1, 1 restart | every accepted apply ends or its client goes, the engine implements `OneShot` with liveness |
| `mutations` | object edits: 2 runs, 2 fields of 2 values, 1 foreign write, 4 families; line patches: every text of 3 lines over 2 words, 2 patches; JSON patches: 2 documents, 2 operations over 13 paths; actions: sequences of up to 3, 3 builds; options: 2 dialogs, 2 forms, 3 kinds of edits, 2 secrets, 1 edit, 1 restart | exact apply, all or nothing, stale prepares refused, registry changes survive field by field; patches as by their references; truthful reports, uploads of their build; saves that were alone settle, rejected ones leave no trace, nothing but a start switches the bridge off, a save changes only what was asked, permissions fit together |
| `exchanges` | access: an owner and a user, 3 sessions, 3 configurations, 1 request with calls to 2 buckets or 2 token exchanges, 2 changes around them; mail: 2 runs or calls, 4 spellings of 3 mailboxes, 2 senders, 1 change elsewhere | no operation on a patchwork of checks, every session of an exchange accounted for, failures bounded; no second copy from one call, truthful outcomes, only reviewed recipients, detections keep others' records |
| `apply_status` | as `apply_liveness`, no restart, capacity 2 | **violated**: finding 1 |
| `not_applied` | 1 run on a collection | **violated**: finding 2 |
| `file_rollback` | 1 run on a file, 1 foreign write | **violated**: finding 3 |
| `mail_settings` | mail as in `exchanges` | **violated**: finding 4 |
| `sequence_report` | as `mutations` | **violated**: finding 5 |
| `apply_cancelled` | as `apply_status` | **violated**: finding 6 |
| `mail_again` | mail as in `exchanges` | **violated**: finding 7 |

Why these bounds: two requests are the smallest number that race, two ids with a
cache of one entry force an eviction between them, a TTL of one or two ticks with
a clock beyond it lets an item expire before, during and after its run, and one
restart falls between any two steps.  Three tasks give the audit lock an owner and
two waiters, and five records wrap a log of two twice.  Three callers, a store of
two and four keys reach the state where all entries are in flight and one where an
eviction has to choose.  A window of five ticks with a clock to seven lets calls
leave it one by one while others are refused.  One foreign write can fall before,
during and after a run; two fields tell a partial write from a full one.  Three
lines have a first, a last and a middle one; two patches can overlap, touch or
swap, and blocks of two lines can be found in two places.  The JSON paths reach
objects, lists, a list in a list, the index after the last, `-`, `01` and what is
not there; two operations let the second meet what the first has shifted, and
nothing they make is as deep as the eleven levels of `MaxLevels`.
Sequences of three have actions before, at and after a failure; three builds leave
room for one before and one after the job.  Two dialogs overlap in every order,
with one edit and one restart anywhere between.  Two changes around a request can
put it out of order and into order again.  `MaxTime`, `MaxClock`, `MaxRestarts`,
`MaxRecords`, `MaxEdits`, `MaxHandEdits`, `MaxSources`, `MaxSecrets`, `MaxChanges`,
`MaxBuilds`, `MaxSteps`, `MaxPatches`, `MaxBlock`, `MaxLines`, `MaxLevels` and
`Insertions` are bounds for TLC; the proofs do not depend on their values.

`CHECK_DEADLOCK FALSE` stands where the instance really comes to an end: every
run is done and the foreign writes (or the records of the log, the clock, the
changes) are used up.
Symmetry is used only in runs without liveness; the permuted values are model
values that no definition tells apart.

Fairness: `ApplyEngine!FairSpec` asks weak fairness of each request that was
received, because the loop runs every ready task, the executor finishes its jobs,
and the calls of Home Assistant return or time out (`ws_client.py:87`); the
handler of a blocking service call is trusted to return, as the code does.  No
fairness is asked of clients, the clock, restarts, `HandlerAudits`, `Cancel` or
`LateChange`: no client has to stay, and what a cancelled request holds is not given back.
`AuditLog!AuditFairSpec` asks it of the task whose turn it is, because `asyncio.Lock`
wakes its first waiter and a disk write ends.

## Findings

1. `system.apply.status` answers with the newest record of a `prepare_id`.  After
   a successful apply a retry under a fresh key is refused, but its `received`,
   `started` and `failed_not_applied` records hide the `completed` one
   (`engine.py:271`), against README.md:47.
2. A contract error without an outcome marker counts as `not_applied`
   (`engine.py:143`), also when it is raised after the write: a lost websocket
   answer, a failed verification, a clone that could not be removed.  The comment
   above says nothing was executed.
3. `file.update` writes back the bytes it read before the digest check on any
   exception (`engine.py:1093`), also when the check refused the run because
   somebody else had changed the file.
4. A mail settings change writes the options as they were at prepare
   (`engine.py:1282`), so a Sent folder recorded since is lost; the catalog says
   it merges one setting.
5. A sequence with `stop_on_error=false` passes over an action that failed, sets
   `executed` and is reported `applied_verified` (`engine.py:1191`); the comment at
   `engine.py:151` says that every action was acknowledged.
6. A request that is cancelled because its client disconnects is caught nowhere:
   `engine.py:881` and `engine.py:1318` name only `Exception`, and the append at
   `engine.py:871` is outside of the `try`.  Its key stays in flight until a restart, so
   each retry is told that an apply with this key is being executed
   (`idempotency.py:65`), and it takes a place of the store for ever, up to
   `IDEMPOTENCY_BUSY`.  Its prepared mutation, if the handler ran, is `in_progress`
   until its time is up.  Nothing is executed twice (`AtMostOnce`), and other requests
   are answered (`Answered`).
7. `one_bridge.mail_send_prepared` may be called by anybody who may call a service,
   and checks only that the mail is in flight (`mail_runtime.py:423`): a call that comes
   while the apply waits for the SMTP server, or before the time of a cancelled one is
   up, sends the message again to everybody, against the single use of
   `SECURITY.md:12`.  The apply then answers with the result of the call that ended last
   (`mail_runtime.py:154`), which `MailRuns` does not follow.

Other things met while modelling have no run of their own:

* Two options dialogs that overlap are not merged: one that was opened before a
  client secret was rotated brings the old secret back when it is confirmed
  later, and the same holds for the lockdown and for the allowlist of a file that
  was edited meanwhile.  `OnlyAsked` and `Settled` say what holds without an
  overlap; dropping `alone` or `crossed` from them shows the overlap.
* `strings.json` (options, `init`) says that a change of the callback alone is
  saved directly when the form is submitted; `config_flow.py:576` always continues
  to the review page.
* A start from `configuration.yaml` imports an entry with the preset but without
  its capabilities (`__init__.py:383`), so for a custom preset the import raises,
  the exception is logged, and the bridge runs without an entry (`Imports`).
  An entry that is removed and added again without a restart keeps the running
  configuration of the old one (`CreateEntry`), as unloading is not supported.
* A mail that is sent as an action of a sequence and refused raises a contract error,
  which the sequence passes on as it is (`PassOn`): the answer may be
  `not_applied` after earlier actions ran, and their results are not told.
  `ReportTruthful` excepts it.
* `esphome.upload` sets `verified` together with `verification_pending`
  (`engine.py:1128`), so it is reported `applied_verified`, while the comment at
  `engine.py:155` counts a pending verification as unverified.
* An upload names the configuration and not the compile job, so it flashes the
  newest binary.  `UploadsItsBuild` holds only while no build was started after the
  job; dropping `alone` shows the other case.
* `config_entry.update` stores `before_options` (`engine.py:790`) and, outside of the
  mail settings, never compares it with the options it finds.
* The rate limit drops a call when it is older than the window (`>`), so a client
  that returns exactly after `retry_after_seconds` may be refused once more.
  `HintEnough` is about a client that stays away longer than its hint.
* Indices like `01` in a JSON patch are accepted, because `int()` accepts them, `test`
  compares by Python's equality, and an `add` or a `test` without a value takes `null`.
* RFC 6902 lets `add`, `replace`, `copy` and `move` write the whole document, at the path
  `""`.  `apply_patch` refuses that, and a removal of it, with `ROOT_PATCH_DENIED`
  (`json_patch.py:39`), on purpose.  `Reference` allows it as the RFC does; `Denied` is the exception.
* RFC 6902 forbids to move a value into itself, and so does `Reference`.  `apply_patch` does
  not look for that (`json_patch.py:181`): mostly the target is gone with the value and it
  raises, but in a list the next item takes the place, and the value is moved into that
  one.  `IntoItself` is the exception, and `Expected` what holds with both.
* `authorize_legacy_route` has no caller.

## Proofs

Eight modules hold theorems, for every number of ids, sessions, requests, exchanges,
keys, tasks, runs, dialogs, lines, patches, documents and restarts, every TTL, window,
limit and capacity, from the named assumptions on the constants only.

* `Stores_proofs`, of the prepared store: `PreparedTypeCorrect`; `SingleUseHolds`, by the
  strengthening `SpentMarked` (an id that was handed out is marked as long as it is
  stored) and that pruning only removes; `StatusIsHonest`, because an id whose handler
  runs is marked in flight as long as it is stored (`RunningMarked`); `Refinement` of
  `OneShot`, which needs in addition that a running id was handed out.  Of the
  idempotency store: `IdempotencyTypeCorrect`; `Ownership`, where the two conjuncts of
  `InFlightOwned` and `OneCallerPerKey` are inductive only together; `Capacity`, by
  counting the domain across an eviction and an insertion; `ReplaysAreStable`;
  `OldestGoesFirst`, because no two entries have the same number (`Numbered`).
* `ApplyEngine_proofs`: the engine is shown to be a client of both stores.  A local
  invariant ties each request's place to its arguments; from it every step of the
  engine is a step or a stutter of `PreparedStore!PreparedNext` (`EngineUsesStore`)
  and of `IdempotencyStore!Next` (`EngineUsesCache`).  The theorems of the stores
  then carry over, and give `KeysAreOwned`, `TypeCorrect` and the safety part of
  `Refinement`.  `EffectsAtMostOnce` adds `Effective`: handlers run only for ids
  that were handed out, no two for one id, and the one that is about to change Home
  Assistant is the first to do so.  `FlightsAreExplained` follows what the store has
  in flight through every way out of a handler, a cancellation included, which leaves
  the mark to the request that was cancelled; likewise `KeysAreOwned` counts a
  cancelled request as the holder of the key that it leaked.  `ReplaysAreTruthful` and
  `OutcomesMeanSpent` add `Truthful`: what a request reports, and what an entry
  recorded, is the outcome of the one run there was, and a success changed Home
  Assistant.  `RequestsOnlyAdvance` and `RequestsCanMove` are the safety half of
  `Answered`: each step of a request raises its `Stage`, and `begin` always has an
  answer, as a full cache that is not all in flight has an oldest completed entry
  (`OldestExists`).
* `AuditLog_proofs`: one invariant of five parts: types, `ChainIntact`, the task
  that saves owns the lock and saves what is in memory, records rise in number, and
  a record whose append returned is missing only where a full log has newer ones.  From it
  `ChainHolds`, `NeverRewinds` and `SavedRecordsStay`.  `OwnerProceeds` and
  `NobodyIsOvertaken` are the safety half of `AppendsEnd`: the queue holds each append
  under way once, and all but its head wait (`Lined`), so what is left to happen before
  an append has ended (`Distance`) is two steps for each place in the queue.
* `Mutations_proofs`, of the edits of one object: `EditsInv` has four parts.  `EditTypes`
  gives each function its shape; `Routed` says which kinds of run come to which place;
  `Started` what a run past its digest check began with; `Undisturbed` what the object is,
  place by place, as long as nobody else wrote: what the run found before its write, what
  it asked for after.  A run's step is proved for the run itself (`...Own`, one lemma per
  action) and once for all others (`OthersKeep`), to whom it is a foreign write.  From it
  `StaleIsRefused`, `AppliesExactly` and `NothingOrAll`; the last two are about the step
  that ends a run.  `ChangesSurvive` adds `Fielded`: a field that one registry change wrote
  has its value unless another run whose change names the field wrote as well.  Of the
  runs that act outside: `TellsTheTruth`, because nothing is done before a run's point of
  no return and a sequence has one result for each action it called; `FlashesItsBuild`,
  because the Device Builder ends its jobs in their order.
* `Patches_proofs`, of the file patches: `MovesToTheOnlyPlace`, because each patch that was
  located has its block there (`Placed`); and `PatchesAtOnce`.  For that, `Arranged` and
  `Ascending` say that `InOrder` is the patches in ascending order, each after the end of
  the one before it; `Becoming` what that makes of each line.  The reference is then the
  beginnings of the new text, line by line (`Joined`), and a text into which the last
  blocks were put is the old text up to a block followed by the end of the reference
  (`Good`).  `PutStep` carries this from a block to the one before it, `Advance` being the
  lines of the block and those up to the next.  The inductions are over an interval of
  numbers (`UpTo`, from the well-foundedness of the order on the naturals), and what a
  recursive function computes follows once a function that satisfies its equation was
  built step by step (`Iterated`).

  Of the JSON patches: `PatchesAsReferred`, that the code, which walks through a document
  value by value, does what RFC 6902 says of its places, but for the exceptions above
  (`Expected`).  A set of places shows a value
  (`Shows`) if it says of every path what is there, and nothing shows a failure.
  `KeyIs` is that a token names the same member for both, with `-`, indices and their
  limits; `MemberAddedIs`, `MemberReplacedIs` and `MemberRemovedIs` are the last step of
  `_add`, `_replace` and `_remove`, where `Shifted` moves the items that `InsertAt` and
  `RemoveAt` move (`ListGrown`, `ListCut`).  `Followed` goes along the tokens, from the
  root inwards, and `ReferredIs` back outwards: every value on the way is one whose member
  was replaced, and its places are those of the whole under its path (`WithinUnder`,
  `WithinAbove`).  `ExpectedIs` puts the six operations together, with `WholeDenied` where
  the root is denied; for `test` it needs that
  different values have different places (`SameValue`, by induction over the levels).
  The invariant of the patch (`JsonInv`) is that the result is a value of JSON whose places
  are the expected ones; that `PlacesOf` collects just these is `PlacesShown`.
* `OAuthProxy_proofs`, of the rate limit: `KeepsWindow` and `HintsEnough`, by what the
  deque is: a call that left it is older than the window, calls are in the order of time,
  and never more than the limit are kept.  `LimitsTheApi` carries both to the API and the
  proxy: every step of theirs is one of `RateSpec`, or a stutter.  `EntitledOnceHolds` needs
  `Lineage` (every session that is there, or that a request or an exchange names, has been
  made, so nobody makes it again and it keeps its client) and `Noticed` (of the requests
  that wait for their body, a direct one has been in order, and any other has been if it
  is now).
  `GrantsAreAccounted` uses `Lineage` too: the session that a denied exchange lost does not
  come back.  `FailuresAreBounded` counts the exchanges under way together with the
  failures that can still be in the window (`Bounded`): a failure gives up the place of its
  exchange, and an exchange starts only below the limit.
* `MailRuns_proofs`: an invariant of each run by its place: what was asked, who
  accepted, how many copies are where; a further call starts from what was reviewed
  (`CallStep`).  All are about what one call does.  `NobodyTwice`, `NotAppliedIsUndelivered`,
  `VerifiedIsComplete` and `OnlyReviewedReached` are read off it; recipients that
  are told apart have a mailbox each, by a count (`OneMailboxEach`).
  `DetectionsKeepOthers` needs that the record is compared and written in one step.
* `OptionsFlow_proofs`: `ResolveSound` and `ResolveStable` about the permissions;
  `TypeCorrect`; `NeverDownHolds`, because an initialization is under way only while
  there is no bridge (`OneStart`) and an activation has looked at what it loaded;
  `PermissionsSoundHolds`, by the strengthening `Resolved` (what runs, what is about
  to run and what is reviewed all come from `Resolve`); `SettledHolds` and
  `OnlyAskedHolds`, by `Sound`: a dialog that is alone with the file has its
  `previous` there until it saves and its `staged` from then on, what was accepted
  is kept unless writes met, and a live bridge runs what was accepted.
  `EditsAssumption` keeps the client secret out of edits by hand: secrets are random,
  so no edit writes one that is generated later.

The assumptions beyond types and positive limits: documents and values are made of
objects with string keys, lists and scalars, and are less than `MaxLevels` deep, whatever
that is; a replacement consists of lines; an
object has a field and a field a value; no edit writes a secret that is generated later;
the sessions that were there before are sessions; there are finitely many exchanges; the
keys and the marks of "nothing" differ.

Only model-checked: the liveness properties `Answered` and `AppendsEnd` and the fairness
of `OneShot`, since TLAPS has no rules for fairness and `ENABLED`.  Of the first two the
safety half is proved: somebody can always move, and each move brings the end nearer.
Every other property of a passing run is a theorem.

## Plan

Done, in this order: prepared store, idempotency store, apply engine over both,
object edits, audit log, mail, options flow and permissions, rate limit, actions,
patches, access and the token proxy; and a theorem for every safety property of a
passing run.  Next:

* The abstract specification that the dialogs of `OptionsFlow` implement while they do not
   overlap.

## Not modelled

Not planned: reads and searches of Home Assistant, the validator of JSON schemas and
the listing of the catalog, redaction, OpenAPI and instructions texts, MIME and IMAP
encodings, path resolution, `deployment.py` (which only reads), the diffs and
warnings of a patch, the operations that `audit_context_for_direct_mutation` checks,
and the metadata pages: sequential code without state, where a test says as much as
a model.  The registration of views, sensors and events, and the order in which Home
Assistant sets up a component and its entries, are Home Assistant's.  So is what becomes
of a save of the audit log whose task is cancelled: the lock of `audit.py:76` is released
at once, while the thread that writes may go on, and whether it can still replace the file
after the next save is up to Home Assistant's `Store`.  `AuditLog` therefore has no
cancelled append, and `SavedStays`, `FileNeverRewinds` and `AppendsEnd` are claimed without one.
