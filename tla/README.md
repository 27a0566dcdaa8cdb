# Verification of the memory store

TLA+ models of the MCP memory store, checked with TLC and, in part, proved with
TLAPS. The code is the reference: every definition that models something is
translated from the Python and SQL sources, and `PROJECT.json` names the lines.

## 1. The system

One asyncio process (FastAPI, psycopg pool, READ COMMITTED Postgres) serves an
append-only memory store to language-model clients over MCP. A call is
interleaved with others at every `await`; what is shared is the database, the
pool and a few in-process caches. Several processes may share the database.

### Components

| Component | State | Operations | What makes it correct |
|---|---|---|---|
| Write path (`storage/postgres.py` `_append`, `memory_save`, `memory_delete`; `storage/idempotency.py`) | `memory_entry`: revisions of a key, unique on (namespace, key, revision) and on (namespace, actor, event_id) | append a revision, append a tombstone, read back; retry on revision races and on dropped connections | revisions dense; one row per event_id and per call; every answer true of the table; no call stuck on the pool |
| Profile caches (`storage/gate_cache.py`, `_namespace_profile`, migration 0012) | `GateCache._entries`, `_version`; `_profile_cache`; `gate_cache_version_seq` | get, fill, write_variant_profile, LISTEN/NOTIFY, reload on reconnect | staleness bounded by a TTL; own writes visible; convergence; a dead listener is noticed |
| Intent gate, pre-flight (`storage/gate.py` `preflight`, `on_write_*`) | `gate_pending` (confirm tokens), `gate_block_log`, `gate_intent` | preview, confirm, block, override, close a block | a token writes once and only what it previewed; deletes are confirmed; a verdict is borne out and final |
| Intent gate, Tier 1 (`intent_open`, retrieval guard, `storage/retrieval.py`, `storage/gate_targets.py`) | `gate_intent`; surfaced skills | open an intent, match skills, decide | the decision table; only curator-provenanced skills in their window block |
| Skills and efficacy (`skill_define`, `bump_skill_efficacy`, `_ledger`, `bump_rollup`, `record_efficacy_event`, `gate_close_outcome`) | skills and monthly rollups, which are memory entries; `skill_efficacy_events` | define, count, close an outcome | no count lost or undone; no deleted skill resurrected; provenance is about the definition it was earned by |
| Read paths (`memory_get`, `memory_list_page`, `memory_search`) | none of their own | latest live revision, paging, filters, rank fusion | only live, unquarantined latest revisions; a page neither skips nor repeats |
| Coordination (`coord_reconcile*`, `storage/reconcile.py`, `storage/sha_equiv.py`) | verdict entries beside claims | resolve a claim against a live head, append a verdict | a verdict is about the revision it names |
| Curation (`apply_curation`, `_set_validity_boundary`, `coord_curate`, `storage/curator.py`) | boundaries and survivors in `memory_entry` | ADD, UPDATE, MERGE, SUPERSEDE, NOOP; close an old key | no live knowledge lost between two of its steps |
| Handoffs | `memory_entry`, kind `handoff` | save, load, pending | as the write path |
| Sessions (`session_create`, `session_append_event`) | `session`, `session_event` | create, append an event | event numbers dense and in order, an event_id once, answers true |
| Artifacts (`artifact_put`, `artifact_read_range`, `get_artifact`) | `artifact` | content-addressed put with read-back; inline get; streamed get | one blob per hash; what is got is whole, under a type it was put with |
| Observations, telemetry, stats | entries; `tool_call_log` | best-effort insert; counts | telemetry never fails the call it records |
| Namespace registry and sequences (`storage/sequences.py`) | `namespace_registry`, `variant_profiles`, entries | init, bootstrap, recall | an init leaves a live policy alone; a bootstrap is candid about what it could not look at |
| Admin (`admin_store.py`, `dashboard.py`) | `admin_auth_tokens` and each process's cache of it | authorize, rotate, create at boot | a rotated token stops working; an active one works |
| Tool layer and application (`server/mcp_server.py`, `app.py`) | pool, listener task | argument shaping, start, stop | covered where it touches the above |

### How they interact

- The tool layer calls the backend; every writing call first asks `_gate_preflight`,
  which asks `_namespace_profile` (profile caches) whether the namespace is
  gated, and after the write reports to `on_write_success` or `on_write_error`.
- Everything durable the store knows (claims, handoffs, verdicts, skills,
  rollups) is a memory entry and is written by `_append`.
- A writer of `variant_profiles` fires a trigger; the trigger notifies every
  process's listener, which evicts from `GateCache`.
- A dropped connection makes `_retry_if_idempotent` run a whole call again: kind
  read, gate, write and bookkeeping.

### What is hard here

Calls racing for a revision or an event_id between two awaits; a connection
lost after the commit; a retry that repeats the gate as well as the write; a
second pooled connection taken while the first is held; read-modify-write
appends without a lock; caches filled from reads that are overtaken; notices
ignored because their numbers are taken before the commit; process death between
two statements. `PROJECT.json` lists each of these at its line, with the
properties that cover it.

## 2. Plan

Written, in this order:

1. `AppendLog`, with `ExactlyOnceLog` as its abstract specification, and
   `AppendLogProofs`. Everything else is built on `_append`.
2. `ProfileCache`.
3. `Gate` and `Skills` (the pre-flight around a write; skills, their counters,
   the efficacy events, the rollup and the match log).
4. `Entries`, the log of a namespace as the parts above `_append` see it, and on
   it `Reading`, `Curation` and `Claims`; `Knowledge` states what they promise.
5. `Sessions`, `Namespaces`, `Tokens`, `Artifacts`, on the same jobs.
6. `Store`, which composes 4 and 5.
7. The proof modules: `AppendLogProofs`, `ProfileCacheProofs`, `GateProofs`,
   `SkillsProofs`, and over `Store`, each extending the one before,
   `ServicesProofs`, `KnowledgeProofs` and `StoreProofs`, the last with the
   facts about data of `DataLemmas` (section 5).

Compositions: `Gate` takes the write as one step, as `ExactlyOnceLog` allows it
to, and so do `Skills` and `Entries` for each append. `Store` lets every call of
4 and 5 interleave with every other on one log, one clock and one upstream
repository.

What is left: the retrieval of `intent_open` beyond its verdict, an abstract
specification of `Store` to refine, and the read-only parts named in section 7.
Every safety property that a passing run checks is stated by a theorem.

## 3. Modules

### AppendLog: the write path

One action per round trip of a call to the database, in the order of `_append`:

| Action | Code |
|---|---|
| `ReadKind` | `memory_delete` reads the kind of the latest revision |
| `Precheck` | a connection is checked out; `_seen_event` answers a replay |
| `Insert` | the INSERT ... SELECT fixes `MAX(revision) + 1` in its snapshot |
| `Place` | the row enters the unique indexes, having waited for rival rows |
| `Collide`, `Recheck` | UniqueViolation, and the look at the event_id on a second connection |
| `Commit`, `Readback` | commit; `memory_history` decides the ack |
| `Disconnect`, `CommitAckLost`, `PoolTimeout`, `Cancelled`, `Crash` | what goes wrong, and `_retry_if_idempotent` |

`rows` is the committed table, `tx` the one uncommitted row of a call. A waiting
INSERT is a disabled `Place`: it is enabled when the rival aborts, and `Collide`
is when the rival commits. The field `by` of a row is a ghost naming the writing
call. Embedding, boundary metadata, screening and advisories are values the row
carries and nothing here depends on them.

`ExactlyOnceLog` is the promise: a log per key, each call entering it at once and
at most once, answers that are true. `AppendLog` maps its rows to such logs
(`LogOf`).

### ProfileCache: the two caches of a profile

A profile is the number of edits committed to it. `Miss`, `Select`, `Store` are a
fill; `Upsert`, `CommitEdit`, `AbortEdit`, `WriteReturns` a writer, in this
process or another; `Listen`, `Reload`, `Notified`, `LinkLost` the listener;
`Tick` ages entries. Ghosts: `late` (how long an entry has been out of date),
`raced` (invalidated while in flight), `told` and `returned` (newest edits
announced and returned). An entry of the gate cache carries the version it was
stored under (`stamp`), which is never ahead of the cache's own. Ages are counted
as far as anything depends on them (`Older`), so that the state stays finite.

### Gate: the pre-flight around a write

`FindBlock`, then either `Consume` (confirm path) or `CheckEvent`, `Decide` and
`Preview`; then `Write` and `Readback`; `Close` and `Record` are the statements
on `gate_block_log`. `Disconnect` and `AckLost` run the call again from its
entry with the same token, `Abandon` ends it, `Expire` lets a token's 900
seconds pass, `OpenIntent` is `intent_open`'s INSERT with Tier 1's verdict as an
input. `Write` is `_append` in one step with `AppendLog`'s outcomes: it lands,
finds its event_id used, or is refused. Rows carry ghosts (who wrote them, with
which token, overridden or not), and a block the length of the key's history
when it was logged. Screening and stale dependencies only add flags; the
efficacy ledger is written and not read by any of this; it is in `Skills`.

### Skills: skills and the record of how they serve

A job is one call, or one piece of the gate's bookkeeping. `ReadSkill` and
`AppendSkill` are `skill_define`, with its field folding in `Defined`;
`ReadForBump` and `AppendSkill` are `bump_skill_efficacy`; `ReplaceSkill` is a
raw save or delete of a skill's key. `Scan`, `NoteEvent` and `Register` are
`intent_open`: retrieval is any subset of the live skills in any order, whether
a goal satisfies a trigger predicate is the constant `Prohibited`, and a
structured contradiction is an input. `Link` and `Linked` are
`_link_acted_upon`; `Close`, `CloseOne` and `CountOutcome` `gate_close_outcome`;
`StartLedger`, `ReadRollup` and `WriteRollup` `_ledger` and `bump_rollup`.
`Fail` drops a job at any await and `TimePasses` lets `skill_validity_hours` go by.
`matchlog` is `gate_match_log`: `Candidates` are inserted with the intent, `Answer`
is the caller's judgement of one and `CountOutcome` the backfill of a close.
Ghosts: `authored` and `text` (who last wrote the skill's value), `raced` (a
bump that was overtaken, or a bump of one), `basis` (the revision an
intent conflicted with), `by` on an event. Abstracted: the rollup of one month
and the counters `fired` and `outcomes` in it, one counter per skill, skills
that are not quarantined, `calibration_ts` left to its default, skill writes in
an ungated namespace. A raw save or delete replaces the skill's meta by the
caller's own (`Written`), with whatever trigger, polarity, author, provenance and
window the caller puts there (`Metas`): nothing validates it, and the gate acts
on it as on a skill that `skill_define` wrote. A trigger it cannot evaluate counts
as none.

### Entries: the log of a namespace

`log` holds the revisions in commit order; a position names a revision and a
length a moment, so that a property can ask what was latest or live when a
statement ran. `AppendRow` is `_append` as `ExactlyOnceLog` lets it be seen, with
the sha canonicalised (`Canonical`: the full form when the resolver answers, the
given one when not, nothing when it is too short). `Save`, `Delete` and
`ObservationLog` are whole calls; `Tick` is the clock and `Push` the upstream
repository. Keys are the house band `_meta/`, the plain keys, and for each the
key of its verdict; users and the curator's model write plain keys only here,
although the code would let them write the others too (section 7). `given` is
the sha as its writer gave it: the fingerprint of a write has that one where the
row has the canonical one. Ghosts of a revision: `by`, `basis`, `span`. `InOrder` is the
ORDER BY of the statements, and `ItemsAt` what a list comprehension with a
condition keeps: both are chosen among the sequences that list a set, so that
they can be reasoned about.

### Reading: list, search, recall

`ListPage` is one `memory_list` (`memory_list_page`): filters and cursor apply to
the rows, then `DISTINCT ON` takes the latest of each key, then liveness, then
the limit; the next page starts after the last key shown. A limit of 0 is not
refused: it gives one empty page without a cursor. `ReadVectorLeg` (text,
then hyde) and `ReadKeywordLeg` are the statements of `memory_search`, with
writers between them; `Fuse` is `_rrf_fuse` in exact integers, `Admitted`
`apply_guard`, `Answer` the difference between `memory_search`, which marks, and
`recall`, which drops. Cosines are a table (`Cosine`).

### Curation: `apply_curation`

`AskModel` (the model's answer is the task's list of ops), `Gates` and
`Compare`, then for each old key `Bound` (read) and `Close` (append), and
`Write` the survivor. An op may leave its key out (`NoKey`), which is invalid.
`SameWrite` is the comparison of fingerprints: key, kind, contents and the meta as
each caller gave it, not as it was stored. `Refuse` ends a pass on any error but
`idempotency_conflict`; `BreakOff` ends it anywhere.

### Claims: reconciling and its reports

`ReadClaims` reads a batch once; `Attest`, `ResolveSubject` and `SaveVerdict` are
the evidence gate, the resolver and the verdict's append for each claim, while
claims are rewritten and the upstream moves; they are taken in key order
(`NextClaim`). `SubjectVerdict` is the table over
temporal modes. `BootstrapHealth`, `BootstrapBatons`, `BootstrapSession` are
`session_bootstrap`, each step of which may fail and then is named in `degraded`.

The limits are the code's, and fall where the code has them. `ClaimsOf` takes the
first claims in key order, after the filters and liveness; a webhook's limit is
for the whole store, so what it leaves of it to this namespace is any number up to
it (`Limits`). `PendingBatons` lists the first `BatonLimit` handoffs and then drops
the consumed ones. `Cut` is what a bootstrap tells of a list of `coord_health`: its
length after the list was cut to `HealthLimit`. `entry_count` and
`quarantined_count` are whole. `claim_collisions` and `skepticism` reach no
bootstrap and are left out.

### Sessions

`AppendCheck` (the look for a replay), `AppendPlan` (tenant guard and the
`MAX(seq) + 1` snapshot), `AppendInsert` or `AppendCollide` (the unique indexes),
`CreateSession`; `SessionDrop` loses the connection before a statement or after
its commit and runs the call again.

### Namespaces

`CheckRegistry`, `CheckEntries`, `WriteProfile`, `SeedProject`, `Register`,
`ReadBack` are `namespace_init`, a statement each; `EditProfile` is any other
writer of the profile; `BreakInit` ends an init between two of its steps. An
armed gate may preview or block the seed. That `ReadBack` may see a cached
profile is a choice here; `ProfileCache` has the cache.

### Tokens

`Authorize` and `StoreMap` are `get_active_token_map` (fetch outside the lock,
store) and `_match_label`; `Rotate` or `Boot`, `RetireRow`, `Replace` are
`rotate_post` or `ensure_tokens` with `set_token`. A process runs one of these
at a time (`Free`), since the statements are synchronous on its event loop.
`Restart` ends what runs in a process and empties its cache.

### Artifacts

`ArtifactPut`, `VerifyPut`; `GetMeta`, `GetInline`; `StreamWindow`, one turn of
the response's generator; `ArtifactDrop`. A blob is its own hash.

### Store and Knowledge

`Store` is the composition: its `Next` takes one step of one job of one
component, or of time or the upstream. `Knowledge` holds the properties of
`Reading`, `Curation` and `Claims`; the others hold their own.

## 4. Runs

`append_log` (`MCAppendLog`, `AppendLog.cfg`). Three concurrent calls in seven
workloads: one event_id three times, a duplicate against a rival, a pure
revision race, one event_id with two payloads, two actors and an invalid kind,
deletes against saves. Shows type correctness and the retry bounds; dense
revisions; at most one row per event_id and call; true answers; refusals that
left nothing; that a failed read-back of a landed write needs a history
overrun; that the pool never holds only waiters; append-only history; that
every call is answered; and the refinement of `ExactlyOnceLog`.

`delete_replay` (expected violation). What `storage/postgres.py:106` and
`docs/FAIL-CLOSED-WORKSHEET.md:19` say of every write with an event_id, that a
replay collapses to a no-op, does not hold for a delete: the kind it reads again is
part of its fingerprint, so after a save of another kind the retry is told
`idempotency_conflict` about its own tombstone.

`profile_cache` (`MCProfileCache`, `ProfileCache.cfg`). Edits by this process and
by another, fills in flight, notices out of order, ignored or lost, restarts,
with or without a listener. Shows that a profile is served no longer than its
TTL and one fill after it was replaced; that a process serves nothing older than
what it wrote, unless a fill was under way; the same of obeyed notices and the
gate cache; that the version never moves back without emptying the cache; and
that the caches converge once edits stop.

`profile_notify` (expected violation). An obeyed notice evicts only `GateCache`;
`_profile_cache` goes on serving the old profile, against the "milliseconds" of
`storage/gate_cache.py:13`.

`listener_alive` (expected violation, under the fair specification). A LISTEN
connection closed by the database is never noticed, because the listener waits
on its own queue.

`gate` (`MCGate`, `Gate.cfg`). Bearers of one token, blocked deletes and their
overrides, saves that take a delete's event_id, handoffs out of an intent's
scope, every outcome of Tier 2. Shows that a token writes at most one
revision, of what it previewed; that deletes are confirmed or overridden; that a
block is found wrong only when its operation landed since; and that a verdict
is final.

`gate_replay` (expected violation). A gated delete that landed and is run again is
answered `gate_blocked` or `gate_preview`, not with the original record that
`server/mcp_server.py:388` promises.

`gate_conflict` (expected violation, Tier 2 off). The confirm path does not look at
the intent, so a token issued before a conflict arose carries a delete past it,
against `server/mcp_server.py:395-397`.

`skills` (`MCSkills`, `Skills.cfg`). Ten workloads of three jobs: authors, raw
saves and deletes with and without a meta that vouches for itself, against counter
bumps and intents; an intent against two closings, equal and contrary; an intent,
a write and a closing; two intents and a write; an intent against two gate
decisions. Shows that a skill's trigger, author and polarity are those one author
gave it, however the writers race, and that it stays as its last author left it,
tombstones included, unless a bump was overtaken (such a bump does put back what
it read: an edit is undone, a deleted skill returns); that a caller is told
truly which outcomes it closed; that the rollup never counts an outcome twice,
although it may lose one; that nothing is acted upon or closed that was not
surfaced or retrieved; and that a candidate of the match log counts as acted
upon or not only because a caller said so.

`skills_author` (expected violation). `curator_provenance` outlives the definition that
earned it: a later trigger by an unvalidated author escalates, against
`storage/gate.py:1094-1096`.

`store` (`MCStore`, `Store.cfg`). Forty-five workloads of three calls over entries
saved earlier: walks against saves, deletes and quarantines; searches and recalls
against saves and curation; two passes of one session that supersede or merge,
with equal and with other answers, against saves and deletes; reconciling passes
and webhooks against rewritten, deleted and re-kinded claims and a moving
upstream; bootstraps; appends to sessions with one event_id, none, or another
actor's; inits of one namespace against each other, saves and edits; bearer
calls against rotations in their own and another process, and two boots; puts and
gets. Shows that a finished walk repeats no key and misses none that matched
throughout; that what a search answers was live and latest at one of its
statements, judged by its own cosine and ordered as the legs agree; that
knowledge which curation closed has its survivor or was reported; that a
boundary hides a save only when the two overlapped; that a verdict was seen to
hold or not to hold upstream while it was resolved; that a bootstrap counts the
unverified claims and the tainted entries, up to the limit of the lists, and names
the waiting batons among the handoffs it lists, or says what it could not look
at; that the events of a session are numbered in order and come in once;
that an init leaves a live policy alone; that a rotated token stops at once in
the process that rotated it and within the TTL and one fetch elsewhere, and an
active one works; and that artifacts are got whole.

`list_latest` (expected violation). `memory_list` filters by kind and tag before
it takes the latest revision of a key, so with a filter it shows revisions that
are not the latest, against its own description in `server/mcp_server.py`.

### Bounds

| Constant | Value | In the code | Why it is enough |
|---|---|---|---|
| calls | 3 | any | a race, its loser's retry, and a bystander that changes the key; collisions are pairwise |
| `PoolSize` | 2 | configured | two holders fill it and the third waits; the recheck wants one more |
| `MaxRetries` | 2 | 3 | one collision that is retried and one that is not |
| `ConnRetries` | 2 | 3 | one run that is repeated and one that surfaces |
| `HistoryLimit` | 2 | 50 | two later writers overrun it, one does not |
| namespaces, readers, writers | 2, 1, 2 | any | one namespace is invalidated while the other is not; one writer inside and one outside |
| `GateTTL`, `PlainTTL`, `MaxFill` | 1, 2, 1 | 30 s, 60 s, query time | only their order matters |
| `MaxSeq` | 2 | unbounded | two numbers can commit in the wrong order |
| `MaxIntents` | 2 | any | a conflict arises and is resolved |
| `Jobs`, skills, goals | 3, 2, 2 | any | a race between two jobs with an earlier or later third; a skill and a goal that must stay untouched |
| `MaxNow` in `Skills` | 1 | unbounded | a validation is in its window, then outside it |
| `MaxNow`, `Staleness`, `CacheTTL` in `Store` | 2, 1, 2 | unbounded, 72 h, 5 s | a verdict is fresh, at the limit, and too old; a cached token within and at its TTL |
| plain keys, contents | 3, 3 | any | a page break with a key on either side; a merge of two into a third; a chain of derivations |
| `Upstream` | 2 states | any | what a claim says holds before a push or merge and not after, or the reverse |
| `Attempts`, `Reconnects` | 2, 2 | 3, 3 | one collision or drop that is retried, one that surfaces |
| processes, labels | 2, 2 | any, 4 | a rotation inside and outside; a token beside the rotated one |
| `HealthLimit` | 2 | 200 | a count below it, at it, and cut to it (three claims) |
| `BatonLimit` | 2 | 100 | handoffs below it, at it, and one behind it (three handoffs, some consumed) |
| `ReconcileLimit`, `WebhookLimit` | 2, 2 | 100, 500 store-wide | a pass that leaves a claim out; a webhook to which any part of its limit is left |
| `Chunk`, `InlineLimit`, `MaxBytes` | 2, 2, 4 | 1 MiB, 1 MiB, 50 MB | a last window that is short, one that is full, a blob at and over each limit |

`CHECK_DEADLOCK FALSE` is set where calls are made once: when all are answered
(and, in `Gate`, no token is left to expire and no intent to open; in `Skills`,
no window to pass) nothing is left to do; in `Store` too. `ProfileCache` never
stops, because time passes. In `Store` the clock and the upstream move only while a
call has still to look at them (`LooksAtClock`, `LooksUpstream`), which removes
states no property can tell apart.

### Fairness

`AppendLog`: weak fairness of each call's `Proceed`: a task that is ready is
scheduled, the database answers or the statement is cancelled, a pool checkout ends in a
connection or a `PoolTimeout`. Nothing is assumed of clients, or of drops and
crashes happening. `ProfileCache`: weak fairness of `Tick`, of the listener's own
steps once connected, and of a reader's `Select` and `Store`; none of `Listen`,
since a connection may never be had. `Gate`, `Skills` and `Store` have safety
properties only and assume no fairness.

## 5. Proofs

`AppendLogProofs` proves for all calls, workloads, kinds, retry limits, history
limits and pool sizes that satisfy `RequestsAssumption` and `BoundsAssumption`:
`TypeCorrect`, `RevisionsAreDense`, `WritesApplyOnce`, `AnswersAreTrue`,
`RefusalsAreClean`, `OnlyOverrunFailsReadback` and `HistoryOnlyGrows`.

The argument is one inductive invariant, `IInv = TypeOK /\ TableOK /\ TxOK /\
\A c : CallOK(c)`. None of the properties is inductive alone. That a committed row
does not break the unique indexes holds because an uncommitted one was compared
with every committed and uncommitted row when it was placed (`TxOK`, and
`Undisturbed` in `ProgressOK`). That no hole appears in the revisions holds
because a snapshot is at most one past the key's last revision when the row is
placed, and equal to it when nothing conflicts. That a call writes once over all
its runs holds because a run that passed its event_id check has no row
(`NoneBy`), and one without an event_id is never run twice.

Each action has its lemma; `InvariantHolds` puts them together, and the theorems
follow from it.

The module goes on with `PoolNeverStalls`, from the same assumptions. Its
invariant counts: the holders never exceed the pool, and the holders whose INSERT
has a committed rival are fewer than the pool; a call waiting for its recheck
connection has such a rival. The call whose commit beat the last of them gave
its own connection back, and a call that takes that connection computes its
event_id check and its revision after that commit.

It ends with `Implements`: each step of `AppendLog` is a step of
`ExactlyOnceLog` or a stutter under `LogOf`. A `Commit` is the abstract `Land`, an
answer the abstract answer; the invariant keeps, for each call that has not
answered yet, what was true of the table when its answer was decided.

`ProfileCacheProofs` proves `TypeCorrect`, `StalenessIsBounded`,
`OwnWritesAreVisible`, `NotificationsAreObeyed` and `VersionIsMonotone`. The
invariant bounds the lateness of an entry by its age and the time a fill may
take, keeps each stamp at or below the version, says that an announced edit is committed, and that what is older than an
announced or returned edit was filled by a read the edit raced.

`GateProofs` proves `TypeCorrect`, `TokensAreSpentOnce`, `NoUnconfirmedDelete`,
`WrongBlocksHaveLanded` and `VerdictsStand`, from `GateAssumption`. The
invariant says that a spent token has one bearer, that no row has the token
while its bearer has not written, and that a block counted as wrong is older
than a row of its own operation. The token is consumed by the one statement
that finds it unconsumed, which is why no lock is needed.

`SkillsProofs` proves `TypeCorrect`, `SkillsAreAsAuthored`,
`ClosersAreToldTheTruth`, `StagesAreInOrder`, `RollupIsModest` and
`JudgementsHaveACaller`, from `WorkloadsAssumption` (finitely many jobs and skills, calls that are well
formed). What is in the skill or drafted for it names the request whose words it
has, and says what that request said: a bump copies the name with the words. A bump
that was not overtaken holds the current revision with one
more count; a stage has one event of a goal and skill, and an outcome's event
names its closer; the closings a job plans are distinct and still open. The
rollup is bounded by an injection: it is at most the number of closers that are
through, and each of these has an outcome event of its own.

`ServicesProofs` begins with a frame: a control point belongs to the calls of one
part, so a step of one part moves no call of another (`PointsOK`, `Moves`,
`Elsewhere`), and it changes none of the other's variables. Then, from
`ArtifactsAssumption`, `TokensAssumption` and `SessionsAssumption`:

- `ArtifactsComeWhole`: a blob has the type of its first put, that put alone is
  fresh, and the bytes a get has so far are a prefix of the blob;
- `RotatedTokensStop`: a map read at some moment names only tokens that were
  active then and were retired since by other processes, and misses no older
  active one; a process runs one token call at a time;
- `SessionEventsOnceInOrder`: the numbers of a session are 1 to their count, and a
  plan is at most one more, so a plan that meets no row at its number is exactly
  one more; a call without an event_id has at most as many rows as dropped runs.

`KnowledgeProofs` rests on one fact of the log: it only grows, so what was latest
or live at a past length stays so (`LogGrows`, `LatestStays`, `LatestLater`).
From `LogAssumption` (what was saved before, and what is asked to be saved, are user
rows), `CurationAssumption` and `ClaimsAssumption`:

- `InitsLeavePolicyAlone`: a call that writes has seen a moment with no live
  entries, unregistered, and the document of the one on record is in force unless
  another writer of the profile began;
- `VerdictsWereSeen`: a pass keeps the upstream state at which it began with a
  claim; the resolver's table is true of the state it is asked at
  (`SubjectIsTrue`), and that state lies between the two; the claim a pass is at
  stays the one it read, whatever is appended after it;
- `SavesStay`: the revision a pass holds was the latest, and live, when it was
  read; whatever is latest later is that one or landed after the read. A
  boundary lands only where its event_id is not in the log, and the event_id
  is a function of session and key;
- `ClosingsAreAccounted`: the op of a closing is the one its pass is at, with a
  control point past the gates, until the pass ends failed, counts it as a
  conflict, or finds or lands the survivor, which then stays in the log.

`DataLemmas` has what the proofs about readers need of data. Induction cannot be
cited with a predicate, so it is stated with sets: a set that holds 0 and with a
number the next holds all numbers (`NatsAreIn`), and likewise for the subsets of
a finite set (`SubsetsAreIn`). From these follow that a fold over a finite set is a
function that satisfies its equation (`FoldIsDefined`), that a recursive function
on the naturals exists (`NatRecursion`), what `Min` and `Max` are, and that a finite
set under a strict total order is listed by one sequence (`ListOfSet`,
`OrderLists`).

`StoreProofs` proves the rest of `Store`. A reader holds positions of the log and
lengths it had, so what it holds is claimed of the log as a value: `LatestIn(l, k,
n)` is the latest revision of a key in a log `l` at length `n`, and whatever is
stated with it stays true of every log that grows from `l` (`Grown`). Then, from
`LogAssumption`, `ReadingAssumption` and `ClaimsAssumption`:

- `WalksAreFaithful`: each page shows, in key order, exactly what matched after
  its cursor, up to its own (`PageOK`); the pages lie one behind the other in
  time and in keys (`PagesOK`), so every key belongs to exactly one page;
- `SearchesShowLiveRows`, `FusionsRespectLegs` and `VerdictsAreAboutTheRow`
  share one invariant (`SearchInv`): each leg is a ranked list of rows that were
  latest and live when it was read (`LegOK`). `1 / (60 + rank)` over the common
  denominator is a product over a set of ranks (`ShareIs`, by induction over
  subsets), hence decreasing in the rank, hence a dominating key has the greater
  sum and goes first (`DominantScores`, `FuseIs`). The rows a recall picks are
  the admitted ones, up to the limit, then the refused (`RecallPicks`);
- `BootstrapsAreCandid`: the recursive function that follows derivations computes the
  least set that holds a key's sources and is closed under sources
  (`AncestorsAre`). The property is stated with such closed sets, so it does not
  repeat the computation. The limits are any naturals: a count is the size of the
  set or the limit, and a baton that is missing has as many keys with live handoffs
  before it as the limit lets through;
- `TypesAreKept`: `TypesInv` adds to the types what they rest on: the seeds of a
  workload are a prefix of the log (`SeedInv`), a session call that goes on has
  a run and a collision left (`SessionTypes`), the labels a boot finds missing
  are labels (`AbsentAreLabels`).

The assumptions on the constants say no more than that the inputs are ones a caller
can give: limits are naturals, cosines and thresholds percentages, rows that
were saved before or are asked to be saved rows a user can write, the calls of a
workload well formed for their tool.

The properties were model-checked before they were proved, and each action has its
lemma. Every invariant and action property of a passing run is stated by a
theorem. Only model-checked: the liveness properties `EveryCallAnswered` and
`Converges`, since fairness and ENABLED are out of the provers' reach.

## 6. Findings

1. A replayed delete can be told it conflicts with itself (`storage/postgres.py:1256`).
2. A notified profile edit is masked by the second cache (`storage/gate_cache.py:129`).
3. A dead LISTEN connection is reported alive for good (`storage/gate_cache.py:210`).
4. A gated delete's replay is not deduplicated (`storage/gate.py:329`).
5. A confirmed delete passes an unresolved conflict (`storage/gate.py:342`).
6. Curator provenance outlives its definition (`storage/gate.py:1098`).
7. A filtered `memory_list` shows superseded revisions (`storage/postgres.py:1193`).

Behaviour that the models show and that is weaker than a reader may expect. Each
is either promised nowhere or only under an assumption the documents make, so it
is recorded here; the properties are stated so as to allow exactly this much.

- Concurrent rollup increments overwrite each other (`storage/gate.py:785-798`), and
  an overtaken counter bump restores the revision it read (`storage/gate.py:998-1011`).
  `OutcomesNotInflated` is therefore a bound from above, and `SkillIsAsAuthored` excuses
  such bumps.
- `NoHoldAndWait` is about the calls of the model: it says nothing of a
  pool whose connections are kept by statements outside the model.
- A verdict is not tied to a revision of its claim: a claim rewritten after its
  verdict is not flagged by `coord_health` until the verdict ages. `CurrentMeansSeen`
  is about the revision that was read.
- `session_bootstrap` lists the first 100 handoffs, consumed ones included, and drops
  the consumed ones from these (`storage/sequences.py:194-200`). A baton behind 100
  live handoffs is not told, although line 188 speaks of "Handoffs in this namespace
  that nobody has consumed"; nothing removes consumed handoffs but their
  callers, so a long-lived namespace may get there.
- The lists of `coord_health` are cut at 200 (`storage/postgres.py:1664-1673`) and a
  bootstrap hands over their lengths (`storage/sequences.py:174-184`): 200 means "200 or
  more". `BootstrapIsCandid` states both limits as they are, which is less than the
  "everything that should be known" of `storage/sequences.py:83`.
- `coord_reconcile` takes the first 100 claims in key order and a webhook the first
  500 of the store, so the claims behind them get no verdict from any pass; they are
  among those a bootstrap counts as needing one.
- A skill saved with `memory_save` keeps the trigger, provenance and window its caller
  wrote, and escalates by them; the validation is `skill_define`'s alone. The tests
  author skills this way (`tests/gate_utils.py:37-80`).
- `coord_reconcile` and the webhook filter before they take the latest revision, so
  they go on reconciling a claim that was saved again as another kind.
- A curation pass closes before it writes; if the survivor is refused (its kind,
  a sha that is too short) the old knowledge stays closed. `ClosuresAreAccountedFor`
  demands that the pass failed visibly or counted a conflict, not that the knowledge
  is live. A boundary appends a copy of what it read, so it hides a save that came
  between; `SavesAreNotBuried` accepts what landed since the read.
- A merge_sha recorded below git's default length is never canonicalised and never
  matches: its claim is stale for good.
- A reconcile that is run again is a second pass: its verdicts carry no event_id.
- Two inits of one unregistered namespace both write: the profiles merge, and the
  record names the first. An init and a first save or edit can race likewise.
  `storage/sequences.py:255-256` says without exception that the call "must never
  overwrite a policy somebody is already relying on"; `InitLeavesPolicyAlone` excuses
  what came between the check and the write.
- `ensure_tokens` of two processes booting on an empty table can replace each
  other's token, or fail on the index. Another process accepts a rotated token
  until its cache expires; the documents assume one process.
- `artifact_put` answers the caller's content type, also when the blob was stored
  under another one, and a put that is run again calls its own blob a duplicate.
- `session_append_event` answers a replay by event_id alone: neither the session
  nor the payload is compared. Without an event_id a dropped connection can leave a
  row for each run.
- `memory_list` takes a limit of 0 and answers a truncated page without a cursor,
  from which no walk goes on; `WalkIsFaithful` asks for completeness of walks
  with a greater limit only.
- A recall cuts its admitted rows to the limit first, so a row it refuses for the
  greatest cosine may be shown without the row that has it, when the limit is
  used up by others; the last case of `VerdictIsAboutTheRow` allows for it.
- `gate_close_outcome`'s backfill sets `acted_upon` for all candidates of the
  intent, also on a replay (`storage/gate.py:958`). `JudgedByACaller` says that the
  value comes from some caller of that intent, not that it is the first.

## 7. Not modelled

Similarity arithmetic and embeddings (a table of cosines stands for them), text
screening and redaction, GitHub's answers (the upstream is a sequence of states
and any call may fail), HTML, telemetry inserts, argument shaping and error
wording, operator scripts, the seed token of the environment. Saves, deletes and
curator ops that name a key of the house band (`_meta/`, or a verdict's) are left
out: the code does not refuse them, and a caller who forges a verdict is outside what
`CurrentMeansSeen` and `BootstrapIsCandid` say. Where one of these
decides something, its verdict is an input of the module that uses it.
`PROJECT.json` gives the reason for each part left out.
