# jn-engine-contributor-mcp: a TLA+ development

The gateway serves one committed snapshot of a repository to authenticated
contributors over MCP and REST, and lets them do three things that change
state: claim and release tasks, ask for live GitHub status, and propose work
as a pull request. These modules model the parts of it that keep state, check
them with TLC on small instances, and prove the main results with TLAPS.

All paths below are relative to `src/`.

## Inventory

| Part | State it keeps | Operations | What makes it hard |
| --- | --- | --- | --- |
| Claim ledger (`app/core/task_claims.py`, `_ledger_claims`) | none: folds the records of an NDJSON file | fold to the active claims | one release that does not match makes every later call fail |
| Task claims (`app/core/task_claims.py` over `AuditLog.transact`) | the ledger file | `claim_task`, `release_task` | clock read before the lock; torn writes, failed fsyncs, restarts, power loss; late duplicates |
| Audit log (`app/collaboration/audit.py`) | the audit file | `append`, `transact` | short writes, flock, durability |
| Contributor authorizer (`app/mcp/github_oauth.py`) | verdict cache, one asyncio lock | `check`, `preflight` | the lock is held across the request; verdicts get old |
| Pull requests (`app/core/open_pr.py`, `app/collaboration/github.py`) | none here: branches, commits, pull requests at GitHub | `open_pr` | many requests with others between them; lost responses; retries |
| Device enrollment (`app/mcp/device_oauth.py`) | client registry file; transactions, codes, attempts in memory | register, authorize, submit the secret, exchange, refresh | attempts and single-use codes under overlap; restart |
| Status (`app/core/check_status.py` over `GitHubReadSession`) | none | `check_status` | several requests, pushes and runs between any two; a page that does not show every run |
| Snapshot refresh (`deploy/refresh_*.sh`, `deploy/prune_snapshots.py`) | snapshot directories, environment file, the container's mount | build, select, health check, roll back, prune | a failure or kill at any step; directories left half removed |
| Snapshot export (`deploy/export_*.py`) and loaders (`app/core/snapshot.py`, `app/gateway_repo/snapshot.py`) | a snapshot directory, written once | filter the archive, write the manifest; scan and validate | the exporter must leave nothing the loader refuses: emptied, hidden, vendored directories |
| Tasks, symbols, context (`app/core/task_index.py`, `symbol_index.py`, `project_context.py`) | indexes built at start-up from committed documents | build; then reads | two indexes read one table by rules of their own; a bad document stops the server; contradicting sources |
| Content search (`app/core/content_search.py`) | none | search | two engines for one question, one of them read from the output of a process; bounds before and after ranking |
| REST, MCP, configuration, gateway repository's content | wiring, reads | - | - |

How they meet: MCP tools call `TaskClaimService`, `OpenPrService` and the
status service in worker threads, so their calls overlap. The first decides
inside `AuditLog.transact` on a ledger of its own; the other two append to the
shared audit log before they answer. In GitHub mode every request has passed
`ContributorAuthorizer.check`. `TaskClaimService` reads the task index of the
loaded snapshot, which changes only with a restart. In device mode the tokens
of `DeviceOAuthProvider` take the place of GitHub's. A snapshot refresh runs
outside the gateway and meets it only in the directory it mounts and in its
health endpoint. What it mounts is the exporter's snapshot, which the loader
scans and from which the indexes are built, once.

What must hold: a task has one holder; what a caller was told is durable; the
ledger never becomes unreadable by legal use; a retry neither loses nor
duplicates what it names; a revoked collaborator is out within the lifetime
of a verdict; success is told only to those whose work it is; an enrollment is good for
a bounded number of attempts and one grant; what the gateway mounts is
complete; a status is not older than the question; what two parts read from one
document they read alike; nobody waits for ever. `PROJECT.json` lists the hazards behind these, each at its line.

## Modules

| Module | Models |
| --- | --- |
| `ClaimLedger` | records of the ledger and what the fold makes of them, as operators |
| `LedgerReplay` | the fold of `_ledger_claims`, record by record; the reference for `ClaimLedger` |
| `TaskClaims` | the claim service over `AuditLog.transact` |
| `TaskOwnership` | abstract: what the claim service promises, without ledger, lock or call |
| `ContributorAuth` | the authorizer, its cache and its lock |
| `AuditLog` | `AuditLog.append` |
| `OpenPr` | `OpenPrService.open_pr` with GitHub and its maintainers |
| `CheckStatus` | `CheckStatusService.check`, read by read, with GitHub moving in between |
| `DeviceOAuth` | client registration, enrollment, codes, tokens, restart |
| `SnapshotRefresh` | the refresh scripts and the pruning of snapshots |
| `TaskSources` | the parsers of the task index |
| `SymbolSources` | class documents, linkage, ledger and the FourCCs of the symbol index |
| `ContextSources` | sections of the project history: announced, selected, quoted |
| `SearchEngines` | both engines of the content search and what follows them |
| `SnapshotSources` | both exporters and both loaders, on trees of paths |
| `Documents` | every document of these sources, line by line, and what must hold on each |
| `*_proofs` | theorems: `TaskClaims_proofs`, `ContributorAuth_proofs`, `AuditLog_proofs`, `OpenPr_proofs`, `CheckStatus_proofs`, `DeviceOAuth_proofs`, `SnapshotRefresh_proofs`, `Documents_proofs` |
| `MC*` | values and symmetry for TLC |

`TaskClaims` extends `ClaimLedger` and instantiates `TaskOwnership`.
`Documents` extends `LedgerReplay` and the five modules of sources.

### TaskClaims

`ledger`, `torn`, `synced` are the file: complete records, whether it ends in
a partial one, and how many records an fsync has covered. `lock` is the flock.
A call is `Arrive` (validation aside, it reads the clock and nothing else),
then a decision under the lock (`Grant`, `Replay`, `Release`, `Decline`, or
`Refuse` when the file is torn, full, or does not fold), then `Write` and
`Sync`, or one of their failures. `Unopened` is a ledger that cannot be
opened. Read, fold and decision are one step: the flock is held over them and
nothing else touches the file. Every outcome is recorded, so a declined call
also takes room; its record is `Noted`. `status` is the task index, replaced
at `Restart` by any other. `PowerLoss` keeps any prefix of what no fsync
covered. `acked` remembers what callers were told.

Time is in whole ticks. `_timestamp` drops fractions of a second from the
expiry while the clock has them, but `floor(expiry) > now` and
`floor(expiry) > floor(now)` agree, so whole ticks lose nothing.

### ContributorAuth

`Hit` and `Ask` begin with the lock free; `Ask` keeps it, as the code does
over its `await`. `Decide` is GitHub's answer coming into being, between the
request and its response. `lastIn` and `lastOut` are history: the last instant
a user was, or was not, a collaborator. `Cancel` is a client that goes away.
`preflight` is a check that skips the cache.

### AuditLog

The file is the sequence of pieces that `os.write` took: whole records, heads,
rests. `append`, unlike `transact`, does not look at the end of the file.

### OpenPr

Each GitHub request whose outcome others can change is a step: the base, the
branch, the ref, the pull request, the search for an open one, the audit
record. Validation and the tree and commit objects are inside the step that
needs them: no ref leads to a new commit, so nobody can see when it is made.
Maintainers advance master, merge (with a merge commit or squashed), close,
push and delete branches. A mutation's response may be lost after it was
applied (`CreateBranchLost`, `OpenPullLost`). GitHub's `POST /git/refs` and
`POST /pulls` are modelled from the statuses that the code handles.

### CheckStatus

GitHub's state is `head`, what the ref points to, and `runs`, each with the
jobs it has reported; pushes, new runs and reports (a job starts, ends or is
run again) happen between any two reads. The check is `Resolve`, `Confirm` of a
commit the caller names, `ListRuns` (one page, newest first, and whether there
are more), `ReadJobs` from the newest run down until both contexts are found,
`Artifacts` and `ReadArtifacts`, `Decide`, and the audit record. `Fail` is every
error of a read: no credential, attempts used up, an answer that does not
validate. A context that is not found while the page was cut is
`TooManyRuns`, not `missing`. Jobs of one context in one run are one value: a
second one of that name changes nothing once the first was found.

Two things the model shows by what its properties do *not* say. A `success` may
be put together from two runs, one for each context, and from two instants: at
none need both have been green (`SuccessIsEarned` asks for each by itself). And
a commit that the caller names is confirmed to exist, not to be of the ref it
names.

### TaskSources, SymbolSources, ContextSources, SearchEngines, SnapshotSources

These are algorithms over files that do not change while they are read. A
document is a sequence of lines, and of a line only what the parser branches
on: a heading of some kind, a row with its cells, an item, text. A
parser is a fold over the lines with the code's own state (in a section, in a
table, separator seen), and `Refused` is a start of the server that fails.
Beside each stands its meaning, said of the document as a whole without a
pass: which lines are rows, which are the task's. `Documents` enumerates every
document up to a bound, one line at a time, sensible or not, and its
invariants compare the two, or two readers of one source with each other:
`TablesServedByBoth` compares the task and the symbol index on the ledger and on
the linkage table, `RipgrepLosesLocally` the two engines, `ExportKeepsAdmitted`
the exporter and the loader. `Sorted` is Python's stable sort by a key, `At` the members of a list
that a filter keeps, in their order.

`SnapshotSources` takes a tree as a set of paths with their kinds. `Visit` is
one directory of the bottom-up walk of `_filter_export`, on the tree that is left
and whether the export has raised; `Inventory` is the loader's scan. Hard links are those from outside the tree; contents, the digest
and the bound on bytes are left out.

A class document's table lines are their cells: `ClassDoc` compares the Identity
header, and a methods header without its column for signatures with the four
that `_parse_class_doc` accepts. Of rows it asks what can refuse the document:
an item of Identity once, the class's own name, no `Garbled` FourCC, one
signature; a name and addresses of every method. Documents of two tables are
long, so three sources enumerate them: `class` from the first line, `items`
below an Identity header (`Opening`), `methods` below a section of methods.

The two indexes have limits of their own. The task index refuses more than
`MaxTasks` tasks (`TooMany`): `TablesServedByBoth` says so, of one table; that the
other sources take up part of the limit is in `Index` and in no property. The symbol
index's bound of 50000 records (`app/core/symbol_index.py:325`) counts classes,
methods and FourCCs together and is not modelled.

`ContextSources` quotes what `build` quotes: of each selected section the first
`MaxExcerpt` lines, one section after the other in the order of the file, and of
that as much as the context has `Room` for. The code cuts after characters, the
model after lines. The project history is one of the files in the context
and the only one here; `Room` is what the head and the files before it leave. Both
prefixes of its named sections must be found, or the server does not start.

In `SearchEngines` a line says how each engine fares with it. Python folds case in
full, ripgrep character by character: the query `ss` finds a line with `ß` in Python
alone (`python`). ripgrep reads a file to the first NUL byte (`nul`). The code
cuts ripgrep's output with `splitlines()`, also at U+0085, U+2028 and U+2029, which
JSON does not escape: the pieces of such an event are no JSON and are skipped
(`split`), unless one is a number, which has no `get` (`scalar`). So the engines
do not agree (below). `PythonFindsTheBest` says what Python's answer is, and
`RipgrepLosesLocally` that what ripgrep or the reading of its output misses in one
file changes nothing for a file without such lines. ripgrep failing as a whole, or
missing, leads to Python's answer, or with `engine=ripgrep` to none.

### DeviceOAuth

The event loop runs a handler up to its next `await`, so a handler without one
is an action. A rejected form counts its attempt and then sleeps (`Reject`,
`Wake`), while other forms of the same transaction are submitted. `Load` and
`Exchange` of a code are two steps: the library checks the request between
them, and two token requests may have loaded the same code. Codes are numbered
per approval, so that two codes of one transaction would be told apart. A
registration whose file could not be written leaves its client in memory
(`RegisterFails`), and the next one writes it. Signing and verifying, the
form's HTML and the metadata routes are abstracted away. Power loss is not
modelled: the file is replaced without an fsync, and the tests promise only
survival of a restart. Clients are counted, their bytes are not.

### SnapshotRefresh

The two scripts have one control flow; the gateway's lacks the port check,
which is one more way to `Quit`. `order` and `torn` are the versioned
directories: by modification time, and whether a removal has begun. A staging
directory does not show until its rename, so building is one step, and a kill
before it leaves litter that nothing else reads. `Quit` is every exit without
an effect of its own, and a kill; `ComposeFails` is the one that also takes
the container down. `previous` is read from the environment file, whatever put
it there. The mode of a removed tree is changed before its entries go, and
with the first entry its modification time does: `BeginRemoval` keeps the
place in the order or makes the directory the newest. `StartByHand` is the
operator's own `docker compose up`, with no refresh under way. Power loss
(neither script syncs) is not modelled. A signal's trap only cleans up: the
shell then goes on with the script, which the model has as no event at all or
as a failed step.

## Runs

| Run | Bounds | Shows |
| --- | --- | --- |
| `documents` | 3 ledger records; class documents of 6 lines, of 7 that begin with an Identity table, of 9 that begin with one and a section of methods; 4 lines of history, first one of its named headings; 2 to 5 lines of each other source; 5 and 6 entries of an archive (`Longest` in `MCDocuments`) | `FoldRaisesIffUnreplayable`, `FoldReturnsActive`: the operators of `ClaimLedger` agree with the code's fold on every ledger; `QaAgrees`, `SectionTasksAgree`, `ClassDocAgrees`: each parser does what is meant; `TablesServedByBoth`, `CorrectClaimServed`, `ServedIsUncontradicted`, `LatestIsQuoted`, `SearchAnswers` (`PythonFindsTheBest` and `RipgrepLosesLocally`), `ExportKeepsAdmitted` |
| `claims` | 2 overlapping calls, 2 owners, 2 keys, 1 task, 3 records, 2 ticks, 1 crash | `OneHolder`, `LedgerReplays`, `AckedIsDurable`, `OnlyItsReleaseDrops`, and `ImplementsOwnership`, the refinement of `TaskOwnership` |
| `claims_live` | 2 calls, 1 owner, 1 crash | `EveryCallEnds` |
| `auth` | 2 checks of 1 user, lifetimes 2 and 1, 4 ticks | `RevocationBounded`, `DenialBounded`, `EveryCheckEnds` |
| `audit_appends` | 3 writers, 4 records, 2 mishaps | `ToldIsDurable`, `EachMishapSpoilsOne` |
| `audit_torn` | 1 writer, 2 records, 1 mishap | `ToldIsReadable` is violated (below) |
| `pr_races` | 2 calls, 1 branch, 2 keys, 1 maintainer act, 1 failure | `ToldWorkIsProposed`, `ExpectedBaseHonoured` |
| `pr_retries` | 2 callers, 1 branch, 2 keys, 1 failure | `RetriesComplete` |
| `check_status` | 2 contexts, 2 commits, up to 2 runs at the start, a page of 2, 2 events during the check | `MissingWasMissing`, `NewestRunDecides`, `SuccessIsEarned` |
| `enrollment` | 3 clients for 2 places, 2 transactions, 2 forms, 2 token requests, 3 attempts, 2 ticks, 2 mishaps | `SubmissionsBounded`, `OneGrantPerEnrollment`, `RegistrySurvives` |
| `refresh` | 4 commits of which 2 are kept, 2 refreshes; any number of failures and kills | `MountedIsWhole`, `RetentionBounded` |
| `refresh_retention` | 4 commits, 1 refresh at a time | `HealthyAreRetained` is violated (below) |

Why these bounds are enough. Calls on different tasks, or different branches,
share only the lock and the file's bounds, so one task and one branch carry
the contention; two callers suffice because the third party to any conflict is
a record already in the ledger, written by an earlier call of either. Three
records hold claim, release and a claim after it, and the call that meets them
at the limit. Two ticks let a claim expire while a call holds a reading from
before it was made. Lifetimes 2 and 1 with four ticks let an entry be cached,
used, run out and be replaced. Three attempts and two forms let attempts
overlap at the limit; a lifetime of one tick and two ticks let a transaction
or a code run out between the steps that use it. `SnapshotRefresh` has no
counters: four commits fill two places, the current one and one more to
prune. In `check_status` a page of two and up to two runs before two more may
start fill the page and cut it, and two events fall between any reads. The
documents are as long as each parser needs to enter, leave and re-enter each of
its states; two tasks are the most that an index takes, and three rows one too
many; two lines of a section and four in all are quoted, where the sections may
have three and five to quote; and an archive has room for two roots, a directory, and what is in
it. The theorems have no bounds.

`CHECK_DEADLOCK FALSE` is set where a bound on records or the length of an
enumeration ends the behaviour.

### Where code and documents disagree

- `audit_torn`: `docs/security_model.md:32` says every call is appended as
  NDJSON or fails. After a torn record the next append succeeds on the same
  line, and that record cannot be read back. `transact` refuses such a file.
- `refresh_retention`: `docs/gateway_repository_mcp.md:65-66` says a refresh
  "retains the newest three healthy snapshots". `prune` counts any three:
  failed, only built or half removed ones take places, and an older healthy
  one goes.

Not run, because they hang on what one calls a retry. `app/mcp/server.py:197`
says that a key makes retries return the same claim: the code replays a claim
only while it is active; after its release or expiry the same key takes a new
one. `app/mcp/server.py:324` and `docs/mcp_surface.md:97` promise the same pull
request: after the first one was closed, a retry opens a second one and reports
`replayed`.

Nor are the two engines compared for equality: in the enumeration they differ on the
first line that is `python`. `app/core/content_search.py:5` speaks of "keeping both
engines byte-equivalent", and `docs/security_model.md:63` calls Python "the
byte-equivalent fallback". A line that only full case folding matches is in Python's
answer alone; so is one with U+2028 in it, or one after a NUL byte; and one with a
number between two such separators ends ripgrep's search with an error that nothing
catches.

## Fairness

- Claims: `SF` on the decision of a waiting call, because flock wakes its
  waiters in order and a call that keeps finding the lock free gets it; `WF`
  on the steps after it, because a thread that can run is run. Nothing is
  assumed of clients, the clock or crashes.
- Authorizer: `SF` on taking the lock, which `asyncio.Lock` hands to its
  waiters in order; `WF` on a response or a failure, which the client's
  timeout guarantees.
- Pull requests: `WF` on a call's steps; requests have timeouts.
  `RetriesComplete` takes the caller's retrying, and that nobody interferes
  with the branch, as hypotheses of the formula and not as fairness.

## Proofs

`TaskClaims_proofs` proves, for any sets of callers, owners, keys, tasks and
durations, and ledgers, clocks and crashes without bound:

- `TypeCorrect`: `TypeOK`, with the fsynced prefix inside the ledger;
- `MutualExclusion`: `OneHolder`;
- `NeverPoisoned`: `LedgerReplays`;
- `Durability`: `AckedIsDurable`;
- `DroppedByItsRelease`: `OnlyItsReleaseDrops`;
- `Implementation`: `ImplementsOwnership`, the refinement of `TaskOwnership`.

The invariant `IInv` behind the middle three. `OneHolder` alone is not
inductive: a decision is made in one step and written in another. `LockHeld`
says that a decided or written record belongs to the lock's holder, so the
ledger cannot change under it; `Decisions` keeps what the decision found there
true until it is written; `ReadingsPast` says that a reading is never ahead of
the clock, which turns "no claim active at my reading" into "none at the
clock"; `Succession` says how a claim that was followed by another of its task
ended: by its release or by its expiry. The module begins with the lemmas on
what appending a record and cutting the ledger to a prefix do to
`Replayable` and `Succession`.

`DroppedByItsRelease` adds that the release which a call has decided on is the
one it was asked for (`OwnRelease`). `Implementation` needs to know the claim in
force on each task from the ledger and the clock alone, and which claim a call
will be told of: a claim is over, by its expiry or by a release under its ID,
once its task is touched again (`Followed`); IDs are places in the ledger
(`Numbered`); and a reply still names a current claim when its record is
written (`InForce`). Then one record more is a `Grant`, a `Release` or nothing,
a tick is a `Tick`, an fsync is a `Settle`, power loss is a `Forget` (with any
prefix of what was not fsynced, a released claim may be back and a granted one
gone), and everything else leaves the mapped state alone. The proofs use `MinutesAssumption` (no claim of
zero duration) and `CallersAssumption`.

`ContributorAuth_proofs` proves `AuthTypeCorrect`, `Revocation`
(`RevocationBounded`) and `Denial` (`DenialBounded`), from `TTLAssumption`
(both lifetimes positive, as `Settings` enforces). The invariant relates each
cache entry to the history of membership, and each pending request to the
instant it was sent.

`SnapshotRefresh_proofs` proves `RefreshTypeCorrect`, `GatewayServed`
(`MountedIsWhole`) and `Retention` (`RetentionBounded`) for any number of
commits, processes and kept directories, from `KeepAssumption` and
`CommitsAssumption`. `MountedIsWhole` is not inductive: a removal keeps it only
because the current snapshot is not among the doomed, which is so because the
health check compared it with what is mounted (`Knowledge`), and stays so
because the flock keeps every other refresh out (`Exclusive`). `KeptBounded`
counts what a prune leaves alone, which no removal changes.

`DeviceOAuth_proofs` proves `EnrollmentTypeCorrect`, `AttemptsBounded`
(`SubmissionsBounded`), `SingleGrant` (`OneGrantPerEnrollment`) and `Remembered`
(`RegistrySurvives`), from `BoundsAssumption`. `Enrollment` says that an
enrollment is a transaction, a code or a grant and never two of them, and that
a transaction's own count of attempts is the true one; `Holders` that
transactions, codes and tokens belong to clients that were told; `Registered`
that memory holds what the file holds and is within the capacity.

`AuditLog_proofs` proves `AuditTypeCorrect` and `AuditDurability`
(`ToldIsDurable`), from `WritersAssumption` and `BoundsAssumption`. A record
is complete in the file when its writer syncs, because nobody else wrote
between its pieces (`LockHeld`, `InHand`); afterwards the file only changes
beyond what an fsync covered (`DoneStays`).

`SpoiltBounded` (`EachMishapSpoilsOne`) is a count: a record that was told and
cannot be read has a torn head right before it, no two records the same one,
and each mishap leaves at most one torn head more (`TornBounded`); a head whose
rest is about to be written is not torn.

`CheckStatus_proofs` proves `CheckTypeCorrect`, `NeverFalselyMissing`
(`MissingWasMissing`), `NewestDecides` (`NewestRunDecides`) and `EarnedSuccess`
(`SuccessIsEarned`), for any contexts, commits, jobs, page size, runs and events,
from `StatusAssumption`. The invariant: runs and reports are only added
(`Grown`); while jobs are read, a run that had reported a context at the start is
still to be read, or older than the page, or no newer than the run found
(`Sought`); after that every such context has been found in such a run
(`Settled`); and what was found was there, with its state (`Evidence`).

`OpenPr_proofs` proves `PrTypeCorrect`, `ToldIsProposed` (`ToldWorkIsProposed`)
and `BaseHonoured` (`ExpectedBaseHonoured`), for any callers, branches, keys,
maintainers' acts and failures. `Holding` says what a call has in hand at each
request: a commit with its own key on the base it expects; then work that is on
its branch unless somebody deleted the branch; then a pull request of that
branch. `Bounded` and `MasterActs` give fresh commit numbers.

`Documents_proofs` proves every invariant of the run `documents` but
`LatestIsQuoted`, for documents of any length, archives of any size and all values
of the constants:

- `FoldRaises` (`FoldRaisesIffUnreplayable`) and `FoldReturns`
  (`FoldReturnsActive`): the ledger's fold agrees with the operators on which
  `TaskClaims` rests, on any ledger, whoever wrote it;
- `QaReads` (`QaAgrees`), `SectionTasks` (`SectionTasksAgree`), `ClassDocs`
  (`ClassDocAgrees`): each parser does what is meant by the document, and refuses
  no other document; for a class document this takes in its headers and rows;
- `TablesServed` (`TablesServedByBoth`): two indexes of one table, and the ledgers
  that are too long for one of them;
- `CorrectClaims` (`CorrectClaimServed`), `OnlyUncontradicted`
  (`ServedIsUncontradicted`);
- `Searches` (`SearchAnswers`), of `PythonBest` and `RipgrepLoses`: the answers of
  the two engines;
- `ExportKeeps` (`ExportKeepsAdmitted`): exporters and loaders.

The library's induction rules take an operator, which the provers cannot
instantiate, so induction is stated of sets: a set of numbers that is not empty
has a least one (`LeastNumber`, from the well-foundedness of the naturals), hence
a set with 0 and with every successor of its members has all (`NumberInduction`,
`UpTo`). The fold over a sequence is defined in the library by recursion on sets
of places; `FoldExists` and `FoldRuns` turn it into a sequence of states, one for
every line, and each parser has that as its "Run" lemma. What is proved of these
states by induction is the "After" invariant: how the state after k lines follows
from the document's first k lines. `QaAfter`, for instance, tells whether the
parser is in its section, has seen the header, and which rows it has read, from
positions of headings alone. The meaning of the document is that invariant after
the last line.

The rest is order. `Ascending`, `At` and `Sorted` choose the number, or the place,
that has k others before it; that there is one for every k, and every place has
its k, is `AllRanked` for numbers and `OrderArranged` for any strict total order,
of which a stable sort is one (`SortedArranged`), as is the order of directories,
deepest first (`WalkIs`). `RankOfPlace` turns a place in such an order back into the
number of those before it, which is how `Expected` says what the best files are.

For the exports the invariant is `ExportAfter`: when the directories in V have been
gone through, an entry that is in one of these is left if and only if it stays in
the end, and the export has raised if and only if one of them has an entry for
which it raises. A directory stays if it has a kept file below it or is a root
(`Stays`), which passes from what is in it to itself (`ChildStays`), so the walk must
come to a directory after those in it. `Archives` is the inductive invariant of the
enumeration: entries come in the order of their paths, with their directories, and
so form a tree.

The assumptions on constants, with what justifies them: `RefusedAssumption` and
`TablesAssumption` (a refusal is none of the results; `MAX_TASKS` and
`MAX_LINKAGE_PER_SYMBOL` are numbers), `CellsAssumption` and `OpeningAssumption` (a
line of a table has a cell, and a document begins with lines that its source may
have), `RootsAssumption` (no approved root is hidden or excluded, and the
vendored directory is below a root: `app/core/snapshot.py:29-62`),
`PathsAssumption` (paths are sequences of names, not empty) and `FilesAssumption`
(no two files have the same sort key, which ends with the path, and at least one
match of a file is kept: `app/core/content_search.py:396-418`).

Model-checked only: liveness (`EveryCallEnds`, `EveryCheckEnds`,
`RetriesComplete`), which is out of the prover's reach, and `LatestIsQuoted`, whose
concatenation of excerpts has no lemma yet. Every other invariant and every action
property that a run checks, and the refinement, is stated by a theorem, except for
the two properties that the code does not have.

## Not modelled

- A wall clock that steps back: the code takes no measure against it.
- The ledger as changed by hand (archiving); the other records a foreign
  writer could put there are covered only by the enumeration of ledgers.
- Files that change while they are read: the gateway mounts its snapshot
  read-only, and a refresh mounts another.
- Reopening a closed pull request; force pushes to a contributor's branch.
- Status codes and back-off of the REST client beyond success, a handled 422
  and failure.
- Power loss for the client registry, and its size in bytes: `put` bounds the
  clients, and only start-up the bytes.
- Of the indexes: titles, snippets, declarations, what the cells of a class document
  say beyond what refuses it, the symbol index's bound on records, the parsing of
  the dominant-tag table, that the pattern of a level's FourCC knows capitals only,
  the ranking of lookups, and the limit and cursor of `list_tasks`; of the context,
  its head, the other files and the bounds in characters, which are lines here; of
  the loaders, manifest fields, digest, bytes and the check of permissions. The
  handler of `UnicodeEncodeError` in `compute_content_inventory`
  (`app/core/snapshot.py:297`) is never reached: such a path fails earlier, when
  the files are sorted by their encoding.
- Content IDs (`app/core/path_safety.py`): commit and path in base64, a matter of
  characters, with no state.
- The gateway repository's content service, which reads like the content search
  with another policy; REST and MCP schemas, configuration and start-up checks,
  maintenance scripts: wiring and validation without state.
- GitHub's OAuth proxy: its state is the library's.

## Plan

What could be added, in the order of its worth:

1. The bounds of the GitHub client (attempts, back-off, bytes) and the bytes of
   the client registry, as state of `CheckStatus` and `DeviceOAuth`.
2. The gateway repository's content service beside `SearchEngines`, and the
   ranking and cursors of lookups and listings.
3. `LatestIsQuoted` as a theorem, from lemmas on the concatenation of excerpts.
4. Theorems on the operators beyond what a run checks: that the order of a task
   list or of search results does not depend on the order of its sources.
