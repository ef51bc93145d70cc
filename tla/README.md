# A TLA+ model of git-change-bot

git-change-bot receives GitHub push webhooks, keeps them in a SQLite queue and
has a background worker turn each push into a summary on Slack. This directory
specifies the parts of it in which order, failure and concurrency matter,
checks them with TLC on small instances and proves the main results with TLAPS
for all instances.

    tlc -config WorkerOne.cfg MCWorker        # a run: see PROJECT.json for all of them
    tlapm WorkerProofs.tla                    # the proofs of one module

## 1. The system

| Component | State | Operations | Properties that make it correct |
|---|---|---|---|
| Job queue (`app/queue.py`, `app/db.py`) | tables `jobs`, `webhook_deliveries` | `enqueue`, `claim_next`, `complete`, `fail`, two recoveries, two purges, `record_delivery` | a push has one row per retention; attempts are counted, bounded and exclusive; NULLable dates agree with the status; settled is final |
| Worker (`app/worker.py`) | place in `run`, the job in hand, time of the last maintenance, the shutdown event | start, maintenance, claim, `process`, sleep, shutdown, death | every push is settled; shutdown ends; interrupted jobs are recovered; a job in hand is not taken away |
| Receiver (`app/main.py`, `app/security.py`, `app/models.py`) | none between requests; two transactions within one | verify, record, parse, enqueue, answer | what does not authenticate leaves no trace; what is answered as saved is saved |
| Analyzer (`app/analyzer.py`) with model and Slack clients (`app/llm/`, `app/slack.py`) | stage of the attempt, retry counters | prepare, model calls, notification | no completed job without its message; repetitions only where the bot cannot know; bounded cost |
| Git mirror (`app/git_repo.py`), repository map (`app/repo_map.py`), lock (`app/locks.py`), bootstrap script | directories `<id>.tmp`, `<id>.git`, `repo-map.json`, the lock file | clone, fetch, resolve the baseline, diff, update and save | a mirror is whole; only leftovers that cannot be removed block a clone; the diff has its commits; no lost update of a readable map |
| Diff parser (`app/diff_parser.py`) | the block being filled, `in_hunk`, `new_line` | one turn of the loop per line | it stays in step with git; changes are counted, placed and named |
| Selection (`build_diff_result` in `app/git_repo.py`, `app/ignore.py`) | the files kept, dropped and ignored | split, cap, clip, take | bounded; nothing that fits is dropped, nothing disappears; limits do not empty a push |
| Context builder (`app/context.py`) | the budget of a request | group, split the budget, add a file, choose and merge spans | every file in one bounded request; changed lines are shown once |
| Redaction, settings, logging, message and prompt formatting | none | | not modelled, see section 7 |

Interaction. The receiver (one uvicorn process, one event loop) and the worker
(one container in `compose.yaml`, though the code speaks of several) share the
database and nothing else. The worker calls the analyzer, which takes the lock
of the project for the git phase and then talks to the model and to Slack
without it. The bootstrap script runs beside the worker and shares mirror,
map and lock with it.

What is hard: transactions are atomic but handlers and jobs consist of several;
processes die between any two steps and are restarted; leases, backoff,
retention and maintenance run on clocks; GitHub repeats and reorders
deliveries; requests fail before or after the other side has acted; git
commands are killed half-way while the remote changes. `PROJECT.json` lists
each such place under "hazards" with the properties that would catch it.

## 2. Modules

| Module | Models | Rests on |
|---|---|---|
| `JobQueue` | the two tables and every method that writes them, one action each, and the clock | |
| `Worker` | the loop of any number of worker processes | `JobQueue` |
| `JobLifecycle` | the abstract promise: saved, attempted at most MaxAttempts times, concluded once, forgotten when settled | |
| `WorkerRefinement` | the mapping from the tables to `JobLifecycle` | `Worker` |
| `Webhook` | the receiver | `JobQueue` |
| `Bot` | receiver and workers over one database and one clock | `Worker`, `Webhook` |
| `Pipeline` | what happens between claim and report: outcomes, model calls, Slack, their retries | `Worker` |
| `Baseline` | `resolve_baseline` over a commit graph | |
| `Mirror` | the files of a project, the lock, worker and script at work on them | `Baseline` |
| `Selection` | `build_diff_result`: ignore rule, order, limits | |
| `RepoIndex` | `build_full`, `apply_changes` and the lists `_update_repo_map` gives it | `Selection` |
| `Context` | `group_files_by_subsystem`, `build`, `build_file_context`, `render_spans` by length | `Selection`, `Sorting` |
| `Prepare` | `_prepare` from the diff to the requests, over the pushes of a branch with their failures and retries | `RepoIndex`, `Context` |
| `DiffParser` | `parse_unified_diff` reading what git writes, line by line | |
| `Sorting` | what a sort returns | |
| `Spans` | `_coalesce`, `_merge_spans`, `window_spans`, `python_enclosing_spans` as functions | `Sorting` |
| `Excerpt` | the code shown around what the parser found changed, for files of any length and layout | `DiffParser`, `Spans` |
| `MCWorker`, `MCWebhook`, `MCBot`, `MCPipeline`, `MCBaseline`, `MCMirror`, `MCPrepare`, `MCLines` | instances for TLC | |
| `WorkerProofs`, `BotProofs`, `PipelineProofs`, `MirrorProofs`, `SortingProofs`, `PrepareProofs`, `DiffParserProofs`, `ExcerptProofs` | theorems, section 5 | |

A few choices that recur:

* **Time.** A timestamp is kept as its distance from now: `available_in` counts
  down to zero, the `..._ago` columns count up to the first value that no
  comparison of the code distinguishes from later ones. `Tick` moves all of
  them by one. So the state space is finite without a bound on time, and any
  number of ticks can pass between two steps. Real durations are seconds; one
  tick of the model stands for the unit in which the instance gives the lease
  and the retention, and the boundary cases (exactly at the cutoff) occur.
* **Atomicity.** One transaction is one step. A handler or a loop turn with two
  transactions is two steps, and everybody else can step in between. The
  timestamp the code takes just before `BEGIN IMMEDIATE` is taken in the step.
* **Histories.** `savedAgo` in `Webhook`, `ledger` in `Pipeline`, and in `Mirror`
  `stuck` (the last removal of this directory failed) and `loaded` (this map was
  made from the one on disk) record what no table or file holds; no guard reads
  them.
* **Data.** A push is a dedupe key (and a kind); a header is what the check makes
  of it; a commit is a number in a graph; a file is a version number per commit.
* **Sorting.** `Sorted` in `Sorting` gives the element at place i as the one that
  comes after i - 1 others; every order it is used with is total on what it
  sorts (files, line numbers, spans). The sorts of the standard modules have no definition a prover could
  use.
* **Mutants.** Definitions whose comment begins with "Mutant" are variants of the
  definition after them with a plausible error. `PROJECT.json` names for each
  property a mutant that TLC finds it violated with. No specification uses them.

`Worker` in detail: `pc` names the place in `run` ("loop" is the `while`
condition, "purge_deliveries" and "purge_completed" the rest of
`_maintenance`, "process" the whole of `process`). `Die` is a kill, a power
loss or an exception that leaves `run`, such as a database error in `fail`.
Signals are only handled at an `await`, so `RequestShutdown` is possible in
"sleep" and "process"; a signal at another place takes effect at the next one.

`Pipeline` refines "process" by `stage`. The git phase is one step there that
ends in any verdict the push and the moment allow; `Mirror` looks inside that
step, with the lock, the commands and their interruption. `Mirror` lets each
changed file be left in the diff or not, which covers the ignore patterns and
the limits of `build_diff_result`; what these really leave in is `Selection`.

Two errors that the code passes over are choices of `Mirror`. `StartClone` may
leave a `Remnant` of the staging directory, since `ensure` ignores the errors of
its removal; `git clone` then refuses it (`CloneRefused`) and the attempt fails.
`Diff` may start from `Load(FALSE)`, the empty map that `load` gives for a file
it cannot read or parse, and `Save` puts the result in the place of that file.

`Prepare` is the rest of that step. Its `phase` walks through the calls of
`_prepare`: "listed", "cap", "take" and "selected" are inside
`build_diff_result`, "plan" is after the map was written, "request" and "files"
are the calls of `ContextBuilder.build`. A path is a number and a tree gives
each path a version; `Patch` says what git writes for a change from one version
to another: the length of the diff, the weight it is sorted by, whether it is
binary, and the lengths of the blocks of code around it. git itself (name
status, rename detection, a change of type as a deletion and an addition) is
part of the model, marked external. An attempt may fail at any point and be
repeated after newer pushes. The history variable `stale` records for which
paths the code gives up freshness (files dropped by a limit, a failed save, an
overwritten newer entry); `MapIsFreshElsewhere` says that there are no others. Pushes arrive only between
preparations: one that arrives during a preparation changes nothing it reads.

`DiffParser` has two sides. The `Write...` actions are git, which knows what
each line is; in the same step `ReadLine` is one turn of the parser's loop, which
has only the line: its first characters, the header it looks like, the name in
it. The properties compare what git said with what the parser made of it.
`Spans` has no state: `Excerpt` puts it behind the parser and states what is
shown around the lines of the file that is being read, in every state of the
parser and for every file length, window and layout of definitions among its
constants.

## 3. Runs

| Run | Instance | Shows |
|---|---|---|
| `WorkerOne` | 1 worker, 2 pushes, 2 attempts, lease 2, maintenance interval 1, with fairness | the invariants of the deployment, the refinement of `JobLifecycle`; every push is settled, shutdown ends, settled rows are purged |
| `WorkerMany` | 2 workers, 2 pushes, 2 attempts, lease 1, a first backoff above its cap | what remains true with several workers |
| `WebhookAlone` | all 8 settings, 32 requests, 3 delivery ids, purge of deliveries, one cut-off handler | authentication, dispatch, duplicates, what a cut-off can and cannot lose |
| `BotSafety` | receiver and worker, 1 push with and without delivery id, one cut-off handler, 2 rows | the receiver is what `Worker` expects of its environment; no second analysis within the retention |
| `PipelineSafety` | 1 push of any kind, all 32 settings, 2 attempts, up to 2 model calls, 1 retry each | notification, repetition, cost; refinement of `Worker` |
| `BaselineAll` | every graph of 4 commits (merges included), every push, branch and tag position | the choice of the baseline |
| `MirrorSafety` | 2 processes, 3 commits, 2 branches, 2 files, 3 pushes and the script | mirror, clone, diff and map, with removals and loads that fail |
| `PrepareAll` | 3 pushes between 6 trees of 5 paths (one ignored, one not source), 1 fault, limits that bite | selection, requests and map, section 2 |
| `LinesAll` | 2 sections of 10 kinds, 4 hunk lines, files of 1 to 7 lines, windows 0 to 2, 4 layouts | the parser against git; the code shown around a change |
| `TwoWorkers`, `LostPush`, `StarvedFile` | minimal (`StarvedFile`: as `PrepareAll`) | statements of the repository that do not hold, section 6 |

Bounds and why they are enough. Two attempts distinguish first, last and
exhausted; a lease of 2 with an interval of 1 makes maintenance run before and
after expiry; two rows let recovery and purge treat one and leave the other,
and in `BotSafety` let a purged push get its second row. `MaxDisruptions`
bounds shutdown requests and deaths outside a job; a death inside a job needs no
bound because each costs an attempt. Without that bound a worker could be
killed for ever before it claims anything, and no liveness would hold of any
program. Four commits contain every relation between new commit, default
branch, parents and merge bases that `resolve_baseline` distinguishes,
criss-cross merges excepted. In `PrepareAll` three pushes are what it takes for
one to fail, a second to overtake it and a third to build on what the retry
left; the trees are chosen so that between them files are added, modified,
deleted, renamed into and out of the ignored path, replaced by a link and made
binary, and the limits so that each of them is hit by some push and not by
others. `MaxFaults` bounds the lost and unsaved maps and the pushes given up;
attempts that fail and are repeated have no bound. In `LinesAll` four hunk lines
leave room for two hunks with a lookalike or a stray line before the change that
it could displace, and two sections for one to disturb the next.
`BaselineAll` stops after one evaluation and the text of `LinesAll` ends, so
deadlock is not checked there; everywhere else it is.

Symmetry is not used: the instances are small, and it is not sound for liveness.

## 4. Fairness

`FairSpec` assumes weak fairness of `Progress(w)`, one formula for everything a
worker does by itself, and of `Tick`. The loop has no step at which it waits for
something other than time; a stopped container is started again
(`restart: unless-stopped` in `compose.yaml`); and an attempt ends because every
request and git command has a timeout. How an attempt ends is not
assumed: fairness is of the disjunction, so failing or dying every time is
allowed. That the retry loops inside an attempt cannot keep it going is
`CostIsBounded` of `Pipeline`: the requests of an attempt are bounded. Deaths, shutdown requests, deliveries
and the remote are never assumed to happen.

## 5. Proofs

Every theorem is of the form `Spec => []P` or `Spec => [][A]_vars` and holds for
every value of the constants under the named assumptions, which TLC evaluates on
the instances:

* `QueueAssumption` (at least one attempt, natural durations, backoff and its cap
  natural numbers), `WorkerAssumption`, `WebhookAssumption`, `PipelineAssumption`,
  `SelectionAssumption`, `RepoIndexAssumption`, `ContextAssumption`,
  `PrepareAssumption`, `DiffParserAssumption`, `ChangesAssumption`, `CommitsAssumption`: types of the
  constants, and that a repository has finitely many paths. `MaxId` and all
  other bounds are arbitrary natural numbers.
* `MirrorAssumption`: `IsGraph(Graph)`, commits can be numbered so that parents
  come first. A commit contains the hashes of its parents, so they were there
  before it.
* `ExcerptAssumption`: lengths and windows are natural numbers, and two
  definitions of a file are nested or apart: in Python each `def` and `class`
  begins a line of its own and ends inside its block.
* `DeliveryIdAssumption` (`Webhook`): push requests with the same delivery id
  are about the same push. GitHub gives each delivery a GUID of
  its own and keeps it on redelivery.

All properties of the passing runs that are not liveness are theorems.

**Queue and worker.** `WorkerProofs`, any number of workers. The inductive
invariant `IInv` adds to the types, the attempt limit and the dates that a
worker's attempt number is never above the one its row counts. That is what
makes the attempts exclusive: a claim raises the row's count, so the new
holder's number is above all others. Each method of the queue gets one lemma on
rows, each action cites it. Theorems `TypeCorrect`, `AttemptLimit`,
`TimestampsAgree`, `ClaimsExclusive`.

For one worker (`OneWorker`) `SInv` adds `HeldIsLeased` and
`StrandedOnlyAtLimit`; they need each other, since startup recovery is harmless
only because nobody holds a job then. Every step has one of five shapes, and
each shape is a step of `JobLifecycle` or a stutter. Theorems `HeldStaysLeased`,
`StrandedAtLimit`, `SettledStaysSettled`, `Refinement`.

**Receiver and system.** `BotProofs`. `BotImplementsWorker` carries the theorems
about `Worker` over to the whole system. `NoRerun` rests on `BInv`: a row's
completion is never older than the saving of its key, so a row old enough to be
purged belongs to a push saved longer ago than the retention. `WInv` is about
the handler between its two transactions: as long as none was cut off, a
delivery id that is recorded belongs to a saved push or to the request in hand,
so "duplicate" is only answered for what was saved. With it and `QInv`, the
invariant of the tables, `WebhookTypeCorrect`, `AnsweredPushesAreSaved` and `TracesOfTrustedOnly`, and
`SystemKeepsPromises` for the receiver beside workers that settle and purge.

**Analysis.** `PipelineProofs`. `PipelineRefinesWorker`, and
`NotifiedBeforeCompleted` from `PInv`: a worker whose attempt is done and wanted
a message has one accepted message in the ledger of the job it holds, and only
such a worker completes. For one worker `CInv` adds two things. For
`PushCostIsBounded` it counts what the attempt in progress may still spend: the
ledger of the job in hand plus that credit is within what its attempts allow,
and a death gives the credit up. For `RepeatsHaveExcuses` it says where the one
message without an excuse can be: with a job that is completed or gone, or in
the hands of a worker about to report it. Both are stated for one worker
(`OneWorker`) and use `SInv`: with several a job can get a second holder while
the first goes on (run `TwoWorkers`).

**Baseline and mirror.** `MirrorProofs`. The choice of the baseline, for any
commit graph: the recursive
`Histories` is shown to be the smallest set with the commit that has with each
commit its parents; existence of the function needs no induction then, and
equality follows from a least commit for which it failed. All else is derived
from that set: ancestors are transitive and not later than the commit, commits
with a common ancestor have a merge base (the latest one). Theorems
`BaselineStaysBehind`, `NewWorkIsShown`.

The mirror, for any graph, files and number of processes: `MInv` says that only
the holder of the lock is past "lock", and what that process may rely on at each
place: before the clone, no staging directory but one whose removal has just
failed; before the save, a draft made from the map on disk or, if that could not
be loaded, from the empty one. Theorems `MirrorStaysWhole`, `LeftoversAreRemoved`,
`UpdatesAreKept`.
`DiskOK` and `Relies` add that each directory has with a commit its history,
since clone and fetch bring all that is reachable, and that the places after
`ensure` are only reached with a mirror. Merge bases and first parents are
ancestors of the new commit, so they are in the mirror with it, wherever the
default branch points by then: `MirrorTypeCorrect`, `DiffFindsItsCommits`.

**Diff, map and requests.** `PrepareProofs`, any paths, trees, limits, number of
pushes and faults. Three invariants, one on top of the other:

* `SelInv` for `build_diff_result`: the entries are split among the lists
  (`Partition`), the total is the sum of what is kept (`Counted`), what was
  taken is larger than what is still to come and what was dropped had no room
  when its turn came (`Ordered`), and the first file always finds room
  (`NotEmptied`). Theorems `ChangesAreAccountedFor`, `DiffsAreBounded`,
  `DropsAreForWantOfRoom`, `PushesAreNotEmptied`.
* `MInv` for the map. That the map is fresh where no push is pending is not
  inductive, since pushes are applied out of order. `Fresh` only asks that no
  push is `Waiting` for the path: pending, not applied and not overtaken there
  by a newer one. `Down` says that what overtook a push overtook the older ones
  too, and `Latest` that the newest push to touch a path brought it to where the
  branch has it. Theorem `MapStaysFresh`.
* `CtxInv` for the requests: `SharedOut` splits the kept files among shown,
  left out, the rest of the open request and the groups that wait, disjointly;
  `WithinShares` bounds what the files so far have used if each kept to its
  share. Theorems `RequestsAreBounded`, `FilesAreInOneRequest`, `SplitsAreEven`.

These need facts about sums, cardinalities and sorting of finite sets
(`SortingProofs`). The prover has no induction over data, but a set of subsets of a finite set has a
smallest member (`LeastSet`): a lemma is proved by showing that a smallest
counterexample has a smaller one. So the sum of the sizes of a set is shown to
exist, to be unique and to be additive, and `Sorted` to list each element once
and in order.

**Parser.** `DiffParserProofs`, any names, changes, sections and lines. `PInv`
ties the block being filled to the section being written: header lines come
before the first hunk, so `in_hunk` says exactly whether git is inside one;
without stray lines the counts agree; and a binary section is known to be one or
the line that says so is still to come. Theorems `PositionKept`,
`ChangesCounted`. `NInv` extends the last idea to every field that names the
file: it has the value the section asks for or its header line is still to come,
and no line to come says anything else. Theorem `FilesAreIdentified`.

**Excerpts.** `ExcerptProofs`, any diff, file length, window and layout of
definitions. `Coalesce` and `MergeSpans` are folds over a sorted sequence, and
`FoldLeft` is a recursive function. That the function exists is proved like the
sum above, by a least length for which it fails; then each turn of the loop has
one equation, and what holds of the list so far (`Merges`: its spans do not
touch, cover exactly the lines of the spans seen, and each starts where one of
them does) is carried from turn to turn, again by a least turn at which it
fails. So the ranges cover exactly the touched lines, and merging changes
neither the lines that are covered nor what encloses them.
`TouchedFinitely`, an invariant of the parser, gives the finite sets to sort.
Theorems `WindowsHoldTheChange` and `DefinitionsHoldChanges`; the second rests
on definitions being nested or apart, since otherwise the smallest definition
that meets a range could reach out of the one the range is in.

Only model-checked: the liveness properties `EveryJobSettles`, `ShutdownEnds`
and `SettledIsPurged`, as the prover does not do fairness.

## 6. Where the code and its words differ

* `TwoWorkers`: a worker that starts takes over the job another live worker is
  processing, although `db.py` and `locks.py` call several workers safe. The
  attempt stays exclusive (`AttemptsExclusive`) but the push is analysed and
  announced twice. With the one worker of `compose.yaml` this cannot happen.
* `LostPush`: cut off between its two transactions, the receiver answers the
  redelivery "duplicate" and the push is never saved.
* `StarvedFile`: the even split of a request's budget covers the code around a
  change but not the diff, which is always included whole. One diff longer than
  its share can use up the request, the loop ends, and the remaining files are
  in no request and in no note, although the comment says "one huge file cannot
  starve the rest of the change". It needs a diff longer than the budget of a
  group: 12000 characters and 90000 / 8 with the defaults. `EvenSplitHolds` is
  what is true of the split, and `RequestIsBounded` what bounds the excess; the
  "within `budget` chars" of `build_file_context` does not hold for the same reason.

Seen while modelling, without a run of their own:

* A job interrupted in its last attempt is not failed at worker start, as the
  docstring of `recover_stale_jobs` says, but by the first maintenance
  (`StrandedOnlyAtLimit`). It is settled in the end (`EveryJobSettles`).
* `ensure` ignores the errors of removing an old staging directory. If it cannot
  be removed, `git clone` refuses the directory on every retry and the project
  is not analysed until somebody removes it; nothing but such a directory is in
  the way (`OnlyStuckLeftoversBlock`).
* A repository map that cannot be read or parsed is taken for an empty one, and
  the next push saves its own entries over the file: those of all other files
  are lost until they are changed again or the script indexes the project
  (`NoLostUpdate` says that they are lost in no other case).
* A body with a non-object where an object is expected is answered 500 where
  `from_github_payload` promises 400. It leaves no job behind.
* `rename from` and `rename to` lines carry no `a/` prefix, but the parser strips
  one: a rename from or to a directory named `a`, `b`, `c`, `i`, `j`, `o` or `w` at the top
  gets a wrong path. `FileIsIdentified` makes no claim there (`NamesAreReadable`).
* `python_enclosing_spans` takes the smallest definition that meets a range, not
  the smallest that encloses it as its docstring says: if the first lines of a
  class and of its first method change together, the code shown is the method
  alone. The diff itself still has all of the change.
  `DefinitionsHoldTheChange` states what remains true.

## 7. Not modelled, and the plan

Not modelled: the text of prompts, messages and logs; HMAC and JSON themselves;
the symbol extractors; redaction; glob translation; settings (their values are
constants or initial values). The receiver's own restart needs no state. `git
gc` is not modelled, objects of a mirror stay.

Also not modelled: the statistics of a diff, which are only displayed; the
unquoting of names and the `-z` lists of git (a name is an atom); mixing pushes
of several branches in one map.

Order of work. Done: queue, worker and life cycle; receiver; their composition;
pipeline; baseline; mirror; selection, map, requests; parser and spans; the
proofs above. Next:

1. Commits of several branches in one map.
2. How much a diff repeats when the default branch in the mirror is behind.
