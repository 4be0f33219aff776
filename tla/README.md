# Verification of the JoinedContext Portal

TLA+ models of the parts of the Portal where processes, replicas, people and failing services
meet: the reconciler and its run queue, the deletes a source's absence causes, the erasure of a
data subject, and the publication of an application an agent built. They are checked with TLC on
small instances and, for the safety properties that matter most, proved with TLAPS for every
instance. Paths below are relative to the repository's root; `PROJECT.json` maps every definition
to its lines.

The Portal (Rust, `src/`) serves a web interface and an API over a *repository of
manifests* in a forge. A change is reviewed and merged on the forge; the *reconciler*
then brings everything else (the in-memory mirror the API reads, the broker's views and
rules, the stream runner, the identity realm, the open-data catalogue) to what `main`
declares. Beside it, requests, periodic loops and drivers of agent runs work on rows of one
database and on the forge, in several replicas.

## 1. Inventory

### Components, their state and operations

| component | state | operations | interacts with |
|---|---|---|---|
| run queue `reconciler/run_queue.rs` | one `Entry` per pipeline (stream, clock, lane, next, queued, running, run id, hash of what runs, sweep, stuck, retry, budget), `gone`, `ends`, what the log said | `plan`, `retries`, `sweeps`, `settle`, `queue_due`, `queue_retries`, `stuck`, `failed_to_start`, `run_now`, `tick` | runner (HTTP), run log (database), reconciler's pass, API |
| leadership `reconciler/leader.rs` | `held` connection, `leader` flag, heartbeat; on the server the advisory lock and the session's lease | `acquire`, heartbeat, `close`, `resign` (tests only) | PostgreSQL; `sync_once` and `go_live` read it |
| syncer `reconciler/daemon.rs` | `running`, `going_live`, the merge count, `last_render`, status, the catalogue's `previous` | `merged`, `go_live`, `sync_once`, `swap`, `start_catalogue_wave`, `spawn_periodic` | forge, mirror, views, catalogue, every converge step |
| mirror `store.rs` | the resources by key | `replace_all`, `upsert`, `behind` | read by the whole API |
| broker views `reconciler/views.rs` | the last sources read | `converge`, `converge_merged`, `remember` | broker (HTTP) |
| stream deployer `reconciler/streams.rs` | deployed and rendered streams, back-off, the queue | `converge`, the runner calls | runner |
| catalogue `reconciler/ckan.rs` | the datasets in CKAN | `converge` (publish, withdraw, sweep) | CKAN |
| pipeline run log `pipeline_log.rs` | a row per run | `ran`, `ran_streams`, `outside_failures`, `ran_stream` | database |
| source deletes `pipeline_source_deletes.rs`, `api/internal/pipeline_rejected.rs` | a ledger: per entity a pipeline wrote, the last run that read it and the runs that missed it; a hold | `seen`, `run_ended`, `judge_and_delete`, `settle`, `launch`, `reported`, `keep`, release | runner's reports, queue's ends, broker |
| erasure `erasure.rs`, `api/erasures.rs` | a log row with its decision and one state per store | propose, `approve`, `decline`, `attempt`, `save`, `reapply` | broker, database, conversations |
| agents `agents/`, `api/agent_runs.rs` | a run's status, lease, ticket and Change; its branch | create, drive, `publish_run`, `cancel_run`, `end_run`, reap | forge, database, cluster |
| changes `change.rs`, `api/changes.rs`, `api/mutate.rs` | pull requests on the forge | propose, approve (read, update, compare, merge), reject | forge, agents |
| sync driver `sync/` | what it last saw of a remote | propose through a Change, re-run | forge |
| MCP tasks `mcp/tasks.rs` | tasks by id | `start`, `cancel`, `result` | API |
| small shared pieces `cache.rs`, `keyed.rs` | a byte-bounded LRU; locks by name | `get`, `insert`; `lock` | many callers |

Everything else (interface, SDK, sample apps, request handlers that only read, the converge
steps that bring one external system to the repository) keeps no state of its own; the
`components` of `PROJECT.json` list it with the reason it is left out.

### How they interact, and what is hard

* **Three tasks share the run queue** behind one mutex that is never held across a call to the
  runner. A tick sweeps, polls, settles, deletes, reports and starts, with an await between any
  two; a plan or a `run_now` may come at each of them.
* **Whole runs and merges race.** A whole run reads a revision minutes before it writes; `go_live`
  takes a merged change live beside it. One counter, held across each write, is all that keeps
  the older reader from undoing the newer one.
* **Replicas race for one role** over a lock whose holder may be dead, cut off, or slow.
* **Nothing of the queue is durable.** A restart has only the run log to learn what it missed.
* **Absence is evidence.** An entity is deleted because reports about it did *not* come; reports
  that were lost, refused, late or of the next run must not read as absence.
* **A row is read, something slow is asked, the row is written.** An erasure's attempts, the judge
  of a run's end, the end of an agent's run and an approval all do this, and each has a second
  actor that does the same to the same row.
* **A person approves a text, the forge merges a branch.** Pushes, a moving `main`, and the
  approval's own update of the branch lie between the two.
* **The outside fails in parts**: a delete that times out, a start whose answer is lost, a
  runner that restarts, a lease that is refused, a view the broker does not take, a store that
  answers and a save that is lost.

What makes each part correct is stated as the properties of section 3; `hazards` in
`PROJECT.json` lists the lines where each could go wrong and the properties that would tell.

Smaller hazards that no property is about: a plan that moves runs under way to a lane may leave
more of them there than its limit until they end (`run_queue.rs:699`); `running` dated by the
tick's begin (`:737`); a run-once pipeline refused for want of a client loses its only due time
(`:716`); a delete the runner carries out after the Portal gave up on it (`streams.rs:1221`); a
follower's run replaces the mirror without the merge count (`daemon.rs:1521`); a dataset withdrawn
while the Portal was down (`ckan.rs:419`); locks of one process only (`keyed.rs:18`); the LRU's
order and byte count (`cache.rs:60`); a task cancelled while it files its answer
(`mcp/tasks.rs:179`).

## 2. Modules

| module | models | state and actions |
|---|---|---|
| `RunQueue` | the run queue, the tick, the pass, the runner's calls | `entries` … `rules` are the fields of `RunQueue`; `tickPc`, `to…`, `polled` are the locals a tick carries across its awaits; one action per locked section and per runner call (`TickBegin`, `TickSweep`, `TickPoll`, `TickSettle`, `TickDelete`, `TickTakeEnds`, `TickTell`, `TickStart`, `TickClean`), `PassRead` (its three reads in one step) and `PassPlan` for the reconciler, `RunNow` for the API; `RunFinishes`, `RunnerRestarts`, `Crash`, `Advance` are the outside |
| `Leader` | the election | `lock` is the server's; `held`, `closing`, `leader`, `pc` are one replica's; `acquire` is `ClaimHeld`, `ClaimLost`, `ClaimTry`, `ClaimLease`; `Beat` and `Demote` are the heartbeat; a leader's run lasts from `pc` = "run" to `RunEnds` |
| `Syncer` | runs, merges, mirror, views, catalogue wave | a run is `RunClaim` … `RunEnds`, a merge's task `GoBegin` … `GoMirror`; `merges` is the count, and its mutex is what `Unlocked` says; `Rendered` is what a run or a `go_live` reads, `kept` the projects whose repository did not stage and that are taken from `lastRender` |
| `FourEyes` | what an erasure promises | abstract: `Propose`, `Decide`, `Erase`, `Complete` |
| `Erasure` | the erasure log and everyone who works on it | `approval`, `parties`, `stores` are the row; a worker is a person's request or a replica's loop, and holds what it read; `Read` and `Decide` are the two halves of a decision, `Ask` and `Save` of an attempt; `TickReapplies`, `ReadRecords`, `RecordsFail`, `Resend`, `ResendFails`, `ReadOpen` are the loop; `Hangup`, `Restart`, `Restore` are the outside |
| `SourceDeletes` | the ledger, the judge and the delete stream | `ledger` and `hold` are the database's, `run` and its reports the runner's, `end` the one queued, `judging` what the judge holds between its read and its write, `handing` what it launches, `stream` the delete stream; for the properties only, `absent` counts the complete runs in a row whose source did not list an id, judged or not, and `untold` has the ids a complete run found without the ledger learning it |
| `Publication` | publishing an application and deciding the Change | `runs` is the agents' store, `changes`, `tip`, `head`, `pull`, `appMain` the forge (`tip` is an open Change's branch: its files, what the forge lists of them, what `main` changed under it); `task` is where each person's request is, `driver` the run's driver, `reaper` the leader's; one action per call to the store or the forge |
| `MCRunQueue`, `MCSyncer` | – | the plans and contents of the runs; the other modules need none |
| `…Proofs` | – | the theorems of each module; the run queue has two, `RunQueueProofs` for clocks, types and what the runner holds, `RunQueueStepProofs` for what a step may never do |

`Erasure` composes the API's requests with the loops of the replicas; `Publication` composes the
agents, the Changes and the reaper; `RunQueue` the queue, the deployer's calls and the log.
`Erasure` instantiates `FourEyes` (`Promise`), with the decision, the parties, the stores ever
reached and `completed_at` as the refinement mapping.

Names are the source's. An operator that ends in an underscore and a word
(`ChangedEntry_Rehashed`) is a plausible bug of the definition below it, kept to show that the
property it is listed with would see it.

### What is abstracted

**Queue, leader, syncer**

* A stream is a model value and stands for its hash. A cron line is the set of minutes it
  matches, scanned `CronScan` ahead (366 days in the code); parsing it, and a stream's rendering, are
  data.
* `last` is kept as whether it was a failure, which is all the code branches on. The status text
  of `outcome()` and the metrics are left out.
* One project: the rules' fingerprints are one value. `rules` and `plan` are called under one
  lock, so `rules_changed` never survives a step and is the parameter `changed`.
* A run's row in the log is written when the run finishes (`RunFinishes`); the code appends it
  line by line, so a run that a crash cut in the middle of its lines, and that the next Portal
  takes for the newest one, is not modelled. `PassRead` takes three reads of the log and the rules,
  each awaited for itself, in one step. The report of an end goes over a channel without a bound and is taken
  as delivered when sent. A run that ends with no row keeps no hash, as in the code.
* Starts of one tick are sent in any order (the code: lane by lane); deletes, sweeps and polls
  go in key order as in the code, where it saves states and no property can tell.
* A timed-out delete leaves the stream in the runner, the case the code describes (T-5370).
* In `Syncer` a content gives each resource of the organization and of its projects one spec, and
  the history of `main` is theirs together. The organization is read at the revision a run began
  with, a project (a member of `Projects`, the resources mounted from its repository) as it is when
  the run renders, in one step. A project that does not stage keeps its last render and the run goes
  on, as in the code; the organization's own repository ends it. Views of a resource are one value; what `go_live`
  finds gone it leaves in the broker, except in a rule document (`Rules`), which is one object and is
  written without it. The merge count is never wrapped. The steps of a run that touch neither views
  nor mirror are not there; the wave publishes, withdraws and sweeps in one step.
* In `Leader` time is the silence the server counts. A statement over a cut network fails or
  never returns. `resign` is called by tests only.

**Erasure**

* What a search finds, the hashes kept of it, and the groups a subject is in are data. The expiry
  of a proposal is a flag that time may raise. The order of the stores is the code's (`Place`); the
  runs have the broker and the Portal's own. The third store, conversations, is searched for the
  subject's words as well on the approver's attempt and for the URNs alone on a loop's
  (`erasure.rs:674`), so a retry may find less than the first attempt would have; either answer counts
  as the store reached, and what the retry no longer finds is not modelled.
* A store that is asked twice answers as once: erasing is idempotent. `reached` remembers, for the
  properties, that a store was reached at all, `gone` that its part is not there now.
* One space, hence one list of records, read once in a pass. The broker writes a record with an erasure
  and loses it with a restore. `recorded` compares subject and Entities and not the erasure: `Alike`
  are the erasures that agree in both, and a record of one stands for all of them. `Logged` are
  erasures completed before the model starts, so that a pass has an older one to be stopped by.

**SourceDeletes**

* One pipeline in snapshot mode. A run's name is only compared with the last, so a row keeps how
  many ends ago it was read (`age`), capped; misses saturate at `MostMisses` (255 in the code, above
  the rule). `Listings` are what the source may list.
* `note_seen` may fail and is answered as taken (fault `unseen`); the judge's reads and writes may
  fail (`unjudged`), and its end is then gone.
* One delete stream at a time, where the code would start a second beside it (`:1268`), and at most
  one queued end. `MAX_PER_STREAM` and `CHUNK` only cut a list in pieces; `EDIT_SLACK` is part of
  whether the broker shows an edit. Ids the broker refuses one by one are in `Lost`.
* `maxShare` may change between two judgements, as an edit of the pipeline does.

**Publication**

* One application with its own repository. The statuses before a preview are `building`; pods, the
  interview and workspace runs are left out. Each person has one request under way at a time.
* The forge is external: it merges only the pinned commit, refuses an outdated base, closing a
  merged pull request, and updating a branch that is not behind. A file both sides changed reads
  after an update as neither had it, or as `main` has it, and then the Change touches it no more.
* A Change is its files, each with the head that wrote it, so a push that changes, adds or drops one
  is told from what was read. What the forge lists of them follows in the background (`Refresh`).
  `bring_up_to_date` is three steps, the update, the head with the two trees (a tree of a commit
  never changes), and the list; a push, an update or a refresh may come between any two.
* One open Change per branch, which is per operation: `create` before the application is there,
  `update` after. Whether it is there is read from the merged Changes; the code reads its mirror,
  which follows. The gate on the tests' verdict (`agent_runs.rs:2154`) is left out: the model
  publishes more often than the code.
* `set_status` is one guarded statement; the refusals of its compare-and-set are its guard. The
  reaper's ticks have no time of their own: a tick's first list may follow any finished list.

## 3. Runs

`tlc -config <run>.cfg <module>`; sizes are distinct states.

| run | module | checks | size |
|---|---|---|---|
| `queue_one` | `MCRunQueue` | `NoForgottenRun`, `RunnerHoldsNamedRun`, `RetryWindow`, `TickSparesRunning`, `NeverTwoRuns`, `EndsNameWhatRan`, `QueuedKeepsItsRun`, types | 1.60 M |
| `queue_lanes` | `MCRunQueue` | `OldestFirst`, `LaneKeepsLimit`, `NoSlotIdles`, `QueuedRunLeaves`, `DueTimeIsServed`, `RestartRewrites` | 22 k |
| `leader` | `Leader` | `FlagIsSession`, `LockIsKept`, `RunStartsUnderLock`, `SomeoneLeads` | 5 k |
| `syncer` | `MCSyncer` | `RunKeepsMerge`, `Converges`, types | 766 k |
| `erasure` | `Erasure` | `KeepsPromise` (refines `FourEyes`), `LogIsTrue`, `EveryStoreAnswers`, `RestoredIsSentAgain`, types | 111 k |
| `deletes` | `SourceDeletes` | `OnlyMissingOrUntold`, `OnlyOursGo`, `LedgerDrains`, types | 404 k |
| `publication` | `Publication` | `MergedAsRead`, `PublishedIsApproved`, `CancelledHasNoTicket`, `ClosedRunEnds`, types | 959 k |
| `queue_rewrite`, `syncer_undo`, `syncer_withdraw`, `erasure_again`, `deletes_late` | | one sentence of a comment or a guide each, which the code does not keep | |

**queue_one** — one pipeline, three plans (two streams on two clocks, and none), two rule
fingerprints, `run_now`, every runner fault, time that passes inside a tick. One key is enough for
these properties: `gone`, `sweep`, `stuck` and the run's names are per key, and keys meet only in
the lanes. Two clock units, a cap of two and a retry budget of one let a run reach its cap and a
second retry be asked for in the day. Three units or an unread log (`log_unread`) take more than
the run's time; the proofs below have neither bound.

**queue_lanes** — two pipelines on one slot, both due at the same minute, one restart, an account
that may lose its client. The last instant of the clock stands for all time after it: ticks and
passes go on there. That is why no unanswered poll is in this run, as a cap could never pass. One
slot and two keys are the least at which lanes mean anything; the proofs of `OldestFirst`,
`LaneKeepsLimit` and `NoSlotIdles` are for any number of both.

**leader** — two replicas, a lease of two beats, two faults (a cut, a silent or heard death, a refused
lease): enough for the leader to lose its session and the next one to fail too.

**syncer** — two merges among contents in which an Endpoint of a project with a repository of its own
comes, goes and changes, a Policy is revoked, a Pipeline changes that only a whole run takes live, and a
project is registered; one fault (a project that does not stage, a failed read or write, a claim that
fails, a demotion), with and without a periodic run. `RunKeepsMerge` is about the repositories that
staged: a kept project is written at its last render, over what `go_live` took live of it, and
`Converges` says a later run repairs that. `CHECK_DEADLOCK FALSE`: without a periodic run a Portal
that has done everything is at rest.

**erasure** — two erasures of one subject, the first logged before and completed, two people, one
replica's loop beside the approver's own attempt, two stores, two attempts each, one open erasure per
pass, an hourly pass every second tick and two faults (a lost save, a restart, a restore; a store and
the broker's records may fail at any time). Two workers on one row are all it takes for a stale save;
two erasures let the older one's failing answer end the pass of the newer. `RestoredIsSentAgain` states
what it needs of the broker in its premise: answers for the records, for the erasure itself and for
every older one, and nothing of the newer ones.

**deletes** — two ids, one of which someone else made first, a rule of two misses, and a share that is
either below or at half of the ledger so that one missing id of two is held or not. The source lists
both, the pipeline's own, or none; one of eight faults (a run that does not finish, a dropped report, a
failed record, a report the ledger does not take, an end that is not judged, a refused launch, a
restart, a delete stream that dies at any step) and one act of a person (keep, release, an edit of an
entity) may come anywhere. `OnlyMissingOrUntold` names what the code does not prevent: an id that a
complete run found and the ledger was never told of may go although it was not missing in a row. The
proof has none of the bounds.

**publication** — one unattended run, an owner and an approver, two commits, one Change of two possible
files, one push to it *and* one move of `main`, and one failed call or restart. An unattended run has both
ways to wait and may be published again, so it does all an attended run does. `Apart` keeps the two
kinds of trouble in behaviours of their own: no call fails and no time runs out once the branch or
`main` moved, and neither moves after that. `CHECK_DEADLOCK FALSE`: a published application is at rest.
The proofs have no `Apart` and cover any number of runs, people, Changes, files and pushes.

### Fairness

* Queue: weak fairness of the tick's steps, of the pass, of time, and of runs finishing. Tick and
  pass are endless loops (`streams.rs` `spawn_queue`, `daemon.rs` `spawn_periodic`) whose calls all
  have timeouts; a run that does not finish is ended at its cap, so fairness of `RunFinishes` only
  spares the clock's bound.
* Leader: weak fairness of each replica's claim, beat and run end, of the server's own actions
  and of the network coming back. Nothing is assumed of deaths.
* Syncer: weak fairness of the run, of the merge's task and of the wave. Nothing is assumed of a
  periodic run unless one is configured (`ticking`).
* Erasure: weak fairness of the loop (`erasure.rs:850` is endless) and of asking and saving once
  begun. Nothing is assumed of what a store or the broker answers; what `RestoredIsSentAgain` asks of
  the broker is its premise (`AnswersUpTo`), because `reapply` returns at the first error
  (`erasure.rs:827`, `:843`) and a broker that never answers for one erasure starves the newer ones.
* SourceDeletes: weak fairness of runs starting, reporting and ending (the queue), of the judge's
  task, of the delete stream and of clearing a decided hold. Nothing is assumed of people.
* Publication: weak fairness of the reaper's steps and strong fairness of its look at waiting
  runs: the loop is endless and every tenth tick looks (`reaper.rs:123`), whatever the other ticks
  did. Nothing is assumed of requests, drivers or people.

### What the violated runs show

Each is a sentence the repository says of itself, and a behaviour of the code against it; the
`findings` quote both.

1. `queue_rewrite`: a replace pipeline whose stream changes while its old run is in the runner
   is *not* due at once: `queue_due` consumes the due time because the entry is busy
   (`run_queue.rs:629`), and its entities hold the old mapping until the clock fires.
2. `syncer_undo`: a merge that finds its content in place already is not counted, and the run in
   flight then writes the revision before it. The run the merge is owed repairs it (`Converges`).
3. `syncer_withdraw`: the next wave's `previous` is read after the count is given back, so a dataset
   may be published that no later wave knows it should withdraw.
4. `erasure_again`: the approver's attempt and the loop's ask the broker at once; the first to be
   answered completes the erasure, the second fails and saves the broker as pending
   (`erasure.rs:697`), though "two attempts of one erasure never overwrite each other"
   (`erasure.rs:654`). `open` skips it because it is complete, `reapply` because it is not done:
   after a restore of the broker it is never sent again.
5. `deletes_late`: the judge takes ends one by one and waits for the runner at each (`state.rs:839`);
   the pipeline's next run may report before it gets there, and ids both runs read are counted
   as missed. The guide says a record goes "only after it is missing from `misses` complete runs
   in a row". A lost end and a report the ledger did not take break the sentence in the same way;
   `OnlyMissingOrUntold`, which is proved, says that nothing else does.

Steps the models take as the code does, which a reader may argue about and no run is about:

* a pipeline held because its delete hung is started all the same by the start the same `settle`
  had decided (`run_queue.rs:303`, `:923`);
* a leader that lost its session while it runs goes on writing beside the next one (`leader.rs:3`,
  `daemon.rs:730`); a `go_live` that staged an older revision writes it over a newer run's, and
  the run the merge is owed repairs it (`daemon.rs:748`);
* the reaper, or the driver's `expire`, ends a run it read just before it was set to wait for
  approval (`reaper.rs:27`, `oneshot/mod.rs:637`, against the lease of `agent_runs.rs:2616`); the
  Change stays approvable;
* an approval between the proposal and `set_status` leaves the run waiting for a merged Change;
* `end_rejected_publication` checks whose Change it is and then ends the run (`agent_runs.rs:2427`);
  an unattended run that proposed again in between is ended by its older Change;
* a restart between the merge of the Change and that of the application (`changes.rs:2601`) leaves a
  manifest that names a commit `main` of the application does not hold; nothing goes on with it;
* a project whose repository does not stage is written to views and mirror as the last assembly had
  it, also when a `go_live` has taken a newer one live since (`daemon.rs:1042`);
* a cron line whose next match is more than 366 days away, such as one on 29 February, has no next run
  (`run_queue.rs:223`) until the pipeline changes, or the Portal restarts, within the year before it;
* a record of the same subject that names the same Entities stands for another erasure's
  (`erasure.rs:788`), and a broker that does not answer for one erasure keeps the newer ones of every
  space from being sent again (`erasure.rs:827`, `:843`);
* an approval whose branch `main` overtook compares only the files the forge lists at that moment
  (`changes.rs:2827`), while the list follows the branch in the background (`:2821`): a push after the
  read that drops a file, or adds one the list does not name yet, is merged unread. The
  comments say nothing is merged "that nobody reviewed" (`git/gitea.rs:2388`), that a push between review and merge
  is "the forge's refusal" (`attack_check_and_act_tests.rs:161`), and that the merge is "at the commit its
  approval read" (`changes.rs:2756`); `MergedAsRead` has this as its one exception (`Overlooked`), and
  without it TLC finds the behaviour;
* `Driver::expire` that cannot read the run goes on and expires one that waits for approval
  (`oneshot/mod.rs:637`);
* a workspace run's relayed `status` event sets whatever status it names, `cancelled` and `published`
  too, without clearing the ticket or merging (`api/internal/agent_runs.rs:260`); workspace runs are
  outside the model, and `CancelledHasNoTicket` and `PublishedIsApproved` do not speak of them;
* a person who keeps everything between the judge's read and its write is overruled by the
  settle (`pipeline_source_deletes.rs:1023`).

## 4. Proofs

`tlapm <module>Proofs.tla`. The only assumptions are the named `ASSUME`s of the modules: the
constants have their types, `None` and the actors are apart, bounds are naturals, `Backoff` is a
sequence of naturals, a content of the repository gives every resource a spec, the resources that
register a project are not taken live by `go_live`, rule
documents are, what is mounted from a project's repository registers none, an erasure's stores have an
order and the broker is one of them, logged erasures had two different people, and the rule's misses
are no more than where the count saturates. TLC evaluates them in every run.

| theorem | states, for every value of the constants |
|---|---|
| `RunQueueProofs!TypeCorrect` | `Spec => []TypeOK` |
| `RunQueueProofs!NothingForgotten` | `Spec => []NoForgottenRun` |
| `RunQueueProofs!RunnerHoldsNamed` | `Spec => []RunnerHoldsNamedRun` |
| `RunQueueProofs!NextAfterIsFirst` | `next_after` is the first time after `t` at which the clock fires; none only if there is none, for a cron line within `CronScan` |
| `RunQueueProofs!MissedIsExact` | `missed` finds the earliest time the clock fired since, and none only if it did not, for a cron line within `CronScan` of the last write |
| `RunQueueStepProofs!QueuedKept` | `Spec => QueuedKeepsItsRun` |
| `RunQueueStepProofs!OldestStartsFirst` | `Spec => OldestFirst` |
| `RunQueueStepProofs!LanesKeepLimits` | `Spec => LaneKeepsLimit` |
| `RunQueueStepProofs!SlotsAreUsed` | `Spec => NoSlotIdles` |
| `RunQueueStepProofs!TicksSpareRunning` | `Spec => TickSparesRunning` |
| `RunQueueStepProofs!OneRunEach` | `Spec => NeverTwoRuns` |
| `RunQueueStepProofs!EndsNamed` | `Spec => EndsNameWhatRan` |
| `RunQueueStepProofs!RetriesBounded` | `Spec => []RetryWindow` |
| `LeaderProofs!LockKept` | `Spec => []LockIsKept` |
| `LeaderProofs!FlagCorrect` | `Spec => []FlagIsSession` |
| `LeaderProofs!RunsUnderLock` | `Spec => RunStartsUnderLock` |
| `SyncerProofs!SyncerTypes` | `Spec => []TypeOK` |
| `SyncerProofs!RunsKeepMerges` | `Spec => RunKeepsMerge` |
| `ErasureProofs!ErasureTypes` | `Spec => []TypeOK` |
| `ErasureProofs!LogTruth` | `Spec => []LogIsTrue` |
| `ErasureProofs!ErasureImplementsFourEyes` | `Spec => KeepsPromise`, the refinement |
| `SourceDeletesProofs!SourceTypes` | `Spec => []TypeOK` |
| `SourceDeletesProofs!OnlyOurs` | `Spec => []OnlyOursGo` |
| `SourceDeletesProofs!OnlyMissing` | `Spec => OnlyMissingOrUntold`, late judges included |
| `PublicationProofs!PublicationTypes` | `Spec => []TypeOK` |
| `PublicationProofs!PublishedApproved` | `Spec => []PublishedIsApproved` |
| `PublicationProofs!CancelledTicketless` | `Spec => []CancelledHasNoTicket` |
| `PublicationProofs!MergesWhatWasRead` | `Spec => MergedAsRead` |

**RunQueue, types.** `TypeOK` is not inductive: the end of a run copies `run` and `runStream`,
which are optional in an `Entry`. `TypeInv` adds that whatever runs has both (`NamedEntry`); each
operator on entries has a lemma that it keeps this.

**RunQueue, runs.** Neither `NoForgottenRun` nor `RunnerHoldsNamedRun` is inductive either. `HoldInv`
adds what the phases of the tick mean: which of its lists may be non-empty in which phase
(`PhaseInv`); that a start it still has to send is the run and the stream its entry names, or that
of an entry a plan dropped meanwhile, whose key is then in `gone` (`StartInv`); and that whatever
the runner holds is running, in one of the lists of deletes to come, or was left by a failed delete
or a death (`TrackedInv`). The heart of the argument: a plan keeps the names of a run under way,
only `settle` names a new one, and it does so for entries that do not run; so between a settle and
its starts an entry either keeps its names or leaves for `gone`, which the next tick sweeps. `RunsKept`
says what most steps do to the runs, nothing; `PlanRuns`, `SettleRuns` and `FailedRuns` say what the
others do.

**RunQueue, deletes and starts.** `TickSparesRunning` needs that nothing starts under a key while it
is on one of the tick's lists. `SpareInv` says so list by list: what is to be swept or cleaned up runs
nothing, what is to be deleted has ended and at most has a start to come, and a key in `gone` that was
planned again is marked for its own sweep and does not run (`GoneInv`); the last part is what `sweep`
on a new entry is for. `NeverTwoRuns` needs the reverse, `StartFree`: where a start is to come the
runner holds nothing, or a run this tick deletes before it, or a leftover. It holds after a settle
because a run that is neither under way nor on a list is in `gone` (`TrackedInv`), and `gone` does not
start. `EndsNameWhatRan` follows from `RunnerHoldsNamedRun`, which a settle's state keeps because no
start is outstanding in its phase.

**RunQueue, the queue's order.** `QueueInv`: an entry that waits does not run. From it each operator
on entries keeps the date of what waits (`KeepsDate`), which is `QueuedKeepsItsRun`. For the lanes,
`RanksDiffer` says that the runs a lane chooses from have distinct ranks below their number, because
the due time and then the key order them totally. Distinct ranks below `Room` are at most `Room` runs
(`StartsFit`, hence `LaneKeepsLimit`); a run left waiting has a rank of at least `Room`, and as ranks
leave no number out, `Room` runs start before it (`StartsFill`, hence `NoSlotIdles`); an older run's
rank is smaller (`OlderStarts`, hence `OldestFirst`).

**RunQueue, retries.** `RetryWindow` counts all the retries ever queued for an entry, while the entry
remembers those that were less than a day old when it was last armed. `RetryInv` says that what it
forgot is a day old: by the wall clock, and, for an entry that runs or whose retry is due while a tick
is between its two sections, also by that tick's time, which is the earlier of the two and the one a
retry is queued at (`Fits`). `FitsArm` and `FitsForward` show that arming at either time, and rules
that bring a retry forward, keep it; `WindowGrows` that a retry queued with budget left fits. The
step that decides is a plan that arms an idle entry at the wall clock in the middle of a tick: its
retry is not due at the tick's time, so that tick cannot queue it.

**RunQueue, clocks.** For a period the theorem is about the division: the next multiple after `t`, in
phase. A cron line's scan is defined as its first match within `CronScan`, and what the theorem adds
for it is only that `missed` inherits the bound.

**Leader.** `LeadInv` ties the flag to the connection and both to the claim: a connection being closed
is no longer kept, a replica that competes neither keeps nor closes one, a connection that is
kept on a live session is on one that carries the lease, and a live session that holds the lock is kept
or about to be (`LockIsKept`). The lease is what `ClaimHeld` rests on.

**Syncer.** `MergeInv`: as long as the count is still the one a leader's run saw, the newest revisions at
which a counted `go_live` read the organization (`movedRev`) and the projects (`movedHead`) are no newer
than those the run reads or has read; so of every repository that staged, what the run holds is of a
revision at least as new. It needs that the count only grows and that a run sees the count *before* it
reads the repository, which is the comment at `daemon.rs:657`. A project that did not stage has no such bound,
and the property leaves it out. The types need three facts beside them (`SyncTypes`): a run
or a `go_live` about to stage has read a revision of `main`, and a run in its wave has publications to
compare with.

**Erasure.** `IInv` adds to the types and `LogIsTrue` what a worker may hold while it waits for a
store: a job of an *approved* erasure (`HeldApproved`), with a count of attempts below the limit
(`BelowLimit`), and an answer "done" only for a store that was reached (`AnswerIsTrue`). The counts
need no agreement with the row, which is why two attempts may overwrite each other and `LogIsTrue`
still holds. The types bound the count a row logs, not how often a store is asked. `Untouched` says that no store of an undecided erasure has an outcome, `Quiet` that who
holds no job waits for no answer. From these each step is a step of `FourEyes` or leaves
its variables: a decision is guarded by the row it updates, not by what the request read.

**SourceDeletes.** `OnlyOurs` rests on `Untouched`: an id of others is in no ledger row, verdict,
hand-over or stream, and no report of a refused record makes a row. `OnlyMissing` rests on `MInv`:
a row's misses are no more than the complete runs in a row that did not list the id, unless the id is
`untold` (`MissesAreTrue`); the row of an id that a run listed and has reported names that run, unless a
report failed, was dropped or was not taken (`ReportsAreIn`), hence so do the rows of what a complete
end found, except those it carries as unseen, which the next run's reports add to (`EndIsRead`); the
judge's verdict and what it hands to a launch only count what is true (`VerdictIsTrue`,
`HandedIsMissing`). Without the exception the sentence is false: `deletes_late`.

**Publication.** `MergedAsRead` needs two facts of an approval under way (`AsRead`). `Vouches`: as long as
the branch's head is the pinned commit, the files of the list it compared by read as the approver read
them, and, before the comparison, every file does or is in `differ`. `Lists`: as long as nobody pushed
since the read, the branch touches only files that were read and the forge's list and the approval's name
all of them. Pushes and updates keep the first because each makes a new head (`TipsSound`: no file is of a
later head than the branch's), the second because an update adds no file. That no push between the head and
the list slips in is because the merge is pinned to the head whose tree was compared;
`ApproveCompares_Rereads` is what would break it. `PublishedIsApproved` needs, of the
requests between the two merges, that their commit is named by a merged Change, and of those between
the second merge and the status, that the application is in main. `CancelledHasNoTicket` needs that
a request about to set the status has cleared the ticket and that nothing gives an existing run one
again, for which every run that a Change, a request or the reaper's list names must have been started
(`ChangesStarted`, `TodoStarted`). Most steps are handled by three lemmas about what they leave alone:
Changes only grow and a merged one stays as it is, runs only move along `Allows`, main only grows.

**Only model-checked**: liveness (`QueuedRunLeaves`, `DueTimeIsServed`, `RestartRewrites`,
`SomeoneLeads`, `Converges`, `EveryStoreAnswers`, `RestoredIsSentAgain`, `LedgerDrains`,
`ClosedRunEnds`), which TLAPS does not reach. Every invariant and every action property that a passing
run checks is proved.

## 5. Plan

Modelled so far, in this order: the queue, the election, runs and merges, erasure, source deletes,
publication with the Changes it goes through. Next:

1. Abstract specifications beside `FourEyes`: what a Change promises (read, approved, merged as read)
   and what the queue promises a pipeline (one run at a time, each end told once), with `Publication`
   and `RunQueue` shown to implement them.
2. Source deletes: a property over the broker rather than the ledger (an entity listed again while
   its delete is on the way may end outside the ledger, `pipeline_source_deletes.rs:1428`), one
   about a person's decision racing the judge, and the marks of events mode.
3. `Leader` and `Syncer` composed, with restarts: followers, demotion in a `go_live`, the wave's
   `previous` after a restart.
4. Resident streams of the stream deployer beside the queue: a pipeline that changes from queued
   to resident while it runs.
5. Small modules: MCP tasks, the refresh of a session, the byte-bounded LRU.
6. The sync driver on top of the Changes.

## 6. Not modelled

The converge steps of a run other than views, mirror, catalogue and queue; the forge client;
sessions and permissions; alerts, health and measurements; the interface, the SDK and the sample
apps. By lines this is most of the repository: of its implementation the larger part is interface
code, request handlers that read the mirror and render it, connectors, rendering of manifests and
configuration, which transform data without a state of their own and without an interleaving that
matters. What is modelled are the loops, drivers and requests that write shared state step by
step. The reasons, part by part, are in `PROJECT.json`.
