# Specifications of the DCU online judge backend

TLA+ models of the parts of this Django backend whose correctness depends on
interleavings and failures, checked with TLC on small instances and proved, where
that is within reach, with TLAPS for every value of the constants.

`PROJECT.json` lists the components, the runs, the mutated definitions each
property refutes, the lines every definition models, the disagreements found
between code and documentation, the hazards and the theorems.

## 1. The system

Web requests (Django under gunicorn), dramatiq worker threads, PostgreSQL (READ
COMMITTED, row locks where the code asks for them), Redis (waiting queue, options,
caches, the dramatiq broker) and the judge servers. A step of a model is one
transaction, one Redis call or one call of another service; between two of them
any other thread may run, and supervisord kills workers with little notice
(`deploy/supervisord.conf`: 5 seconds, then the group), after which the broker
delivers their unacknowledged messages again.

| part | state | operations | interacts with | what is hard | what makes it correct |
|---|---|---|---|---|---|
| evaluation queue (`eval/tasks.py`, `eval/views`, `eval/services/slots.py`) | EvalJob rows, slot limit, messages, pool threads, watchdogs | trigger, cancel, set the limit, promote, run, count a pair, watchdog | snapshots, broker, Redis | everything interleaves; workers die; messages come twice | slots owned, one orchestrator, no lost wakeup, counters within the total, every job ends |
| evaluation snapshots (`eval/services/snapshot.py`, `_evaluate_pair`) | snapshot, qualitative and AI-usage rows of each pair | freeze, evaluate, modes pending/all/failed | queue, submissions, LLM | jobs of one contest overlap after a cancellation; students resubmit | an evaluation belongs to the code shown; errors are reported |
| judge dispatch (`judge/`, `conf/views.py`) | `task_number`, waiting queue, messages, `Submission.result` | submit, rejudge, choose a server, enqueue, judge, process pending, heartbeat, disable, delete | judge servers, broker, submissions | load is raised and lowered around a remote call; servers vanish; pops without acknowledgement | load exact, nothing stranded or duplicated, everyone judged |
| judge statistics and ranks (`judge/dispatcher.py` 224-460) | counters and statuses in Problem, UserProfile, ACM/OI ranks, rank cache | first judgement, rejudge, contest judgement, rank list | dispatch, submission view, lectures | rejudge bookkeeping, whole-row saves, JSON keys, caches | counters equal the submissions they count |
| submissions (`submission/`) | Submission rows, anti-cheating marks | submit, share, rejudge, list | dispatch, profiles, throttle | profile saved whole | no counter is lost |
| contests and attendance (`contest/`) | Contest rows, ContestUser rows, the cached board | enter, leave, expel, time over, logout, edit, rank list, lists of students | lectures, judge, accounts | get-or-create without a constraint, a cache without an expiry | who has left stays out, the board is current |
| lectures and scores (`lecture/views/Lecture*.py`) | score tree per enrolment in JSON | migrate/delete problem and contest, associate a submission, rebuild | judge, contest edits | maintained by differences, read-modify-write of the whole tree | the tree shows what its rows say, sums equal their parts |
| enrolment and assistants (`lecture/views/admin.py`, `lecture/views/oj.py`) | signup_class and ta_admin_class rows, roles | list, register, apply, approve, remove; add and remove assistants | accounts, SSO | two sides look for each other without a lock | who is listed is linked, role and rows agree |
| accounts and sign-in (`account/`) | User rows, SSO links, second factor, API key | register, sign in by SSO, switch, reset, administration | everything | first sign-in twice, whole-row saves | one account per identity, keys usable, administrators with a second factor |
| throttling, options (`utils/throttling.py`, `options/options.py`) | token bucket, options cached per thread | consume; read, set | submissions, everything | unlocked reads and writes, time to live, caches of caches | bounded rate, bounded staleness |
| LLM keys and chat (`llm/`) | keys, usage counters, sessions and messages | validate, report, revoke, expire; ask and stream | gateway, evaluation client | a key changes between read and write; streams are cut anywhere | never active again; stored is what was shown |
| problems and test cases (`problem/`, `contest/views/admin.py`) | Problem rows, directories of files, `info` | upload, import, copy, share, rename, prune | judge servers | multi-step file operations, deaths | every problem has its files, `info` describes them |
| evaluation scoreboard and export (`eval/services/scoreboard.py`, `export.py`) | nothing of its own | read the boards, write the sheets | evaluation rows, submissions | several queries, several computations of one number | the sheets agree |
| score pages (`account/views/admin.py`, `account/views/oj.py`, `contest/views/oj.py`) | nothing of its own | lists of students, start page | score trees, attendance | one dispatcher for all students | everybody's own numbers |
| questions (`qna/`) | Post and Comment rows | ask, comment, solve, publish, delete | accounts, lectures | whole-row saves | pushed to whose turn it is |
| announcements, heartbeat, problem parser, site settings | single rows or nothing | create, read, edit | - | nothing | - |

## 2. What is modelled

| module | about | kind |
|---|---|---|
| `EvalQueue` | the evaluation queue, with failures | specification |
| `EvalJobs` | the promised life of an evaluation job | abstract specification |
| `MCEvalQueue` | symmetry for TLC | model |
| `EvalQueueProofs` | theorems about `EvalQueue`: ownership, wakeups, pairs and counters; it implements `EvalJobs` | proofs |
| `EvalSnapshot`, `MCEvalSnapshot` | what the jobs of one contest store | specification, model |
| `EvalSnapshotProofs` | theorems about `EvalSnapshot` | proofs |
| `JudgeDispatch`, `MCJudgeDispatch` | judge servers and the waiting queue | specification, model |
| `JudgeDispatchProofs` | theorems about `JudgeDispatch` | proofs |
| `Totals`, `TotalsProofs` | the sums that profiles, ranks and score trees keep | operator, proofs |
| `JudgeStats`, `MCJudgeStats` | counters, profiles and ranks | specification, model |
| `JudgeStatsProofs` | theorems about `JudgeStats` | proofs |
| `LectureScores`, `MCLectureScores` | the score tree of a student | specification, model |
| `LectureScoresInv` | the inductive invariant of `LectureScores` | invariant |
| `LectureScoresProofs` | theorems about `LectureScores` | proofs |
| `Requests` | threads of the web workers, extended by all that follow | base |
| `Accounts`, `SignIn` | whole-row saves of a user; single sign-on and roles | specifications |
| `Enrolment`, `Assistants` | rows of students and assistants of lectures | specifications |
| `Attendance`, `RankBoard` | attendance of a contest; its cached board | specifications |
| `ProblemFiles` | directories of test cases | specification |
| `LlmKeys`, `LlmChat` | a key of the gateway; a chat session | specifications |
| `Throttle`, `Options` | the token bucket; the caches of options | specifications |
| `Scoreboard`, `Export` | the boards of a lecture; the sheets made of them | specifications |
| `ScorePages` | the pages that show score trees | specification |
| `Questions` | a question and its comments | specification |
| `Services`, `MCServices` | the modules from `Accounts` on, in one specification | composition, model |
| `ServicesProofs` | theorems about accounts, sign-in, enrolment, assistants, attendance, board, keys, questions, the token bucket, options, the chat | proofs |
| `ServicesFilesProofs` | theorems about the files of test cases and the workbook of an export | proofs |

### EvalQueue

Jobs are numbered in the order of `enqueued_at`. `status`, `contest` and the three
counters are columns of EvalJob. `broker` is the set of jobs with a `run_eval_job`
message, `apc` the program counter of the actor that has one, `todo`/`pool`/
`inflight` its pairs before submission, in the executor, and past the pre-check.
`ppc`, `pmax`, `pjob` are a call of `promote_next_queued`: it reads the limit
(`ReadMax`), counts (`CountRunning`), takes the oldest unlocked queued row
(`PickQueued`), commits it as running (`CommitRunning`) and sends the message
(`SendRun`), then counts again. The aggregate in the count takes no row lock, so
the count is stale at the commit. `wpc`/`missing` are the watchdog between its
read and its UPDATE. Callers of a promotion (the views, the last pair, the empty
job, the error handler, the watchdog) start it with the operator `Call`; `pfrom`
remembers the job whose actor called it inside its `try`, because an exception in
that promotion makes the handler mark the job failed.

Failures are the constant set `Faults`: a dead worker (`crash`), dramatiq's
TimeLimitExceeded, which the handler does not catch (`timelimit`), an exception in
the actor (`error`), a lost counter update (`counter`), a promotion that raises
(`promote`), a message that is never sent (`dispatch`). The history variables
`orphaned`, `redelivered` and `unheard` name the jobs and the calls that a failure
without remedy hit; the properties say exactly where they matter.

### EvalSnapshot

One contest. A code stands for the submissions with that hash. `final` is what
`list_final_submissions` returns, `snap` the frozen code, `qual` and `ai` hold
`none`, `error` or the code the LLM saw. A job reads finals and snapshots
(`Begin`), freezes in one transaction (`Freeze`, `FreezeConflict` when the unique
constraint fails), computes its pairs (`BuildPending`) and evaluates them in its
pool: pre-check and load are separate steps, so are the two LLM calls with the
rows they write, and the counting. A job that was cancelled keeps its pairs in
flight while the next one runs: `overlap` and `stale` name those cases. Slots and
messages are `EvalQueue`'s; here a triggered job starts at once. A reply of the LLM is one
of `Replies`; `complete` and `parse_response` say what becomes of it. `CallAgain` is
`call_with_retry`, which asks up to `Retries` times more while the thread holds the code
it has loaded; the last error becomes an `error` row, and an exception that is neither
error (a reply without text) ends the pair.

### JudgeDispatch

A thread is a web request or a worker thread; `msg` is the message a worker runs.
`Choose` is the locked choice of the least loaded server that has a fresh
heartbeat, is enabled and has `task_number <= 2 * cpu_core`; without one the
submission goes to the front of the Redis list (`Enqueue`). The judge server's
answer (`Respond`) leaves the `with` block, which lowers `task_number` of the row
that was raised. After the verdict (`Save`) and the statistics (`Account`, one
step here) `process_pending_task` pops the oldest submission (`Pop`) and sends a
message (`Send`); a failed call and a contest in debug mode end without it.
A rejudge reads the row, saves every field of it and then sends a message
(`ReadRejudge`, `SaveRejudge`, `SendRejudge`). Heartbeats, enabling, disabling and
deleting of servers, disabling of an author, crashes and exceptions are actions. History: `leaked` counts the raises
whose thread died, `extra` the messages sent again, `lost` the submissions whose
judgement a failure ended.

### JudgeStats

What a judgement writes. A thread is a request or a worker; `held` is the set of rows
its transaction has locked, and each `select_for_update` is a step that waits for
its row: `LockCounters`, `LockOwner` outside contests, `LockUser`, `LockProblem`,
`LockRank`, `LockFirst` in a contest. What has been read is in `row` (the problem,
read under its lock) and `seen` (the profile, read under the lock of the User row,
while `profile.save()` in `SubmissionAPI.post` takes no lock). The writes become
visible in `CommitCounters` and `CommitContest`, column by column: `save(update_fields)`
writes the columns named, `add_score` and the log of pasting every column that was
read. The pure parts are operators: `Counted`, `Rejudged`, `ProfileAfter`,
`ContestProfileAfter`, `AcmRankAfter`, `OiRankAfter`. `last` is `last_result`, which
is falsy for ACCEPTED (`IsRejudge`); `BumpRejudged` models the int key among the str
keys of a JSON object by what PostgreSQL keeps. A contest that is not underway, or a
submission of its staff, ends in `Answer` without statistics. `SaveProfile` covers
a submission that is refused afterwards. `Crash` rolls a transaction back and may
deliver the message again; `Redeliver` does so after the commit. History: `counted`
(submissions whose statistics were committed) and `torn` (users with a profile that a
submission replaced by another one between the read and the write of a judgement).

### LectureScores

One student's tree in one lecture, with the arithmetic of `LectureAnalysis.py`: an
Info record for the lecture, each type, each contest and each problem. `ReCalInfo`,
`ReCalType`, `ReCalContest` are the sums, `MigrateProblem`, `RemoveProblem`,
`MigrateContest`, `RemoveContest`, `Associate` the operations, translated with their
order and their early returns (a hidden contest takes no sums, a missing node
raises and nothing is saved). `Built` is `buildLecture`, `Clean` the reset before a
recalculation, `Rebuilt` the tree an administrator's recalculation makes from
the rows; it is also the reference of `UpToDate`. A thread reads the
tree (`ReadTree`, `ReadForJudgement`, `ReadRows`) and saves it in another step.
`drift` is the history of causes for which the code lets the tree differ
from its rows: `overlap` (two requests at once), `edited` (a contest with submissions
moved, shown or hidden), `hidden` (a problem hidden later, or shown again that has submissions), `unsubmitted` (submissions
deleted and the problem kept), `late` (a judgement after the contest's end),
`unapproved` (a judgement before the approval), `unbuilt` (enrolment by a list, which
makes no tree), `reordered` (an older submission judged after a newer one), `batch` (the
batch takes the greatest key, a random string, for the latest submission).

### Requests and the modules that extend it

A request is one step when the code does one statement; otherwise it begins
(`Begin`), goes on (`Continue`) and ends (`Respond`), and `job[t]` holds what it
has read. The settings have no ATOMIC_REQUESTS, so that every statement
commits alone, unless a view opens a transaction. `overlapped` remembers that two
requests were in progress together; a property that is only true of requests
one after the other says so.

- **Accounts**: `row` is one user. Every view changes the row it read (`Change`) and
  saves all of it (`Save`). `shown` and `issued` are the tokens the user or the
  administrator has seen. The other fields are one bit, for saves that carry
  old values of the first ones along.
- **SignIn**: `Callback` to `Create` are `_resolve_or_create_user`: by `sso_sub`, by the
  imported id, by the name, else a new account; the search and the link are
  separate statements, both keys are unique. Roles are saved whole (`Save`) and sent
  to the SSO afterwards (`Put`, `PutRequireTfa`), or by the command `SyncRole`. `lost` and
  `unsynced` are the exceptions of the properties.
- **Enrolment**: a teacher's list (`ListStudent`, `CreateEntry`, `FindHolder`, `LinkRow`)
  against the registration (`Register`, `CreateAccount`, `ReadRows`); applications and their
  approval. `outside` are numbers an account got in another way.
- **Assistants**: rows for a lecture and the role of the account, raised with the first
  row and lowered with the last.
- **Attendance**: rows of one student in one contest, looked for and created by
  entering, leaving, the teacher's toggle, time over and logout; `Get` raises unless
  there is exactly one.
- **RankBoard**: `cache` is the list of ranks, here their number; `Drops` is the condition
  under which a judgement deletes it, `DropEdited` that of an edit.
- **ProblemFiles**: directories as functions from file names to contents; `Upload`, the
  imports and the copies make them in several steps, `Rename` puts pairs into another
  order by way of one temporary name (`Exchange`), then empties `info` (`EmptyInfo`, which is
  `open("w")`) and writes it (`RenameEnds`); `Prune` lists, looks for problems and then
  deletes; `Crash` stops anything between two steps. `Create` and `Edit` take any
  `test_case_id` that a client was ever given, also of a directory that is gone.
- **LlmKeys**, **LlmChat**: a validation reads the key and saves named fields with `F()`
  later; a stream arrives in chunks that cut events and lines (`Lines`) and characters, whose
  bytes are then dropped on both sides (`Rest`), and its `finally` stores what was read, also
  when the browser has left. A text is an event with all of its characters or without one.
- **Throttle**: each Redis command of the bucket is a step, with a clock, and a death may come
  between any two (`Die`). **Options**: what
  each thread has cached, until when, and the lists derived from it.
- **Scoreboard**, **Export**: the queries of a board come one after the other while the
  tables change; the sheets are operators over the boards read. `Whole` to `scaled` are the
  maxima and conversions, in tenths where the code rounds to one decimal.
- **ScorePages**: a tree is the problems in it and those solved; `FromDict` leaves the
  dispatcher as it is when a student has no tree. `unsure` are students allowed or judged
  past their tree (see `unbuilt`, `unapproved` above).
- **Questions**: `proceeding` says whose turn it is; every request that writes the
  row writes all of it.

`Services` composes these components. Its variable `focus` says which of them a behaviour is
about: they share no state in the code but the threads, so nothing is lost, and one run
checks them all. `x1` to `x6` are the variables of the component in focus. `files` and
`sharing` are `ProblemFiles` with two sizes. `MCServices` only gives the constants.

## 3. Runs

| run | instance | shows |
|---|---|---|
| `eval_queue_safety` | 2 contests, 2 jobs, 2 promotions, 1 slot, 1 pair, any one failure; symmetry of contests and callers | `RunningIsOwned`, `OneOrchestrator`, `NoLostWakeup`, and that the queue implements `EvalJobs` |
| `eval_queue_pairs` | 1 job, up to 3 pairs, 2 pool threads, 3 failures | `DoneIsComplete`, `CountersWithinTotal` |
| `eval_queue_live` | 2 jobs, 1 slot, 1 promotion at a time, one crash, error or lost counter | `EveryJobEnds` |
| `eval_queue_slots` | 2 promotions, no failure | refutes `SlotLimit` |
| `eval_queue_cancel` | same | refutes `CancelIsFinal` |
| `eval_snapshot` | 2 pairs, 2 codes, 2 jobs, 2 submissions, 1 failure, 1 retry | `EvaluationMatches`, `ErrorsAreReported`, `CountedIsStored` |
| `judge_safety` | 2 submissions, 3 threads, 1 server of 1 core, 1 rejudge, 1 administration, 1 failure; symmetry | `LoadIsExact`, `NoStranded`, `NoDuplicate` |
| `judge_live` | 2 submissions, 2 threads, no rejudge | `EveryoneIsJudged` |
| `judge_stats` | two loads: 2 users, 3 submissions to an ACM contest, 1 failure; 1 user with problems of both rules, inside and outside a contest, 2 submissions, 2 rejudges; 2 threads, symmetry | `CountersAgree`, `ProfileAddsUp`, `RankAddsUp`, `OneFirstAccepted`, `AcceptedIsRanked`, `NoDeadlock` |
| `judge_stats_counts` | 1 user, an ACM and an OI problem, 2 submissions, 1 rejudge | refutes `StatisticCounts` |
| `lecture_scores` | 2 types, 2 contests with a problem each, 2 submissions, 2 threads, 4 operations of which 2 may overlap; symmetry | `UpToDate`, `TotalsAddUp`, `ListedOnce` |
| `services` | the modules on `Requests`, 2 threads each and 2 to 6 requests; symmetry | 15 invariants and 2 action properties, below |

What `services` shows, by focus:

| focus | requests | property |
|---|---|---|
| `accounts` | 4 | `KeysUsable`: the second factor is never on without a usable token, the API open exactly with a key |
| `sign-in` | 6; 2 identities, 2 accounts | `OneAccountEach`: an identity always gets the account it got first, and alone; `AdministratorsNeedTfa` |
| `enrolment` | 4; 2 students, 2 numbers | `ListedIsLinked`: list and registration never both miss each other |
| `assistants` | 5; 2 lectures | `RoleMatches`: the role is that of an assistant exactly while there are rows |
| `attendance` | 6 | `LeftStaysLeft`: only a teacher readmits |
| `board` | 6 | `BoardFresh`: a board that is not frozen shows the ranks there are |
| `files`, `sharing` | 2 with 3 cases, 3 with 1 | `FilesExist`, `InfoDescribesFiles`, `NoCaseLost`, with deaths |
| `keys`, `chat` | 5; 3 with 2 events | `RevokedForGood`; `StoredIsShown` |
| `throttle`, `options` | 6; 5 | `RateLimit`; `StaleBound` |
| `export` | 4 | `SheetsAgree`: totals, sheets and raw rows of one workbook agree |
| `pages` | 5; 2 students, 3 problems | `PagesAreTrue`: everybody's own numbers |
| `questions` | 6 | `TurnIsRight`: pushed to the one who did not write last |

Why the bounds are enough. Each hazard of the queue needs at most two jobs (one
that frees a slot and one that waits), two promotions and one failure; pairs
matter only as "the last one" and "not the last one", hence the separate run with
three of them on two threads, where three failures let a redelivery, a lost
counter and the watchdog meet. The slot limit never changes in these runs
(`SlotLimits = {1}`); what changing limits do to wakeups is part of the theorem
`WakeupNotLost`. Snapshots of one pair depend on another pair only through the
job's counters and its single thread, so two pairs and two jobs show every
overlap; one retry tells a call that failed from a pair that failed. For the
judge, three threads fill a server of one core once a death has
leaked a unit, so the waiting queue is reached by load, by missing heartbeats and
by disabling; the liveness run has no symmetry, which TLC may not use there. The
statistics meet in one row of a problem (two authors, and a third judgement that
finds it solved) or in one profile (two judgements of one author, of any two rules);
the load of the ranks has a single problem because ranks of other problems are other
entries of the same locked row. Failures are in that load only; outside
contests the other has rejudges, which are what a second judgement meets there.
A score tree is read, changed and saved by one request at a time or by two that
overlap; a third thread would only repeat one of the two, and contests of two types
let one move away from another that stays. A behaviour begins with any visible contests
and problems and a student who has just asked to attend or has a tree just built, so
four operations leave room for a submission, its judgement, an edit or a second
submission, and a recalculation; `MaxRaces` lets only the first two of them overlap.
In `services` two threads are every pair of requests that may overlap, and the numbers
of requests are the largest that keep the run within minutes; every property is violated within
them when its mutated definition takes the place of the code's.

Deadlock of the locks is the invariant `NoDeadlock`. Deadlock is not checked in the runs
whose bounded inputs run out when everything is done (all but those of `EvalQueue`,
where it is).

### Fairness

`EvalQueue!Fairness`: threads run, the broker delivers, LLM calls return or time out
(each has a timeout and a bounded number of retries). Steps that end in a
promotion are strongly fair only because the bound `Procs` may make them wait; in
the code the caller's own thread runs the promotion. Nothing obliges anybody to
trigger, cancel or reconfigure, and no failure is fair.
`JudgeDispatch!FairSpec`: threads proceed, the judge server answers or the call
fails, messages and heartbeats find a thread (strong fairness for the bound
`Threads`). `_request` has no timeout, so that the answer comes is an assumption
about the judge server. `EveryoneIsJudged` is conditional on no server staying
disabled, and holds while the leaked `task_number` units do not exceed `2 *
cpu_core`: more deaths inside a judgement than that make the server unusable until
its row is deleted.

## 4. What the code does not do

Items 1 to 3 are runs that refute one property each, quoted in `PROJECT.json`.

1. **Slots overfill.** `promote_next_queued` counts with `select_for_update().count()`;
   an aggregate locks nothing, and `skip_locked` gives two promotions two jobs.
   Serialising them (an advisory lock, or locking the EvalConfig row) would repair it.
2. **A cancellation can be undone.** `run_eval_job` sets running unconditionally
   after checking a status it read before; so does the handler with failed. A
   condition on the UPDATE would repair it. `EvalJobs` states what remains true:
   only the claim of an actor may change a final job.
3. **A rejudge miscounts.** `last_result` of an accepted submission is 0 and so counts
   as "never judged": `statistic_info`, `accepted_number` and `submission_number` count
   it again. Any other last result is looked up under an int key that a loaded JSON
   object never has, and the count of that result becomes 0. `CountersAgree` states what
   remains true: `accepted_number` is still the count of ACCEPTED.

Other limits are the named exceptions of properties that hold; each is something the code
does, and the property says nothing of it. Most are history variables of the models.

In the queue and the snapshots:

- `pending` takes only what this call froze: what an interrupted or cancelled job froze and
  did not evaluate is left to the modes `all` and `failed` (`BuildPending`), and no
  property says otherwise.
- `orphaned` (`RunningIsOwned`): a job whose actor was killed by its time limit, or whose
  message or watchdog was never sent, may stay running and nobody works at it.
- `redelivered` (`DoneIsComplete`, `CountersWithinTotal`): the second actor of a message counts
  the pairs anew, while pairs of the dead worker or a watchdog with old numbers count too.
- `unheard` (`NoLostWakeup`): a promotion that raised or could not send its message wakes nobody.
- `stale` (`EvaluationMatches`): an old evaluation may appear under a new code when a pair of
  a cancelled job outlives a new freezing of its snapshot. `overlap` (`CountedIsStored`,
  `ErrorsAreReported`): a job triggered while an earlier one is at work shares its rows with
  it. A pair that raises without storing an error row is counted as failed and in no
  list that the mode `failed` reads.

In the dispatch and the statistics:

- `leaked` (`LoadIsExact`): a death inside the `with` statement leaves `task_number` raised.
- `lost` (`NoStranded`, `EveryoneIsJudged`): a submission popped from Redis, or about to be put
  there, when its thread dies or raises, is judged by nobody; the same for one of a disabled author.
- `extra` (`NoDuplicate`): a rejudge and each message sent again after a death judge once more.
- `torn` (`ProfileAddsUp`): a submission may undo what a judgement of the same author has
  just written to the profile.

In the score trees:

- `drift` (`UpToDate`): the nine causes in section 2, of which `overlap` concerns `ListedOnce`
  and `edited` `TotalsAddUp` as well. All but moved and hidden contests are repaired by an
  administrator's recalculation, which `UpToDate` also shows, since `SaveRows` clears them.

In the services, for requests that overlap (`overlapped`, unless a variable is named):

- a rank list read before a commit is cached after its deletion and stays until the next
  judgement (`BoardFresh`); two entries or exits create two attendance rows, after which
  every `get()` raises (`LeftStaysLeft`); two assistants' requests leave a role without rows
  (`RoleMatches`); two saves of a role send it in another order (`AdministratorsNeedTfa`); two
  submissions spend one token (`RateLimit`, as `throttling.py` says); two renamings share one
  temporary name (`InfoDescribesFiles`, `NoCaseLost`);
- `mixed` (`TurnIsRight`): a comment beside another request loses the turn, and a comment
  that is deleted does not give it back.

For failures and single requests:

- `unstamped` (`RateLimit`): a refill that dies after it has set the stock and before it has set
  the time counts the same time once more, and lets through at most one capacity less one too many
  each time (`Again`). A bucket that died between the two writes of its making has no time, and
  every refill of it raises.
- `orphans` (`FilesExist`): a pruning may delete the directory of a problem saved after it
  looked. `interrupted`: a renaming that died, or found a file missing, leaves its directory
  half done: `info` as it was, or emptied for good if it stopped between `open("w")` and the end of
  `json.dump`, and copies of the directory are like it; a problem then has no usable
  `info`. So it has for a moment during every renaming. `retried` (`NoCaseLost`): the next renaming
  of such a directory overwrites the file set aside.
- `cut` (`StoredIsShown`): a chunk that ends within a character loses that character of the stored
  answer, because each chunk is decoded alone with `errors="ignore"`; the browser, which gets the
  bytes, shows it. `unstored`: an answer whose process dies, or whose statement fails, is not stored.
- `lost` (`SignIn`, `OneAccountEach`): a save of a whole user row that was read before the link
  erases it, and the next sign-in may choose another account. `unsynced`
  (`AdministratorsNeedTfa`): a failed call to the SSO is logged and never repeated, and a link made
  after the role was given tells the SSO nothing until the command is run.
- `outside` (`Enrolment`, `ListedIsLinked`): a number that an account got by another way than the
  registration, or that several accounts have. `outside` (`Assistants`, `RoleMatches`): a role
  that was edited, or a lecture deleted with its assistants, who keep the role.
- Without an exception, but worth knowing: only an `ADMIN` is refused as an assistant. A Super
  Admin is accepted, gets the role of an assistant, and that of a regular user with the
  last row (`Assistants`).
- `unsure` (`PagesAreTrue`): who was enrolled by a list has no tree; the list of students
  shows the previous student's numbers for them, because `fromDict` does not
  reset the dispatcher.

Besides, two comments say something else than the code, which the models follow. The module
comment of `snapshot.py` says that without `force` an existing snapshot is skipped, while the
code freezes it again when the hash has changed (as the models' and the actor's comments say).
A comment of `account/views/admin.py` (line 179) counts `TA_ADMIN` among the roles that need a second
factor, while `_ROLES_REQUIRE_TFA` (line 28) and `sync_role_tfa` have `ADMIN` and `SUPER_ADMIN` only; `RequireTfa` is theirs.

## 5. Proofs

`EvalQueueProofs` proves, for every number of contests, jobs, promotions, slots,
pool threads, pairs and failures, from the named assumptions of `EvalQueue`
(`ContestAssumption`, `BoundAssumption`, `SlotAssumption`; finite
`Procs` is not needed):

- `TypeCorrect`: `Spec => []TypeOK`, one step per action (no run repeats it).
- `SlotsAreOwned`, `SingleOrchestrator`, `SingleActiveJob`: all three follow from one
  inductive invariant, `OwnershipInv`. `RunningIsOwned` is not inductive alone: that
  a job keeps an owner when its actor returns depends on the actor having left a
  watchdog or a final status (`WatchedInv`), that a promotion hands over exactly one
  message depends on the locked row being queued and untouched (`PromotionInv`,
  `Untouched`), and that a new job starts with nothing depends on ids above
  `created` being fresh (`FreshInv`). `SingleActiveJob` (a contest has at most one
  active job) needs them because the actor's UPDATE to running is unconditional: it
  relies on the unique partial index, which the model's guard states.
- `WakeupNotLost`: while a queued job could run, some call of `promote_next_queued`
  will count again with a limit that is not stale. The cases are the ends of
  promotions (`ReturnKeepsPromotion`), their steps (`GotoKeepsPromotion`), new calls
  (`CallIsHeard`), and steps that concern neither.

About the pairs of a job, for any number of them and of pool threads, whatever counters are
lost and watchdogs fire, it proves:

- `DoneMeansComplete`: `Spec => []DoneIsComplete`, and `CountersStayWithin`:
  `Spec => []CountersWithinTotal`. Both follow from `PairsInv`, relative to
  `OwnershipInv`, for each job whose message was never delivered again: pairs exist
  only while the actor stands where it has made them (`PoolInv`); counted pairs and
  pairs to come never exceed `n_total`, a lost count only lowers the sum (`CountInv`);
  the number of pairs that the watchdog has read is still the one that is missing when
  it writes (`WatchdogInv`); and no step follows a job that is done (`DoneInv`). A
  redelivered message is the exception because the second actor counts pairs anew.

The module also proves `LifecycleImplemented`: `Spec => ImplementsLifecycle`,
the step simulation for the mapping that `EvalQueue` gives. A job is claimed while
its actor works or a promotion called by that actor goes on; `CallReleases`,
`ActorReleases` and `ReturnReleases` say what each way out does to the claims, and each
action is then a step of `EvalJobs` or a stutter.

`EvalSnapshotProofs` proves, for every finite set of pairs and any codes, jobs, retries,
replies and crashes, from `PairAssumption` and `CodeAssumption`:

- `EvaluationsMatch`: `Spec => []EvaluationMatches`. What makes it inductive is that a
  code which a thread has loaded is still the frozen one when it asks the LLM
  (`FreshInv`), except for the pairs in `stale`.
- `CountedAreStored`: `Spec => []CountedIsStored`, and `ErrorsReported`:
  `Spec => []ErrorsAreReported`. Both are about the last job, triggered when no other was
  at work: it moves each pair from `todo` through the stages of `ev` to `done` or
  `failed` (`PairInv`), forgets none, so that `n_total` is the cardinality of their union
  (`CountInv`), and an error row found at the start of a forced job is among the pairs
  to come, at work or failed (`ErrorInv`). They rest on the order of the jobs
  (`OrderInv`), on a snapshot having had a submission (`FrozenInv`), and on jobs never
  triggered having nothing (`UnusedInv`).

`JudgeDispatchProofs` proves, for every finite set of threads and any submissions,
servers, cores, rejudges and failures, from `NoneAssumption`, `ThreadAssumption` and
`BoundAssumption`:

- `LoadCountsUsers`: `Spec => []LoadIsExact`. It needs `ThreadInv`: a thread holds a
  server only inside the `with` statement, so no later step can lower the count
  twice. `UsersCount` is the lemma on cardinalities that each step cites.
- `TypeCorrect`: `LooseTypes` (with `task_number` an integer) is inductive, and
  `LoadIsExact` makes `task_number` a natural number.
- `NobodyStranded`: `Spec => []NoStranded`. Relative to `ThreadInv` (a thread between two
  tasks holds no submission) it is inductive; `Pushed` and `Popped` say that the
  queue loses nothing but the submission that is popped, and each step that takes a
  submission from one place is shown to put it into another or to set its result.
- `JudgedOnce`: `Spec => []NoDuplicate`, from `OnceInv`: what a submission has in the queue,
  in messages and in threads is at most 1, plus 1 for each rejudge and each message sent
  again. Places in the queue are counted as the cardinality of the positions;
  `TimesPushed`, `TimesPopped` and `OneThread` say how each step changes the counts.

`JudgeStatsProofs` proves, for any users, problems, contests, threads, rejudges and
failures, from `ProblemAssumption` (the rows of a table are finitely many):

- `LocksAreOrdered`: `Spec => []NoDeadlock`. `HeldInv` gives the rows a thread has locked at
  each step. Outside contests the order is problem, user; in a contest it is user,
  problem, rank, and then once more the problem when the status was skipped. This last
  lock is out of order, and harmless: whoever else holds the problem then waits for
  nothing but the rank of its own user, which nobody locks without that user's row.
- `AcceptedStaysRanked`: `Spec => []AcceptedIsRanked`. The profile that a submission or a
  judgement has read may be saved over a newer one, so the invariant (`RankInv`) is about it
  too: what it shows as accepted was ranked when it was read, and a rank never loses
  what is accepted (`RankKeeps`).

- `CountersStayTrue`: `Spec => []CountersAgree`, `RanksStayTrue`: `Spec => []RankAddsUp`, and
  `OneIsFirst`: `Spec => []OneFirstAccepted`, from `CountInv`, relative to the two invariants
  above. What a judgement has read of a problem is still so, because it holds the row's lock
  (`ReadInv`), so that no count is lost; each rank is the sum of its entries
  (`AcmRankAdds`, `OiRankAdds`); and accepted_number is positive exactly when somebody is
  accepted in a rank (`FirstInv`), so that only one author ever reads 1 there.
- `ProfilesStayTrue`: `Spec => []ProfileAddsUp`. The profile is read under the lock of the User
  row, but the log saves it without one: unless that tore the profile (`torn`), what a
  judgement has read differs from the stored profile by entries of the log alone (`Alike` in
  `ProfileInv`), and these enter no number (`LogAdds`); two judgements of one user cannot
  both hold a profile.

The sums are those of the model, folds of the community modules over any finite set. `Total`
of a set is a value of a function that the fold chooses. `TotalsProofs` shows that it adds
(`TotalIsSum`) and that no order matters (`AnyOrder`). Each of these lemmas goes by the smallest
counterexample among the subsets of a finite set (`SmallestSet`), which the library's
well-founded orders give, because its induction rules need an operator as a parameter.
`TotalWith` and `TotalChanged` are what the steps cite.

### The score trees

`LectureScoresProofs` proves, for any finite sets of types, contests and problems and any
numbers of threads, operations and submissions, from `HomeAssumption`, `PointsAssumption`,
`RowsAssumption` and `NoneAssumption`, with the invariants of `LectureScoresInv`:

- `TypesStay`: `Spec => []TypeInv`. Rows are of existing contests, a stored or computed tree
  is a tree, and a task holds at each step what its code goes on with.
- `ListedOnceStays`: `Spec => []ListedOnce`, from `ListInv`. As long as tasks do not overlap,
  the stored tree lists contests where their rows say (`In(score, Expected)`), and the tree
  that a task is about to save lists them where they will be when the task is done
  (`After`); two judgements may overlap, and move nothing. A tree made anew while nothing
  else happens (`Anew`) ends what an overlap has left.
- `TotalsAlwaysAddUp`: `Spec => []TotalsAddUp`, from `SumInv`. It is inductive for each tree
  by itself, whatever is lost, once it is stated of the whole tree (`Good`): besides the
  totals of the lecture and its types, those of each contest that is shown, no earned
  points in a contest that is hidden, and no other entry than visible problems. The code
  keeps these sums by adding up only the path above what has changed, so each operator on
  trees is shown to keep `Good`, and to disturb it only where `Disturbs` says.

- `UpToDateHolds`: `Spec => []UpToDate`, from `ShowInv`, relative to the three above. A tree is
  compared with the rows and not with another tree: it is `Right` when it lists contests and
  visible problems where the rows say and each line tells the truth (`Truth`): of the
  latest submission of its problem, or of none, or of anything while one is still to be
  judged. `Showing` says of the stored tree and of each computed one for which
  rows it is right, at each step of each task: before a problem is added it is right but for
  this line (`Nearly`), after a judgement was read for the truth that this judgement is going to make
  (`Telling`). What a task has read is still so (`TaskKnown`), submissions are told apart by
  numbers (`Numbered`), judgements change the tree one at a time (`Lone`), and a tree made
  anew is that of the rows (`MadeAnew`), which ends any drift. Two trees that are right and have
  the right sums (`Good`) show the same (`UpToDateFollows`).

The operators on trees are shown to give trees (`...In`), to list contests where they should
and to keep the sums, one lemma each, before the steps of the threads; a tree made from rows
is a fold over problems and submissions, by the same argument as sums.

### The services

`ServicesProofs` and `ServicesFilesProofs` prove the invariants and the action
properties of `Services`, each for the component in focus, for any numbers of threads,
requests and rows. They rest on the named assumptions of `Services`: bounds are numbers,
`None` is no value of a column (`NoneAssumption`), an archive without cases is refused
(`CasesAssumption`), an answer has an event (`AnswerAssumption`), an identity has a name and
perhaps an imported account (`IdentityAssumption`), whole scores are natural numbers, weights
and scales are numbers and the answers of the model have the four axes (`ExportAssumption`),
and the roll is a sequence (`RollAssumption`). `NoneIsNoRecord` (`None` is no function, hence
never the work of a thread) is a hypothesis of the theorems that need it: TLC, which evaluates
every ASSUME, cannot take the domain of a model value.

A component's inductive invariant is defined in its module (`UsableInv`, `LinkInv`,
`BucketInv`, ...), so that it can be checked by a run as well. `ServicesInv`, `DataInv` and
`FocusInv` join them: whichever component is in focus keeps its own.

- `KeysStayUsable` (`KeysUsable`): every row that a request holds may be stored whatever was
  stored meanwhile, so `UsableInv` asks of each of them what the property asks of the
  stored row.
- `IdentitiesStayApart` (`OneAccountEach`): as long as no link is lost, whoever was signed in to
  an account is linked to it, and no two accounts have the same link (`LinkInv`); a thread
  about to link holds an account it saw without one. `AdministratorsAreAsked`
  (`AdministratorsNeedTfa`) is about the same callbacks and the switch of requirements.
- `ListsFindTheirStudents` (`ListedIsLinked`), `RolesFollowLectures` (`RoleMatches`),
  `LeaversStayOut` (`LeftStaysLeft`), `BoardsStayFresh` (`BoardFresh`), `RevokedKeysStayRevoked`
  (`RevokedForGood`), `QuestionsFollowTurns` (`TurnIsRight`): the invariant says what of a thread's
  reading is still true when it writes, or that requests overlapped.
- `RateIsKept` (`RateLimit`), from `BucketInv`: as long as requests do not overlap, the bucket
  keeps a ledger. Grants and stock are paid for by the default, the time up to the last
  refill and what refills that died gave (`Ledger`, `Again`); between the two writes of a refill,
  the time since the last one pays for the new level and the grant that comes with it (`Pays`),
  and if it dies there, the level, less than the capacity, is what `Again` grows by.
- `OptionsAgeLittle` (`StaleBound`), from `CacheInv`: a cached value that has been replaced
  expires at most one time to live after its replacement, and two when it was derived
  from another cache (`SlotOK`).
- `AnswersAreShown` (`StoredIsShown`), from `ChatInv`: what a stream has collected is the events
  up to the one shown last, each whole but for those that a chunk's end has cut within a
  character (`Seen`), and what is held of a line is the half sent last, damaged exactly if it was
  cut, so that what `finally` stores is what was sent; no two requests answer the same question.
- `FilesStay` (`FilesExist`), `InfoStaysTrue` (`InfoDescribesFiles`), `CasesStay` (`NoCaseLost`), from
  `FilesInv`. Whatever overlaps, a directory that a problem has, that somebody knows, or
  that a request is going to give to a problem is written to its end, and is there unless
  a pruning found nobody who had it (`Promised`, `Kept`), and an `info` that is empty is that of a
  directory whose renaming is about to write it or has died (`EmptiedByRenaming`). When requests do not
  overlap, a directory is as its upload or renaming has left it (`Sound`). A renaming
  exchanges two cases in three moves of inputs and three of outputs through a temporary name;
  `Halfway` says where the files of the two are with so many moves to come.
- `PagesShowTheirStudents` (`PagesAreTrue`), from `PageInv`: whoever attends and is not in `unsure`
  has the tree that would be made anew, and who does not attend has no result. The list of a
  lecture is a fold over the roll that hands the tree of one student to the next; `ListIn`
  shows that what every line keeps holds of the whole list.
- `SheetsStayTrue` (`SheetsAgree`), from `ExportInv`: no cell is above its problem's whole score,
  in the tables and in every board that was read, whatever changes in between. The rest is about one
  workbook. A sum over contests is the sum of the sums by group (`TotalByKind`), the raw rows
  of a contest are in step with its problems (`TotalOfImage`), and a group without points has no
  earned ones. The total of the exams is a fold of fractions: with `k` of them added, the sum is at most
  `k / 2` tenths from the sum of the rounded columns (`GapStep`), and its own rounding adds
  one half (`GapAtEnd`).

### Only model-checked

Liveness (`EveryJobEnds`, `EveryoneIsJudged`): TLAPS proves neither fairness arguments nor
ENABLED.
The properties of the runs that expect a violation are false and have no proof.

## 6. What is not modelled

In the queue: EvalJobRequester rows and the joining of an active job (no column of
EvalJob changes), EvalJobEvent rows, the number of pair workers as an option that
changes (`PairWorkers` is constant), a second delivery to a worker that is still
alive, two watchdog messages of one job (they collapse to one), the limit's way back from the
database when Redis has lost it (`slots.get_max`), and the legacy
actor `evaluate_pair`. In the snapshots: deleted submissions, hash collisions, the texts of
prompts, and the reads and writes of a freezing row by row (`Freeze` is one step, its
failure by the unique constraint another). In the dispatch: sample tests and SPJ compilation, which use a server but store
nothing, two rows of one hostname (two first heartbeats at once), and messages that dramatiq
drops when they have waited for two hours (`max_age`). In the statistics:
the submission numbers of profiles and ranks (nothing reads them back), other writers
of a profile (`account/views/oj.py`), and a rejudge that writes an old row back, which is in
`JudgeDispatch`. The marks of contest staff in the rank's `submission_info`
(`ACMContestHelper.put`) are left out.

In the lectures: averages and progress (quotients of the sums), several students (a task
goes through their trees one after the other), ACM results, and creating, editing and listing
lectures. In the accounts: session lists, profiles, avatars, captchas, mails, imports of users. In
`Enrolment`: a later change of a name, by the profile or an administrator, after which a row of a list
matches. In `SignIn`: creation of the profile, which follows in a statement of its own, the checks of the
token, and `sync_oj_sub`, which links nobody by itself. In the contests: access checks,
passwords, announcements, cheat logs. In the problems: tags, the form's fields, a `test_case_id`
that no upload or problem has given (the code takes any string), changes of
`total_score` while an export reads. In the LLM gateway: answers without a stream, routes,
audit lists. In the exports: order, names, layout, AI-usage columns. In the questions: lists by
problem, and the list of an assistant, which fails for assistants of several lectures.

Announcements, the parser of imported problems, the heartbeat, plagiarism checking, utilities and the deployment
are forms over single rows, text processing, reads or process supervision; `PROJECT.json`
gives the reason for each.

## 7. Plan

Modelled and checked so far: everything in the table of section 2. What is left, in this
order; each with its mutants and hazards.

1. Two students in `LectureScores`: a task that stops between two trees.
2. Access to a contest over its lifetime: times, visibility and roles, with sessions.
3. Overlapping requests in the services whose properties except them: what exactly remains true
   of the board, the attendance and the assistants then.
