# Akesis: TLA+ verification

Akesis listens to GitHub's `workflow_run` webhooks, diagnoses a failed run with a language
model, proposes a patch, validates it in a Docker sandbox, asks a human in Slack, and only then
commits the patch, pushes a branch and opens a pull request. This directory models its state
machines in TLA+, checks them with TLC on small instances and proves the main safety properties
with TLAPS for instances of any size.

Source paths below are relative to the repository's `src/packages/` unless they start with
`docs/` or `apps/`; `PROJECT.json` maps every definition to its lines.

## 1. Inventory of the system

| Part | State it keeps | Operations | Talks to |
| --- | --- | --- | --- |
| Webhook and Slack routes (`apps/api/routes.py`) | none; one background task per accepted request | accept a delivery, handle a click, schedule `process_failure` / `resume_approval` | orchestrator, approval service |
| Orchestrator (`shared/remediation_orchestrator.py`) | one `pipelines` row per incident | `process_failure`, `resume_approval` | every service, pipelines table |
| Approval gate (`shared/approval_service.py`, `ApprovalRepository`) | one `approvals` row per approval id; the Slack card | `request_approval`, `record_decision`, expiry | Slack, approvals table |
| Git mutation (`shared/mutation_service.py`, `MutationRepository`, `sdk/github_client.py`) | one `mutations` row per attempt; the fix branch and the pull requests on GitHub | `create_pull_request` | checkout, validation, GitHub |
| Repository checkout (`sdk/repo_checkout.py`) | one clone directory per repository, shared by all pipelines | `checkout_commit` | context resolver, validation, mutation |
| Validation and sandbox (`shared/validation_service.py`, `sdk/sandbox_runner.py`) | a temporary workspace, a docker client and a container per call | `validate_fix` | checkout, Docker |
| Log parser (`shared/log_parser.py`) | none | `filter_and_extract_signal`: category, location, excerpt | webhook route |
| Context resolver (`shared/context_resolver.py`) | none between calls; a growing list of candidates within one | `resolve_context` | checkout |
| Patch validator (`shared/patch_validator.py`) | none | parse a diff, collect the reasons against it | |
| Diagnosis, fix and language-model client (`shared/`, `sdk/llm_client.py`) | none | `diagnose_failure`, `generate_fix_proposal` | context resolver, patch validator, Gemini |
| Incident listing (`IncidentRepository`, `apps/api/routes.py`) | none: reads the three tables | pages, timeline | web console |
| Configuration, logging, sessions, migrations, domain models; web console (`web/`) | settings; browser state | wiring, display | |

**How they interact.** The routes are coroutines on uvicorn workers (two in
`docs/deployment/README.md:124`). Each accepted webhook starts one `process_failure` task and
each winning approval one `resume_approval` task, in the process that received the request. The
tasks share the PostgreSQL tables, where every update is a session and a transaction of its own;
the checkout directories, without a lock; and, through them, GitHub and Slack.

**What is hard.** Two callbacks for one approval; a click that is faster than the pipeline that
asked for it; a stage that raises after its write was committed; a retry that meets what an
earlier attempt left in the table, on the branch and on GitHub; one checkout directory moved by
several pipelines; a container that the call which started it neither owns nor waits for; a list
that grows while it is worked through; windows and budgets at the ends of files and logs; one
path spelled in three ways; a process that dies between any two of these steps. `PROJECT.json`
lists the hazards at their lines with the properties that cover them.

**What makes each part correct.** Gate: one decision per request, never revised, and every
answer and card agrees with it. Orchestrator: no pull request without approval and passed
validation, one mutation per incident, statuses that move forward, every pipeline settles.
Mutation: everything visible on GitHub is accounted for in the table, a recorded failure left
nothing behind. Checkout: what is read, tested and pushed is the failing commit. Sandbox: a pass
is a whole run on the whole patch, an untested patch is not called tested, a call returns, not
before it has tried to clean up, and its container runs on only after a timeout or a lost
daemon. Log parser and context resolver: excerpts and evidence show what they were taken for and
stay within their limits, a location leads to the file it means. Patch validator and fix
service: what is judged is what `git apply` will do, a proposal rests on evidence.

## 2. Modules

| Module | Models | EXTENDS / INSTANCE |
| --- | --- | --- |
| `DecisionLatch` | abstract specification: decide once, dispatch once, only if approved | |
| `ApprovalGate` | the approval gate with concurrent callbacks | refines `DecisionLatch` |
| `Remediation` | abstract specification: what the pipeline promises about an incident | |
| `Orchestrator` | webhook route, `process_failure`, `resume_approval`, pipelines table | uses `DecisionLatch`, refines `Remediation` |
| `MutationOutcome` | abstract specification: what `create_pull_request` promises its caller | |
| `GitMutation` | `create_pull_request`, mutations table, fix branch, pull requests | refines `MutationOutcome` |
| `SharedCheckout` | the checkout directory and its three users | |
| `Sandbox` | `validate_fix`, `run_validation`, docker client, container and daemon | |
| `RepoPath` | path normalisation and the containment test, as operators | |
| `LogSignal` | `filter_and_extract_signal`, as operators | `RepoPath` |
| `GitApply` | external: how `git apply` reads a diff, as operators | `RepoPath` |
| `PatchReview` | `PatchValidator`, as operators | `GitApply` |
| `Proposal` | from the log to the judged patch: parsing, context, diagnosis, fix | `LogSignal`, `PatchReview` |
| `MC*` | TLC instances | the module they are named after |
| `*_proofs` | theorems | the module they are named after, `TLAPS` |
| `DataInduction` | lemmas: induction on the turns of a loop | `TLAPS` |

Two pairs of modules meet at an abstract specification, so that no composition of them has to be
explored at once. `ApprovalGate` implements `DecisionLatch`, and `Orchestrator` uses the gate
only through `DecisionLatch`, whose rules it keeps to (`PipelineKeepsToLatch`). `GitMutation`
implements `MutationOutcome`, and `Orchestrator`'s `Mutate` is one call of it from beginning to
end: a record comes back only for a pull request that GitHub has, an error before or after one
was opened. `Orchestrator` uses `Sandbox` through the status of the validation, and `Proposal`
through the outcome of its stages. Whether the directory that `Sandbox` copies holds the right
commit is the subject of `SharedCheckout`.

Common conventions. One action stands for the code between two `await`s (in `SharedCheckout`,
where several processes share files, for less). A control state is named after what the
coroutine does next. Actions whose comment starts with "Fault:" are never part of `Next`; they
are the same action with a plausible mistake in it, used to confirm that a property notices.

### ApprovalGate

`row` is the status column, `card` what the Slack message shows, `resumes` the resume tasks
scheduled. A handler goes `read -> update | expire -> card -> respond -> answered`: `ReadRow` is
the SELECT and the expiry test, `UpdateWins`/`UpdateRepeats`/`UpdateConflicts` the conditional
UPDATE and what it returns, `UpdateCard` the best-effort Slack call after the session is closed,
`Respond` the answer and the scheduling of the resume task, `Lose` a process or connection that
dies. Time is one bit per request.

### Orchestrator

`status`, `proposal`, `validation`, `linked`, `pr` are the columns of the pipelines row that the
code tests later. The stages of `process_failure` are `pc` values in program order; `rpc` is the
resume task. `Continue`/`ResumeContinue` give every committed write two outcomes: the next
stage, or (fault `ack`) an acknowledgement that is lost, so that the `except` branch runs
although the write is there. The faults `raise`, `escape` and `crash` are an exception inside
the try block, one outside it, and the death of the process. `Resubmit` is a second
`process_failure` for a context already submitted
(`docs/07-operations/v1-validation-runbook.md:409`); it is what makes the duplicate check
matter, since the route itself gives every delivery a fresh incident id. The branch of
`resume_approval` for a rejected approval is modelled (`setRejected`) and is unreachable,
because the route schedules the task only for approvals; `PipelineInv` proves it.

`Remediation` is what a reader of the pipelines table may rely on: working, then waiting for a
human or stopped; a pull request only while fixing, fixing only after an approval; fixed only
with a pull request; what is over stays over. It knows neither tasks nor the exceptions and
retries of `Orchestrator`. The refinement mapping (`StageOf`) groups the statuses, and maps the
decision column and GitHub to `approved` and `pull`.

### GitMutation

All calls are for one proposal, so they share base commit and branch name; each has a row of its
own. A stage named like a status is the one that writes it (`Mark`, or `MarkRaises` when the
database fails before or after committing). `LookUp` raises as soon as two rows exist
(`scalar_one_or_none`). `Push` is without force; both it and `CreatePull` may take effect and
report an error. `ClosePull` and `DeleteBranch` are maintainers. A commit is named by the call
that made it; two calls make the same commit only if they commit in the same second.
`OutcomeMap` is what the caller sees of each call (a lost one ends like an error), `HasPull`
whether GitHub has anything to show; under this mapping the calls implement `MutationOutcome`.
The branch of `create_pull_request` for an `update_status` that returns None is unreachable
(rows are never deleted). `TargetAdvances` is a commit by someone else on the target branch
(`moved`), which no guard of the code reads: the base commit is the one the proposal names.

### SharedCheckout

The directory is a HEAD and a tree; `CheckoutStarts`, `CheckoutFiles`, `CheckoutHead` and
`CheckoutVerifies` are what git and `checkout_commit` do to it, with git's index lock. A
pipeline uses it to read evidence, to fill the sandbox, and to be copied for the mutation; each
use follows its checkout with no `await` in between, so in one process nothing else runs
(`WorkerFree`). `home` is the process that received the webhook and `clicked` the one that
received the approval: a pipeline may run in both. The pre-push validation (`ValidateAgain`)
reads the directory again after an `await`.

### Sandbox

`validate_fix` and `run_validation` are one coroutine per call: gate, checkout, workspace, copy,
patch, probe, launch, wait, sweep, judge. What it starts is not it: the docker client (`client`)
is a child process, the container (`box`) belongs to the daemon, and only the first is killed
when the timer wins (`Expire`). `ran` remembers the workspace a container was started on,
`raised` the exception that passes through the `finally` block. There `Sweep` removes the
workspace or, since `rmtree` ignores every error, keeps it (`kept`), after a pass as after a
failure, and the call goes on as if it were gone. `Crash` kills the process at any `await`;
`DaemonStops`, at most `MaxOutages` times, cuts clients off and stops or leaves their
containers. `given` tells the pre-push validation, which brings its directory, from the first
one, which checks it out.

### RepoPath, LogSignal, GitApply, PatchReview, Proposal

`Proposal` follows one incident: `ParseLog`, then the context for the diagnosis (`Checkout`,
`Collect` once per turn of the loop), `Diagnose`, the context again for the fix, `Screen`,
`AskModel`, `ReviewAnswer`. `Collect` has the loop's exits and its `continue`s: `Finish` when
the list or the number of files is exhausted or the next excerpt does not fit, `Skip` for what
is no readable file, `Extract` otherwise, which also appends the local modules the file imports.
`Tree` is the failing commit; its files have a length, a size, a width of line and imports.

The operators it uses are translations of the pure functions, with text abstracted to what the
patterns tell apart: a log line is its kind, the file and line it names and whether it begins in
column 0 (`_extract_surrounding_lines` counts a match there as the line before); a diff line is
what its first characters say; a path is the sequence of its segments and whether it starts with
a slash. `ParserAfter` is the diff parser's state after each line and `Parse` what it returns,
`Meaning` what one of its patches says.

`GitApply` is what the parser is compared with. It is not the parser's rule: git takes as many
lines for a hunk as the hunk's header counts (`Ends`), so that a line that looks like a header
is a line of the hunk if it falls among them, and a file's hunks follow its header without a
line between (`HunksAfter`). `GitAccepts` holds of a diff in which every hunk has its lines and
a file, `GitReads` is what such a diff changes. The parser never counts; that the two agree is
`ParseIsFaithful`. They do not agree on every diff git accepts, and `Canonical` names the
exceptions: text after a hunk, which the parser adds to it; a name without git's `a/` or `b/`,
of which git drops the first folder all the same; and a removed line `-- x` with an added line
`++ y` after it, which together look like one more file. Each is needed: without any one of them
TLC finds a diff of the instance that is read in two ways. Paths are compared as the pipeline
spells them; what is wrong with that spelling is the subject of `EvidenceIsPatchable`.

`WithImports` appends to the candidates the imports of a file that are not yet among them, one
at a time as the loop in the code does. The pattern tables of the validator are sets of files.
The language model answers anything of `Answers`, or fails.

## 3. What the runs show

Passing runs:

| Run | Instance | Shows |
| --- | --- | --- |
| `gate_races` | 1 request, 3 callbacks, 2 of which may be lost anywhere; 63k states | one winner, true answers and card, one resume, `DecisionLatch` refined, survivors answered and their approval resumed |
| `pipeline_safety` | 3 submissions, 2 incidents, all four faults; 381k states | a pull request is authorised and made once, completed means pull request, waiting means resumable, one owner |
| `pipeline_progress` | 2 submissions, stages may raise, fairness; 8k states | status only advances, `Remediation` refined, every pipeline settles, a resume that finds it waiting finishes |
| `mutation_safety` | 3 calls for one proposal, every failure and loss, maintainers; 321k states | GitHub is traceable to the table, recorded pull requests exist, failures left nothing, `MutationOutcome` refined |
| `checkout_safety` | 2 pipelines, 2 commits, webhook and click in either of 2 processes; 634k states | exact commit read, tested, copied and pushed in one process, parent pinned in any |
| `sandbox_safety` | 2 validations, 1 daemon outage, crashes anywhere; 413k states | a pass is earned, untested never ran, no call returns before it has tried to clean up and containers run on for two reasons only, every surviving call returns |
| `proposal_safety` | 24 logs, a tree of 8 files with cyclic imports, over 400 diffs; 90k states | excerpts show the match, evidence within its limits, no candidate listed twice, runner paths resolve, the parser reads what git reads, what was shown may be patched, proposals are grounded, collection ends |

Bounds. Three callbacks are a winner, a loser and a late duplicate, the longest pattern the code
distinguishes; requests do not interact, and the theorems cover any number of them. Two
submissions race for one row and the third brings the second incident. Three calls are a failed
one, a successful one and one that meets both rows. Two commits and two processes are enough for
one pipeline to see another's files. `mutations` needs no bound: a resume task is started once.
Calls of the sandbox share only the daemon, so two and one outage give every pattern: an outage
under either, both or neither. In `proposal_safety` each kind of log stands at the start of a
log and nine lines into one, more than any rule's window; the files include one that is empty,
one too large, one in a folder named like a runner prefix, two that import each other and one
that imports the same module twice; windows and budgets are small enough for every limit to
refuse something; the diffs are all sequences of up to three blocks (headers, hunks, broken
headers, blank and stray lines), larger ones that reach each limit of the validator, and hunks
with notes, empty lines, lines like headers in either order, and more or fewer lines than they
count. Deadlock is not checked: in all models everything may legitimately be over.

Fairness. Weak fairness on the steps of handlers and tasks that are not lost: the event loop
runs every ready coroutine, timers included. `Sandbox` assumes nothing of docker: a container
may run for ever and the daemon stay down. `Proposal` needs only `Collect`, which is one
synchronous loop. The git subprocesses that have no timeout are assumed to return. None on
humans, webhooks, expiry or faults. Liveness is claimed only for what survives: ADR-0008 and HLD
section 9 acknowledge that a restart loses background tasks. `StatusAdvances` is claimed without
fault `ack`: with it, FAILED can overwrite AWAITING_APPROVAL, or COMPLETED of a pipeline whose
pull request is open.

Runs that end in a counterexample, each a disagreement between code and document (quoted in
`PROJECT.json`):

| Run | The code does |
| --- | --- |
| `pipeline_early_click` | an approval clicked before the pipeline row holds its validation starts the only resume task, which raises; the pipeline waits for ever |
| `mutation_retry` | after a failed and a successful attempt two rows exist and every later call raises MultipleResultsFound instead of returning the pull request |
| `checkout_pre_push` | the pre-push validation runs on the shared directory, not on the patched copy, and by then another pipeline may have moved it |
| `stale_target` | a target branch that has advanced does not stop the mutation: the code compares the approved commit with a fresh checkout of that commit |
| `evidence_patchable` | evidence is stored under a path normalised once with the repository's name, a diff's path is normalised twice without it; below a folder `app` the two differ and a patch of the file that was shown is rejected |

Also met while modelling and not given a run of their own:

- A callback that finds the request expired answers so even when another one has just approved
  it and its pull request follows (`docs/architecture/HLD.md:298` says the expired action is
  rejected). `AnswersAreTrue` says what does hold.
- Nothing moves a pipeline out of awaiting_approval after a rejection, which
  `docs/07-operations/v1-validation-runbook.md:384` says makes it `rejected`, nor after an
  expiry.
- A redelivered webhook is a new incident and a second pipeline (HLD:292).
- With two workers (`docs/deployment/README.md:124`) a pipeline can read, test or copy another
  commit's files; HLD speaks of a single instance, and `ExactInOneProcess` is claimed for one
  process.
- HLD:295 says a timeout terminates the container; the code kills the docker client.
  `LeftoversAreExplained` lists the timeout as a cause for that reason.
- Workspaces are "unconditionally destroyed" by HLD:273 and
  `docs/06-decisions/ADR-0005-docker-sandbox-validation.md:21`. `rmtree` ignores every error
  (`sdk/sandbox_runner.py:136`), for instance a directory that a test has made read-only, and
  the workspace stays while the log calls it destroyed. What holds is that no call returns
  before it has tried.
- A daemon lost between `docker info` and `docker run` gives FAILED, where HLD:296 says
  infrastructure_error; hence the second half of `UntestedNeverRan`.
- A GitHub error is said to record FAILED; errors of `find_pull_request` and
  `create_pull_request` leave no row or one that stays PUSHED. `GitHubIsTraceable` and
  `RecordedPullExists` hold in that state too.
- A window around a line has one line more than its limit when the limit is even (the
  repository's README:311 says maximum lines): `EvidenceIsBounded` allows the one.
- One file can be evidence twice, when two frames name two of its lines.
- The patch validator stores the counts of a hunk header and never compares them with the hunk,
  although HLD:294 says it rejects malformed diffs. A hunk that is too short is refused later,
  by `git apply`; of one that is too long git ignores the rest.
- A removed line `-- x` followed by an added line `++ y` is a good hunk to `git apply` and one
  more file to the validator, without a complaint; a removed line `-- x` on its own is a
  complaint about a good diff. ADR-0004 (decision 1) says standard git diffs are parsed.
- A diff whose headers lack `a/` and `b/` is judged for the file it names, and applied to the
  path without its first folder: git is called without `-p0`.
- Text that git writes between two files (`diff --git`, `index`) is an invalid line in the hunk
  before it, so that a diff of two files is rejected as git writes it.
- In a repository that is named like a file (the pattern in `sdk/repo_checkout.py:14` allows
  dots: `discord.py`) a runner's path is looked up below one more folder of that name, because
  `shared/context_resolver.py:59` takes it for a file: such evidence is not found.
  `RunnerPathsResolve` states both cases.

## 4. What is proved

`tlapm` checks the 37 theorems that `PROJECT.json` lists and their lemmas, in eight modules, for
any number of requests, callbacks, submissions, incidents, calls, pipelines and processes, and
for any logs, trees, diffs, answers and limits. The assumptions are those of the modules (the
"nobody" values are not members of their sets, the fault set is one of the modelled kinds) and,
for `PipelineAdvances` and `PipelineImplements`, that acknowledgements are not lost. The
argument is always an inductive invariant, of the steps of the specification or, for the diff
parser, of the lines it has read:

- `ApprovalGate_proofs`: `GateInv`. Answers and cards are about the past, so the invariant links
  each handler's control state to the row: past the UPDATE the row is the handler's decision,
  and verdicts stay (`VerdictsStay`). Theorems: `TypeOK`, `OneWinner`, `AnswersAreTrue`,
  `CardIsTrue`, `ResumedOnce`, and the refinement `ImplementsLatch`, where every step of a
  handler is one step of the latch or a stutter.
- `Orchestrator_proofs`: `PipelineInv`. A pull request is opened many awaits after the approval
  and the validation were read; what makes that safe is that a passed validation is never
  overwritten because its writer was the only owner (`Recorded`, `OneOwner`), and that what the
  resume task read stays true (`Resuming`). Theorems: `TypeOK`, `PrIsAuthorised`, `MutatedOnce`,
  `CompletedHasPr`, `WaitingIsResumable`, `OneOwner` under every fault. With `OrderInv` (the
  owner's stage fixes the status; after the hand-over the resume task's does): `StatusAdvances`,
  and the refinement `ImplementsRemediation`, both without lost acknowledgements. A step of
  either task or of GitHub is one step of `Remediation` or a stutter; what that needs is that
  the resume task enters the fixing stage only on the latch's approval, and completes only with
  the pull request open. `PipelineKeepsToLatch`, under every fault: each step of the pipeline is
  one step of `DecisionLatch` or leaves the approvals alone, so that what is assumed of the gate
  here is no more than what `GateImplementsLatch` proves of it.
- `GitMutation_proofs`: `MutationInv`. Properties of rows, branch and pull requests become
  inductive with what each stage says about the call's own row, commit and pull request
  (`StageFacts`) and with the origin of every commit (`Origin`). Theorems: `TypeOK`,
  `GitHubIsTraceable`, `RecordedPullExists`, `FailedLeftNothing`, and the refinement
  `ImplementsPromise` (`MutationKeepsPromise`): a call ends once, with a record only if GitHub
  has a pull request, and what GitHub has is never taken back. A step that opens a pull request
  and reports an error is one step of the promise; every stage in between is a stutter.
- `SharedCheckout_proofs`: `CheckoutInv`. One pipeline at a time is in the synchronous stages
  (`Serial`) and the directory is on its commit from the checkout to the use (`DirIsMine`).
  Theorems: `TypeOK`, `ExactInOneProcess`, which includes that what is pushed is the approved
  patch, and `PushedOnApprovedParent` for any number of processes.
- `Sandbox_proofs`: `SandboxInv`. The verdict is computed long after the container ran, from an
  exit code the client relayed. The invariant follows the two: before the launch there is
  neither (`Launched`), a container ran on the patched tree (`Testing`), the outcome is what the
  client reported, and the client what its container did (`Reported`), and the result is the
  verdict on those (`Judged`). Theorems: `TypeOK`, `PassedIsEarned`, `UntestedNeverRan`,
  `LeftoversAreExplained`, with any number of calls and outages.
- `DataInduction`: a loop of N turns. The prover cannot instantiate an induction rule that takes
  a predicate, so `LoopInduction` takes the set of turns after which the invariant holds, and a
  recursive function, which is a CHOOSE, gets its equations from `LoopStatesExist`.
- `PatchReview_proofs`: `ParserIsFaithful`, for diffs of any length. First, the parser cuts a
  diff at its headers (`ParserCutsAtHeaders`). The invariant `Follows`
  relates the parser's state to the lines read so far: before the first file (`AtTop`), between
  the two lines of a header (`AtHeader`), after a header (`InFile`) or within a hunk (`InHunk`),
  the finished files are those described up to the last header and the open hunk holds the lines
  since it was opened. Flushing at the end then closes what is still open. The lemmas have one
  case per kind of line (`FollowsHeader`, `FollowsNew`, `FollowsHunk`, `FollowsText`). Second,
  the cut is git's: a parser without a complaint has seen a `+++` after every `---`
  (`OldThenNew`), so in a canonical diff no `---` stands in a hunk that git has counted
  (`NoHeaderInBody`), the hunk ends where the cut does (`SameBody`), and every header has the
  hunks that git gives it (`SameHunks`).
- `Proposal_proofs`: `ProposalInv`. Operators first: the minimum of a set, what a window shows
  (`WindowShows`, `SurroundingHasLine`), what normalising does to a runner's path
  (`RunnerPathStripped`), what a review without reasons implies (`ReviewIsSound`), what the
  imports of a file add to the candidates (`ImportsExtend`, `ImportsAreBounded`). Then the
  invariant: the kinds of values (`Controlled`), the signal (`Recognised`), the evidence
  gathered so far (`Gathered`), the candidates, of which those past the log's are imports and no
  two are equal (`Listed`), what each stage owes to the ones before (`Warranted`), where the
  answer and the patches come from (`Reviewed`), and the proposal (`Concluded`). Theorems:
  `TypeOK`, `ExcerptHasMatch`, `EvidenceIsBounded`, `RunnerPathsResolve`, `ParseIsFaithful` (by
  `ParserIsFaithful`), `ShownIsGrounded`, `CandidatesAreBounded`, `ProposedIsGrounded`. The
  bound on the list rests on its being distinct: each import is a file of the tree, so at most
  as many are added as there are files. With `ProposalCollectionProceeds`, every turn of the
  loop takes up the next candidate, it is the safety half of `CollectionEnds`. Assumed: the
  limits are natural numbers (`LimitAssumption`), a repository has a name (`RepoAssumption`),
  files are finitely many and have paths and lengths (`TreeAssumption`), a log is not empty
  (`LogAssumption`), an answer is a list of lines and of paths (`AnswerAssumption`).

Only model-checked: the liveness properties (`EveryClickAnswered`, `WinningApprovalResumes`,
`PipelineSettles`, `WaitingResumeFinishes`, `CallsReturn`, `CollectionEnds`), because fairness
and ENABLED are out of the prover's reach, and the counterexamples.

## 5. What is not modelled

- **Text.** What a regular expression matches inside a line, prompts, messages, branch names and
  pull request bodies, the numbering of lines in an excerpt, output truncation. The models begin
  where a pattern has matched.
- **The language model's HTTP exchange** (`sdk/llm_client.py`): one outcome, an answer that fits
  the schema or an error. Diagnosis and fix service are modelled from there on.
- **Below the checkout**: cloning and fetching are one step that may fail; symbolic links and
  file encodings are left out, `Inside` holds for a checkout without links.
- **Incident listing** (`IncidentRepository`, the listing routes) and the **web console**:
  read-only queries and their display. They change no state, and what could be said of them is
  the order and paging of SQL.
- **Configuration, logging, security helpers, sessions, migrations, application start**: no
  state of their own. Signature checks and payload parsing precede any state.
- **Who relates two incidents**: no code does, so a redelivered webhook cannot be a property.

What the validator does with the counts in a hunk's header is nothing; what `git apply` does
with them is in `GitApply`, for diffs, and in `Sandbox`, as a patch that is refused. Where in a
file a hunk applies is left out of both.

## 6. What could come next

1. `Orchestrator` with `GitMutation` in place of `Mutate`: the pull request of `CompletedHasPr`
   would then be one that a maintainer may close. The two meet at `MutationOutcome`, which
   `GitMutation` is proved to implement; what is left is a shared module for the table.
2. `Orchestrator` with `Sandbox` in place of its validation stage, to follow a leftover
   container into the pre-push validation.
3. Recovery at start-up, if the code gains one: today nothing looks for rows, workspaces or
   containers that an earlier process left.
