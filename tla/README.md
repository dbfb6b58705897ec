# TLA+ models of the agor terminal core, stop handler, Claude prompt path, onboarding wizard and sessions tab

This directory holds TLA+ specifications of the terminal core of agor:
`src/apps/agor-cli/src/commands/config/set.ts`, lines 50-1004. That code serves
browser terminals backed by Zellij sessions. The directory also holds the TLC
configurations that check them. `spec.md` describes the core, and the
modules follow the code. A second, independent part is the web UI's onboarding
wizard (`src/apps/agor-ui/src/components/OnboardingWizard/OnboardingWizard.tsx`):
the React component that walks a new user through repository, board, worktree,
API key and first session, and saves its progress in the user's preferences.
A third is the daemon's stop handler (`handleStopWithAck`,
`src/unnamed/part_005`), which stops a running task through an
acknowledgement protocol with the executor. A fourth is the Claude tool's
live prompt (`ClaudeTool.executePrompt` in
`src/packages/core/src/tools/claude/claude-tool.ts`, and the
`ClaudePromptService` it calls, `src/unnamed/part_013`). A fifth is the
worktree modal's sessions tab
(`src/apps/agor-ui/src/components/WorktreeModal/tabs/SessionsTab.tsx`), whose
archive buttons patch sessions while the daemon's events update the list.

## The system

| Part | Code (set.ts) | State | Operations |
|---|---|---|---|
| Escaper | `escapeShellArg` 165-168, `escapeDoubleQuoted` 175-181 | none (pure) | quote a value for `'...'` or `"..."` |
| Command construction | `runAsUserAsync` 204-222, `runZellijActionAsync` 249-275, `buildInitCommands` 368-382, `executeInitCommands` 387-401 | none | wrap zellij commands in `sudo -n su - <user> -c`, type init lines into a tab |
| Query cache | `ZellijSessionCache` 280-362 | two TTL maps keyed by `<session>:<unix user>` | `sessionExists`, `getTabs` (hit, or query then store), `invalidate` |
| Output batcher | `TerminalDataBatcher` 408-464 | buffer, timer | `push`, `flush`, `destroy` |
| Environment file | `writeEnvFile` 475-526 | `/tmp/agor-env-<short id>.sh` | overwrite on every create |
| Orchestrator | `TerminalsService` 531-1004 | `sessions` map (terminal id to PTY and batcher) | `create`, `get`, `find`, `patch`, `remove`, `cleanup`, PTY `onData` and `onExit` |
| Zellij (external) | - | sessions holding named tabs with one focus | `attach --create`, `list-sessions`, `query-tab-names`, `rename-tab`, `new-tab`, `go-to-tab-name`, `write-chars`, `write` |

### How the parts interact in create()

`create()` (559-919) runs on the single Node event loop, and it stops at every
`await`:

1. It resolves the Unix user, fails if that user is invalid, and computes the
   session name `agor-<first 8 chars of user id>`.
2. It asks the cache whether the session exists and, if it does, for its tabs.
   From the answers it classifies the request as first session, new tab or
   switch tab.
3. It writes the env file and spawns `zellij attach <session> --create` in a
   PTY.
4. It registers the terminal and wires its `onData` and `onExit` callbacks.
5. It waits for the first output flush, or for 3 s.
6. It runs the branch's zellij actions:
   - first session: `rename-tab`, then invalidate, then init;
   - new tab: `new-tab`, then `go-to-tab-name`, then invalidate, then init;
   - switch tab: `go-to-tab-name`, then `write 3`, then init.

   Each action is a child process with a 5 s timeout. Critical actions throw
   out of `create()`. The init step is `write-chars` of
   `source <env file> && cd '<cwd>'` followed by `write 10`.

Several `create()` calls, PTY events, `remove()`, `cleanup()` and users
typing in the tabs all interleave at those awaits. Zellij state is shared
between them: one focus per session, and one tab list read through a TTL
cache.

### Hard behaviours, and the properties they call for

- **Cache staleness.**
  - A read stores its answer after the await, so an invalidation can fall in
    between.
  - The invalidate comes only after *both* awaited actions succeed.
  - A timed-out query answers the default `[]` and is cached.
  - Property: one tab per worktree in every session (`NoDuplicateTabs`, spec 8).
  - A cached `exists=false` that outlives the session's creation sends a
    later create down the first-session path, whose `rename-tab` renames
    whatever tab has the focus. Property: a `rename-tab` only ever renames
    a new session's default tab (`RenameOnlyDefaultTab`).
- **Single focus.** Navigation and typing are separate actions. The property
  is that an init line runs in its own tab (`InitRunsInOwnTab`).
- **Failure after registration.** The terminal is put in `sessions` before the
  tab actions run. The property is that a failed create leaves no terminal
  (`NoOrphanTerminal`, spec 7).
- **Readiness.** `create()` waits for output that may never come. The
  property is that every create settles (`CreateCompletes`).
- **Nested quoting.** Untrusted paths pass through three shells. The property
  is that `cd` receives the literal path (`CdArgumentIsLiteral`). The env
  file carries the user's variable values to the tab's shell, and sourcing
  it must set each one literally (`SourcedEnvIsLiteral`).
- **Short-id collisions.** Two users with the same 8-character prefix share a
  session and an env file. The property is that an attached terminal reaches
  only its own user's shells (`OwnShellsOnly`). With distinct short ids this
  holds by the naming alone, so no passing run checks it; only the collision
  reproduction does.
- **Batcher.** The data events carry the PTY output in order, without loss or
  repetition, and eventually (`StreamRefined`, a refinement of
  `BatchedStream`). No data event follows `remove()` (`NoDataAfterRemove`).

### The onboarding wizard

The wizard is a modal with a step (`welcome`, `add-repo`, `clone`, `board`,
`worktree`, `api-keys`, `launch`) on one of two paths, `persisted-agent`
(clone the openclaw repository) or `own-repo`. Its handlers call the daemon
through props: `onCreateRepo`, `client.service('boards').create`,
`onCreateWorktree`, `onCreateSession`, and `onUpdateUser`, which patches the
user without waiting. The daemon's state comes back as props (`user`,
`repoById`, `boardById`, `worktreeById`) whenever the parent re-renders.
Effects react to those props: a resume effect restores progress from
`user.preferences.onboarding` once per mount, a clone watcher ends the clone
step when the repository appears, and two auto-start effects begin the clone
and the board creation. A 120 s timer ends a clone that never shows up.

The hard parts are the ones a component test hardly reaches:
- handlers capture `user` when they are created, so a save merges onto a
  snapshot that an earlier save has not yet reached (`ProgressPersisted`);
- the resume effect runs whenever the props first arrive, in whatever order,
  and a page reload remounts the wizard with fresh state while the daemon keeps
  everything (`WorktreeStepHasRepo`, `StepInPath`);
- the clone timer races the clone, and Retry starts a second clone
  (`NoDuplicateClone`);
- every spinner must stop, by an answer, an error or the timer
  (`SpinnerSettles`), and every path must get past its first step
  (`OwnRepoLeavesAddRepo`).

### The stop handler

`handleStopWithAck` sends `task_stop` with a sequence number on the sessions
service and waits 5 s for a `task_stop_ack` with that number, up to three
times. After an ACK it waits 30 s for `task_stopped_complete`. Then it
patches the session idle (after a completion) or, as a safety net, the task
stopped and the session idle (after no ACK, or no completion). A listener
only hears events emitted while it is registered. The executor that answers
is outside this repository, so the model lets it receive or miss each
signal, ACK what it receives, finish stopping or hang, and lets the
connection lose any signal or event. Its events stay in order, because they
share one socket. Several stop calls for one task may run at once, for
example after a double click.

The hard parts:
- every wait must end, whatever the executor does (`StopReturns`);
- every exit must remove the listeners it added to the shared service
  (`NoListenerLeak`);
- the two safety-net patches run in one `try`. A throw between them must not
  leave an idle session over a running task (`SessionIdleOnlyWhenStopped`).

### The Claude prompt path

`executePrompt` counts the session's stored messages and takes that count as
the next index. It stores the user message under it and calls
`promptSession`. That call loads the session, reads the last 20 messages
(dropping system ones), appends the prompt, and streams the model's answer.
Then `executePrompt` stores the assistant message at the next index + 1.
Every step is an await, and any of them may throw. Two things are hard to see
in the code:
- what the request gives the model: the conversation and the new prompt,
  once (`PromptSentOnce`);
- whether indices stay distinct when something else stores a message while
  the stream runs. The index was read before two awaits (`IndicesUnique`).

### The sessions tab

Each row has an archive button. A click adds the session's id to
`archivingIds`, which puts the button's spinner on, and sends
`sessions.patch` through `clientRef.current`. When the patch answers or
throws, a `finally` block removes the id. Both updates use functional
updaters (50, 60-64); the callback's closure keeps only the first render's
state. Meanwhile the daemon publishes a patched event, and the parent
builds a new sessions array and re-renders the tab. The answer, the event
and clicks on other rows interleave in any order. The tab is wrapped in
`memo` with a comparator (315-323). The comparator lets new props through only
when the worktree, the sessions array, or whether the client is null
changes. Two things are hard to see in the code:
- whether the spinners stay in step with the calls in flight, whichever
  way each call ends (`SpinnerMatchesCalls`);
- which client a click uses after the parent swapped its client
  (`PatchUsesCurrentClient`).

## Modules

- **`ShellEscape`** (with `MCShellEscape`) models the two escapers and the
  nesting `create()` uses:
  - `SuCommand(ZellijWriteChars(BuildInitCommand(cwd)))` is the line the
    daemon's shell runs.
  - Strings are sequences of one-character strings. `ReplaceChar` is one
    global `String.replace`.
  - The reference is a POSIX word-splitting and quote-removal scanner (`Step`)
    that fails on `$`, a backtick, an unquoted `;` or an open quote.
  - `WriteEnvFile(key, value)` is the env file's line for one custom
    variable (`writeEnvFile`, 475-526): nothing for a skip-listed name, else
    `export KEY='<value>'` with each `'` written as `'\''`. The tab's shell
    sources it (stage `source`).
  - Each of the three shells reads its line one character per step, which
    keeps the evaluation shallow. Its words must have the shape the code
    intends, and one word is the next shell's line.
- **`Zellij`** is the external multiplexer, written from spec section 6 and
  the CLI's behaviour; no code of the repository is in it:
  - A session is alive or dead, has a sequence of tabs, and has one focus.
  - A tab has a name, the user whose environment its shell holds, and what
    has been typed into it but not yet entered.
  - Operator names follow the zellij actions.
- **`ZellijSessionCache`** extends `Zellij` and models `ZellijSessionCache`:
  - The variables `existsCache` and `tabsCache` map each key to `Absent` or a
    value. An entry present in the model is younger than the TTL.
  - `ExistsAnswers` and `TabsAnswers` are what the queries can return,
    including the error defaults when `MayTimeOut`.
  - `StoreExists`, `StoreTabs` and `Invalidate` are the map writes.
    `ExpireExists` and `ExpireTabs` are time passing.
- **`TerminalsService`** extends the cache and models `TerminalsService`:
  - `req[r]` is call r of `create()`. Its `pc` stops at each await:
    `exists`, `existsStore`, `tabs`, `tabsStore`, `spawn`, `ready`, `tabops`,
    then `done` or `failed`.
  - `term[r]` is membership in `this.sessions`, and `pty[r]` is the Zellij
    client in the PTY.
  - `envFile[p]` records whose variables the env file of short id p holds.
  - `zellij[k]` is the session of key `<<unix user, short id>>`.
  - The cache lookups are two steps on a miss: `ExistsQuery` reads Zellij and
    `ExistsStore` writes the cache later. `TabsQuery` and `TabsStore` work the
    same way.
  - `Spawn` is the synchronous stretch from the env file to the
    registration, 699-815. It fixes the list of tab actions (`TabOps`) from
    the answers.
  - `TabOpSucceeds` and `TabOpFails` run one action at a time, which is
    `runZellijActionAsync`. A failure is either Zellij refusing the action
    (dead session, missing tab), or a timeout that may have applied it. A
    critical failure throws with the terminal still registered.
  - `Attach`, `PtyExit`, `UserClosesTab` and `Expire` are the environment.
    `Remove` and `Cleanup` are the service's other operations.
  - `misplaced` is a history variable: the calls whose Enter ran in a tab
    not named for them.
- **`BatchedStream`** is the abstract promise of the output path:
  - `in` is the PTY output, chunk by chunk, and `out` is what the data events
    carried.
  - `Emit` extends `out` by a prefix of `in`. `Accept` may emit in the same
    step, as a push that reaches the maximum flushes at once.
  - Weak fairness on `Emit` says accepted output is eventually emitted.
- **`OutputBatcher`** models `TerminalDataBatcher` of one terminal, with the
  handlers that drive it:
  - `OnData` is `push` (421-436), and `TimerFires` is the 10 ms timer.
  - `Remove`, `Cleanup` and `PtyExit` are flush then destroy, with SIGTERM
    and the delete.
  - `Stream` instantiates `BatchedStream` with `in <- [i \in 1..pushed |-> i]`
    and `out <- sent`.
  - Weak fairness on `TimerFires` is justified: `setTimeout` fires.
- **`Authorization`** (with `MCAuthorization`) models
  `src/unnamed/part_007`. `HasMinimumRole` and `EnsureMinimumRole` are
  operators, and `Check` is the before hook `requireMinimumRole`:
  - `toLowerCase` is a table over the role strings enumerated.
  - `RankOf` is the `ROLE_RANK[...] ?? viewer` lookup. An inherited
    `Object.prototype` key is not nullish and compares false with every rank.
  - `Policy` is the reference: the role order from the file's comments.
- **`OnboardingWizard`** (with `MCOnboarding`) models `OnboardingWizard.tsx`:
  - `w` is the component's state and refs (`WizardInit`, 204-226): path,
    step, error, loading, the created ids, whether a session exists, the clone
    timer, `resumedRef`, the call in flight with the user its closure holds,
    and whether the modal is open.
  - `seen` is the props as last rendered; `Sync(f)` is the parent passing the
    daemon's current value of one prop. The daemon is `repos`, `cloning`,
    `boards`, `worktrees`, the stored preferences `prefs` and the queue of
    user patches not yet applied (`patches`, applied in order by
    `ApplyPatch`; a patch replaces `preferences` whole, as the code sends the
    whole object). `intended` is what the last save meant to store.
  - Effects (`ResumeEffect`, `CloneArrived`, `BoardWatch`, `WorktreeWatch`,
    `AutoClone`, `AutoBoard`) run
    before anything else once their dependencies make them due (`EffectDue`),
    as React flushes passive effects before the next event. User clicks and
    the continuations of awaited calls are separate actions guarded by
    `Ready`; each awaited call is split at its `await` (`BoardCreated` and
    `BoardFails` after `HandleCreateBoard`, and so on).
  - What a render offers is its own operator (`WorktreeFormReady`,
    `ApiKeyStep`, `LaunchShown`, `BackShown`); antd ignores clicks on a
    loading button.
  - `Reload` is a page reload: the timer is cleared by the unmount effect, the
    component's state and props start over, the daemon keeps its state.
  - Board and worktree ids are model values; repositories are `openclaw`
    and `own`, the only two the paths ever create.
- **`StopHandler`** models `handleStopWithAck`:
  - `h[x]` is one call's locals and position: `attempt`, `sequence`,
    `ackReceived`, the await it is at, and what it returned.
  - `listeners` is the sessions service's listener set.
  - `toExec` is the stop signals on their way to the executor. `inflight` is
    the executor's events in order.
  - `task` and `session` are the two database statuses.
  - An emitted event reaches the matching listeners at once (`DeliverAck`,
    `DeliverComplete`). A handler's continuation after the ACK runs in the
    same step, since it runs before the next event is dispatched.
  - The executor's actions (`ExecReceive`, `ExecFinish`) and the losses
    (`LoseSignal`, `LoseEvent`) are the environment.
- **`ClaudeTool`** models `executePrompt` and `promptSession`:
  - `pc[p]` is the await call `p` is at, and `idx[p]` its `nextIndex`.
  - `db` is the session's stored messages. A message is its role, its
    content (the prompt that produced it, or `Reply`) and its index.
  - `sent[p]` is the message list of `p`'s request.
  - `CountMessages`, `CreateUserMessage`, `SendRequest` (history load and
    request), `StreamDone` and `CreateAssistantMessage` are the steps.
    `Throw` is any of the awaits rejecting.
  - `LoadConversationHistory` is `slice(-limit)`, then the system filter and
    `toAnthropicMessage`.
  - `MaxConcurrent` bounds the calls for the session running at once.
- **`SessionsTab`** models the archive toggle:
  - The daemon's state is `archived[s]`. `view[s]` is the value in the
    sessions prop the tab last rendered.
  - `calls` is the patches in flight: session, value, the client they went
    through, and whether the daemon applied them. `events` is the patched
    events on their way to the parent, in order.
  - `parentClient` is the client the parent holds. `propsClient` is the
    client of the props the tab last rendered, which is `clientRef.current`.
  - `Click` is `handleArchiveToggle` up to its await. `Apply` is the daemon
    applying a patch that came through the live client. `Respond` and `Fail`
    are the answer, each with the `finally`. `DeliverEvent` is the parent
    re-rendering the tab with a new array. `ReplaceClient` is a reconnect,
    filtered through `PropsAccepted`, the memo comparator.
    `ToggleShowArchived` is the switch.
  - `FormatRelativeTime` is `formatRelativeTime`, over the age in seconds.
  - `MCSessionsTab` gives the ages it is checked on.
- **`MCTerminals`** gives the constants:
  - users, worktrees and requests are model values;
  - two short ids, and a colliding pair for the collision reproduction;
  - the daemon as the Unix user;
  - symmetry over requests and worktrees, used only in safety runs.

## Runs

| Run | Config | Expect | What it shows |
|---|---|---|---|
| shell_escape | MCShellEscape.cfg | pass | Every path of up to 3 characters from `a ' " \ $ `` ` `` ; space` reaches `cd` as one literal word through `sudo su -c`, `write-chars "..."` and the tab's shell. Every value from the same characters, written to the env file and sourced, sets its variable literally, and `PATH` is never exported (56k states). |
| terminals_sequential | MCTerminalsSequential.cfg | pass | Three sequential creates, with expiry, PTY exits, remove, cleanup and a tab closed by hand, never give a session two tabs of one name, and the first-session `rename-tab` only renames the default tab (144k states with symmetry). |
| terminals_settle | MCTerminalsLive.cfg | pass | Two users' creates, two at a time, with query and action timeouts, always return or throw (`CreateCompletes`). About 400k states, 2 minutes. |
| batcher | MCOutputBatcher.cfg | pass | Chunk sizes 1 and 3 against a maximum of 4, so the forced flush happens at exactly the maximum. Up to 8 chunks, with remove, cleanup and exit anywhere. The stream refines `BatchedStream`, its liveness included. |
| authorization | MCAuthorization.cfg | pass | All 264 combinations are covered: provider (internal, rest, socketio) × user (absent, or role × service-account flag) × minimum role. The roles include mixed-case and unknown spellings. The hook's outcome equals the policy's. |
| claude_prompt_sent_twice | MCClaudeTool.cfg | violation | One prompt at a time. The first prompt already reaches the model twice: the history `promptSession` loads ends with the user message `executePrompt` stored, and the prompt is appended again (4 steps). |
| stop_handler | MCStopHandler.cfg | pass | Two concurrent stop calls for one task, every signal and event able to be lost and every patch able to throw: every call returns, no listener is left behind, and the session is never idle while its task runs (248k states, about a minute). |
| onboarding | MCOnboarding.cfg | pass | Both paths, every call able to fail, props arriving in any order and one page reload: the wizard shows only steps of its path (`StepInPath`, 970k states, about 30 s). |
| onboarding_spinner | MCOnboardingSpinner.cfg | pass | The same within one mount (no reload): every spinner stops (`SpinnerSettles`, 34k states). |
| sessions_archive | MCSessionsTab.cfg | pass | Two sessions and three clicks. The daemon's applies, their events, the answers and errors, a client swap and the switch interleave freely. Each row's spinner is on exactly while a patch of that session is in flight, so no session ever has two patches in flight (4.5k states). |
| onboarding_own_repo_stuck | MCOnboardingOwnRepo.cfg | violation | On the own-repo path the clone completes and the wizard stays on `add-repo` forever: only the persisted-agent branches ever set the step to `clone`, which the clone watcher needs. |
| onboarding_lost_progress | MCOnboardingLostProgress.cfg | violation | The path save and the board save are both built from the same stale `user`; the board patch, applied last, drops the path, so a restart cannot resume. |

Fourteen more configurations reproduce violations that the listed runs do not
repeat, each recorded as a hazard in `PROJECT.json`:

| Config | Property | What TLC finds |
|---|---|---|
| MCTerminalsRenameTimeout.cfg | `RenameOnlyDefaultTab` | One create at a time. A `rename-tab` times out after Zellij applied it; create throws before the invalidate at 868, so `exists=false` stays cached, and the next create for another worktree renames the first worktree's tab to its own name (13 steps). The spec (3, 4.2, 5) says the entry is invalidated after any action that renames a tab. |
| MCTerminalsLeak.cfg | `NoOrphanTerminal` | The ready timer fires before Zellij created the session, and `rename-tab` fails. create throws, and the terminal stays registered. |
| MCClaudeToolConcurrent.cfg | `IndicesUnique` | Two prompts of one session at once (`MaxConcurrent = 2`): both count no messages and store their user message at index 0. Whether the daemon ever runs two at once is decided outside `src/`. |
| MCTerminalsDupConcurrent.cfg | `NoDuplicateTabs` | Two concurrent creates of one worktree in an existing session both add the tab. |
| MCTerminalsDupAfterTimeout.cfg | `NoDuplicateTabs` | `new-tab` applied, then a failure before the invalidate; the next create adds the tab again. |
| MCTerminalsTabsTimeout.cfg | `NoDuplicateTabs` | A timed-out `query-tab-names` answers `[]` and create adds an existing tab again. |
| MCTerminalsWrongTab.cfg | `InitRunsInOwnTab` | Concurrent creates of two worktrees: one's `new-tab` moves the focus, and the other's `cd` runs in the wrong tab. |
| MCOutputBatcherLate.cfg | `NoDataAfterRemove` | Output written by the client after `remove()` sent SIGTERM re-arms the destroyed batcher's timer, and a data event goes out for a removed terminal. |
| MCOnboardingResume.cfg | `WorktreeStepHasRepo` | After a reload the resume effect lands on `worktree` with the board restored but not the repository, and Create Worktree can only answer "Missing repo or board". |
| MCStopHandlerSuccess.cfg | `SuccessMeansIdle` | The ACK arrives, the completion times out, and the safety net's task patch throws; the catch only logs and the call returns `success: true` with the session still running (6 steps). |
| MCTerminalsCollision.cfg | `OwnShellsOnly` | Two users whose ids share 8 leading characters share one session and one env file, and the second user's terminal attaches to the first user's shell. The spec (2) says there is one session per identity. |
| MCSessionsTabClient.cfg | `PatchUsesCurrentClient` | A click, then the parent swaps in a new client: the comparator sees the same array and a non-null client on both sides, so the tab keeps the old client and patches go through it. |
| MCSessionsTabTime.cfg | `RelativeTimeNamesCount` | Ages of 360-364 days read `0y ago`: months reach 12, and `days / 365` floors to 0. |
| MCOnboardingReclone.cfg | `NoDuplicateClone` | The clone timer fires while the clone still runs; Retry asks the daemon to clone the same repository again. |

The violation runs each back a finding in `PROJECT.json`. Each passing run has
a mutant, a plausible bug in the mapped code that TLC catches under the run's
own cfg:

- the backslash pass moved last in `escapeDoubleQuoted`;
- `writeEnvFile` exporting the value without escaping its quotes;
- the invalidate after `go-to-tab-name` dropped;
- the invalidate after the first session's `rename-tab` dropped;
- `waitForReady` without its timer;
- `remove` destroying before it flushes;
- `hasMinimumRole` without `toLowerCase`;
- the resume effect restoring the step but not the path;
- `handleStartClone` without its timeout;
- the ACK timer resolving without `removeListener`;
- the completion wait without its timer;
- each safety-net patch in a `try` of its own;
- the archive updater building on the closure's `archivingIds` instead of `prev`.

## Bounds, and why they are enough

- **Escaper.** Strings up to 3 characters cover every pair and triple of the
  special characters: a quote next to a backslash, `\$`, `'\''`, and so on.
  Longer strings repeat these local patterns.
- **Users and requests.** One user and three requests is enough for the
  sequential run, because the missing-invalidate bug needs three creates: one
  to make the session, one to fill the stale list, one to duplicate. Each
  property quantifies over sessions, and sessions of different users share no
  state except the env file.
- **Concurrent runs.** These use two requests, the least that can interleave.
  `terminals_settle` gives them two users with distinct short ids, so that
  a create of one user can write its env file between another create's
  typed line and its Enter. It allows no tab closed by hand (that case is in
  the sequential run), which keeps the run near 2 minutes.
- **Worktrees.** Two worktrees let new-tab and switch-tab both happen.
- **Churn.** `MaxChurn = 1` allows one tab closed by hand, enough to make a
  cached tab list name a missing tab.
- **Restarts.** `Restarted` starts sessions alive, as Zellij sessions survive
  a daemon restart. It lets the concurrent runs start from an existing session
  and stay clear of the first-session race that spec 5 accepts.

- **Wizard.** One board id and one worktree id: a second creation can only
  fail, which `BoardFails` and `WorktreeFails` already cover, and two ids each
  took the safety check past 11 million states. One reload (`MaxReloads = 1`)
  is enough for every resume order: the second mount sees everything the
  daemon stored. The liveness of the spinner is checked without the reload:
  with it the behaviour graph took over 3 minutes, and a reload only ever
  clears a spinner (the remounted wizard starts with `loading` false). The
  violation runs turn failures off (`MayFail = FALSE`) so
  that their traces show the bug and not an error path.

- **Stop handler.** `MAX_RETRIES = 3` is the code's, so all three attempts
  and all three sequence numbers occur. Two calls are the least that share
  listeners and sequence numbers. The executor's events are a queue: with
  three ACKs and one completion it never holds more than a handful.
- **Claude prompt path.** `HistoryLimit = 20` is the code's default. Two
  prompts are enough: the doubled prompt shows on the first one, and the
  index collision needs two calls that overlap. The Claude runs check
  safety only, with no fairness; deadlock checking is off because every call
  ends in `done` or `failed`.
- **Sessions tab.** Two sessions are the least for which two rows'
  updaters interleave. `MaxClicks = 3` lets one session be archived and
  unarchived while another's patch is in flight. `ClientVersions = 2` allows
  one reconnect. The ages cover every whole day up to 800 and every minute
  up to 25 hours, so each threshold is crossed on both sides.

## Fairness

- Weak fairness applies to every step of a `create()` call (`CreateStep`).
  The event loop resumes a call whenever its awaited promise settles. Every
  await in `create()` is bounded, by the 3 s ready timer or by exec's 5 s
  timeout, so each step is eventually taken.
- Nothing is fair for users (remove, cleanup, closing tabs), for Zellij's own
  timing (`Attach`, `PtyExit`) or for cache expiry. `CreateCompletes` holds
  without them.
- Deadlock checking is off in the terminal runs. A service with every call
  settled and no terminal left is quiescent, and that is a legitimate end
  state.

- In the wizard, effects and the continuation of an awaited call are weakly
  fair: React runs a due effect before the next event, and every daemon call
  answers or throws. So are the clone finishing or failing, a queued user
  patch being applied, and the parent passing fresh props. The user's clicks
  and the reload are not fair. Deadlock checking is off: a closed wizard is
  a legitimate end.

- In the stop handler, each call's own steps are weakly fair
  (`WF_vars(Handler(x))`). Its timers always fire, and a patch either
  resolves or throws. The executor and the connection get no fairness, since
  a hung executor is the case the timers exist for. Deadlock checking is off:
  when every call has returned, the system has nothing left to do.

- The sessions tab run checks safety only and assumes no fairness. Deadlock
  checking is off, because with no call in flight the tab just waits. Spinners
  stopping would follow from `SpinnerMatchesCalls` once every call settles, so
  the run does not state it separately.

## Not modelled, and why

- **`get`, `find`, `patch`.** They only read `sessions` or pass raw bytes to
  the PTY.
- **The `shared` session.** A call without a user, and `data.userId` differing
  from the authenticated user, are not modelled: one user per call.
- **The environment file's mode and `chown`.** They are file I/O; the
  export lines and the skip list are modelled in `ShellEscape`. The variable
  names are taken to be shell identifiers: they come from the user's
  environment settings, whose validation is in `@agor/core`, outside `src/`.
- **The `onFlush` wrapper of `waitForReady`.** It only resolves the
  readiness promise once, then puts the original handler back and passes the
  data on, all in the synchronous flush, so no output is lost or reordered
  whichever of output and timer comes first. `TerminalsService` keeps the
  readiness race itself (`ReadyOnOutput` or `ReadyTimeout`).
- **Wizard details.** The own-repo branch of the clone watcher is modelled
  but never acts, for the reason the own-repo finding gives. (The board and
  worktree watchers do act: after a resume restored an id that is not yet
  loaded, and a create is in flight when it arrives.) Form contents, agent selection, API-key text and the worktree tag
  (`onUpdateWorktree`) change nothing a property reads. Resources created
  before a reload and never reused are not tracked.
- **The rest of the Claude tool.** `importSession` and `checkInstalled` only
  read files. The system prompt and the content preview are formatting. The
  order of `findBySessionId`'s answer is the repository's, outside `src/`;
  the model takes it to be the order of storing.
- **The rest of the sessions tab.** The search filter, the sort, the counts
  and the columns only shape the rendering. Search text is taken to match
  every session. Events lost on a reconnect are not modelled.
- **Outside the modelled parts.** The rest of `src/` (UI, database wrappers,
  the OpenCode tool, CLI commands, docs) is listed in `PROJECT.json` with reasons.
- **The executor's side of the stop.** It is not in this repository. The model
  lets it receive or miss each signal and ACK every signal it receives
  (`StopAckData`'s `already_stopped` covers repeats). It reports completion
  once, after it has updated the task (`StopCompleteData`). `ready_for_prompt` is always written
  `false` together with the idle status, so it is not a separate variable.

## Plan

1. **An abstract spec of the cache.** `ZellijSessionCache` should be shown
   to refine "an answer is one Zellij gave at some moment since the last
   invalidate or within the TTL", with a pass run over concurrent creates.
2. **Invalidate on failure.** Model the fix the rename finding calls for
   (invalidate in a `finally`) and check `NoDuplicateTabs` and
   `RenameOnlyDefaultTab` with action timeouts enabled.
3. **Stop and prompt.** Compose `StopHandler` with the executor's prompt
   run (`part_017`), whose final task patch (138-144) can overwrite a forced
   stop.
