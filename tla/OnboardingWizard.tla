--------------------------- MODULE OnboardingWizard ---------------------------
(***************************************************************************)
(* The onboarding wizard of the web UI (OnboardingWizard.tsx), with the   *)
(* server state it reads through its props and writes through its        *)
(* callbacks.                                                              *)
(*                                                                         *)
(* w is the component: its useState values and refs.  seen is what the    *)
(* props repoById, boardById, worktreeById and user.preferences held at   *)
(* the last render; the parent loads them from the daemon at any time     *)
(* (Sync).  repos, boards, worktrees and prefs are the daemon's records,   *)
(* cloning the clones it runs, patches the onUpdateUser calls in flight.  *)
(*                                                                         *)
(* React runs the effects of a commit before it handles the next event,   *)
(* so every step other than an effect and the daemon's own work waits    *)
(* until no effect is due.  An awaited call is split in two: the handler  *)
(* up to the await, and its continuation (BoardCreated, ...), which uses  *)
(* the user the handler's closure captured.  A page reload remounts the   *)
(* component with fresh state and unloaded props; the daemon's state and  *)
(* the requests it received survive it.                                    *)
(***************************************************************************)
EXTENDS Naturals, Sequences, SequencesExt

CONSTANTS
    BoardIds,               \* board ids the daemon can mint
    WorktreeIds,            \* worktree ids the daemon can mint
    None,                   \* null
    NoUser,                 \* the user prop before it has loaded
    PersistedAgentPending,  \* the persistedAgentPending prop
    MayFail,                \* a clone, a create or a session launch may fail
    MaxReloads              \* page reloads in a behaviour

Paths == {"persisted-agent", "own-repo"}

Steps == {"welcome", "add-repo", "clone", "board", "worktree", "api-keys", "launch"}

(* The openclaw repository, and the one the user names on the add-repo    *)
(* step (by URL, slug or local path).                                      *)
RepoFor(path) == IF path = "persisted-agent" THEN "openclaw" ELSE "own"

(* user.preferences: the onboarding record and mainBoardId; None is an    *)
(* absent field.                                                           *)
Prefs == [path : Paths \cup {None}, boardId : BoardIds \cup {None},
          worktreeId : WorktreeIds \cup {None}, mainBoardId : BoardIds \cup {None}]

NoOnboarding == [path |-> None, boardId |-> None, worktreeId |-> None, mainBoardId |-> None]

NoCall == [kind |-> "none", user |-> NoUser]

VARIABLES
    w,          \* the component's state
    seen,       \* the props at the last render
    repos,      \* the daemon's repositories
    cloning,    \* repositories the daemon is cloning
    boards,     \* the daemon's boards
    worktrees,  \* the daemon's worktrees
    prefs,      \* the user's preferences on the daemon
    patches,    \* preference patches sent and not yet applied, in order
    intended,   \* history: every saved update merged in the order saved
    dupClone,   \* history: a clone was asked for a repository cloning or shown
    reloads

vars == <<w, seen, repos, cloning, boards, worktrees, prefs, patches, intended, dupClone, reloads>>

daemon == <<repos, cloning, boards, worktrees, prefs, patches>>

-----------------------------------------------------------------------------
(* getStepsForPath and getStepIndex (0-based, -1 when absent).             *)
GetStepsForPath(path) ==
    CASE path = "persisted-agent" -> <<"welcome", "clone", "board", "worktree", "api-keys", "launch">>
      [] path = "own-repo" -> <<"welcome", "add-repo", "clone", "board", "worktree", "api-keys", "launch">>
      [] OTHER -> <<"welcome">>

GetStepIndex(steps, step) == SelectInSeq(steps, LAMBDA s : s = step) - 1

(* stepsItems and currentStepDisplay (1103-1143): the steps indicator     *)
(* lists the path's steps without welcome and highlights the current one, *)
(* or none (-1).                                                           *)
CurrentStepDisplay(path, step) ==
    IF path = None \/ step = "welcome" THEN -1
    ELSE GetStepIndex(SelectSeq(GetStepsForPath(path), LAMBDA s : s # "welcome"), step)

(* The useState initial values and refs of a freshly mounted wizard.       *)
WizardInit ==
    [path |-> None, step |-> "welcome", error |-> FALSE, loading |-> FALSE,
     repoId |-> None, boardId |-> None, worktreeId |-> None, sessionId |-> FALSE,
     timer |-> FALSE, resumed |-> FALSE, call |-> NoCall, open |-> TRUE]

Unloaded == [repos |-> {}, boards |-> {}, worktrees |-> {}, user |-> NoUser]

(* saveOnboardingProgress: the preferences it sends, built from the user  *)
(* it was given: {...preferences, onboarding: {...onboarding, ...updates}} *)
(* with mainBoardId set when the update names a board.                    *)
SaveOnboardingProgress(user, upd) ==
    [f \in DOMAIN user |->
        IF f \in DOMAIN upd THEN upd[f]
        ELSE IF f = "mainBoardId" /\ "boardId" \in DOMAIN upd THEN upd.boardId
        ELSE user[f]]

(* The call returns at once when the user has not loaded.                  *)
Save(user, upd) ==
    IF user = NoUser
    THEN UNCHANGED <<patches, intended>>
    ELSE /\ patches' = Append(patches, SaveOnboardingProgress(user, upd))
         /\ intended' = SaveOnboardingProgress(intended, upd)

-----------------------------------------------------------------------------
(* Effects.  Each is due when running it changes the state.                *)

(* Resume from prior onboarding state (265-317).                           *)
ResumeDue ==
    /\ w.open /\ ~w.resumed /\ seen.user # NoUser
    /\ seen.user.path # None \/ (PersistedAgentPending /\ w.path = None)

(* Mutant: the resume restores the step but not the path.                 *)
ResumeEffectKeepsPath ==
    /\ ResumeDue
    /\ LET ob == seen.user
           found == ob.path = "persisted-agent" /\ "openclaw" \in seen.repos
           step == CASE ob.worktreeId \in seen.worktrees -> "api-keys"
                     [] ob.mainBoardId \in seen.boards -> "worktree"
                     [] ob.path = "persisted-agent" -> IF found THEN "board" ELSE "clone"
                     [] OTHER -> "add-repo"
       IN w' = IF ob.path = None
               THEN [w EXCEPT !.path = "persisted-agent"]
               ELSE [w EXCEPT !.resumed = TRUE, !.step = step]
    /\ UNCHANGED <<seen, daemon, intended, dupClone, reloads>>

ResumeEffect ==
    /\ ResumeDue
    /\ LET ob == seen.user
           found == ob.path = "persisted-agent" /\ "openclaw" \in seen.repos
           board == IF ob.mainBoardId # None THEN ob.mainBoardId ELSE ob.boardId
           step == CASE ob.worktreeId \in seen.worktrees -> "api-keys"
                     [] ob.mainBoardId \in seen.boards -> "worktree"
                     [] ob.path = "persisted-agent" -> IF found THEN "board" ELSE "clone"
                     [] OTHER -> "add-repo"
       IN w' = IF ob.path = None
               THEN [w EXCEPT !.path = "persisted-agent"]
               ELSE [w EXCEPT !.resumed = TRUE, !.path = ob.path, !.step = step,
                              !.boardId = IF board # None THEN board ELSE @,
                              !.worktreeId = IF ob.worktreeId # None THEN ob.worktreeId ELSE @,
                              !.repoId = IF step = "board" THEN "openclaw" ELSE @]
    /\ UNCHANGED <<seen, daemon, intended, dupClone, reloads>>

(* Mutant: the clone is requested without arming the timeout.            *)
HandleStartCloneNoTimer ==
    LET r == RepoFor(w.path) IN
    /\ w' = [w EXCEPT !.error = FALSE, !.loading = TRUE]
    /\ cloning' = cloning \cup {r}
    /\ dupClone' = (dupClone \/ r \in cloning \/ r \in seen.repos)
    /\ UNCHANGED <<seen, repos, boards, worktrees, prefs, patches, intended, reloads>>

(* handleStartClone (455-492): ask for the repository, arm the timeout.    *)
HandleStartClone ==
    LET r == RepoFor(w.path) IN
    /\ w' = [w EXCEPT !.error = FALSE, !.loading = TRUE, !.timer = TRUE]
    /\ cloning' = cloning \cup {r}
    /\ dupClone' = (dupClone \/ r \in cloning \/ r \in seen.repos)
    /\ UNCHANGED <<seen, repos, boards, worktrees, prefs, patches, intended, reloads>>

(* Auto-start the clone on entering the clone step (1146-1157).           *)
AutoCloneDue ==
    w.open /\ w.step = "clone" /\ w.path = "persisted-agent"
    /\ ~w.loading /\ ~w.error /\ w.repoId = None

AutoClone == AutoCloneDue /\ HandleStartClone

(* Watch repoById for clone completion (333-372).                          *)
CloneArrivedDue == w.open /\ w.step = "clone" /\ w.loading /\ RepoFor(w.path) \in seen.repos

CloneArrived ==
    /\ CloneArrivedDue
    /\ w' = [w EXCEPT !.repoId = RepoFor(w.path), !.loading = FALSE, !.error = FALSE,
                      !.timer = FALSE, !.step = "board"]
    /\ UNCHANGED <<seen, daemon, intended, dupClone, reloads>>

(* handleCreateBoard up to its await (494-513): reuse the board the user  *)
(* preferences name when it is loaded, else ask the daemon for one.        *)
HandleCreateBoard ==
    /\ IF seen.user # NoUser /\ seen.user.mainBoardId \in seen.boards
       THEN w' = [w EXCEPT !.boardId = seen.user.mainBoardId, !.loading = FALSE,
                           !.step = "worktree"]
       ELSE w' = [w EXCEPT !.error = FALSE, !.loading = TRUE,
                           !.call = [kind |-> "board", user |-> seen.user]]
    /\ UNCHANGED <<seen, daemon, intended, dupClone, reloads>>

(* Auto-start board creation (1160-1164).                                  *)
AutoBoardDue == w.open /\ w.step = "board" /\ ~w.loading /\ ~w.error /\ w.boardId = None

AutoBoard == AutoBoardDue /\ HandleCreateBoard

(* Watch boardById for board creation (374-385): a board the wizard     *)
(* holds shows up while it is loading on the board step.                   *)
BoardWatchDue == w.open /\ w.step = "board" /\ w.loading /\ w.boardId \in seen.boards

BoardWatch ==
    /\ BoardWatchDue
    /\ w' = [w EXCEPT !.loading = FALSE, !.step = "worktree"]
    /\ UNCHANGED <<seen, daemon, intended, dupClone, reloads>>

(* Watch worktreeById for worktree creation (387-400).                     *)
WorktreeWatchDue ==
    w.open /\ w.step = "worktree" /\ w.loading /\ w.worktreeId \in seen.worktrees

WorktreeWatch ==
    /\ WorktreeWatchDue
    /\ w' = [w EXCEPT !.loading = FALSE, !.step = "api-keys"]
    /\ UNCHANGED <<seen, daemon, intended, dupClone, reloads>>

EffectDue ==
    \/ ResumeDue \/ AutoCloneDue \/ CloneArrivedDue \/ AutoBoardDue
    \/ BoardWatchDue \/ WorktreeWatchDue

-----------------------------------------------------------------------------
(* The user's clicks and the continuations of awaited calls.  They run    *)
(* once the effects of the last commit have run.                           *)
Ready == w.open /\ ~EffectDue

(* renderWelcome (675-721): the two path buttons.                         *)
WelcomeShown == w.step = "welcome"

(* handleSelectPath (430-453): persist the path; skip the clone when the  *)
(* openclaw repository is already loaded.                                  *)
SelectPath(p) ==
    /\ Ready /\ WelcomeShown
    /\ Save(seen.user, [path |-> p])
    /\ LET found == p = "persisted-agent" /\ "openclaw" \in seen.repos IN
       w' = [w EXCEPT !.path = p, !.error = FALSE,
                      !.repoId = IF found THEN "openclaw" ELSE @,
                      !.step = IF found THEN "board"
                               ELSE IF p = "persisted-agent" THEN "clone" ELSE "add-repo"]
    /\ UNCHANGED <<seen, repos, cloning, boards, worktrees, prefs, dupClone, reloads>>

(* renderAddRepo's Clone button and renderClone's Retry (723-836); an     *)
(* antd button that is loading ignores clicks.                             *)
StartClone ==
    /\ Ready /\ ~w.loading
    /\ w.step = "add-repo" \/ (w.step = "clone" /\ w.error)
    /\ HandleStartClone

(* The CLONE_TIMEOUT_MS timer (479-482); it is never cleared by a step    *)
(* change, only by the clone watcher and by unmounting.                    *)
TimerFires ==
    /\ Ready /\ w.timer
    /\ w' = [w EXCEPT !.timer = FALSE, !.loading = FALSE, !.error = TRUE]
    /\ UNCHANGED <<seen, daemon, intended, dupClone, reloads>>

(* renderClone's Continue, shown when neither loading nor failed.          *)
ContinueFromClone ==
    /\ Ready /\ w.step = "clone" /\ ~w.loading /\ ~w.error
    /\ w' = [w EXCEPT !.step = "board"]
    /\ UNCHANGED <<seen, daemon, intended, dupClone, reloads>>

(* renderBoard's Retry (838-881).                                          *)
RetryBoard == Ready /\ w.step = "board" /\ ~w.loading /\ w.error /\ HandleCreateBoard

(* handleCreateBoard after its await (514-524).  The save merges onto the *)
(* user of the closure that made the call.                                 *)
BoardCreated ==
    /\ Ready /\ w.call.kind = "board"
    /\ \E b \in BoardIds \ boards :
          /\ boards' = boards \cup {b}
          /\ Save(w.call.user, [boardId |-> b])
          /\ w' = [w EXCEPT !.boardId = b, !.loading = FALSE, !.step = "worktree", !.call = NoCall]
    /\ UNCHANGED <<seen, repos, cloning, worktrees, prefs, dupClone, reloads>>

BoardFails ==
    /\ MayFail /\ Ready /\ w.call.kind = "board"
    /\ w' = [w EXCEPT !.loading = FALSE, !.error = TRUE, !.call = NoCall]
    /\ UNCHANGED <<seen, daemon, intended, dupClone, reloads>>

(* renderBoard's Continue once a board is held.                           *)
ContinueToWorktree ==
    /\ Ready /\ w.step = "board" /\ ~w.loading /\ ~w.error /\ w.boardId # None
    /\ w' = [w EXCEPT !.step = "worktree"]
    /\ UNCHANGED <<seen, daemon, intended, dupClone, reloads>>

(* renderWorktree (883-927): the Create Worktree button, loading while a *)
(* call runs; the names typed into the form are abstracted away.          *)
WorktreeFormReady == w.step = "worktree" /\ ~w.loading

(* handleCreateWorktree up to its await (527-547).                         *)
CreateWorktree ==
    /\ Ready /\ WorktreeFormReady
    /\ w' = IF w.repoId = None \/ w.boardId = None
            THEN [w EXCEPT !.error = TRUE]
            ELSE [w EXCEPT !.error = FALSE, !.loading = TRUE,
                           !.call = [kind |-> "worktree", user |-> seen.user]]
    /\ UNCHANGED <<seen, daemon, intended, dupClone, reloads>>

(* handleCreateWorktree after its await (549-576).  Tagging the worktree  *)
(* (onUpdateWorktree) changes nothing modelled.                            *)
WorktreeCreated ==
    /\ Ready /\ w.call.kind = "worktree"
    /\ \E t \in WorktreeIds \ worktrees :
          /\ worktrees' = worktrees \cup {t}
          /\ Save(w.call.user, [worktreeId |-> t])
          /\ w' = [w EXCEPT !.worktreeId = t, !.loading = FALSE, !.step = "api-keys",
                            !.call = NoCall]
    /\ UNCHANGED <<seen, repos, cloning, boards, prefs, dupClone, reloads>>

(* A null worktree or a throw.                                             *)
WorktreeFails ==
    /\ MayFail /\ Ready /\ w.call.kind = "worktree"
    /\ w' = [w EXCEPT !.loading = FALSE, !.error = TRUE, !.call = NoCall]
    /\ UNCHANGED <<seen, daemon, intended, dupClone, reloads>>

(* renderApiKeys (929-1031): Continue when a key is configured for the   *)
(* agent, else Save API Key and Skip for now.  Which agent, and whether a *)
(* key is configured, only choose between the two handlers below.         *)
ApiKeyStep == w.step = "api-keys"

(* handleSaveApiKey (588-605): the key is patched onto user.api_keys,     *)
(* which leaves the preferences alone.                                     *)
SaveApiKey ==
    /\ Ready /\ ApiKeyStep /\ ~w.loading /\ seen.user # NoUser
    /\ w' = [w EXCEPT !.error = FALSE, !.step = "launch"]
    /\ UNCHANGED <<seen, daemon, intended, dupClone, reloads>>

(* handleAdvanceFromApiKeys (607-609): Continue or Skip for now.           *)
AdvanceFromApiKeys ==
    /\ Ready /\ ApiKeyStep
    /\ w' = [w EXCEPT !.step = "launch"]
    /\ UNCHANGED <<seen, daemon, intended, dupClone, reloads>>

(* renderLaunch (1033-1080): Launch until a session exists, then Let's go.*)
LaunchShown == w.step = "launch" /\ ~w.sessionId

(* handleLaunch up to its await (611-627).                                 *)
Launch ==
    /\ Ready /\ LaunchShown /\ ~w.loading
    /\ w' = IF w.worktreeId = None \/ w.boardId = None
            THEN [w EXCEPT !.error = TRUE]
            ELSE [w EXCEPT !.error = FALSE, !.loading = TRUE,
                           !.call = [kind |-> "session", user |-> seen.user]]
    /\ UNCHANGED <<seen, daemon, intended, dupClone, reloads>>

SessionCreated ==
    /\ Ready /\ w.call.kind = "session"
    /\ w' = [w EXCEPT !.sessionId = TRUE, !.loading = FALSE, !.call = NoCall]
    /\ UNCHANGED <<seen, daemon, intended, dupClone, reloads>>

SessionFails ==
    /\ MayFail /\ Ready /\ w.call.kind = "session"
    /\ w' = [w EXCEPT !.loading = FALSE, !.error = TRUE, !.call = NoCall]
    /\ UNCHANGED <<seen, daemon, intended, dupClone, reloads>>

(* handleFinish (642-651): onComplete closes the wizard.                   *)
Finish ==
    /\ Ready /\ w.step = "launch" /\ ~LaunchShown
    /\ w.worktreeId # None /\ w.boardId # None /\ w.path # None
    /\ w' = [w EXCEPT !.open = FALSE]
    /\ UNCHANGED <<seen, daemon, intended, dupClone, reloads>>

(* handleSkip (653-663), from the footer's Popconfirm.                     *)
Skip ==
    /\ Ready /\ seen.user # NoUser
    /\ w' = [w EXCEPT !.open = FALSE]
    /\ UNCHANGED <<seen, daemon, intended, dupClone, reloads>>

(* The Back button is shown past the second step, when not loading and   *)
(* not on launch (1250-1256).                                              *)
BackShown ==
    w.step \notin {"welcome", "launch"} /\ GetStepIndex(GetStepsForPath(w.path), w.step) > 1
    /\ ~w.loading

(* handleBack (665-671).                                                   *)
Back ==
    LET steps == GetStepsForPath(w.path)
        idx == GetStepIndex(steps, w.step)
    IN /\ Ready /\ BackShown
       /\ w' = [w EXCEPT !.error = FALSE, !.step = steps[idx]]
       /\ UNCHANGED <<seen, daemon, intended, dupClone, reloads>>

-----------------------------------------------------------------------------
(* The daemon and the parent component.                                    *)

CloneDone(r) ==
    /\ r \in cloning
    /\ repos' = repos \cup {r}
    /\ cloning' = cloning \ {r}
    /\ UNCHANGED <<w, seen, boards, worktrees, prefs, patches, intended, dupClone, reloads>>

CloneFails(r) ==
    /\ MayFail /\ r \in cloning
    /\ cloning' = cloning \ {r}
    /\ UNCHANGED <<w, seen, repos, boards, worktrees, prefs, patches, intended, dupClone, reloads>>

(* The users service applies a patch; the preferences it carries replace  *)
(* the stored ones.                                                        *)
ApplyPatch ==
    /\ patches # <<>>
    /\ prefs' = Head(patches)
    /\ patches' = Tail(patches)
    /\ UNCHANGED <<w, seen, repos, cloning, boards, worktrees, intended, dupClone, reloads>>

DaemonView == [repos |-> repos, boards |-> boards, worktrees |-> worktrees, user |-> prefs]

(* The parent re-renders the wizard with one prop brought up to date.      *)
Sync(f) ==
    /\ Ready /\ seen[f] # DaemonView[f]
    /\ seen' = [seen EXCEPT ![f] = DaemonView[f]]
    /\ UNCHANGED <<w, daemon, intended, dupClone, reloads>>

(* A page reload: the cleanup effect (402-409) clears the timer; the      *)
(* remounted wizard starts from WizardInit with nothing loaded.            *)
Reload ==
    /\ w.open /\ reloads < MaxReloads
    /\ w' = WizardInit
    /\ seen' = Unloaded
    /\ reloads' = reloads + 1
    /\ UNCHANGED <<daemon, intended, dupClone>>

-----------------------------------------------------------------------------
Init ==
    /\ w = WizardInit
    /\ seen = Unloaded
    /\ repos \in {{}, {"openclaw"}}
    /\ cloning = {}
    /\ boards = {}
    /\ worktrees = {}
    /\ prefs = NoOnboarding
    /\ patches = <<>>
    /\ intended = NoOnboarding
    /\ dupClone = FALSE
    /\ reloads = 0

Effects == ResumeEffect \/ AutoClone \/ CloneArrived \/ AutoBoard \/ BoardWatch \/ WorktreeWatch

Clicks ==
    \/ \E p \in Paths : SelectPath(p)
    \/ StartClone \/ ContinueFromClone \/ RetryBoard \/ ContinueToWorktree
    \/ CreateWorktree \/ SaveApiKey \/ AdvanceFromApiKeys \/ Launch
    \/ Finish \/ Skip \/ Back

Continuations ==
    \/ TimerFires \/ BoardCreated \/ BoardFails \/ WorktreeCreated \/ WorktreeFails
    \/ SessionCreated \/ SessionFails

Environment ==
    \/ \E r \in {"openclaw", "own"} : CloneDone(r) \/ CloneFails(r)
    \/ ApplyPatch
    \/ \E f \in DOMAIN Unloaded : Sync(f)
    \/ Reload

Next == Effects \/ Clicks \/ Continuations \/ Environment

(* Effects, timers, the daemon's answers and the parent's re-renders all  *)
(* happen; the user need not click anything.                               *)
Fairness ==
    /\ WF_vars(Effects)
    /\ WF_vars(Continuations)
    /\ \A r \in {"openclaw", "own"} : WF_vars(CloneDone(r) \/ CloneFails(r))
    /\ WF_vars(ApplyPatch)
    /\ \A f \in DOMAIN Unloaded : WF_vars(Sync(f))

Spec == Init /\ [][Next]_vars /\ Fairness

-----------------------------------------------------------------------------
TypeOK ==
    /\ w.path \in Paths \cup {None}
    /\ w.step \in Steps
    /\ w.repoId \in {"openclaw", "own", None}
    /\ w.boardId \in BoardIds \cup {None}
    /\ w.worktreeId \in WorktreeIds \cup {None}
    /\ w.call.kind \in {"none", "board", "worktree", "session"}
    /\ {w.error, w.loading, w.sessionId, w.timer, w.resumed, w.open} \subseteq BOOLEAN
    /\ seen.user \in Prefs \cup {NoUser}
    /\ prefs \in Prefs /\ intended \in Prefs
    /\ patches \in Seq(Prefs)

(* The wizard shows a step of the path it is on: past welcome, the steps  *)
(* indicator highlights the current step (currentStepDisplay is not -1,   *)
(* which also needs a path).  Resume, path selection and the auto-advances *)
(* must keep the step and the path in step.                                *)
StepInPath == (w.open /\ w.step # "welcome") => CurrentStepDisplay(w.path, w.step) # -1

(* Every spinner stops: a clone, a board, a worktree or a launch that     *)
(* sets loading is eventually answered, fails, or times out, whatever the *)
(* daemon does with the request.                                           *)
SpinnerSettles == (w.open /\ w.loading) ~> ~(w.open /\ w.loading)

(* The clone watcher's own-repo branch (352-370): once the user's         *)
(* repository has been added, the wizard moves on from the add-repo step.  *)
OwnRepoLeavesAddRepo ==
    (w.open /\ w.step = "add-repo" /\ "own" \in seen.repos) ~> (~w.open \/ w.step # "add-repo")

(* handleCreateWorktree's guard (528-530) expects the worktree step to be *)
(* reached only with a repository and a board in hand, also when the     *)
(* wizard resumes after a reload.                                          *)
WorktreeStepHasRepo == (w.open /\ w.step = "worktree") => (w.repoId # None /\ w.boardId # None)

(* "Persist onboarding progress to user preferences so restarts can      *)
(* resume" (413): once the patches are applied, the stored preferences    *)
(* hold every update the wizard saved.                                     *)
ProgressPersisted == patches = <<>> => prefs = intended

(* Retrying after the clone timeout never asks the daemon for a           *)
(* repository it is still cloning or that the wizard already shows.        *)
NoDuplicateClone == ~dupClone
=============================================================================
