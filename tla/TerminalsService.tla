--------------------------- MODULE TerminalsService ---------------------------
(***************************************************************************)
(* TerminalsService (set.ts:531-1004): the table of live terminals and    *)
(* the create() handler that maps a (user, worktree) pair onto one Zellij *)
(* session per user and one tab per worktree, plus remove(), cleanup() and *)
(* the PTY's onExit callback.                                              *)
(*                                                                         *)
(* Every create() call is a process whose control state req[r].pc stops   *)
(* at each await of the handler, so calls interleave with each other, with *)
(* PTY events, with remove()/cleanup() and with users closing tabs.        *)
(* Database lookups (loadConfig, findById, resolveUserEnvironment) read    *)
(* state no other action writes and are folded into the step that follows *)
(* them.  The output batcher is modelled in OutputBatcher; here only its   *)
(* first flush matters, as the readiness signal.                           *)
(***************************************************************************)
EXTENDS ZellijSessionCache, FiniteSets

CONSTANTS
    Users,          \* user ids
    Worktrees,      \* worktree ids (the tab name is the worktree's name)
    TerminalLabel,  \* tabName when create() names no worktree ('terminal')
    NoWorktree,
    WorktreeInputs, \* the worktreeId values create() is called with
    Requests,       \* create() calls; a terminal is named by its call
    ShortId,        \* ShortId[u]: the first 8 characters of u's id
    UnixUserOf,     \* UnixUserOf[u]: the Unix user u's terminals run as
    Unresolvable,   \* users for whom validateResolvedUnixUser throws
    NoUser,
    ActionMayTimeOut, \* whether a zellij action may exceed its timeout
    Restarted,      \* sessions of an earlier daemon run are still alive
    MaxInFlight,    \* create() calls running at once
    MaxChurn        \* tabs users may close by hand

VARIABLES
    zellij,     \* zellij[k]: the Zellij session of key k
    envFile,    \* envFile[p]: whose variables /tmp/agor-env-<p>.sh holds
    req,        \* req[r]: the create() call r
    term,       \* term[r]: "none", "live" (in this.sessions) or "gone"
    pty,        \* pty[r]: "none", "starting", "attached" or "dead"
    returned,   \* calls whose create() returned the terminal id
    misplaced,  \* calls whose init line ran in a tab not named for them
    churn       \* tabs closed by hand so far

vars == <<zellij, existsCache, tabsCache, envFile, req, term, pty,
          returned, misplaced, churn>>

-----------------------------------------------------------------------------
(* The session a user's terminals use: its Unix user and the name         *)
(* agor-<short id> (set.ts:573-577, 661-662).                              *)
SessionKey(u) == <<UnixUserOf[u], ShortId[u]>>

(* tabName (666).                                                          *)
TabName(w) == IF w = NoWorktree THEN TerminalLabel ELSE w

(* The env file writeEnvFile (476-484) writes for u:                       *)
(* /tmp/agor-env-<first 8 characters of u's id>.sh.                         *)
EnvPath(u) == ShortId[u]

EnvPaths == {ShortId[u] : u \in Users}

ASSUME {SessionKey(u) : u \in Users} \subseteq Keys

(* The actions of the three tab branches (864-909), each with whether a   *)
(* failure throws (throwOnError) and whether the cache is invalidated     *)
(* once it succeeds.                                                       *)
Op(kind, crit, inv) == [kind |-> kind, crit |-> crit, inv |-> inv]

(* executeInitCommands (387-401) for buildInitCommands (368-382): a user   *)
(* always has an env file, so the script is never empty: write-chars of   *)
(* the script, then write 10.                                               *)
InitOps == <<Op("write", FALSE, FALSE), Op("enter", FALSE, FALSE)>>

(* Mutant: no invalidate after the first session's rename (868).          *)
FirstSessionOpsNoInvalidate == <<Op("rename", TRUE, FALSE)>> \o InitOps

FirstSessionOps == <<Op("rename", TRUE, TRUE)>> \o InitOps
(* Mutant: the invalidate after go-to-tab-name (888) is missing.          *)
NewTabOpsNoInvalidate == <<Op("newtab", TRUE, FALSE), Op("goto", TRUE, FALSE)>> \o InitOps

NewTabOps       == <<Op("newtab", TRUE, FALSE), Op("goto", TRUE, TRUE)>> \o InitOps
SwitchTabOps    == <<Op("goto", TRUE, FALSE), Op("ctrlc", FALSE, FALSE)>> \o InitOps

(* The classification of 665-682.                                          *)
TabOps(exists, tabs, name) ==
    IF exists # TRUE THEN FirstSessionOps
    ELSE IF name \in tabs THEN SwitchTabOps
    ELSE NewTabOps

Idle == [pc |-> "idle", user |-> NoUser, wt |-> NoWorktree, exists |-> FALSE,
         tabs |-> {}, todo |-> <<>>, fetched |-> FALSE]

Busy == {r \in Requests : req[r].pc \notin {"idle", "done", "failed"}}

Key(r) == SessionKey(req[r].user)

(* The call settles in pc; its locals die with it.                         *)
Settled(r, pc) == [Idle EXCEPT !.pc = pc, !.user = req[r].user, !.wt = req[r].wt]

(* The next tab action of r has run; after the last one create() returns. *)
Advance(r) == IF Len(req[r].todo) = 1 THEN Settled(r, "done")
              ELSE [req[r] EXCEPT !.todo = Tail(@)]

-----------------------------------------------------------------------------
(* Zellij sessions outlive the daemon: after a restart a user's session   *)
(* may still hold a tab from before.                                       *)
PriorSessions(k) ==
    LET owners == {u \in Users : SessionKey(u) = k} IN
    IF Restarted /\ owners # {}
    THEN {[alive |-> TRUE, tabs |-> <<Tab(TabName(w), u)>>, focus |-> 1] :
            w \in Worktrees, u \in owners}
    ELSE {DeadSession}

Init ==
    /\ zellij \in {z \in [Keys -> UNION {PriorSessions(k) : k \in Keys}] :
                     \A k \in Keys : z[k] \in PriorSessions(k)}
    /\ CacheInit
    /\ envFile = [p \in EnvPaths |-> NoUser]
    /\ req = [r \in Requests |-> Idle]
    /\ term = [r \in Requests |-> "none"]
    /\ pty = [r \in Requests |-> "none"]
    /\ returned = {}
    /\ misplaced = {}
    /\ churn = 0

SetReq(r, f, v) == req' = [req EXCEPT ![r][f] = v]

(* create() up to the first zellij query (559-662): resolve the Unix user *)
(* and validate it; a user that does not resolve fails the call before    *)
(* anything is registered.                                                 *)
Start(r, u, w) ==
    /\ req[r].pc = "idle"
    /\ Cardinality(Busy) < MaxInFlight
    /\ req' = [req EXCEPT ![r] = [Idle EXCEPT !.user = u, !.wt = w,
                                   !.pc = IF u \in Unresolvable THEN "failed"
                                          ELSE "exists"]]
    /\ UNCHANGED <<zellij, existsCache, tabsCache, envFile, term, pty,
                   returned, misplaced, churn>>

(* sessionExists (291-303) with a fresh entry.                             *)
ExistsFromCache(r) ==
    /\ req[r].pc = "exists"
    /\ ExistsHit(Key(r))
    /\ req' = [req EXCEPT ![r].exists = existsCache[Key(r)],
                          ![r].pc = IF existsCache[Key(r)] = TRUE THEN "tabs" ELSE "spawn"]
    /\ UNCHANGED <<zellij, existsCache, tabsCache, envFile, term, pty,
                   returned, misplaced, churn>>

(* The list-sessions query of a miss runs.                                 *)
ExistsQuery(r) ==
    /\ req[r].pc = "exists"
    /\ ~ExistsHit(Key(r))
    /\ \E v \in ExistsAnswers(zellij[Key(r)]) :
          req' = [req EXCEPT ![r].fetched = v, ![r].pc = "existsStore"]
    /\ UNCHANGED <<zellij, existsCache, tabsCache, envFile, term, pty,
                   returned, misplaced, churn>>

(* The await returns: store the answer (301) and branch on it (671).       *)
ExistsStore(r) ==
    /\ req[r].pc = "existsStore"
    /\ StoreExists(Key(r), req[r].fetched)
    /\ req' = [req EXCEPT ![r].exists = req[r].fetched, ![r].fetched = FALSE,
                          ![r].pc = IF req[r].fetched = TRUE THEN "tabs" ELSE "spawn"]
    /\ UNCHANGED <<zellij, tabsCache, envFile, term, pty, returned, misplaced, churn>>

(* getTabs (308-320) with a fresh entry, then resolveUserEnvironment and  *)
(* createUserProcessEnvironment (689-697).                                 *)
TabsFromCache(r) ==
    /\ req[r].pc = "tabs"
    /\ TabsHit(Key(r))
    /\ req' = [req EXCEPT ![r].tabs = tabsCache[Key(r)], ![r].pc = "spawn"]
    /\ UNCHANGED <<zellij, existsCache, tabsCache, envFile, term, pty,
                   returned, misplaced, churn>>

TabsQuery(r) ==
    /\ req[r].pc = "tabs"
    /\ ~TabsHit(Key(r))
    /\ \E v \in TabsAnswers(zellij[Key(r)]) :
          req' = [req EXCEPT ![r].tabs = v, ![r].pc = "tabsStore"]
    /\ UNCHANGED <<zellij, existsCache, tabsCache, envFile, term, pty,
                   returned, misplaced, churn>>

TabsStore(r) ==
    /\ req[r].pc = "tabsStore"
    /\ StoreTabs(Key(r), req[r].tabs)
    /\ SetReq(r, "pc", "spawn")
    /\ UNCHANGED <<zellij, existsCache, envFile, term, pty, returned, misplaced, churn>>

(* The synchronous stretch 699-815: write the env file, spawn             *)
(* `zellij attach <s> --create` in a PTY, register the terminal and wire  *)
(* onData/onExit, then await readiness.  The tab actions to come are fixed *)
(* here by what the queries answered.                                      *)
Spawn(r) ==
    /\ req[r].pc = "spawn"
    /\ envFile' = [envFile EXCEPT ![EnvPath(req[r].user)] = req[r].user]
    /\ req' = [req EXCEPT ![r].pc = "ready", ![r].exists = FALSE, ![r].tabs = {},
                          ![r].todo = TabOps(req[r].exists, req[r].tabs,
                                             TabName(req[r].wt))]
    /\ term' = [term EXCEPT ![r] = "live"]
    /\ pty' = [pty EXCEPT ![r] = "starting"]
    /\ UNCHANGED <<zellij, existsCache, tabsCache, returned, misplaced, churn>>

(* The Zellij client in the PTY attaches: it creates the session when     *)
(* none exists, its first tab holding the PTY's environment, and starts   *)
(* producing output.                                                       *)
Attach(r) ==
    /\ pty[r] = "starting"
    /\ pty' = [pty EXCEPT ![r] = "attached"]
    /\ zellij' = IF zellij[Key(r)].alive THEN zellij
                 ELSE [zellij EXCEPT ![Key(r)] = NewSession(req[r].user)]
    /\ UNCHANGED <<existsCache, tabsCache, envFile, req, term, returned,
                   misplaced, churn>>

(* waitForReady (824-857): the first batcher flush of PTY output ...       *)
ReadyOnOutput(r) ==
    /\ req[r].pc = "ready"
    /\ pty[r] = "attached"
    /\ SetReq(r, "pc", "tabops")
    /\ UNCHANGED <<zellij, existsCache, tabsCache, envFile, term, pty,
                   returned, misplaced, churn>>

(* Mutant: waitForReady without its timer.                                *)
NoReadyTimer(r) == FALSE

(* ... or READY_TIMEOUT_MS without output.                                 *)
ReadyTimeout(r) ==
    /\ req[r].pc = "ready"
    /\ SetReq(r, "pc", "tabops")
    /\ UNCHANGED <<zellij, existsCache, tabsCache, envFile, term, pty,
                   returned, misplaced, churn>>

-----------------------------------------------------------------------------
(* runZellijActionAsync (249-275) of one tab action of call r.             *)
CanRun(op, z, r) ==
    CASE op.kind = "rename" -> CanRename(z)
      [] op.kind = "newtab" -> CanNewTab(z)
      [] op.kind = "goto"   -> CanGoTo(z, TabName(req[r].wt))
      [] OTHER              -> CanType(z)

(* Enter runs the focused tab's line: the script sources the env file of  *)
(* the user who typed it (whoever the file now belongs to) and cd's.       *)
PressEnter(z) ==
    LET t == z.tabs[z.focus] IN
    IF t.typed \in Requests
    THEN [z EXCEPT !.tabs[z.focus].env = envFile[EnvPath(req[t.typed].user)],
                   !.tabs[z.focus].typed = NoInput]
    ELSE [z EXCEPT !.tabs[z.focus].typed = NoInput]

Effect(op, z, r) ==
    CASE op.kind = "rename" -> RenameTab(z, TabName(req[r].wt))
      [] op.kind = "newtab" -> NewTab(z, TabName(req[r].wt))
      [] op.kind = "goto"   -> GoToTab(z, TabName(req[r].wt))
      [] op.kind = "write"  -> WriteChars(z, r)
      [] op.kind = "ctrlc"  -> CtrlC(z)
      [] op.kind = "enter"  -> PressEnter(z)

(* The create() whose line an Enter on z runs, if the line lands in a tab *)
(* that is not its own.                                                    *)
MisplacedBy(op, z) ==
    LET t == z.tabs[z.focus] IN
    IF op.kind = "enter" /\ t.typed \in Requests
       /\ t.name # TabName(req[t.typed].wt)
    THEN {t.typed} ELSE {}

(* The action succeeds; an invalidation follows it synchronously, and the *)
(* last action returns the terminal id (918).                              *)
TabOpSucceeds(r) ==
    LET op == Head(req[r].todo)
        k  == Key(r)
        z  == zellij[k]
    IN
    /\ req[r].pc = "tabops"
    /\ CanRun(op, z, r)
    /\ zellij' = [zellij EXCEPT ![k] = Effect(op, z, r)]
    /\ misplaced' = misplaced \cup MisplacedBy(op, z)
    /\ IF op.inv THEN Invalidate(k) ELSE UNCHANGED <<existsCache, tabsCache>>
    /\ req' = [req EXCEPT ![r] = Advance(r)]
    /\ returned' = IF Len(req[r].todo) = 1 THEN returned \cup {r} ELSE returned
    /\ UNCHANGED <<envFile, term, pty, churn>>

(* The action fails: Zellij refuses it, or exec's timeout kills it, maybe *)
(* after Zellij applied it.  A critical action throws out of create()     *)
(* (910-916) with the terminal still registered; any other is logged and  *)
(* the next one runs.                                                      *)
TabOpFails(r) ==
    LET op == Head(req[r].todo)
        k  == Key(r)
        z  == zellij[k]
    IN
    /\ req[r].pc = "tabops"
    /\ \/ /\ ~CanRun(op, z, r)
          /\ UNCHANGED <<zellij, misplaced>>
       \/ /\ ActionMayTimeOut
          /\ CanRun(op, z, r)
          /\ \/ UNCHANGED <<zellij, misplaced>>
             \/ /\ zellij' = [zellij EXCEPT ![k] = Effect(op, z, r)]
                /\ misplaced' = misplaced \cup MisplacedBy(op, z)
    /\ IF op.crit
       THEN req' = [req EXCEPT ![r] = Settled(r, "failed")]
       ELSE req' = [req EXCEPT ![r] = Advance(r)]
    /\ returned' = IF ~op.crit /\ Len(req[r].todo) = 1 THEN returned \cup {r}
                   ELSE returned
    /\ UNCHANGED <<existsCache, tabsCache, envFile, term, pty, churn>>

-----------------------------------------------------------------------------
(* remove(id) (975-990): flush and destroy the batcher, SIGTERM the PTY,  *)
(* delete the entry.  Any caller of find() can name any live terminal.    *)
Remove(t) ==
    /\ term[t] = "live"
    /\ term' = [term EXCEPT ![t] = "gone"]
    /\ UNCHANGED <<zellij, existsCache, tabsCache, envFile, req, pty,
                   returned, misplaced, churn>>

(* cleanup() (995-1003): the same for every live terminal.                 *)
Cleanup ==
    /\ \E t \in Requests : term[t] = "live"
    /\ term' = [t \in Requests |-> IF term[t] = "live" THEN "gone" ELSE term[t]]
    /\ UNCHANGED <<zellij, existsCache, tabsCache, envFile, req, pty,
                   returned, misplaced, churn>>

(* onExit (797-815): the Zellij client ends (SIGTERM, crash, its session  *)
(* ended); the entry is deleted if still there.  The session lives on.    *)
PtyExit(t) ==
    /\ pty[t] \in {"starting", "attached"}
    /\ pty' = [pty EXCEPT ![t] = "dead"]
    /\ term' = [term EXCEPT ![t] = IF @ = "live" THEN "gone" ELSE @]
    /\ UNCHANGED <<zellij, existsCache, tabsCache, envFile, req, returned,
                   misplaced, churn>>

(* A user exits the shell of a tab by hand; Zellij closes the tab.        *)
UserClosesTab(k) ==
    /\ churn < MaxChurn
    /\ zellij[k].alive
    /\ \E i \in DOMAIN zellij[k].tabs :
          zellij' = [zellij EXCEPT ![k] = CloseTab(@, i)]
    /\ churn' = churn + 1
    /\ UNCHANGED <<existsCache, tabsCache, envFile, req, term, pty,
                   returned, misplaced>>

Expire(k) ==
    /\ ExpireExists(k) \/ ExpireTabs(k)
    /\ UNCHANGED <<zellij, envFile, req, term, pty, returned, misplaced, churn>>

-----------------------------------------------------------------------------
CreateStep(r) ==
    \/ ExistsFromCache(r) \/ ExistsQuery(r) \/ ExistsStore(r)
    \/ TabsFromCache(r) \/ TabsQuery(r) \/ TabsStore(r)
    \/ Spawn(r) \/ ReadyOnOutput(r) \/ ReadyTimeout(r)
    \/ TabOpSucceeds(r) \/ TabOpFails(r)

Next ==
    \/ \E r \in Requests, u \in Users, w \in WorktreeInputs : Start(r, u, w)
    \/ \E r \in Requests : CreateStep(r) \/ Attach(r) \/ Remove(r) \/ PtyExit(r)
    \/ Cleanup
    \/ \E k \in Keys : UserClosesTab(k) \/ Expire(k)

(* The handler runs whenever it is not awaiting; the readiness timer and  *)
(* every zellij command's timeout fire.  Users, clients and Zellij's own  *)
(* timing get no fairness.                                                 *)
Fairness == \A r \in Requests : WF_vars(CreateStep(r))

Spec == Init /\ [][Next]_vars /\ Fairness

-----------------------------------------------------------------------------
PCs == {"idle", "exists", "existsStore", "tabs", "tabsStore", "spawn", "ready",
        "tabops", "done", "failed"}

TypeOK ==
    /\ \A r \in Requests : /\ req[r].pc \in PCs
                          /\ req[r].exists \in BOOLEAN
                          /\ req[r].fetched \in BOOLEAN
                          /\ req[r].tabs \subseteq Worktrees \cup {TerminalLabel, DefaultTab}
    /\ \A k \in Keys : existsCache[k] \in BOOLEAN \cup {Absent}
    /\ term \in [Requests -> {"none", "live", "gone"}]
    /\ pty \in [Requests -> {"none", "starting", "attached", "dead"}]
    /\ returned \subseteq Requests /\ misplaced \subseteq Requests
    /\ churn \in 0..MaxChurn

(* Spec section 8: one tab per (identity, worktree).  No session ever     *)
(* holds two tabs of one name: create() chooses new-tab only when getTabs  *)
(* (a cached read, 308-320) lacks the name, so every path that adds a tab  *)
(* must invalidate before a later create() can read the list (882-888).   *)
NoDuplicateTabs ==
    \A k \in Keys : \A i, j \in DOMAIN zellij[k].tabs :
        i # j => zellij[k].tabs[i].name # zellij[k].tabs[j].name

(* Call r runs rename-tab in this step.                                    *)
RenamesNow(r) ==
    /\ req[r].pc = "tabops" /\ Head(req[r].todo).kind = "rename"
    /\ req'[r] # req[r] /\ zellij'[Key(r)] # zellij[Key(r)]

(* The first-session branch (865-873) trusts sessionExists: rename-tab    *)
(* renames the focused tab, and it must be the default tab of a session   *)
(* that attach --create just made, never a tab already named for a        *)
(* worktree.  An exists=false kept in the cache (301, or 665 when the      *)
(* rename fails and nothing invalidates) would make a later create()     *)
(* rename another worktree's tab.                                          *)
RenameOnlyDefaultTab ==
    [][\A r \in Requests :
          RenamesNow(r) => zellij[Key(r)].tabs[zellij[Key(r)].focus].name = DefaultTab]_vars

(* Spec section 7: a create() that fails registers no terminal.  A        *)
(* terminal in this.sessions belongs to a call still running or to one    *)
(* that returned its id; the rethrow at 910-916 leaves the entry made at  *)
(* 774-787 in place.                                                      *)
NoOrphanTerminal ==
    \A r \in Requests : term[r] = "live" => req[r].pc # "failed"

(* The init line create() types (executeInitCommands, 387-401) runs in    *)
(* the tab named for its worktree: between go-to-tab-name / new-tab and   *)
(* the `write 10` nothing moves the session's single focus.               *)
InitRunsInOwnTab == misplaced = {}

(* Spec 2 and 4.3: a user's terminals attach to a session of that user's  *)
(* own, named from the user id (573-577), so every shell an attached      *)
(* terminal can reach holds that user's environment; the env file it      *)
(* sources is named from the same id (writeEnvFile, 483).                 *)
OwnShellsOnly ==
    \A r \in Requests :
        term[r] = "live" /\ pty[r] = "attached" =>
            \A i \in DOMAIN zellij[Key(r)].tabs : zellij[Key(r)].tabs[i].env = req[r].user

(* create() always settles: every await in it is bounded (the readiness   *)
(* timer, 824-857, and every zellij command's timeout), so a started call *)
(* returns or throws, whatever the PTY and the users do.                  *)
CreateCompletes ==
    \A r \in Requests : req[r].pc # "idle" ~> req[r].pc \in {"done", "failed"}
=============================================================================
