------------------------------- MODULE Zellij -------------------------------
(***************************************************************************)
(* The external multiplexer the terminals service drives, reduced to the   *)
(* CLI interface set.ts uses: `attach <s> --create`, `list-sessions`,      *)
(* `action query-tab-names`, and the actions rename-tab, new-tab,          *)
(* go-to-tab-name, write-chars, write 3 (Ctrl+C) and write 10 (Enter).     *)
(* Zellij is not code of this repository; this module states what set.ts  *)
(* relies on, as the spec describes it (section 6).                        *)
(*                                                                         *)
(* A session is a record: alive, its tabs (a sequence, so two tabs may     *)
(* carry one name) and the focused tab.  A tab has a name, the user whose  *)
(* environment its shell holds, and the keystrokes typed into it that no   *)
(* Enter has run yet.  Every action addresses the focused tab: there is   *)
(* one focus per session, which is what create() assumes when it navigates *)
(* to a tab and then types into "the" current tab.                         *)
(***************************************************************************)
EXTENDS Naturals, Sequences

CONSTANTS
    NoInput,    \* a tab with nothing typed
    Garbled,    \* a tab whose typed line mixes two writers
    DefaultTab  \* the name Zellij gives the first tab of a new session

Tab(name, env) == [name |-> name, env |-> env, typed |-> NoInput]

DeadSession == [alive |-> FALSE, tabs |-> <<>>, focus |-> 0]

(* attach --create on a session that does not exist: one tab whose shell  *)
(* inherits the environment of the spawning PTY.                           *)
NewSession(env) == [alive |-> TRUE, tabs |-> <<Tab(DefaultTab, env)>>, focus |-> 1]

TabNames(z) == {z.tabs[i].name : i \in DOMAIN z.tabs}

HasTab(z, name) == name \in TabNames(z)

FirstTabNamed(z, name) == CHOOSE i \in DOMAIN z.tabs :
                              /\ z.tabs[i].name = name
                              /\ \A j \in 1..(i - 1) : z.tabs[j].name # name

(* Whether the action can succeed on session z: every action needs a live *)
(* session, go-to-tab-name needs a tab of that name.                       *)
CanRename(z)        == z.alive
CanNewTab(z)        == z.alive
CanGoTo(z, name)    == z.alive /\ HasTab(z, name)
CanType(z)          == z.alive

SetFocused(z, f(_)) == [z EXCEPT !.tabs[z.focus] = f(@)]

RenameTab(z, name) == SetFocused(z, LAMBDA t : [t EXCEPT !.name = name])

(* new-tab --name: the new tab's shell starts from the server's           *)
(* environment, the one of the session's first tab; it takes the focus.   *)
NewTab(z, name) ==
    [z EXCEPT !.tabs = Append(@, Tab(name, z.tabs[1].env)),
              !.focus = Len(z.tabs) + 1]

GoToTab(z, name) == [z EXCEPT !.focus = FirstTabNamed(z, name)]

(* write-chars by writer w: a second writer before Enter garbles the line. *)
WriteChars(z, w) ==
    SetFocused(z, LAMBDA t : [t EXCEPT !.typed = IF @ = NoInput THEN w ELSE Garbled])

(* write 3: Ctrl+C discards the line being typed.                          *)
CtrlC(z) == SetFocused(z, LAMBDA t : [t EXCEPT !.typed = NoInput])

(* A user closes tab i (exits its shell); the last tab ends the session.  *)
CloseTab(z, i) ==
    IF Len(z.tabs) = 1 THEN DeadSession
    ELSE LET rest == [j \in 1..(Len(z.tabs) - 1) |->
                        IF j < i THEN z.tabs[j] ELSE z.tabs[j + 1]]
         IN  [alive |-> TRUE, tabs |-> rest,
              focus |-> IF z.focus > i \/ z.focus > Len(rest)
                        THEN z.focus - 1 ELSE z.focus]
=============================================================================
