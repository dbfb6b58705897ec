------------------------------ MODULE SessionsTab ------------------------------
(***************************************************************************)
(* The sessions tab of the worktree modal (SessionsTab.tsx): the archive   *)
(* button of each row, the archivingIds spinner set, the "Show archived"   *)
(* switch, and the memo comparator that decides when new props from the    *)
(* parent re-render the tab.                                               *)
(*                                                                         *)
(* A click starts a sessions.patch through the client the tab last        *)
(* rendered with; the daemon applies it and publishes a patched event;    *)
(* the call answers or throws (the Feathers client's timeout bounds it).  *)
(* The event, the answer and further clicks interleave.  The parent holds *)
(* the sessions array and the client; an event gives it a new array.     *)
(* Search text is abstracted to matching every session.                   *)
(***************************************************************************)
EXTENDS Integers, Sequences, FiniteSets

CONSTANTS
    Sessions,        \* session ids
    ClientVersions,  \* client objects the parent may hold, 1..ClientVersions
    MaxClicks,       \* archive clicks in a behaviour
    Seconds          \* ages, in seconds, formatRelativeTime is checked on

VARIABLES
    archived,      \* archived[s]: the daemon's value
    view,          \* view[s]: archived in the sessions prop the tab rendered
    showArchived,  \* the switch
    archivingIds,  \* the spinner set (state, 39)
    calls,         \* patch calls in flight: [s, archive, via, applied]
    events,        \* patched events on their way to the parent, in order
    parentClient,  \* the client the parent holds
    propsClient,   \* the client of the props the tab last rendered (clientRef)
    clicks

vars == <<archived, view, showArchived, archivingIds, calls, events,
          parentClient, propsClient, clicks>>

-----------------------------------------------------------------------------
(* filteredSessions (71-77): archived rows only with the switch on.        *)
Visible(s) == showArchived \/ ~view[s]

(* Mutant: the updater reads the archivingIds of the callback's closure,  *)
(* which keeps the first render's empty set (deps [showSuccess,           *)
(* showError]).                                                            *)
AddArchivingStale(ids, s) == {s}

(* setArchivingIds((prev) => new Set(prev).add(sessionId)) (50).           *)
AddArchiving(ids, s) == ids \cup {s}

(* The updater of the finally block (60-64).                              *)
RemoveArchiving(ids, s) == ids \ {s}

(* The memo comparator (316-323): the tab takes new props only when the   *)
(* worktree, the sessions array, or whether client is null changes.        *)
PropsAccepted(sessionsChanged, oldClient, newClient) ==
    sessionsChanged \/ ((oldClient = 0) # (newClient = 0))

Init ==
    /\ archived \in [Sessions -> BOOLEAN]
    /\ view = archived
    /\ showArchived = FALSE
    /\ archivingIds = {}
    /\ calls = {}
    /\ events = <<>>
    /\ parentClient = 1
    /\ propsClient = 1
    /\ clicks = 0

(* The row's button (188-198) calls handleArchiveToggle(id, !archived)    *)
(* (45-55): antd ignores a click while the button is loading; without a   *)
(* client the handler returns at once, a step that changes nothing.       *)
Click(s) ==
    /\ clicks < MaxClicks
    /\ Visible(s) /\ s \notin archivingIds
    /\ propsClient # 0
    /\ archivingIds' = AddArchiving(archivingIds, s)
    /\ calls' = calls \cup {[s |-> s, archive |-> ~view[s], via |-> propsClient,
                             applied |-> FALSE]}
    /\ clicks' = clicks + 1
    /\ UNCHANGED <<archived, view, showArchived, events, parentClient, propsClient>>

(* The daemon applies a patch sent through the parent's live client and  *)
(* publishes the patched session.                                          *)
Apply(c) ==
    /\ c \in calls /\ ~c.applied /\ c.via = parentClient
    /\ archived' = [archived EXCEPT ![c.s] = c.archive]
    /\ events' = Append(events, [s |-> c.s, archived |-> c.archive])
    /\ calls' = (calls \ {c}) \cup {[c EXCEPT !.applied = TRUE]}
    /\ UNCHANGED <<view, showArchived, archivingIds, parentClient, propsClient, clicks>>

(* The patch resolves: showSuccess, then the finally block (56, 59-65).   *)
Respond(c) ==
    /\ c \in calls /\ c.applied
    /\ calls' = calls \ {c}
    /\ archivingIds' = RemoveArchiving(archivingIds, c.s)
    /\ UNCHANGED <<archived, view, showArchived, events, parentClient, propsClient, clicks>>

(* The patch rejects, before or after the daemon applied it (a timeout,   *)
(* a dead client): showError, then the finally block (57-65).              *)
Fail(c) ==
    /\ c \in calls
    /\ calls' = calls \ {c}
    /\ archivingIds' = RemoveArchiving(archivingIds, c.s)
    /\ UNCHANGED <<archived, view, showArchived, events, parentClient, propsClient, clicks>>

(* The parent gets the patched event, replaces its sessions array and     *)
(* re-renders the tab, which the comparator lets through; the render sets *)
(* clientRef.current to the client prop (43).                              *)
DeliverEvent ==
    /\ events # <<>>
    /\ view' = [view EXCEPT ![Head(events).s] = Head(events).archived]
    /\ events' = Tail(events)
    /\ propsClient' = IF PropsAccepted(TRUE, propsClient, parentClient)
                      THEN parentClient ELSE propsClient
    /\ UNCHANGED <<archived, showArchived, archivingIds, calls, parentClient, clicks>>

(* The parent replaces its client by a new one (a reconnect) with the     *)
(* same sessions array; the comparator decides whether the tab sees it.   *)
ReplaceClient ==
    /\ parentClient < ClientVersions
    /\ parentClient' = parentClient + 1
    /\ propsClient' = IF PropsAccepted(FALSE, propsClient, parentClient + 1)
                      THEN parentClient + 1 ELSE propsClient
    /\ UNCHANGED <<archived, view, showArchived, archivingIds, calls, events, clicks>>

(* The "Show archived" switch (245-251).                                  *)
ToggleShowArchived ==
    /\ showArchived' = ~showArchived
    /\ UNCHANGED <<archived, view, archivingIds, calls, events, parentClient,
                   propsClient, clicks>>

Next ==
    \/ \E s \in Sessions : Click(s)
    \/ \E c \in calls : Apply(c) \/ Respond(c) \/ Fail(c)
    \/ DeliverEvent \/ ReplaceClient \/ ToggleShowArchived

Spec == Init /\ [][Next]_vars

-----------------------------------------------------------------------------
(* formatRelativeTime (291-313) from the age in whole seconds; the ms to  *)
(* s floor of 292-296 is folded into the input.                            *)
FormatRelativeTime(seconds) ==
    LET minutes == seconds \div 60
        hours   == minutes \div 60
        days    == hours \div 24
        months  == days \div 30
    IN  CASE seconds < 60 -> [n |-> 0, unit |-> "just now"]
          [] minutes < 60 -> [n |-> minutes, unit |-> "m"]
          [] hours < 24   -> [n |-> hours, unit |-> "h"]
          [] days < 30    -> [n |-> days, unit |-> "d"]
          [] months < 12  -> [n |-> months, unit |-> "mo"]
          [] OTHER        -> [n |-> days \div 365, unit |-> "y"]

-----------------------------------------------------------------------------
TypeOK ==
    /\ archivingIds \subseteq Sessions
    /\ parentClient \in 1..ClientVersions /\ propsClient \in 0..ClientVersions

(* The spinner of a row is on exactly while a patch of that session is in *)
(* flight: clicks and answers of different sessions interleave, and each  *)
(* updater must start from the latest set (50, 60-64).  So no session has *)
(* two patches in flight, since a loading button takes no clicks.         *)
SpinnerMatchesCalls == archivingIds = {c.s : c \in calls}

(* clientRef (41-43) is there so that a click uses the current client: a  *)
(* patch is sent through the client the parent holds.                      *)
PatchUsesCurrentClient == \A c \in calls : c.via = parentClient

(* A relative time other than "just now" names a positive count: months   *)
(* stop at 11, so 360-364 days must read as one year or as months.         *)
RelativeTimeNamesCount ==
    \A t \in Seconds : FormatRelativeTime(t).unit # "just now" => FormatRelativeTime(t).n >= 1
=============================================================================
