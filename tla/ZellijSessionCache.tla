------------------------- MODULE ZellijSessionCache -------------------------
(***************************************************************************)
(* ZellijSessionCache (set.ts:280-362): two TTL maps, "does the session   *)
(* exist" and "which tabs does it have", keyed by session name and the     *)
(* Unix user the query runs as (getCacheKey).  An entry present in the     *)
(* model is one younger than TAB_CACHE_TTL_MS; Expire is time passing.    *)
(*                                                                         *)
(* A miss is two steps of the caller, because the code reads Date.now(),   *)
(* awaits the zellij query and only then stores: the query reads Zellij at *)
(* one moment (the caller's Read step) and the entry is written at a later *)
(* one (its Store step), with invalidations by other calls in between.     *)
(***************************************************************************)
EXTENDS Zellij

CONSTANTS
    Keys,       \* <<unix user, session name>> pairs the service can address
    Absent,     \* no entry for a key
    MayTimeOut  \* whether a zellij query may exceed ZELLIJ_COMMAND_TIMEOUT_MS

VARIABLES
    existsCache,  \* existsCache[k]: Absent, TRUE or FALSE
    tabsCache     \* tabsCache[k]: Absent or the tab names as a set

cacheVars == <<existsCache, tabsCache>>

CacheInit == /\ existsCache = [k \in Keys |-> Absent]
             /\ tabsCache = [k \in Keys |-> Absent]

(* sessionExists / getTabs: a fresh entry answers without a query.        *)
ExistsHit(k) == existsCache[k] # Absent
TabsHit(k)   == tabsCache[k] # Absent

(* zellijSessionExistsAsync (227-243): the name is among the lines of      *)
(* list-sessions; a timeout or any error answers FALSE.                    *)
ExistsAnswers(z) == IF MayTimeOut THEN {z.alive, FALSE} ELSE {z.alive}

(* fetchTabs (334-361): query-tab-names, one name per line; a dead         *)
(* session, a timeout or any error answers no tabs.                        *)
TabsAnswers(z) ==
    LET live == IF z.alive THEN TabNames(z) ELSE {}
    IN  IF MayTimeOut THEN {live, {}} ELSE {live}

(* The store after the await (301, 318).                                   *)
StoreExists(k, v) == existsCache' = [existsCache EXCEPT ![k] = v]
StoreTabs(k, v)   == tabsCache' = [tabsCache EXCEPT ![k] = v]

(* invalidate (325-329): both maps lose the key.                           *)
Invalidate(k) ==
    /\ existsCache' = [existsCache EXCEPT ![k] = Absent]
    /\ tabsCache' = [tabsCache EXCEPT ![k] = Absent]

(* TAB_CACHE_TTL_MS elapses for one entry; the two maps keep separate     *)
(* timestamps.                                                             *)
ExpireExists(k) ==
    /\ ExistsHit(k)
    /\ existsCache' = [existsCache EXCEPT ![k] = Absent]
    /\ UNCHANGED tabsCache

ExpireTabs(k) ==
    /\ TabsHit(k)
    /\ tabsCache' = [tabsCache EXCEPT ![k] = Absent]
    /\ UNCHANGED existsCache
=============================================================================
