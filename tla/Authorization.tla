---------------------------- MODULE Authorization ----------------------------
(***************************************************************************)
(* ensureMinimumRole and hasMinimumRole (src/unnamed/part_007, 10-60): the *)
(* role check every authenticated Feathers route runs before its handler   *)
(* (requireMinimumRole, 65-70).  One check is one step: Init picks the     *)
(* request's params and the route's minimum role, Check decides.           *)
(*                                                                         *)
(* A role string is a model value or a string; toLowerCase and the lookup  *)
(* ROLE_RANK[role] are modelled by what they do on the strings enumerated: *)
(* the lookup finds an own key, an inherited Object.prototype key (its     *)
(* value a function or object, which compares false with any number), or  *)
(* nothing (undefined).                                                    *)
(***************************************************************************)
EXTENDS Integers

CONSTANTS
    RoleInputs,     \* role strings a user record may carry
    LowerOf,        \* LowerOf[s]: s.toLowerCase()
    ProtoKeys,      \* keys every object inherits from Object.prototype
    Providers,      \* params.provider values; "" is an internal call
    Undefined       \* an absent property (user, user.role, _isServiceAccount)

Role == {"viewer", "member", "admin", "owner"}

ROLE_RANK == [viewer |-> 0, member |-> 1, admin |-> 2, owner |-> 3]

(* ROLE_RANK[r] ?? ROLE_RANK.viewer.  An inherited value is not nullish   *)
(* and compares false with every rank (NaN); -1 stands for it.            *)
RankOf(r) ==
    IF r \in Role THEN ROLE_RANK[r]
    ELSE IF r \in ProtoKeys THEN -1
    ELSE ROLE_RANK.viewer

(* Mutant: the role is looked up without toLowerCase.                     *)
HasMinimumRoleCaseSensitive(userRole, minimumRole) ==
    IF userRole = Undefined THEN minimumRole = "viewer"
    ELSE RankOf(userRole) >= ROLE_RANK[minimumRole]

(* hasMinimumRole (20-29).                                                 *)
HasMinimumRole(userRole, minimumRole) ==
    IF userRole = Undefined THEN minimumRole = "viewer"
    ELSE RankOf(LowerOf[userRole]) >= ROLE_RANK[minimumRole]

(* ensureMinimumRole (37-60): the outcome of one call.                      *)
EnsureMinimumRole(params, minimumRole) ==
    IF params.provider = "" THEN "allowed"
    ELSE IF params.user = Undefined THEN "NotAuthenticated"
    ELSE IF params.user.isServiceAccount = TRUE THEN "allowed"
    ELSE IF HasMinimumRole(params.user.role, minimumRole) THEN "allowed"
    ELSE "Forbidden"

Users == [role : RoleInputs \cup {Undefined}, isServiceAccount : {TRUE, FALSE, Undefined}]

Params == [provider : Providers, user : Users \cup {Undefined}]

VARIABLES params, minimumRole, outcome

vars == <<params, minimumRole, outcome>>

Init ==
    /\ params \in Params
    /\ minimumRole \in Role
    /\ outcome = "pending"

(* The before hook runs.                                                   *)
Check ==
    /\ outcome = "pending"
    /\ outcome' = EnsureMinimumRole(params, minimumRole)
    /\ UNCHANGED <<params, minimumRole>>

Done == outcome # "pending" /\ UNCHANGED vars

Next == Check \/ Done

Spec == Init /\ [][Next]_vars /\ WF_vars(Check)

-----------------------------------------------------------------------------
(* The reference: the access policy the file's comments state.  Internal   *)
(* calls and service accounts pass; an external call needs a user; a user  *)
(* passes when its role, in any letter case, ranks at least the minimum in *)
(* viewer < member < admin < owner, and a missing or unknown role counts  *)
(* as viewer.                                                              *)
PolicyRank(r) == IF r # Undefined /\ LowerOf[r] \in Role THEN ROLE_RANK[LowerOf[r]] ELSE 0

Policy(p, m) ==
    IF p.provider = "" THEN "allowed"
    ELSE IF p.user = Undefined THEN "NotAuthenticated"
    ELSE IF p.user.isServiceAccount = TRUE THEN "allowed"
    ELSE IF PolicyRank(p.user.role) >= ROLE_RANK[m] THEN "allowed"
    ELSE "Forbidden"

TypeOK ==
    /\ params \in Params
    /\ minimumRole \in Role
    /\ outcome \in {"pending", "allowed", "NotAuthenticated", "Forbidden"}

(* Every route's before hook lets a request through exactly when the       *)
(* policy does: the ROLE_RANK lookup after toLowerCase with its viewer      *)
(* fallback, the provider and service-account bypasses, and the            *)
(* unauthenticated case of ensureMinimumRole agree with the role order.    *)
AgreesWithPolicy == outcome # "pending" => outcome = Policy(params, minimumRole)
=============================================================================
