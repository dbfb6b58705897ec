---------------------------- MODULE MCAuthorization ----------------------------
(* Role strings a user record can carry: the four roles in several letter  *)
(* cases and an unknown role.                                              *)
EXTENDS Authorization

MCRoleInputs == {"viewer", "Member", "ADMIN", "owner", "Owner", "guest"}

MCLowerOf == [s \in MCRoleInputs |->
                CASE s = "Member" -> "member"
                  [] s = "ADMIN"  -> "admin"
                  [] s = "Owner"  -> "owner"
                  [] OTHER        -> s]

MCProtoKeys == {"constructor", "toString", "__proto__"}

MCProviders == {"", "rest", "socketio"}
================================================================================
