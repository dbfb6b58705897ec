----------------------------- MODULE MCTerminals -----------------------------
(***************************************************************************)
(* Constants of TerminalsService for TLC.  Users and requests are model   *)
(* values; a short id is the first 8 characters of a user id, a string.   *)
(* Without impersonation every session runs as the daemon's Unix user.    *)
(***************************************************************************)
EXTENDS TerminalsService, TLC

CONSTANTS u1, u2, w1, w2, r1, r2, r3

MCUsers == {u1}
MCUsers2 == {u1, u2}
MCWorktrees == {w1, w2}
MCRequests == {r1, r2, r3}
MCRequests2 == {r1, r2}

(* Distinct ids, and two UUIDv7 ids minted in the same minute, which share *)
(* their first 8 characters.                                               *)
MCShortId == [u \in MCUsers2 |-> IF u = u1 THEN "019a3f2c" ELSE "019a3f2d"]
MCCollidingShortId == [u \in MCUsers2 |-> "019a3f2c"]

MCUnixUserOf == [u \in MCUsers2 |-> "daemon"]

MCKeys == {<<"daemon", "019a3f2c">>, <<"daemon", "019a3f2d">>}

Symmetry == Permutations(MCRequests) \cup Permutations(MCWorktrees)
=============================================================================
