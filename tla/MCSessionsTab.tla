---------------------------- MODULE MCSessionsTab ----------------------------
(* Ages for formatRelativeTime: every whole day up to 800 days and every  *)
(* whole minute up to 25 hours, so each threshold of 297-311 is crossed.   *)
EXTENDS SessionsTab

MCSeconds == {d * 86400 : d \in 0..800} \cup {m * 60 : m \in 0..1500}
=============================================================================
