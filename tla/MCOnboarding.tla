---------------------------- MODULE MCOnboarding ----------------------------
(***************************************************************************)
(* Constants of OnboardingWizard for TLC: ids are model values.           *)
(***************************************************************************)
EXTENDS OnboardingWizard

CONSTANTS b1, b2, t1, t2

MCBoardIds == {b1, b2}
MCBoardIds1 == {b1}
MCWorktreeIds == {t1, t2}
MCWorktreeIds1 == {t1}
=============================================================================
