---------------------------- MODULE MCOnboarding ----------------------------
(* Small instances of Onboarding: two students and an administrator, one or  *)
(* two server instances.                                                     *)
EXTENDS Onboarding, TLC

CONSTANTS s1, s2, adm, i1, i2, p1, p2, h1

Students == {s1, s2}
OneLoop  == {i1}
TwoLoops == {i1, i2}
StudentSymmetry == Permutations(Students)
LoopSymmetry    == StudentSymmetry \cup Permutations(TwoLoops) \cup Permutations(Prns)
=============================================================================
