---------------------------- MODULE MCAcpSession ----------------------------
(***************************************************************************)
(* Small instances of AcpSession for TLC.                                  *)
(***************************************************************************)
EXTENDS AcpSession, TLC

CONSTANTS r1, r2, r3, s1, s2, s3, k1, k2, shirt, mug, ann, bob

\* Requests are interchangeable, and so are keys.
Symmetry == Permutations(Requests) \cup Permutations(Keys)
=============================================================================
