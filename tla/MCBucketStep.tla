---------------------------- MODULE MCBucketStep ----------------------------
(***************************************************************************)
(* All calls of step_for_max_points on words of five bits: every range, a  *)
(* few numbers of points (1 is raised to 2) and intervals (0 is raised to  *)
(* 1), the largest of them close to the largest word.  The span of the     *)
(* widest range is one more than a word holds.                             *)
(***************************************************************************)
EXTENDS BucketStep

MCPoints == {1, 2, 3, 5, 8}
MCIntervals == {0, 1, 2, 3, 5, 12, 30}
=============================================================================
