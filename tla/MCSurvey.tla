------------------------------ MODULE MCSurvey ------------------------------
(***************************************************************************)
(* SurveyParts with two runs on two hosts, one run on more hosts than its   *)
(* queue has room for, two pods, and three calls of two tasks for the keys  *)
(* of a page.                                                               *)
(***************************************************************************)
EXTENDS SurveyParts

CONSTANTS k1, k2, k3

Lists == {<<k1>>, <<k2, k3>>, <<k1, k2>>, <<k1, k3>>, <<k1, k2, k3>>, <<k2, k1>>, <<k3, k2, k1>>}
=============================================================================
