------------------------------ MODULE MCFitLoop -----------------------------
(***************************************************************************)
(* Instances of FitLoop, on the trees of MCBanditSampler.                  *)
(***************************************************************************)
EXTENDS FitLoop, MCBanditSampler
=============================================================================
