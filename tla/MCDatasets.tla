----------------------------- MODULE MCDatasets -----------------------------
(***************************************************************************)
(* Small instances of Datasets for TLC.                                    *)
(***************************************************************************)
EXTENDS Datasets, TLC

Symmetry == Permutations(Runs)
=============================================================================
