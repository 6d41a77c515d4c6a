---------------------------- MODULE MCImportJob ----------------------------
(* Model values and symmetry for the runs of ImportJob *)
EXTENDS ImportJob, TLC

(* Workers and rows are interchangeable; used by the safety runs only *)
Interchangeable == Permutations(Workers) \cup Permutations(Rows)
=============================================================================
