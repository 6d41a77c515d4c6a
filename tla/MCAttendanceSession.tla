------------------------- MODULE MCAttendanceSession -------------------------
(* Small instances of AttendanceSession for TLC. *)
EXTENDS AttendanceSession, TLC

Interchangeable == Permutations(Requests) \cup Permutations(Students)
    \cup Permutations(Keys) \cup Permutations(Codes) \cup Permutations(Corrections)
=============================================================================
