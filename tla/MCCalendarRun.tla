---------------------------- MODULE MCCalendarRun ----------------------------
(* CalendarRun for TLC: the owner's request keys are interchangeable.        *)
EXTENDS CalendarRun, TLC

RequestSymmetry == Permutations(Requests)

=============================================================================
