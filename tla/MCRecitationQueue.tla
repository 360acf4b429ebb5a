-------------------------- MODULE MCRecitationQueue --------------------------
(***************************************************************************)
(* Small instances of the recitation queue: the policies the runs use.     *)
(***************************************************************************)
EXTENDS RecitationQueue, TLC

\* defaults of migrations/000017: what a session is created with.
DefaultPolicy == [population |-> "present_at_activation",
                  finalization |-> "mark_unfinished_skipped",
                  optOut |-> "approval_required",
                  correction |-> "audited_any_time"]

AllStudents == [DefaultPolicy EXCEPT !.population = "all_active_students"]
AutoPolicy  == [DefaultPolicy EXCEPT !.optOut = "auto_approve"]

StudentSymmetry == Permutations(Students)
CallSymmetry    == Permutations(Calls)

OnlyDefault     == {DefaultPolicy}
OnlyAllStudents == {AllStudents}
OptOutChoices   == {DefaultPolicy, AutoPolicy}
=============================================================================
