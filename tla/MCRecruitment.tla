---------------------------- MODULE MCRecruitment ----------------------------
(***************************************************************************)
(* The instance of Recruitment for TLC: three requests, about one job, of  *)
(* an employer and of an applicant whom admins make a recruiter and a      *)
(* rival employer.                                                         *)
(***************************************************************************)
EXTENDS Recruitment, TLC

CONSTANTS r1, r2, r3, emp, ap, j1, a1, a2, t1

MCThreeRequests == {r1, r2, r3}
MCUsers == {emp, ap}
MCFirstRole == [u \in Users |-> IF u = emp THEN "employer" ELSE "applicant"]
MCAssigned == {<<ap, "recruiter">>, <<ap, "employer">>}

MCOneJob == {j1}
MCTwoApps == {a1, a2}
MCOneTitle == {t1}

\* An update of the title and one that closes the job.
Patch(title, status) == [title |-> title, status |-> status]
MCPatches == {Patch(t1, None), Patch(None, "closed")}
MCStatuses == {"shortlisted"}

MCSymmetry == Permutations(Requests) \cup Permutations(AppIds)
=============================================================================
