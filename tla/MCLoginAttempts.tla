-------------------------- MODULE MCLoginAttempts --------------------------
(***************************************************************************)
(* Instances of LoginAttempts for TLC.  Two addresses, one of them without *)
(* an account, so that both ways of counting a failure occur.              *)
(***************************************************************************)
EXTENDS LoginAttempts

CONSTANTS r1, r2, r3, known, unknown

MCThreeRequests == {r1, r2, r3}
MCEmails == {known, unknown}
MCRegistered == {known}
=============================================================================
