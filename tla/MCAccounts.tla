----------------------------- MODULE MCAccounts -----------------------------
(***************************************************************************)
(* Instances of Accounts for TLC: two admins at first, and room for one    *)
(* more user or for two, who start as applicants.                          *)
(***************************************************************************)
EXTENDS Accounts, TLC

CONSTANTS r1, r2, u1, u2, u3, u4, m1, m2, m3, h1

MCTwoRequests == {r1, r2}
MCThreeIds == {u1, u2, u3}
MCFourIds == {u1, u2, u3, u4}
MCEmails == {m1, m2, m3}
MCOneUrl == {h1}
MCOrdered == {"super_admin", "employer"}

User(email, role) == [email |-> email, role |-> role, webhookUrl |-> None]
MCFirst == u1 :> User(m1, "super_admin") @@ u2 :> User(m2, "super_admin")

\* The users there are at first differ; ids and requests to come do not.
MCSymmetry == Permutations(Requests) \cup Permutations(Ids \ DOMAIN First)
                \cup Permutations(Urls)
=============================================================================
