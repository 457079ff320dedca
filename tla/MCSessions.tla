----------------------------- MODULE MCSessions -----------------------------
(***************************************************************************)
(* Instances of Sessions for TLC.  Tokens live for a second or two.  Where *)
(* the clock has two positions in each second, every order of the clock's  *)
(* floor, a token's expiry and a key's TTL occurs.                         *)
(***************************************************************************)
EXTENDS Sessions, TLC

CONSTANTS r1, r2, u1, t1, t2, t3

MCOneRequest == {r1}
MCTwoRequests == {r1, r2}
MCOneUser == {u1}
MCTwoIds == {t1, t2}
MCThreeIds == {t1, t2, t3}
MCBearer == {"Bearer"}
MCAnyHeader == {"Bearer", "other"}
MCSubOnly == {"sub"}
MCSubAndIat == {"sub", "iat"}

\* Requests, users and ids are interchangeable; every run here is of safety.
MCSymmetry ==
  Permutations(Requests) \cup Permutations(Users) \cup Permutations(Ids)
=============================================================================
