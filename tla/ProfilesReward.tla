--------------------------- MODULE ProfilesReward ---------------------------
(***************************************************************************)
(* Does a completed onboarding lead to a starter pack?  A history variable *)
(* holds the users of whom a claim was lost, and none made since.  It adds *)
(* nothing to the behaviour of Profiles.                                   *)
(***************************************************************************)
EXTENDS Profiles

VARIABLE lost

rewardVars == <<vars, lost>>

RewardInit == Init /\ lost = {}

\* The call fails or the service dies with it, or the pack comes short, or
\* the last step is written and the handler does not hear of it.
Loses(u) ==
  \/ Claims(u) # {} /\ Crash
  \/ \E r \in Claims(u) : PackFails(r) \/ PackShort(r)
  \/ row[u] # row'[u] /\ row'[u] = LastStep /\ pc' = pc

RewardNext ==
  /\ Next
  /\ lost' = {u \in User : Loses(u) \/ (u \in lost /\ Claims(u) = {})}

RewardSpec == RewardInit /\ [][RewardNext]_rewardVars

(***************************************************************************)
(* Commands return and goroutines run on; keys expire.  Arrivals, faults,  *)
(* eviction, snapshots are not assumed to happen.                          *)
(***************************************************************************)
FairRewardSpec ==
  /\ RewardSpec
  /\ \A r \in Request : WF_vars(Proceed(r))
  /\ \A u \in User : WF_vars(Expire(u))

(***************************************************************************)
(* A completed onboarding leads to a whole starter pack unless a crash, a  *)
(* failed call, a failed insert that the call's answer hides, or an        *)
(* unanswered UPDATE loses the claim: failures of the cache and cancelled  *)
(* requests do not come in between (user.go:145, 164-168, grpc.go:75-101). *)
(***************************************************************************)
CompletionIsRewarded ==
  \A u \in User : row[u] = LastStep ~> packs[u] > 0 \/ u \in lost

(***************************************************************************)
(* What makes it so: at every moment the user of a completed onboarding    *)
(* has been given a whole pack, or has lost her claim to it for one of     *)
(* these reasons, or some goroutine is still to ask for it                 *)
(* (user.go:164-168) - also after the onboarding was undone and completed  *)
(* again, by requests that overlap.                                        *)
(***************************************************************************)
PackIsComing ==
  \A u \in User : row[u] = LastStep => packs[u] > 0 \/ u \in lost \/ Claims(u) # {}
=============================================================================
