---------------------------- MODULE MCClaimAudit ----------------------------
(* Two models, so that they can tie, disagree and fail one by one; scores     *)
(* whose mean is not whole.                                                   *)
EXTENDS ClaimAudit
MCModels == <<"kimi", "minimax">>
MCGiven == << {<<"TRUE", 91>>, <<"FALSE", 10>>},
              {<<"TRUE", 60>>, <<"FALSE", Unreadable>>} >>
=============================================================================
