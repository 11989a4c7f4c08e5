---------------------------- MODULE MCRiotClient ----------------------------
(* An endpoint with one limiter and one with two, as the league has: a      *)
(* short one that refills fast and a long one.  The provider allows one     *)
(* request more than a limiter's n (250 to its 230).                        *)
EXTENDS RiotClient, TLC

CONSTANTS detail, league, matchDetail, leagueShort, leagueLong

MCEndpoint == {detail, league}
LeagueOnly == {league}
MCLimiter == {matchDetail, leagueShort, leagueLong}
LeagueLimiter == MCLimiter \ {matchDetail}
LeagueLimits == league :> <<leagueShort, leagueLong>>
LeagueBurst == leagueShort :> 2 @@ leagueLong :> 3
LeaguePeriod == leagueShort :> 4 @@ leagueLong :> 9
LeagueQuota == league :> {[count |-> 3, period |-> 4], [count |-> 4, period |-> 9]}
MCLimits == detail :> <<matchDetail>> @@ LeagueLimits
MCBurst == matchDetail :> 3 @@ LeagueBurst
MCPeriod == matchDetail :> 6 @@ LeaguePeriod
MCQuota == detail :> {[count |-> 4, period |-> 6]} @@ LeagueQuota
=============================================================================
