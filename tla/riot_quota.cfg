SPECIFICATION Spec
CONSTANTS
  detail = detail
  league = league
  matchDetail = matchDetail
  leagueShort = leagueShort
  leagueLong = leagueLong
  Endpoint <- MCEndpoint
  Limiter <- MCLimiter
  Limits <- MCLimits
  Burst <- MCBurst
  Period <- MCPeriod
  Quota <- MCQuota
  Waits = {1, 2}
  MaxTime = 6
  MaxRequests = 6
  MaxTooMany = 0
INVARIANT WithinQuota
CHECK_DEADLOCK FALSE
