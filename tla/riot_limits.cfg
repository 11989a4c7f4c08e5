SPECIFICATION Spec
CONSTANTS
  detail = detail
  league = league
  matchDetail = matchDetail
  leagueShort = leagueShort
  leagueLong = leagueLong
  Endpoint <- LeagueOnly
  Limiter <- LeagueLimiter
  Limits <- LeagueLimits
  Burst <- LeagueBurst
  Period <- LeaguePeriod
  Quota <- LeagueQuota
  Waits = {0, 1}
  MaxTime = 6
  MaxRequests = 4
  MaxTooMany = 2
INVARIANT TypeOK
INVARIANT GrantSpacing
INVARIANT SendSpacing
CHECK_DEADLOCK FALSE
