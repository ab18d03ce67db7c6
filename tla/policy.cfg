CONSTANTS
  c1 = c1
  c2 = c2
  c3 = c3
  c4 = c4
  c5 = c5
  c6 = c6
  c7 = c7
  c8 = c8
  fetch = fetch
  exec = exec
  url = url
  cmd = cmd
  root = root
  odd = odd
  bad = bad
  site = site
  None = None
  Calls = {c1, c2, c3, c4, c5, c6, c7, c8}
  Requests = {url, cmd, root, odd, bad}
  RequestOf <- MCRequestOf
  Tools = {fetch, exec}
  ToolOf <- MCToolOf
  Hosts = {site}
  HostOf <- MCHostOf
  PermOf <- MCPermOf
  Invalid = {bad}
  AutoAllow = {}
  RequireApproval = {exec}
  DailyLimit = 1
  Ids = {1, 2}
  PassesId = {c4, c5}
  MaxFailures = 1
  MaxRestarts = 1
SPECIFICATION Spec
INVARIANTS TypeOK QuotaRespected ResolutionIsFinal AskedIsKnown HostsAreGranted
CHECK_DEADLOCK FALSE
