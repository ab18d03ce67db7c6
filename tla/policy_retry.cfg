CONSTANTS
  c1 = c1
  c2 = c2
  c3 = c3
  c4 = c4
  c5 = c5
  c6 = c6
  c7 = c7
  c8 = c8
  fetch = fetch
  exec = exec
  url = url
  cmd = cmd
  root = root
  odd = odd
  bad = bad
  site = site
  None = None
  Calls = {c1, c2}
  Requests = {url, cmd, root, odd, bad}
  RequestOf <- RetryRequestOf
  Tools = {fetch, exec}
  ToolOf <- MCToolOf
  Hosts = {site}
  HostOf <- MCHostOf
  PermOf <- MCPermOf
  Invalid = {bad}
  AutoAllow = {}
  RequireApproval = {exec}
  DailyLimit = 2
  Ids = {1, 2}
  PassesId = {}
  MaxFailures = 0
  MaxRestarts = 0
SPECIFICATION Spec
PROPERTIES GrantedRetryProceeds
CHECK_DEADLOCK FALSE
