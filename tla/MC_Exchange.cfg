SPECIFICATION Spec
CONSTANTS
  Conns = {c1}
  Methods = {"GET", "HEAD", "POST", "PUT", "DELETE", "NOT_IMPL"}
  Versions = {"HTTP/1.1", "HTTP/1.0"}
  Cookies = {"k1", "k2"}
  Secrets = {7}
  Types = {"html"}
  Allowed = {"GET", "HEAD", "POST", "DELETE"}
  Statuses = {200, 301, 400}
INVARIANTS
  EnvIsOwn
  ResponseIsOwn
  SuccessCauses
CHECK_DEADLOCK FALSE
