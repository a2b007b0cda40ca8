\* The same clients on the MCP server's own port.
CONSTANTS
  cli = cli
  other = other
  Client = {cli, other}
  Patient = {cli}
  Mode = "mcp-http"
  BatchMax = 2
  CheckTime = 1
  FetchTime = 1
  WriteTimeout = 3
  Grace = 3
  Patience = 3
SPECIFICATION Spec
INVARIANT SinglesAnswered
CHECK_DEADLOCK FALSE
