\* An instance of each service beside the message pipeline; each may stop.
CONSTANTS
  a1 = a1
  a2 = a2
  m1 = m1
  m2 = m2
  row1 = row1
  row2 = row2
  row3 = row3
  o1 = o1
  o2 = o2
  u1 = u1
  u2 = u2
  u3 = u3
  d1 = d1
  w1 = w1
  w2 = w2
  Admins <- MCAdmins
  Drafts <- MCDrafts
  Secrets <- MCSecrets
  BootstrapSecret = "s1"
  RateLimit = 2
  Managers <- MCManagers
  Rows <- MCRows
  Submissions <- MCSubmissions
  Legacy <- MCLegacy
  Operators <- MCOperators
  Argvs <- MCArgvs
  ClockKeys = {"c1"}
  Emails <- MCEmails
  LowerCase <- MCLowerCase
  Deployments <- MCDeployments
  MaxEffects = 2
  Authors <- MCAuthors
  Tenants = {"t1", "t2"}
  TenantOf <- MCTenantOf
  Documents = {d1}
  Contents <- MCContents
  ValidContents = {"a", "b"}
  MaxRevision = 4
  NodeIds = {1, 2, 3}
  Types = {"trigger", "action"}
  Connections <- MCConnections
  MaxNodes = 3
  MaxEdges = 3
  Runs = {w1, w2}
  Rules <- MCRules
  Events <- MCEvents
  MaxDone = 3
  Calls = {"call1", "call2"}
  Entities = {"entity"}
  MaxVersion = 2
  MaxExternal = 3
  Threshold = 3
  Actors = {"ana", "bia", "caio"}
  ActorTenant <- MCActorTenant
  Capabilities <- MCCapabilities
  AllowedTools = {"send", "look"}
  IrreversibleTools = {"send"}
  Inputs = {"x", "y"}
  Contract <- MCContract
  ToolKeys = {"k"}
  Requests = {1}
  ToolCalls = {"x1", "x2"}
  Evaluators = {"v1", "v2"}
  AlertIds = {"i1", "i2"}
  AlertRules = {"rule"}
  Agents = {"agent"}
  Conversations = {"c1", "c2"}
  PrivacyRequests = {"p"}
  MaxTime = 2
  Window = 1
  Logins = {"l1", "l2"}
  SessionIds = {"s1", "s2", "s3"}
  Users = {"u"}
  Limit = 2
SPECIFICATION MCSpec
INVARIANTS
  ServicesTypeOK
  ActivationIsWhole
  AnnouncedStaysActive
  ProviderRowsSound
  KeyedOnce
  NoEditLost
  ValidationIsExact
  SimulationIsOrdered
  RunsInOrder
  SyncIsAttested
  OnlyWhatWasShown
  OneAlertPerRule
  WindowIsTrue
  LoginsBounded
CHECK_DEADLOCK FALSE
