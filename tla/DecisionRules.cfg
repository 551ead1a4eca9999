\* Every condition up to three operators deep that passes the check, three
\* changes to a form, two clauses; six namespaces, three changes.
\* A document, two folders and three groups nested in any way, a bound of two hops.
CONSTANTS
  MaxConditionDepth = 3
  MaxConditionNodes = 4
  V4Bits = 2
  V6Bits = 3
  InitialPolicies <- MCInitialPolicies
  Ops <- MCOps
  AalInputs <- MCAalInputs
  IpInputs <- MCIpInputs
  CidrInputs <- MCCidrInputs
  NowInputs <- MCNowInputs
  Presets <- MCPresets
  MaxClauses = 2
  ZoneOffset = 2
  MaxEdits = 3
  OpenedConditions <- MCOpenedConditions
  Identifiers <- MCIdentifiers
  RelationDrafts <- MCRelationDrafts
  VerbDrafts <- MCVerbDrafts
  InitialSchemas <- MCInitialSchemas
  MaxRewriteDepth = 2
  MaxRows = 2
  MaxSchemaEdits = 3
  Objects <- MCObjects
  Relations <- MCRelations
  Rewrites <- MCRewrites
  Configs <- AllConfigs
  Resource = "d"
  Target = "u"
  MaxDepth = 2
  MaxCalls = 100
SPECIFICATION RulesSpec
CHECK_DEADLOCK FALSE
INVARIANTS AcceptedConditionsAreSafe FormsAreFaithful CycleCheckIsExact WalkIsExact QueriesAgree ClosureIsComplete
