SPECIFICATION Spec
CONSTANTS
  NoDoc = NoDoc
  MaxTags = 40
  TagNode <- TagNodeDef
  LowerCase <- LowerCaseDef
  TermNames <- TermNamesDef
  Aliases <- AliasDef
  Identifiers <- IdentDef
  RefIds <- RefIdsDef
  IntOf <- IntDef
  FeatureDocs <- FeatureDef
  ReviewDocs <- ReviewDef
  RequirementDocs <- RequirementDef
  SysarchDocs <- SysarchDef
  SubrequirementDocs <- SubrequirementDef
  CompArchDocs <- CompArchDef
  SubArchDocs <- SubArchDef
  PolicyDocs <- PolicyDef
  ImplementationDocs <- ImplementationDef
  FanInDocs <- FanInDef
  ReferenceDocs <- ReferenceDef
INVARIANT DependenciesComeFirst
INVARIANT FeaturesTraced
INVARIANT PresentsItsParents
INVARIANT SubOrderExists
INVARIANT FanInSeesImplementation
CHECK_DEADLOCK FALSE
