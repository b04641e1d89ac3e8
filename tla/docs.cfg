SPECIFICATION DocsSpec
CONSTANTS
  Tabs = {p}
  Deployments <- MCDeployments
  MaxTries = 3
INVARIANTS DocsTypeOK BrokenOnlyAfterOutage
PROPERTIES ShownOnlyIfEnabled OfferedIsShown
