SPECIFICATION FairSpec
CONSTANTS
  Clients = {m1, m2}
  Provider = provider
  AgentView = agentView
  ProviderView = providerView
  Views <- MCViews
  ViewOf <- MCViewOf
  Routes = {r1}
  Unloaders = {u1}
  Reconciler = reconciler
  NoTask = NoTask
  MaxLoads = 1
INVARIANTS RunningIsAccounted ServesLoadedUnlessOvertaken
PROPERTIES RequestsReturn
