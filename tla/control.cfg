SYMMETRY Symmetry
CONSTANTS
  u1 = u1  u2 = u2  c1 = c1  c2 = c2  NoHook = NoHook  Main = Main
  Uuids = {u1, u2}
  Clients = {c1, c2}
  K = 2
  HookOf <- mcHooks
  ShortHooks <- mcShort
  Scheduled <- mcScheduled
  LabelOf <- mcLabels
  MaxInstances = 2
SPECIFICATION Spec
INVARIANTS TypeOK OneInstanceUnlessMixed RegistryTruthful NoDeadPipelineRegistered PluggedWhileRunning ShutdownIsComplete
