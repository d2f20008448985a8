CONSTANTS
  in = in  route = route  filter = filter  outp = outp
  rd = rd  tk = tk  wi = wi  r1 = r1  r2 = r2  wf = wf  wo = wo
  Agents <- mcAgents
  Ports <- mcPorts
  Workers <- serialWorkers
  Joined = {rd}
  Detached = {}
  Ticks = {}
  Owner <- mcOwnerSerial
  Outputs <- serialOutputs
  Calls <- serialCalls
  Buffer = 2
  StartOrder <- mcStartOrder
  StopOrder <- mcStopOrder
  BrokenInputs = {}
  MaxEvents = 2
SPECIFICATION FairSpec
INVARIANT OrderKept
PROPERTIES StopReturns EventsDrain
