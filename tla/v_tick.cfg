CONSTANTS
  in = in  route = route  filter = filter  outp = outp
  rd = rd  tk = tk  wi = wi  r1 = r1  r2 = r2  wf = wf  wo = wo
  Agents <- mcAgents
  Ports <- mcPorts
  Workers <- mcWorkers
  Joined = {}
  Detached = {}
  Ticks = {tk}
  Owner <- mcOwnerTick
  Outputs <- mcOutputs
  Calls <- mcCalls
  Buffer = 1
  StartOrder <- mcStartOrder
  StopOrder <- mcStopOrder
  BrokenInputs = {}
  MaxEvents = 2
SPECIFICATION Spec
INVARIANT NoSendOnClosed
