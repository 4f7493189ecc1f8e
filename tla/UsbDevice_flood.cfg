SPECIFICATION Spec
CONSTANTS
  in1 = in1
  in2 = in2
  in3 = in3
  in4 = in4
  out1 = out1
  ctl1 = ctl1
  ctl = ctl
  input = input
  output = output
  iface = iface
  Request <- MCRequest
  Endpoint <- MCEndpoint
  Control = ctl
  Interface = {iface}
  EndpointOf <- MCEndpointOf
  InterfaceOf <- MCInterfaceOf
  MaxQueue = 2
PROPERTY FloodOnlyOnRequest
CHECK_DEADLOCK FALSE
