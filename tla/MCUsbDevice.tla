---------------------------- MODULE MCUsbDevice ----------------------------
(***************************************************************************)
(* A device with one interface, its two bulk endpoints and the control     *)
(* endpoint.  Four slots on the input endpoint are one in flight, two that *)
(* fill a queue of length two, and one that floods it.                     *)
(***************************************************************************)
EXTENDS UsbDevice

CONSTANTS in1, in2, in3, in4, out1, ctl1, ctl, input, output, iface

MCRequest == {in1, in2, in3, in4, out1, ctl1}
MCEndpoint == {ctl, input, output}
MCEndpointOf ==
  [r \in MCRequest |->
     CASE r = ctl1 -> ctl
       [] r = out1 -> output
       [] OTHER -> input]
MCInterfaceOf == [ep \in {input, output} |-> iface]
=============================================================================
