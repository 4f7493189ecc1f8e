------------------------------- MODULE MCMiners ------------------------------
(* Any one of the drivers of SerialMiner, or the proxy, with a pool whose    *)
(* connections take turns.  Which one it is, is chosen at the start.         *)
EXTENDS SerialMiner, StratumProxy

NoDevice ==
  /\ behavior = "detecting" /\ cancelDue = FALSE /\ stash = <<>> /\ retries = 0
  /\ lastJob = NoWork /\ writing = FALSE
  /\ line = 0 /\ readingInterface = FALSE /\ buffer = 0 /\ stale = 0 /\ missed = FALSE

MinersInit ==
  \/ SerialInit /\ NoWorks
  \/ ProxyInit /\ NoDevice

MinersNext ==
  \/ driver # "StratumProxy" /\ SerialNext /\ UNCHANGED proxyVars
  \/ driver = "StratumProxy" /\ ProxyNext /\ UNCHANGED serialVars

minersVars == <<baseVars, serialVars, proxyVars>>

MinersSpec ==
  /\ MinersInit /\ [][MinersNext]_minersVars
  /\ BaseFairness /\ SerialFairness /\ ProxyFairness

(* The types of the variables, for the driver that there is. *)
MinersTypeOK == IF driver = "StratumProxy" THEN ProxyTypeOK ELSE SerialTypeOK
=============================================================================
