---------------------------- MODULE MCHandshakes ----------------------------
(***************************************************************************)
(* What has to come about in the end, apart from the runs of the runtime   *)
(* itself: the parking of its workers, the calibration of the device's     *)
(* clock and the controller's return to drafting.  As in MCParts, a        *)
(* behaviour is one of one of them, and the others rest.                   *)
(***************************************************************************)
EXTENDS ParkWake, SpecController, Calibration

VARIABLE part

handshakeVars == <<part, vars, ctlVars, calVars>>

Half == <<1, 2>>

\* The pool rests after its end, when no thread of it has a step to take.
PoolRests ==
    /\ active = FALSE /\ runFlag = FALSE
    /\ wakeGen = 0 /\ mu = Nobody
    /\ pc = [w \in Workers |-> "exit"] /\ gen = [w \in Workers |-> 0]
    /\ rpc = "idle" /\ spc = "done" /\ runs = MaxRuns /\ spurious = MaxSpurious

HandshakesInit ==
    /\ part \in {"pool", "controller", "calibration"}
    /\ IF part = "pool" THEN Init ELSE PoolRests
    /\ CtlInit /\ CalInit

HandshakesNext ==
    /\ UNCHANGED part
    /\ \/ part = "pool" /\ Next /\ UNCHANGED <<ctlVars, calVars>>
       \/ part = "controller" /\ CtlNext /\ UNCHANGED <<vars, calVars>>
       \/ part = "calibration" /\ CalNext /\ UNCHANGED <<vars, ctlVars>>

HandshakesSpec ==
    HandshakesInit /\ [][HandshakesNext]_handshakeVars /\ Fairness /\ CtlFairness /\ CalFairness
=============================================================================
