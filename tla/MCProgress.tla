---------------------------- MODULE MCProgress ----------------------------
(***************************************************************************)
(* What must come to pass in the end, in small instances: cycles go through *)
(* their phases, the streams a client follows them by send what has been    *)
(* committed, and an executor gets through the attempts it begins.  None    *)
(* waits for another, so an initial state chooses one of them.              *)
(***************************************************************************)
EXTENDS MCCycleEngine, EventStreams, Invocation

VARIABLE subject

vars == <<subject, cycleVars, esVars, invVars>>

Cycles(A)  == subject = "cycles" /\ A /\ UNCHANGED <<subject, esVars, invVars>>
Streams(A) == subject = "streams" /\ A /\ UNCHANGED <<subject, cycleVars, invVars>>
Agents(A)  == subject = "agents" /\ A /\ UNCHANGED <<subject, cycleVars, esVars>>

MCInit ==
  /\ subject \in {"cycles", "streams", "agents"} /\ CycleInit /\ ESInit /\ InvInit
  /\ subject # "streams" => stream = "peer"
  /\ subject # "agents" => registered = {}

MCSpec ==
  /\ MCInit
  /\ [][Cycles(CycleNext) \/ Streams(ESNext) \/ Agents(InvNext)]_vars
  /\ WF_vars(Streams(Poll))
  /\ WF_vars(Agents(Executor)) /\ WF_vars(Agents(WriteBeat))
  /\ \A r \in Runners : WF_vars(Cycles(Tick(r)))
  /\ \A n \in Nodes : /\ WF_vars(Cycles(Start(n)))
                      /\ SF_vars(Cycles(\E s \in Settled : Progress(n, s)))
=============================================================================
