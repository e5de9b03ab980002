---------------------------- MODULE MCComponents ----------------------------
(***************************************************************************)
(* The components that share no rows worth composing, in one run: an       *)
(* initial state chooses a component, whose steps are then the only ones.  *)
(***************************************************************************)
EXTENDS ControlPlane, Conversation, Roadmap, Requests, PolicySettings,
        MCWorktrees, Invocation

CONSTANTS q1, q2, m1, m2, m3, x1, x2

VARIABLE which

MCCommands == [op : DOMAIN Ops, key : {"k1"}] \cup [op : {"Retry", "Complete"}, key : {"k2"}]

\* The routes whose rows refer to each other, or that share a key, together.
MCRouteSets ==
  {{CreateObjective, CreateLoop}, {CreateCycle}, {CreateNode, CreateNodeEdge},
   {CreateTask, CreateTaskAttempt}, {CreateRoadmapNode, CreateAbsorption},
   {CreateSkillPack, CreateWorkerTemplate}}

vars == <<which, cpVars, convVars, roadVars, reqVars, polVars, wtVars, invVars>>

MCInstallations ==
  {{}, {"mock"}, {"codex-cli", "claude-cli"}, {"custom-cli"}, {"anthropic-api", "openai-api"},
   {"openai-api"}, {"local-custom"}}

MCInit ==
  /\ which \in {"commands", "chat", "roadmap", "requests", "policies", "worktrees", "agents"}
  /\ CPInit /\ ConvInit /\ RoadInit /\ ReqInit /\ PolInit /\ WtInit /\ InvInit
  /\ which # "chat" => linked
  /\ which # "worktrees" => ~pooled
  /\ which # "requests" => routes = {CreateCycle}
  /\ which # "agents" => registered = {} /\ prefers = "cli" /\ budget = 0

MCNext ==
  /\ UNCHANGED which
  /\ \/ /\ which = "commands" /\ CPNext
        /\ UNCHANGED <<convVars, roadVars, reqVars, polVars, wtVars, invVars>>
     \/ /\ which = "chat" /\ ConvNext
        /\ UNCHANGED <<cpVars, roadVars, reqVars, polVars, wtVars, invVars>>
     \/ /\ which = "roadmap" /\ RoadNext
        /\ UNCHANGED <<cpVars, convVars, reqVars, polVars, wtVars, invVars>>
     \/ /\ which = "requests" /\ ReqNext
        /\ UNCHANGED <<cpVars, convVars, roadVars, polVars, wtVars, invVars>>
     \/ /\ which = "policies" /\ PolNext
        /\ UNCHANGED <<cpVars, convVars, roadVars, reqVars, wtVars, invVars>>
     \/ /\ which = "worktrees" /\ WtNext
        /\ UNCHANGED <<cpVars, convVars, roadVars, reqVars, polVars, invVars>>
     \/ /\ which = "agents" /\ InvNext
        /\ UNCHANGED <<cpVars, convVars, roadVars, reqVars, polVars, wtVars>>

MCSpec == MCInit /\ [][MCNext]_vars
=============================================================================
