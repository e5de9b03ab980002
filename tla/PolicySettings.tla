--------------------------- MODULE PolicySettings ---------------------------
(***************************************************************************)
(* Policies and the deployment mode (services/orchestration-api             *)
(* routes/policies and routes/deployment).  A POST replaces the payload of  *)
(* a policy and counts its revision in one statement; a PATCH of the        *)
(* certification settings reads payload and revision and writes both back;  *)
(* a PATCH of the deployment mode inserts a row one revision above the      *)
(* newest.  No row is locked between a read and a write.                    *)
(*                                                                          *)
(* A payload is [body, settings], each naming the request that wrote it;    *)
(* the certification settings are a part of the payload, so that a POST     *)
(* replaces them too.                                                       *)
(***************************************************************************)
EXTENDS Naturals, FiniteSets

CONSTANTS Policies, Editors, PolicyKeys

VARIABLES policy,   \* policy_id -> [payload, revision]
          saved,    \* <<policy_id, key>> -> the request that wrote the event
          editor,   \* request -> [at, op, policy, key, read, known]
          modes,    \* deployment_policies: request -> revision
          versions, \* every <<policy_id, revision, payload>> committed
          edits     \* ghost: the writes committed, by policy

polVars == <<policy, saved, editor, modes, versions, edits>>

Unsent == [at |-> "new", op |-> "none", policy |-> CHOOSE p \in Policies : TRUE,
           key |-> CHOOSE k \in PolicyKeys : TRUE, read |-> <<>>, known |-> {}]
NoMode == 0

Newest == LET r == {modes[c] : c \in DOMAIN modes} IN
          IF r = {} THEN NoMode ELSE CHOOSE n \in r : \A m \in r : m <= n

\* A table with the row of this id inserted or replaced.
Upserted(table, id, row) == [i \in DOMAIN table \cup {id} |-> IF i = id THEN row ELSE table[i]]

Store(p, payload, revision) ==
  /\ policy' = Upserted(policy, p, [payload |-> payload, revision |-> revision])
  /\ versions' = versions \cup {<<p, revision, payload>>}
  /\ edits' = [edits EXCEPT ![p] = @ + 1]

Answered(c, outcome) == editor' = [editor EXCEPT ![c].at = outcome]

\* Another write was committed since the settings were read.
Overtaken(c) == edits[editor[c].policy] > editor[c].read[2]

-----------------------------------------------------------------------------
(* POST /api/policies *)

\* Mistake: the key is not looked up.
KnownPostNever(p, k) == FALSE

KnownPost(p, k) == <<p, k>> \in DOMAIN saved

\* A key that is in the journal for this policy is answered with the policy as it is.
BeginPost(c) ==
  /\ editor[c].at = "new"
  /\ \E p \in Policies, k \in PolicyKeys :
       editor' = [editor EXCEPT ![c] = [Unsent EXCEPT !.op = "post", !.policy = p, !.key = k,
         !.at = IF KnownPost(p, k) THEN "duplicated" ELSE "begun", !.known = DOMAIN saved]]
  /\ UNCHANGED <<policy, saved, modes, versions, edits>>

\* Mistake: the revision stays.
NextRevisionKept(p) == IF p \in DOMAIN policy THEN policy[p].revision ELSE 1

NextRevision(p) == IF p \in DOMAIN policy THEN policy[p].revision + 1 ELSE 1

\* The upsert, then the event: one that is there for this policy and key is passed over;
\* one of another policy with this key refuses the transaction.
SavePost(c) ==
  LET p == editor[c].policy  k == editor[c].key IN
  /\ editor[c].at = "begun" /\ editor[c].op = "post"
  /\ \/ /\ \A q \in Policies \ {p} : <<q, k>> \notin DOMAIN saved
        /\ Store(p, [body |-> c, settings |-> "none"], NextRevision(p))
        /\ saved' = IF <<p, k>> \in DOMAIN saved THEN saved ELSE Upserted(saved, <<p, k>>, c)
        /\ Answered(c, "saved")
     \/ /\ \E q \in Policies \ {p} : <<q, k>> \in DOMAIN saved
        /\ Answered(c, "refused")
        /\ UNCHANGED <<policy, saved, versions, edits>>
  /\ UNCHANGED modes

(* PATCH /api/policies/{id}/certification *)

BeginSettings(c) ==
  /\ editor[c].at = "new"
  /\ \E p \in Policies :
       editor' = [editor EXCEPT ![c] = [Unsent EXCEPT !.op = "settings", !.policy = p,
         !.at = IF p \in DOMAIN policy THEN "begun" ELSE "absent",
         !.read = IF p \in DOMAIN policy THEN <<policy[p], edits[p]>> ELSE <<>>]]
  /\ UNCHANGED <<policy, saved, modes, versions, edits>>

\* Mistake: the settings are all that is written.
MergedAlone(c) == [body |-> "none", settings |-> c]

Merged(c) == [editor[c].read[1].payload EXCEPT !.settings = c]

\* The whole payload and a revision of its own; its event has a key nothing else has.
SaveSettings(c) ==
  /\ editor[c].at = "begun" /\ editor[c].op = "settings"
  /\ Store(editor[c].policy, Merged(c), editor[c].read[1].revision + 1)
  /\ Answered(c, IF Overtaken(c) THEN "overwrote" ELSE "saved")
  /\ UNCHANGED <<saved, modes>>

(* PATCH /api/deployment/config *)

\* Mistake: some row is read, not the newest.
CurrentModeAny == IF DOMAIN modes = {} THEN {NoMode} ELSE {modes[c] : c \in DOMAIN modes}

CurrentMode == {Newest}

BeginMode(c) ==
  /\ editor[c].at = "new"
  /\ \E r \in CurrentMode :
       editor' = [editor EXCEPT ![c] = [Unsent EXCEPT !.op = "mode", !.at = "begun", !.read = <<r>>,
                                                      !.known = DOMAIN modes]]
  /\ UNCHANGED <<policy, saved, modes, versions, edits>>

InsertMode(c) ==
  /\ editor[c].at = "begun" /\ editor[c].op = "mode"
  /\ modes' = Upserted(modes, c, editor[c].read[1] + 1)
  /\ Answered(c, "saved")
  /\ UNCHANGED <<policy, saved, versions, edits>>

\* The connection breaks or the process stops.
AbandonEdit(c) ==
  /\ editor[c].at = "begun" /\ Answered(c, "broken")
  /\ UNCHANGED <<policy, saved, modes, versions, edits>>

PolInit ==
  /\ policy = <<>> /\ saved = <<>> /\ modes = <<>> /\ versions = {}
  /\ edits = [p \in Policies |-> 0]
  /\ editor = [c \in Editors |-> Unsent]

PolNext ==
  \E c \in Editors :
    \/ BeginPost(c) \/ SavePost(c)
    \/ BeginSettings(c) \/ SaveSettings(c)
    \/ BeginMode(c) \/ InsertMode(c)
    \/ AbandonEdit(c)

PolSpec == PolInit /\ [][PolNext]_polVars

-----------------------------------------------------------------------------
(* Properties *)

\* A post that was applied stays until another post, or until a change of the settings
\* that had read the policy before it.
PostsStand ==
  [][\A p \in DOMAIN policy :
       policy'[p].payload.body # policy[p].payload.body =>
         \E c \in Editors :
           /\ editor[c].policy = p /\ editor[c].at = "begun"
           /\ \/ editor[c].op = "post" /\ editor'[c].at = "saved"
              \/ editor[c].op = "settings" /\ editor'[c].at = "overwrote"]_polVars

\* A revision names one payload and a later write has a higher one, until a change of the
\* settings was overtaken by another write.
RevisionsGoUp ==
  [][\A p \in DOMAIN policy :
       policy'[p] # policy[p] =>
         \/ \A v \in versions : v[1] = p => v[2] < policy'[p].revision
         \/ \E c \in Editors : editor[c].policy = p /\ editor'[c].at = "overwrote"]_polVars

\* The same key is applied twice to a policy only by requests that overlapped.
PostedAgainOnlyByOverlap ==
  \A c \in Editors : editor[c].op = "post" /\ editor[c].at = "saved" =>
    <<editor[c].policy, editor[c].key>> \notin editor[c].known

\* Two deployment modes share a revision only when each was requested before the other
\* was committed; only then does the newest row name no mode.
ModesShareOnlyByOverlap ==
  \A c \in DOMAIN modes : \A d \in DOMAIN modes \ {c} :
    modes[c] = modes[d] => d \notin editor[c].known

\* The current payload is one of those committed, and no key was journalled without it.
PolTypeOK ==
  /\ \A p \in DOMAIN policy : <<p, policy[p].revision, policy[p].payload>> \in versions
  /\ \A e \in DOMAIN saved : e[1] \in DOMAIN policy /\ editor[saved[e]].at = "saved"
  /\ \A p \in DOMAIN policy : policy[p].payload.body \in Editors

\* A policy's payload and revision are those of one committed write, a post stands until
\* a change read before it is saved over it, revisions go up, and a post or a mode's
\* revision is repeated only by requests that overlapped.
PoliciesHold ==
  /\ [](PolTypeOK /\ PostedAgainOnlyByOverlap /\ ModesShareOnlyByOverlap)
  /\ PostsStand
  /\ RevisionsGoUp
=============================================================================
