---------------------------- MODULE Conversation ----------------------------
(***************************************************************************)
(* A chat session (services/orchestration-api/src/routes/chat.rs): messages *)
(* posted at the same time, the objective the first of them creates, the    *)
(* extract each of them leaves for the loop runner, extraction of the whole *)
(* conversation by an agent, and tasks made of it.                          *)
(*                                                                          *)
(* add_message reads the session, later updates its row and so waits for    *)
(* any other message that has: from there to the commit one message is      *)
(* alone, one step.  extract_conversation reads the messages, waits for the *)
(* agent and writes; the count of open questions it writes into the plan is *)
(* taken before another's questions are committed.  What a message says is  *)
(* abstracted to whether the keywords find anything, Notable, a question    *)
(* in an extraction and an action, Actionable.                              *)
(***************************************************************************)
EXTENDS Naturals, FiniteSets

CONSTANTS ChatMessages,         \* POST .../messages that may come
          Notable, Actionable,  \* those with a constraint, decision or question; an action
          Extractions,          \* POST .../extract that may come
          MaxToTasks            \* bound: POST .../to-tasks

ASSUME ConversationAssumption ==
  /\ Notable \cup Actionable \subseteq ChatMessages
  /\ IsFiniteSet(ChatMessages) /\ IsFiniteSet(Extractions)

VARIABLES linked,     \* the session has an objective
          objectives, \* objectives the session created
          poster,     \* message -> "new", "read with"/"read without" (an objective), "stored", "refused"
          between,    \* messages under way when the objective was created
          extracted,  \* messages with an extract of their own
          plan,       \* the objective has a plan (made by the loop runner)
          hasNode,    \* the objective has a node (made by decomposition)
          extractor,  \* extraction -> [at, read, asks, count]
          open,       \* open questions committed
          counter,    \* plans.unresolved_questions
          raced,      \* extractions that wrote while another did
          todo,       \* tasks made of the conversation: message -> how many
          calls       \* to-tasks calls so far

convVars == <<linked, objectives, poster, between, extracted, plan, hasNode,
              extractor, open, counter, raced, todo, calls>>

Stored == {m \in ChatMessages : poster[m] = "stored"}

-----------------------------------------------------------------------------
(* add_message, for a user *)

ReadSession(m) ==
  /\ poster[m] = "new"
  /\ poster' = [poster EXCEPT ![m] = IF linked THEN "read with" ELSE "read without"]
  /\ UNCHANGED <<linked, objectives, between, extracted, plan, hasNode,
                 extractor, open, counter, raced, todo, calls>>

\* Mistake: the count of messages is not looked at.
CreatesObjectiveUncounted(m) == poster[m] = "read without"

\* The first message of the session, its own insert included.
CreatesObjective(m) == poster[m] = "read without" /\ Stored = {}

\* Mistake: the objective read at the beginning, not the one just created.
KnowsObjectiveRead(m) == poster[m] = "read with"

KnowsObjective(m) == poster[m] = "read with" \/ CreatesObjective(m)

\* The objective's key names the session, so a second one would be refused.
StoreMessage(m) ==
  /\ poster[m] \in {"read with", "read without"}
  /\ IF CreatesObjective(m) /\ objectives = 1
     THEN /\ poster' = [poster EXCEPT ![m] = "refused"]
          /\ UNCHANGED <<linked, objectives, between, extracted>>
     ELSE /\ poster' = [poster EXCEPT ![m] = "stored"]
          /\ linked' = (linked \/ CreatesObjective(m))
          /\ objectives' = IF CreatesObjective(m) THEN objectives + 1 ELSE objectives
          /\ between' = IF CreatesObjective(m)
                        THEN {n \in ChatMessages \ {m} : poster[n] = "read without"}
                        ELSE between
          /\ extracted' = IF KnowsObjective(m) THEN extracted \cup ({m} \cap Notable)
                          ELSE extracted
  /\ UNCHANGED <<plan, hasNode, extractor, open, counter, raced, todo, calls>>

\* The request dies (the summary cuts the text at byte 200, maybe inside a
\* character); the client may send the message again.
LoseMessage(m) ==
  /\ poster[m] \in {"read with", "read without"}
  /\ poster' = [poster EXCEPT ![m] = "new"]
  /\ UNCHANGED <<linked, objectives, between, extracted, plan, hasNode,
                 extractor, open, counter, raced, todo, calls>>

-----------------------------------------------------------------------------
(* extract_conversation *)

Waiting == [at |-> "new", read |-> {}, asks |-> 0, count |-> 0]

LoadMessages(x) ==
  /\ extractor[x].at = "new" /\ Stored # {}
  /\ extractor' = [extractor EXCEPT ![x] = [Waiting EXCEPT !.at = "agent", !.read = Stored]]
  /\ UNCHANGED <<linked, objectives, poster, between, extracted, plan, hasNode,
                 open, counter, raced, todo, calls>>

\* Mistake: the questions are counted before its own are inserted.
CountOpenBefore(asks) == open

\* Mistake: its own questions are counted twice.
CountOpenTwice(asks) == open + 2 * asks

\* SELECT COUNT(*) sees what is committed and its own.
CountOpen(asks) == open + asks

\* The questions the agent finds or, should it fail, the keywords: bound, one a message.
Asks(x) == 0 .. Cardinality(extractor[x].read)

\* Without a plan they stay in the extract.
WriteExtract(x, asks) ==
  /\ extractor[x].at = "agent"
  /\ LET uses == linked /\ plan
         others == {y \in Extractions \ {x} : extractor[y].at = "writing"} IN
     /\ extractor' = [extractor EXCEPT
          ![x].at = IF uses THEN "writing" ELSE "done",
          ![x].asks = IF uses THEN asks ELSE 0,
          ![x].count = IF uses THEN CountOpen(asks) ELSE 0]
     /\ raced' = IF uses /\ others # {} THEN raced \cup {x} \cup others ELSE raced
  /\ UNCHANGED <<linked, objectives, poster, between, extracted, plan, hasNode,
                 open, counter, todo, calls>>

CommitExtract(x) ==
  /\ extractor[x].at = "writing"
  /\ open' = open + extractor[x].asks
  /\ counter' = extractor[x].count
  /\ extractor' = [extractor EXCEPT ![x] = [Waiting EXCEPT !.at = "done"]]
  /\ UNCHANGED <<linked, objectives, poster, between, extracted, plan, hasNode, raced, todo, calls>>

\* The request dies, or the agent's time is up and the client gone.
LoseExtraction(x) ==
  /\ extractor[x].at \in {"agent", "writing"}
  /\ extractor' = [extractor EXCEPT ![x] = [Waiting EXCEPT !.at = "done"]]
  /\ UNCHANGED <<linked, objectives, poster, between, extracted, plan, hasNode,
                 open, counter, raced, todo, calls>>

-----------------------------------------------------------------------------
(* chat_to_tasks *)

\* Without a node it inserts one, in the lane 'default' and the lifecycle 'active',
\* which the table refuses; nothing is left of that call.  There is no key: every
\* call makes the tasks of all messages again.
ChatToTasks ==
  /\ calls < MaxToTasks /\ calls' = calls + 1
  /\ linked /\ hasNode
  /\ todo' = [m \in ChatMessages |-> IF m \in Stored \cap Actionable THEN todo[m] + 1 ELSE todo[m]]
  /\ UNCHANGED <<linked, objectives, poster, between, extracted, plan, hasNode,
                 extractor, open, counter, raced>>

-----------------------------------------------------------------------------
(* The loop runner, on the objective *)

MakePlan ==
  /\ linked /\ ~plan /\ plan' = TRUE
  /\ UNCHANGED <<linked, objectives, poster, between, extracted, hasNode,
                 extractor, open, counter, raced, todo, calls>>

MakeNodes ==
  /\ plan /\ ~hasNode /\ hasNode' = TRUE
  /\ UNCHANGED <<linked, objectives, poster, between, extracted, plan,
                 extractor, open, counter, raced, todo, calls>>

\* POST /api/chat/sessions, for an objective or not.
ConvInit ==
  /\ linked \in BOOLEAN /\ objectives = 0
  /\ poster = [m \in ChatMessages |-> "new"]
  /\ between = {} /\ extracted = {} /\ plan = FALSE /\ hasNode = FALSE
  /\ extractor = [x \in Extractions |-> Waiting]
  /\ open = 0 /\ counter = 0 /\ raced = {}
  /\ todo = [m \in ChatMessages |-> 0] /\ calls = 0

ConvNext ==
  \/ \E m \in ChatMessages : ReadSession(m) \/ StoreMessage(m) \/ LoseMessage(m)
  \/ \E x \in Extractions : \/ LoadMessages(x) \/ CommitExtract(x) \/ LoseExtraction(x)
                            \/ \E asks \in Asks(x) : WriteExtract(x, asks)
  \/ ChatToTasks \/ MakePlan \/ MakeNodes

ConvSpec == ConvInit /\ [][ConvNext]_convVars

-----------------------------------------------------------------------------
(* Properties *)

ConvTypeOK ==
  /\ objectives \in 0 .. 1 /\ objectives = 1 => linked
  /\ extracted \subseteq Stored
  /\ counter <= Cardinality(Extractions) * Cardinality(ChatMessages)
  /\ \A x \in Extractions : extractor[x].read \subseteq Stored

\* A session creates one objective at most, and no message is lost over it,
\* however many are posted at once.
OneObjectivePerSession ==
  /\ objectives <= 1
  /\ \A m \in ChatMessages : poster[m] # "refused"

\* A message worth extracting is left without an extract only when it was under
\* way while the first message created the objective; no other may be dropped.
UnextractedOnlyBehindFirst == (Stored \cap Notable) \ extracted \subseteq between

\* The plan's counter of open questions is right, unless two extractions wrote at
\* the same time; then it is at worst too low.
CounterBehindOnlyByOverlap ==
  /\ raced = {} => counter = open
  /\ counter <= open

\* Messages and extractions may overlap: a session keeps to one objective, a message
\* goes unextracted only behind the first one, and the counter is at worst too low.
ConversationInv ==
  /\ ConvTypeOK
  /\ OneObjectivePerSession
  /\ UnextractedOnlyBehindFirst
  /\ CounterBehindOnlyByOverlap
=============================================================================
