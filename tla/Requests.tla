------------------------------ MODULE Requests ------------------------------
(***************************************************************************)
(* The create routes of services/orchestration-api: each looks its key up   *)
(* in the journal, answers the row it finds or inserts a row and its event  *)
(* in one transaction.  A client that had no answer sends the request       *)
(* again, perhaps while the first is still under way: it is another request *)
(* of the same key.  What decides is the unique index over (aggregate_kind, *)
(* idempotency_key), which the inserts do not name in their ON CONFLICT: of  *)
(* two overlapping requests one is refused, its row rolled back.            *)
(*                                                                          *)
(* A route is [kind, parent, numbered]: what it makes, the kind its foreign *)
(* key refers to, and whether its rows are numbered below the parent.       *)
(* Columns that only hold what the client sent are left out.                *)
(***************************************************************************)
EXTENDS Naturals, FiniteSets

CONSTANTS Clients,  \* requests, naming also the row they insert
          ReqKeys,
          RouteSets \* sets of routes used together

VARIABLES routes,   \* the routes in use
          made,     \* id -> [kind, parent, number, key]
          eventOf,  \* <<kind, key>> -> the id of the row made
          request,  \* client -> [at, route, key, parent, number, answer, known]
          forgotten \* keys the retention has removed from the journal

reqVars == <<routes, made, eventOf, request, forgotten>>

NoOne == "none"
Given == "given"  \* a row that was there before

Route(kind, parent, numbered) == [kind |-> kind, parent |-> parent, numbered |-> numbered]

CreateObjective == Route("objective", NoOne, FALSE)
CreateLoop == Route("loop", "objective", FALSE)
CreateCycle == Route("cycle", "loop", FALSE)
CreateNode == Route("node", "objective", FALSE)
CreateNodeEdge == Route("node_edge", "node", FALSE)
CreateTask == Route("task", "node", FALSE)
CreateTaskAttempt == Route("task_attempt", "task", TRUE)
CreateRoadmapNode == Route("roadmap_node", "objective", FALSE)
CreateAbsorption == Route("roadmap_absorption", "roadmap_node", FALSE)
CreateSkillPack == Route("skill_pack", NoOne, FALSE)
CreateWorkerTemplate == Route("worker_template", NoOne, FALSE)

AllRoutes ==
  {CreateObjective, CreateLoop, CreateCycle, CreateNode, CreateNodeEdge, CreateTask, CreateTaskAttempt,
   CreateRoadmapNode, CreateAbsorption, CreateSkillPack, CreateWorkerTemplate}

ASSUME ReqAssumption ==
  /\ RouteSets \subseteq SUBSET AllRoutes
  /\ IsFiniteSet(Clients) /\ {NoOne, Given} \cap Clients = {}
  /\ NoOne \notin ReqKeys

Idle == [at |-> "new", route |-> CreateObjective, key |-> NoOne, parent |-> NoOne,
         number |-> 0, answer |-> NoOne, known |-> {}]

Key(c) == <<request[c].route.kind, request[c].key>>
RowsBelow(p) == {i \in DOMAIN made : made[i].parent = p /\ made[i].kind = "task_attempt"}
Parents(r) == {i \in DOMAIN made : made[i].kind = r.parent} \cup {NoOne}

-----------------------------------------------------------------------------
\* A client names a row it has heard of, or one that does not exist.
Send(c) ==
  /\ request[c].at = "new"
  /\ \E r \in routes, k \in ReqKeys : \E p \in IF r.parent = NoOne THEN {NoOne} ELSE Parents(r) :
       request' = [request EXCEPT ![c] = [Idle EXCEPT
         !.at = "sent", !.route = r, !.key = k, !.parent = p, !.known = DOMAIN eventOf]]
  /\ UNCHANGED <<routes, made, eventOf, forgotten>>

\* Mistake: the key is looked up whatever the kind.
LookupAnyKind(c) == {eventOf[e] : e \in {f \in DOMAIN eventOf : f[2] = request[c].key}}

\* Mistake: the key is not looked up.
LookupNothing(c) == {}

\* aggregate_id of the event with this kind and key
Lookup(c) == {eventOf[e] : e \in {f \in DOMAIN eventOf : f = Key(c)}}

\* A repeated request is answered with the row of the first, or with an error when
\* the row is gone.
Look(c) ==
  /\ request[c].at = "sent"
  /\ IF Lookup(c) = {}
     THEN request' = [request EXCEPT ![c].at = "fresh"]
     ELSE \E i \in Lookup(c) :
            request' = [request EXCEPT ![c].at = "answered",
                          ![c].answer = IF i \in DOMAIN made THEN i ELSE NoOne]
  /\ UNCHANGED <<routes, made, eventOf, forgotten>>

\* COALESCE(MAX(attempt_index), -1) + 1, in a statement before the insert.
Number(c) ==
  /\ request[c].at = "fresh" /\ request[c].route.numbered
  /\ LET taken == {made[i].number : i \in RowsBelow(request[c].parent)} IN
     request' = [request EXCEPT ![c].at = "numbered",
       ![c].number = CHOOSE n \in 0..Cardinality(Clients) :
         /\ \A m \in taken : m < n
         /\ n = 0 \/ n - 1 \in taken]
  /\ UNCHANGED <<routes, made, eventOf, forgotten>>

\* Mistake: the unique index over (kind, key) is not there.
FitsWithoutIndex(c) ==
  /\ request[c].route.parent = NoOne \/ request[c].parent \in DOMAIN made
  /\ request[c].route.numbered =>
       \A i \in RowsBelow(request[c].parent) : made[i].number # request[c].number

\* Mistake: nothing makes the numbers below a task unique.
FitsUnnumbered(c) ==
  /\ request[c].route.parent = NoOne \/ request[c].parent \in DOMAIN made
  /\ Key(c) \notin DOMAIN eventOf

\* What the database checks: the foreign key, UNIQUE (task_id, attempt_index) and the
\* index over (kind, key).  Whoever comes second waits for the first to commit.
Fits(c) ==
  /\ request[c].route.parent = NoOne \/ request[c].parent \in DOMAIN made
  /\ request[c].route.numbered =>
       \A i \in RowsBelow(request[c].parent) : made[i].number # request[c].number
  /\ Key(c) \notin DOMAIN eventOf

Ready(c) == request[c].at = IF request[c].route.numbered THEN "numbered" ELSE "fresh"

\* Mistake: the event is recorded under the kind of the parent.
RecordedAsParent(c) ==
  LET wrong == <<request[c].route.parent, request[c].key>> IN
  [e \in DOMAIN eventOf \cup {wrong} |-> IF e = wrong THEN c ELSE eventOf[e]]

Recorded(c) == [e \in DOMAIN eventOf \cup {Key(c)} |-> IF e = Key(c) THEN c ELSE eventOf[e]]

RowMade(c) == [kind |-> request[c].route.kind, parent |-> request[c].parent,
               number |-> request[c].number, key |-> request[c].key]

Save(c) ==
  /\ Ready(c)
  /\ \/ /\ Fits(c)
        /\ made' = [i \in DOMAIN made \cup {c} |-> IF i = c THEN RowMade(c) ELSE made[i]]
        /\ eventOf' = Recorded(c)
        /\ request' = [request EXCEPT ![c].at = "answered", ![c].answer = c]
     \/ /\ ~Fits(c)
        /\ request' = [request EXCEPT ![c].at = "refused"]
        /\ UNCHANGED <<made, eventOf>>
  /\ UNCHANGED <<routes, forgotten>>

\* A column is refused by its CHECK, the process stops, the connection breaks: the
\* transaction leaves nothing.
RollBack(c) ==
  /\ request[c].at \in {"sent", "fresh", "numbered"}
  /\ request' = [request EXCEPT ![c].at = "broken"]
  /\ UNCHANGED <<routes, made, eventOf, forgotten>>

\* The loop runner removes finished attempts of seven days and journal rows of thirty,
\* the attempts among them long gone.
ForgetKey(e) ==
  /\ forgotten = {} /\ \A c \in Clients : request[c].at \in {"new", "answered", "refused", "broken"}
  /\ LET attempt == {i \in {eventOf[e]} : made[i].kind = "task_attempt"} IN
     /\ made' = [i \in DOMAIN made \ attempt |-> made[i]]
     /\ \/ eventOf' = [f \in DOMAIN eventOf \ {e} |-> eventOf[f]]
        \/ attempt # {} /\ UNCHANGED eventOf
  /\ forgotten' = {e}
  /\ UNCHANGED <<routes, request>>

ReqInit ==
  /\ routes \in RouteSets
  /\ made = LET above == {r.parent : r \in routes} \ ({r.kind : r \in routes} \cup {NoOne}) IN
            [i \in (IF above = {} THEN {} ELSE {Given}) |->
               [kind |-> CHOOSE k \in above : TRUE, parent |-> NoOne, number |-> 0, key |-> NoOne]]
  /\ eventOf = <<>>
  /\ request = [c \in Clients |-> Idle]
  /\ forgotten = {}

ReqNext ==
  \/ \E c \in Clients : Send(c) \/ Look(c) \/ Number(c) \/ Save(c) \/ RollBack(c)
  \/ \E e \in DOMAIN eventOf : ForgetKey(e)

ReqSpec == ReqInit /\ [][ReqNext]_reqVars

-----------------------------------------------------------------------------
(* Properties *)

Keyed(e) == {i \in DOMAIN made : <<made[i].kind, made[i].key>> = e}

\* Every event names a row of its kind made under its key, so that a refused request
\* leaves no key behind.
EventsNameRows ==
  /\ \A e \in DOMAIN eventOf \ forgotten : eventOf[e] \in Keyed(e)
  /\ \A i \in DOMAIN made \cap Clients : <<made[i].kind, made[i].key>> \in DOMAIN eventOf \cup forgotten

\* However requests of one key overlap, fail and are sent again, there is one row;
\* only a key the retention has removed can make another.
OneRowPerRequestKey ==
  \A e \in DOMAIN eventOf \cup forgotten :
    Cardinality(Keyed(e)) <= (IF e \in forgotten THEN 2 ELSE 1)

\* Whoever is answered learns the row made under the key it sent, of the kind it asked for.
AnswersNameTheRow ==
  \A c \in Clients : request[c].at = "answered" /\ Key(c) \notin forgotten =>
    request[c].answer \in Keyed(Key(c))

\* A request whose key was in the journal when it came is not refused: repeating what
\* has been answered is safe, repeating what is under way may end in an error.
RepeatedIsAnswered ==
  \A c \in Clients : request[c].at = "refused" => Key(c) \notin request[c].known

\* Attempts of a task started at once have different numbers, without a hole.
AttemptsAreNumbered ==
  \A p \in {made[i].parent : i \in DOMAIN made} :
    forgotten = {} => {made[i].number : i \in RowsBelow(p)} = 0..(Cardinality(RowsBelow(p)) - 1)

\* A create request may overlap others of its key, fail and be sent again: one row,
\* one event that names it, one answer, and attempts numbered without a hole.
RequestsInv ==
  /\ EventsNameRows
  /\ OneRowPerRequestKey
  /\ AnswersNameTheRow
  /\ RepeatedIsAnswered
  /\ AttemptsAreNumbered
=============================================================================
