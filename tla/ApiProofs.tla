------------------------------ MODULE ApiProofs ------------------------------
(***************************************************************************)
(* Proofs about what the services promise their callers, for every number   *)
(* of callers, keys, nodes, rows and pages: the create routes (Requests),   *)
(* the commands of the control plane (ControlPlane), a chat session         *)
(* (Conversation), the policies and the deployment mode (PolicySettings),   *)
(* the roadmap of an objective (Roadmap) and a table followed over          *)
(* server-sent events (EventStreams).                                       *)
(*                                                                          *)
(* All of them look something up, wait, and act on what they read.  What    *)
(* protects them is a unique index, a lock, a revision number, a cursor, or *)
(* nothing; each inductive invariant says what of the reading still holds   *)
(* when the writing comes.                                                  *)
(***************************************************************************)
EXTENDS Requests, ControlPlane, Conversation, PolicySettings, Roadmap, EventStreams,
        FiniteSetTheorems, SequenceTheorems, NaturalsInduction, WellFoundedInduction, TLAPS

-----------------------------------------------------------------------------
(* The create routes *)

Kinds == {r.kind : r \in AllRoutes}
RowIds == Clients \cup {Given}
Under == {"fresh", "numbered"}
Quiet == {"new", "answered", "refused", "broken"}

\* Rows belong to clients, but for the one that was there; it is no attempt.
RowsTyped ==
  /\ DOMAIN made \subseteq RowIds
  /\ \A i \in DOMAIN made :
       /\ made[i].parent \in RowIds \cup {NoOne}
       /\ i = Given => made[i].key = NoOne /\ made[i].kind # "task_attempt"
  /\ DOMAIN eventOf \subseteq Kinds \X ReqKeys
  /\ \A e \in DOMAIN eventOf : eventOf[e] \in Clients

\* A request is a record of these fields; what number it has is for Numbers.
RequestRecord(r) ==
  /\ r = [at |-> r.at, route |-> r.route, key |-> r.key, parent |-> r.parent,
          number |-> r.number, answer |-> r.answer, known |-> r.known]
  /\ r.at \in {"sent"} \cup Under \cup Quiet
  /\ r.route \in AllRoutes
  /\ r.at # "new" => r.key \in ReqKeys
  /\ r.parent \in RowIds \cup {NoOne}
  /\ r.known \subseteq Kinds \X ReqKeys

RequestsTyped ==
  /\ forgotten \subseteq Kinds \X ReqKeys
  /\ routes \subseteq AllRoutes
  /\ request = [c \in Clients |-> request[c]]
  /\ \A c \in Clients : RequestRecord(request[c])

\* A key has at most one row for its event, and one more once it was forgotten.
RowsPerKey ==
  \A e \in Kinds \X ReqKeys :
    Cardinality(Keyed(e)) <= (IF e \in DOMAIN eventOf THEN 1 ELSE 0)
                             + (IF e \in forgotten THEN 1 ELSE 0)

\* A request that makes a row is answered with it; while requests are under way
\* the journal only grows, and what they found out about their key stays so.
Waits ==
  \A c \in Clients :
    /\ c \in DOMAIN made => request[c].at = "answered"
    /\ request[c].at = "sent" => request[c].known \subseteq DOMAIN eventOf
    /\ request[c].at \in Under \cup {"refused"} => Key(c) \notin request[c].known

\* The attempts below a task are numbered without a hole, and a number taken before
\* the insert is at most the next one.
Numbers ==
  forgotten = {} =>
    /\ \A p \in RowIds \cup {NoOne} :
         {made[i].number : i \in RowsBelow(p)} = 0..(Cardinality(RowsBelow(p)) - 1)
    /\ \A c \in Clients : request[c].at = "numbered" =>
         request[c].number \in 0..Cardinality(RowsBelow(request[c].parent))

ReqIInv ==
  /\ RowsTyped /\ RequestsTyped
  /\ EventsNameRows /\ RowsPerKey /\ AnswersNameTheRow
  /\ Waits /\ Numbers

-----------------------------------------------------------------------------
(* What the proofs about the create routes use *)

LEMMA RouteFacts ==
  \A r \in AllRoutes :
    /\ r.numbered <=> r.kind = "task_attempt"
    /\ r.parent # "task_attempt"
    /\ r.kind \in Kinds
BY DEF AllRoutes, Kinds, Route, CreateObjective, CreateLoop, CreateCycle, CreateNode, CreateNodeEdge,
       CreateTask, CreateTaskAttempt, CreateRoadmapNode, CreateAbsorption, CreateSkillPack,
       CreateWorkerTemplate, NoOne

LEMMA IdsFinite == IsFiniteSet(RowIds) /\ Given \notin Clients /\ NoOne \notin Clients
<1>1. IsFiniteSet(Clients \cup {Given})
  BY ReqAssumption, FS_AddElement
<1> QED BY <1>1, ReqAssumption DEF RowIds

LEMMA RowSetsFinite ==
  ASSUME RowsTyped
  PROVE  /\ \A e : IsFiniteSet(Keyed(e)) /\ Cardinality(Keyed(e)) \in Nat
         /\ \A p : /\ RowsBelow(p) \subseteq Clients
                  /\ IsFiniteSet(RowsBelow(p)) /\ Cardinality(RowsBelow(p)) \in Nat
                  /\ Cardinality(RowsBelow(p)) <= Cardinality(Clients)
<1>1. ASSUME NEW e
      PROVE  IsFiniteSet(Keyed(e)) /\ Cardinality(Keyed(e)) \in Nat
  <2>1. Keyed(e) \subseteq RowIds
    BY DEF RowsTyped, Keyed
  <2>2. IsFiniteSet(Keyed(e))
    BY <2>1, IdsFinite, FS_Subset
  <2> QED BY <2>2, FS_CardinalityType
<1>2. ASSUME NEW p
      PROVE  /\ RowsBelow(p) \subseteq Clients
             /\ IsFiniteSet(RowsBelow(p)) /\ Cardinality(RowsBelow(p)) \in Nat
             /\ Cardinality(RowsBelow(p)) <= Cardinality(Clients)
  <2>1. RowsBelow(p) \subseteq Clients
    BY DEF RowsTyped, RowsBelow, RowIds
  <2>2. IsFiniteSet(RowsBelow(p)) /\ Cardinality(RowsBelow(p)) <= Cardinality(Clients)
    BY <2>1, ReqAssumption, FS_Subset
  <2> QED BY <2>1, <2>2, FS_CardinalityType
<1> QED BY <1>1, <1>2

-----------------------------------------------------------------------------
(* The initial states *)

LEMMA ReqInitIInv == ReqInit => ReqIInv
<1> SUFFICES ASSUME ReqInit PROVE ReqIInv
  OBVIOUS
<1> DEFINE above == {r.parent : r \in routes} \ ({r.kind : r \in routes} \cup {NoOne})
<1>r. routes \subseteq AllRoutes
  BY ReqAssumption DEF ReqInit
<1>m. /\ DOMAIN made \subseteq {Given}
      /\ Given \in DOMAIN made =>
           made[Given].kind \in above /\ made[Given].parent = NoOne /\ made[Given].key = NoOne
  BY DEF ReqInit
<1>k. Given \in DOMAIN made => made[Given].kind # "task_attempt"
  BY <1>r, <1>m, RouteFacts
<1>e. eventOf = <<>> /\ DOMAIN eventOf = {} /\ forgotten = {} /\ request = [c \in Clients |-> Idle]
  BY DEF ReqInit
<1>1. RowsTyped
  BY <1>m, <1>k, <1>e DEF RowsTyped, RowIds
<1>2. RequestsTyped
  <2>1. CreateObjective \in AllRoutes
    BY DEF AllRoutes
  <2>2. RequestRecord(Idle)
    BY <2>1 DEF RequestRecord, Idle, Quiet
  <2> QED BY <1>r, <1>e, <2>2 DEF RequestsTyped
<1>3. EventsNameRows
  BY <1>m, <1>e, IdsFinite DEF EventsNameRows
<1>4. RowsPerKey
  <2>1. ASSUME NEW e \in Kinds \X ReqKeys PROVE Cardinality(Keyed(e)) = 0
    <3>1. Keyed(e) = {}
      BY <1>m, ReqAssumption DEF Keyed
    <3> QED BY <3>1, FS_EmptySet
  <2> QED BY <2>1, <1>e DEF RowsPerKey
<1>5. AnswersNameTheRow /\ Waits
  BY <1>m, <1>e, IdsFinite DEF AnswersNameTheRow, Waits, Idle, Under
<1>6. Numbers
  <2>1. \A p : RowsBelow(p) = {}
    BY <1>m, <1>k DEF RowsBelow
  <2>2. \A p : Cardinality(RowsBelow(p)) = 0 /\ {made[i].number : i \in RowsBelow(p)} = {}
    BY <2>1, FS_EmptySet
  <2>3. 0..(0 - 1) = {}
    OBVIOUS
  <2>4. \A c \in Clients : request[c].at # "numbered"
    BY <1>e DEF Idle
  <2> QED BY <2>2, <2>3, <2>4 DEF Numbers
<1> QED BY <1>1, <1>2, <1>3, <1>4, <1>5, <1>6 DEF ReqIInv

-----------------------------------------------------------------------------
(* The steps of the create routes *)

\* Steps of one request that leave the rows and the journal alone.
LEMMA RequestAlone ==
  ASSUME ReqIInv, UNCHANGED <<routes, made, eventOf, forgotten>>,
         NEW c \in Clients, NEW r, RequestRecord(r),
         request' = [request EXCEPT ![c] = r],
         c \notin DOMAIN made \/ r.at = "answered",
         r.at = "answered" /\ <<r.route.kind, r.key>> \notin forgotten =>
           r.answer \in Keyed(<<r.route.kind, r.key>>),
         r.at = "sent" => r.known \subseteq DOMAIN eventOf,
         r.at \in Under \cup {"refused"} => <<r.route.kind, r.key>> \notin r.known,
         forgotten = {} /\ r.at = "numbered" => r.number \in 0..Cardinality(RowsBelow(r.parent))
  PROVE  ReqIInv'
<1>1. RowsTyped'
  BY DEF ReqIInv, RowsTyped
<1>k. /\ \A e : Keyed(e)' = Keyed(e)
      /\ \A p : RowsBelow(p)' = RowsBelow(p)
  BY DEF Keyed, RowsBelow
<1>r. /\ request' = [d \in Clients |-> request'[d]]
      /\ request'[c] = r
      /\ \A d \in Clients \ {c} : request'[d] = request[d]
  BY DEF ReqIInv, RequestsTyped
<1>2. RequestsTyped'
  <2>1. \A d \in Clients : RequestRecord(request'[d])
    BY <1>r DEF ReqIInv, RequestsTyped
  <2> QED BY <2>1, <1>r DEF ReqIInv, RequestsTyped
<1>3. EventsNameRows'
  BY <1>k DEF ReqIInv, EventsNameRows
<1>4. RowsPerKey'
  BY <1>k DEF ReqIInv, RowsPerKey
<1>5. AnswersNameTheRow'
  <2> SUFFICES ASSUME NEW d \in Clients, request'[d].at = "answered", Key(d)' \notin forgotten
               PROVE  request'[d].answer \in Keyed(Key(d)')
    BY <1>k DEF AnswersNameTheRow
  <2>1. CASE d = c
    BY <2>1, <1>r DEF Key
  <2>2. CASE d # c
    BY <2>2, <1>r DEF ReqIInv, AnswersNameTheRow, Key
  <2> QED BY <2>1, <2>2
<1>6. Waits'
  <2> SUFFICES ASSUME NEW d \in Clients
               PROVE  /\ d \in DOMAIN made => request'[d].at = "answered"
                      /\ request'[d].at = "sent" => request'[d].known \subseteq DOMAIN eventOf
                      /\ request'[d].at \in Under \cup {"refused"} =>
                           <<request'[d].route.kind, request'[d].key>> \notin request'[d].known
    BY DEF Waits, Key
  <2>1. CASE d = c
    BY <2>1, <1>r
  <2>2. CASE d # c
    BY <2>2, <1>r DEF ReqIInv, Waits, Key
  <2> QED BY <2>1, <2>2
<1>7. Numbers'
  <2> SUFFICES ASSUME forgotten = {}
               PROVE  /\ \A p \in RowIds \cup {NoOne} :
                           {made[i].number : i \in RowsBelow(p)}
                             = 0..(Cardinality(RowsBelow(p)) - 1)
                      /\ \A d \in Clients : request'[d].at = "numbered" =>
                           request'[d].number \in 0..Cardinality(RowsBelow(request'[d].parent))
    <3>1. \A d \in Clients : RowsBelow(request[d].parent)' = RowsBelow(request'[d].parent)
      BY DEF RowsBelow
    <3>2. \A p : {made[i].number : i \in RowsBelow(p)}' = {made[i].number : i \in RowsBelow(p)}
      BY <1>k
    <3> QED BY <3>1, <3>2, <1>k DEF Numbers
  <2>1. ASSUME NEW d \in Clients, request'[d].at = "numbered"
        PROVE  request'[d].number \in 0..Cardinality(RowsBelow(request'[d].parent))
    <3>1. CASE d = c
      BY <3>1, <2>1, <1>r
    <3>2. CASE d # c
      BY <3>2, <2>1, <1>r DEF ReqIInv, Numbers
    <3> QED BY <3>1, <3>2
  <2> QED BY <2>1 DEF ReqIInv, Numbers
<1> QED BY <1>1, <1>2, <1>3, <1>4, <1>5, <1>6, <1>7 DEF ReqIInv

LEMMA SendIInv == ASSUME ReqIInv, NEW c \in Clients, Send(c) PROVE ReqIInv'
<1>1. PICK r \in routes, k \in ReqKeys :
        \E p \in IF r.parent = NoOne THEN {NoOne} ELSE Parents(r) :
          request' = [request EXCEPT ![c] = [Idle EXCEPT
            !.at = "sent", !.route = r, !.key = k, !.parent = p, !.known = DOMAIN eventOf]]
  BY DEF Send
<1>2. PICK p \in IF r.parent = NoOne THEN {NoOne} ELSE Parents(r) :
        request' = [request EXCEPT ![c] = [Idle EXCEPT
          !.at = "sent", !.route = r, !.key = k, !.parent = p, !.known = DOMAIN eventOf]]
  BY <1>1
<1>3. PICK s : s = [Idle EXCEPT
          !.at = "sent", !.route = r, !.key = k, !.parent = p, !.known = DOMAIN eventOf]
  OBVIOUS
<1>4. s = [at |-> "sent", route |-> r, key |-> k, parent |-> p, number |-> 0,
           answer |-> NoOne, known |-> DOMAIN eventOf]
  BY <1>3 DEF Idle
<1>5. /\ r \in AllRoutes /\ p \in RowIds \cup {NoOne}
      /\ DOMAIN eventOf \subseteq Kinds \X ReqKeys
  BY <1>2 DEF ReqIInv, RequestsTyped, RowsTyped, Parents
<1>6. RequestRecord(s)
  BY <1>4, <1>5 DEF RequestRecord
<1>7. c \notin DOMAIN made
  BY DEF ReqIInv, Waits, Send
<1>8. request' = [request EXCEPT ![c] = s] /\ UNCHANGED <<routes, made, eventOf, forgotten>>
  BY <1>2, <1>3 DEF Send
<1> QED BY <1>4, <1>6, <1>7, <1>8, RequestAlone DEF Under

LEMMA LookIInv == ASSUME ReqIInv, NEW c \in Clients, Look(c) PROVE ReqIInv'
<1> PICK old : old = request[c]
  OBVIOUS
<1>1. /\ RequestRecord(old) /\ old.at = "sent" /\ old.known \subseteq DOMAIN eventOf
      /\ c \notin DOMAIN made /\ UNCHANGED <<routes, made, eventOf, forgotten>>
  BY DEF ReqIInv, RequestsTyped, Waits, Look
<1>2. CASE Lookup(c) = {}
  <2> PICK s : s = [old EXCEPT !.at = "fresh"]
    OBVIOUS
  <2>1. /\ RequestRecord(s) /\ s.at = "fresh" /\ s.route = old.route /\ s.key = old.key
        /\ s.known = old.known
    BY <1>1 DEF RequestRecord, Under
  <2>2. request' = [request EXCEPT ![c] = s]
    BY <1>2 DEF Look
  <2>3. <<s.route.kind, s.key>> \notin s.known
    BY <1>1, <1>2, <2>1 DEF Lookup, Key
  <2> QED BY <1>1, <2>1, <2>2, <2>3, RequestAlone
<1>3. CASE Lookup(c) # {}
  <2>1. PICK i \in Lookup(c) :
          request' = [request EXCEPT ![c].at = "answered",
                        ![c].answer = IF i \in DOMAIN made THEN i ELSE NoOne]
    BY <1>3 DEF Look
  <2> PICK a : a = IF i \in DOMAIN made THEN i ELSE NoOne
    OBVIOUS
  <2> PICK s : s = [old EXCEPT !.at = "answered", !.answer = a]
    OBVIOUS
  <2>2. /\ RequestRecord(s) /\ s.at = "answered" /\ s.route = old.route /\ s.key = old.key
        /\ s.answer = a
    BY <1>1 DEF RequestRecord, Quiet
  <2>3. request' = [request EXCEPT ![c] = s]
    BY <2>1 DEF ReqIInv, RequestsTyped
  <2>4. i = eventOf[Key(c)] /\ Key(c) \in DOMAIN eventOf
    BY <2>1 DEF Lookup
  <2>5. <<s.route.kind, s.key>> = Key(c)
    BY <2>2 DEF Key
  <2>6. Key(c) \notin forgotten => i \in Keyed(Key(c)) /\ i \in DOMAIN made
    BY <2>4 DEF ReqIInv, EventsNameRows, Keyed
  <2> QED BY <1>1, <2>2, <2>3, <2>5, <2>6, RequestAlone DEF Under
<1> QED BY <1>2, <1>3

LEMMA NumberIInv == ASSUME ReqIInv, NEW c \in Clients, Number(c) PROVE ReqIInv'
<1> PICK old : old = request[c]
  OBVIOUS
<1> DEFINE taken == {made[i].number : i \in RowsBelow(request[c].parent)}
           next(n) == (\A m \in taken : m < n) /\ (n = 0 \/ n - 1 \in taken)
<1>1. /\ RequestRecord(old) /\ old.at = "fresh" /\ <<old.route.kind, old.key>> \notin old.known
      /\ c \notin DOMAIN made /\ UNCHANGED <<routes, made, eventOf, forgotten>>
  BY DEF ReqIInv, RequestsTyped, Waits, Number, Key, Under
<1> PICK n : n = CHOOSE x \in 0..Cardinality(Clients) :
                   /\ \A m \in taken : m < x
                   /\ x = 0 \/ x - 1 \in taken
  OBVIOUS
<1> PICK s : s = [old EXCEPT !.at = "numbered", !.number = n]
  OBVIOUS
<1>2. /\ RequestRecord(s) /\ s.at = "numbered" /\ s.route = old.route /\ s.key = old.key
      /\ s.known = old.known /\ s.parent = old.parent /\ s.number = n
  BY <1>1 DEF RequestRecord, Under
<1>3. request' = [request EXCEPT ![c] = s]
  <2>1. request' = [request EXCEPT ![c].at = "numbered", ![c].number = n]
    BY DEF Number
  <2>2. request = [d \in Clients |-> request[d]]
    BY DEF ReqIInv, RequestsTyped
  <2>3. [request EXCEPT ![c].at = "numbered", ![c].number = n]
          = [request EXCEPT ![c] = [request[c] EXCEPT !.at = "numbered", !.number = n]]
    BY ONLY <2>2, c \in Clients
  <2> QED BY ONLY <2>1, <2>3, old = request[c], s = [old EXCEPT !.at = "numbered", !.number = n]
<1>4. ASSUME forgotten = {}
      PROVE  n \in 0..Cardinality(RowsBelow(old.parent))
  <2> PICK k : k = Cardinality(RowsBelow(old.parent))
    OBVIOUS
  <2>1. k \in Nat /\ Cardinality(Clients) \in Nat /\ k <= Cardinality(Clients)
    BY RowSetsFinite, ReqAssumption, FS_CardinalityType DEF ReqIInv
  <2>2. taken = 0..(k - 1)
    BY <1>1, <1>4 DEF ReqIInv, Numbers, RequestRecord
  <2> HIDE DEF taken
  <2>3. k \in 0..Cardinality(Clients) /\ next(k)
    BY <2>1, <2>2
  <2>4. n \in 0..Cardinality(Clients) /\ next(n)
    BY <2>3
  <2> QED BY <2>1, <2>2, <2>4
<1> QED BY <1>1, <1>2, <1>3, <1>4, RequestAlone

LEMMA RollBackIInv == ASSUME ReqIInv, NEW c \in Clients, RollBack(c) PROVE ReqIInv'
<1> PICK old : old = request[c]
  OBVIOUS
<1> PICK s : s = [old EXCEPT !.at = "broken"]
  OBVIOUS
<1>1. /\ RequestRecord(old) /\ c \notin DOMAIN made
      /\ UNCHANGED <<routes, made, eventOf, forgotten>> /\ request' = [request EXCEPT ![c] = s]
  BY DEF ReqIInv, RequestsTyped, Waits, RollBack
<1>2. RequestRecord(s) /\ s.at = "broken"
  BY <1>1 DEF RequestRecord, Quiet, RollBack
<1> QED BY <1>1, <1>2, RequestAlone DEF Under

\* A request refused by the indexes leaves no row and no key.
LEMMA SaveIInv == ASSUME ReqIInv, NEW c \in Clients, Save(c) PROVE ReqIInv'
<1> PICK old : old = request[c]
  OBVIOUS
<1> PICK e : e = Key(c)
  OBVIOUS
<1>1. /\ RequestRecord(old) /\ old.at \in Under /\ e \notin old.known
      /\ c \notin DOMAIN made /\ UNCHANGED <<routes, forgotten>>
      /\ e = <<old.route.kind, old.key>> /\ e \in Kinds \X ReqKeys /\ old.key \in ReqKeys
  <2>1. RequestRecord(old) /\ old.at \in Under /\ old.at \notin Quiet /\ UNCHANGED <<routes, forgotten>>
    BY DEF ReqIInv, RequestsTyped, Save, Ready, Under, Quiet
  <2>2. e \notin old.known /\ c \notin DOMAIN made /\ e = <<old.route.kind, old.key>>
    BY <2>1 DEF ReqIInv, Waits, Key, Quiet
  <2>3. old.route.kind \in Kinds /\ old.key \in ReqKeys
    BY <2>1, RouteFacts DEF RequestRecord, Quiet
  <2> QED BY <2>1, <2>2, <2>3
<1>2. CASE /\ ~Fits(c)
           /\ request' = [request EXCEPT ![c].at = "refused"]
           /\ UNCHANGED <<made, eventOf>>
  <2> PICK s : s = [old EXCEPT !.at = "refused"]
    OBVIOUS
  <2>1. /\ RequestRecord(s) /\ s.at = "refused" /\ s.route = old.route /\ s.key = old.key
        /\ s.known = old.known
    BY <1>1 DEF RequestRecord, Quiet
  <2>2. request' = [request EXCEPT ![c] = s]
    BY <1>2
  <2>3. <<s.route.kind, s.key>> \notin s.known
    BY <1>1, <2>1
  <2> QED BY <1>1, <1>2, <2>1, <2>2, <2>3, RequestAlone DEF Under
<1>3. CASE /\ Fits(c)
           /\ made' = [i \in DOMAIN made \cup {c} |-> IF i = c THEN RowMade(c) ELSE made[i]]
           /\ eventOf' = Recorded(c)
           /\ request' = [request EXCEPT ![c].at = "answered", ![c].answer = c]
  <2> PICK s : s = [old EXCEPT !.at = "answered", !.answer = c]
    OBVIOUS
  <2>1. /\ RequestRecord(s) /\ s.at = "answered" /\ s.route = old.route /\ s.key = old.key
        /\ s.answer = c
    BY <1>1 DEF RequestRecord, Quiet
  <2> PICK row : row = RowMade(c)
    OBVIOUS
  <2>2. /\ request' = [d \in Clients |-> request'[d]] /\ request'[c] = s
        /\ \A d \in Clients \ {c} : request'[d] = request[d]
    BY <1>3 DEF ReqIInv, RequestsTyped
  <2>3. /\ row.kind = old.route.kind /\ row.parent = old.parent /\ row.number = old.number
        /\ row.key = old.key
    BY DEF RowMade
  <2>4. /\ DOMAIN made' = DOMAIN made \cup {c} /\ made'[c] = row
        /\ \A i \in DOMAIN made : made'[i] = made[i]
    BY <1>3, <1>1
  <2>5. /\ DOMAIN eventOf' = DOMAIN eventOf \cup {e} /\ eventOf'[e] = c
        /\ \A f \in DOMAIN eventOf : eventOf'[f] = eventOf[f]
        /\ e \notin DOMAIN eventOf
    BY <1>3 DEF Recorded, Fits
  <2>6. /\ Keyed(e)' = Keyed(e) \cup {c} /\ c \notin Keyed(e)
        /\ \A f : f # e => Keyed(f)' = Keyed(f)
    BY <2>3, <2>4, <1>1 DEF Keyed
  <2>7. RowsTyped'
    BY <2>3, <2>4, <2>5, <1>1, IdsFinite DEF ReqIInv, RowsTyped, RequestRecord, RowIds
  <2>8. RequestsTyped'
    <3>1. \A d \in Clients : RequestRecord(request'[d])
      BY <2>1, <2>2 DEF ReqIInv, RequestsTyped
    <3> QED BY <1>1, <2>2, <3>1 DEF ReqIInv, RequestsTyped
  <2>9. EventsNameRows'
    <3>1. ASSUME NEW f \in DOMAIN eventOf' \ forgotten PROVE eventOf'[f] \in Keyed(f)'
      BY <2>5, <2>6 DEF ReqIInv, EventsNameRows
    <3>2. ASSUME NEW i \in DOMAIN made' \cap Clients
          PROVE  <<made'[i].kind, made'[i].key>> \in DOMAIN eventOf' \cup forgotten
      BY <2>3, <2>4, <2>5, <1>1 DEF ReqIInv, EventsNameRows
    <3> QED BY <3>1, <3>2, <1>1 DEF EventsNameRows
  <2>10. RowsPerKey'
    <3>1. /\ IsFiniteSet(Keyed(e)) /\ Cardinality(Keyed(e)) \in Nat
          /\ Cardinality(Keyed(e)') = Cardinality(Keyed(e)) + 1
      BY RowSetsFinite, <2>6, FS_AddElement DEF ReqIInv
    <3>2. ASSUME NEW f \in Kinds \X ReqKeys
          PROVE  Cardinality(Keyed(f)') <= (IF f \in DOMAIN eventOf' THEN 1 ELSE 0)
                                           + (IF f \in forgotten THEN 1 ELSE 0)
      <4>1. Cardinality(Keyed(f)) <= (IF f \in DOMAIN eventOf THEN 1 ELSE 0)
                                     + (IF f \in forgotten THEN 1 ELSE 0)
        BY DEF ReqIInv, RowsPerKey
      <4>2. CASE f = e
        BY <4>1, <4>2, <3>1, <2>5
      <4>3. CASE f # e
        BY <4>1, <4>3, <2>5, <2>6
      <4> QED BY <4>2, <4>3
    <3> QED BY <3>2, <1>1 DEF RowsPerKey
  <2>11. AnswersNameTheRow'
    <3>1. ASSUME NEW d \in Clients, request'[d].at = "answered", Key(d)' \notin forgotten
          PROVE  request'[d].answer \in Keyed(Key(d))'
      <4> PICK f : f = <<request'[d].route.kind, request'[d].key>>
        OBVIOUS
      <4>1. request'[d].answer \in Keyed(f)'
        <5>1. CASE d = c
          BY <5>1, <2>1, <2>2, <2>6, <1>1
        <5>2. CASE d # c
          <6>1. f = Key(d) /\ request'[d].answer \in Keyed(f)
            BY <5>2, <3>1, <2>2, <1>1 DEF ReqIInv, AnswersNameTheRow, Key
          <6> QED BY <6>1, <2>6
        <5> QED BY <5>1, <5>2
      <4> QED BY <4>1 DEF Keyed, Key
    <3> QED BY <3>1, <1>1 DEF AnswersNameTheRow
  <2>12. Waits'
    <3> SUFFICES ASSUME NEW d \in Clients
                 PROVE  /\ d \in DOMAIN made' => request'[d].at = "answered"
                        /\ request'[d].at = "sent" => request'[d].known \subseteq DOMAIN eventOf'
                        /\ request'[d].at \in Under \cup {"refused"} =>
                             <<request'[d].route.kind, request'[d].key>> \notin request'[d].known
      BY DEF Waits, Key
    <3>1. CASE d = c
      BY <3>1, <2>1, <2>2 DEF Under
    <3>2. CASE d # c
      BY <3>2, <2>2, <2>4, <2>5 DEF ReqIInv, Waits, Key
    <3> QED BY <3>1, <3>2
  <2>13. Numbers'
    <3> SUFFICES ASSUME forgotten = {}
                 PROVE  /\ \A p \in RowIds \cup {NoOne} :
                             {made'[i].number : i \in RowsBelow(p)'}
                               = 0..(Cardinality(RowsBelow(p)') - 1)
                        /\ \A d \in Clients \ {c} : request'[d].at = "numbered" =>
                             (request[d].number \in 0..Cardinality(RowsBelow(request[d].parent)))'
      <4>1. request'[c].at # "numbered"
        BY <2>1, <2>2
      <4> QED BY <4>1, <1>1 DEF Numbers
    <3> PICK p0 : p0 = old.parent
      OBVIOUS
    <3> PICK k : k = Cardinality(RowsBelow(p0))
      OBVIOUS
    <3>1. \A p : p # p0 \/ ~old.route.numbered => RowsBelow(p)' = RowsBelow(p)
      BY <2>3, <2>4, <1>1, RouteFacts DEF RowsBelow, RequestRecord
    <3>2. \A p : \A i \in RowsBelow(p) : made'[i] = made[i] /\ i # c
      BY <2>4, <1>1 DEF RowsBelow
    <3>3. ASSUME old.route.numbered
          PROVE  /\ RowsBelow(p0)' = RowsBelow(p0) \cup {c}
                 /\ k \in Nat /\ Cardinality(RowsBelow(p0)') = k + 1
                 /\ old.number = k
      <4>1. RowsBelow(p0)' = RowsBelow(p0) \cup {c}
        BY <3>3, <2>3, <2>4, <1>1, RouteFacts DEF RowsBelow, RequestRecord
      <4>2. IsFiniteSet(RowsBelow(p0)) /\ c \notin RowsBelow(p0) /\ k \in Nat
        BY RowSetsFinite, <1>1 DEF ReqIInv, RowsBelow
      <4>3. Cardinality(RowsBelow(p0)') = k + 1
        <5> PICK below : below = RowsBelow(p0) OBVIOUS
        <5>1. Cardinality(below \cup {c}) = Cardinality(below) + 1
          BY <4>2, FS_AddElement
        <5> QED BY <4>1, <5>1
      <4>4. p0 \in RowIds \cup {NoOne}
        BY <1>1 DEF RequestRecord
      <4>5. {made[i].number : i \in RowsBelow(p0)} = 0..(k - 1)
        BY <4>4 DEF ReqIInv, Numbers
      <4>6. old.number \in 0..k
        BY <3>3 DEF ReqIInv, Numbers, Save, Ready
      <4>7. \A i \in RowsBelow(p0) : made[i].number # old.number
        BY <3>3, <1>3 DEF Fits
      <4>8. old.number \notin 0..(k - 1)
        BY <4>5, <4>7
      <4> QED BY <4>1, <4>2, <4>3, <4>6, <4>8
    <3>4. ASSUME NEW p \in RowIds \cup {NoOne}
          PROVE  {made'[i].number : i \in RowsBelow(p)'} = 0..(Cardinality(RowsBelow(p)') - 1)
      <4>1. {made[i].number : i \in RowsBelow(p)} = 0..(Cardinality(RowsBelow(p)) - 1)
        BY DEF ReqIInv, Numbers
      <4>2. CASE p # p0 \/ ~old.route.numbered
        BY <4>1, <4>2, <3>1, <3>2
      <4>3. CASE p = p0 /\ old.route.numbered
        <5>1. {made'[i].number : i \in RowsBelow(p)'}
                = {made[i].number : i \in RowsBelow(p)} \cup {k}
          BY <4>3, <3>2, <3>3, <2>3, <2>4
        <5>2. 0..(k - 1) \cup {k} = 0..((k + 1) - 1)
          BY <4>3, <3>3
        <5> QED BY <5>1, <5>2, <4>1, <4>3, <3>3
      <4> QED BY <4>2, <4>3
    <3>5. ASSUME NEW d \in Clients \ {c}, request'[d].at = "numbered"
          PROVE  (request[d].number \in 0..Cardinality(RowsBelow(request[d].parent)))'
      <4> PICK p : p = request[d].parent
        OBVIOUS
      <4> PICK n : n = request[d].number
        OBVIOUS
      <4>1. n \in 0..Cardinality(RowsBelow(p)) /\ Cardinality(RowsBelow(p)) \in Nat
        BY <3>5, <2>2, RowSetsFinite DEF ReqIInv, Numbers
      <4>2. n \in 0..Cardinality(RowsBelow(p)')
        <5>1. CASE p # p0 \/ ~old.route.numbered
          BY <5>1, <4>1, <3>1
        <5>2. CASE p = p0 /\ old.route.numbered
          BY <5>2, <4>1, <3>3
        <5> QED BY <5>1, <5>2
      <4>3. request'[d].parent = p /\ request'[d].number = n
        BY <2>2
      <4> QED BY <4>2, <4>3 DEF RowsBelow
    <3> QED BY <3>4, <3>5
  <2> QED BY <2>7, <2>8, <2>9, <2>10, <2>11, <2>12, <2>13 DEF ReqIInv
<1> QED BY <1>2, <1>3 DEF Save

\* What the retention takes with a key is the attempt its event names.
LEMMA ForgetIInv == ASSUME ReqIInv, NEW e \in DOMAIN eventOf, ForgetKey(e) PROVE ReqIInv'
<1> PICK attempt : attempt = {i \in {eventOf[e]} : made[i].kind = "task_attempt"}
  OBVIOUS
<1>1. /\ forgotten = {} /\ forgotten' = {e} /\ UNCHANGED <<routes, request>>
      /\ \A c \in Clients : request[c].at \in Quiet
      /\ e \in Kinds \X ReqKeys
  BY DEF ForgetKey, Quiet, ReqIInv, RowsTyped
<1>2. /\ DOMAIN made' = DOMAIN made \ attempt
      /\ \A i \in DOMAIN made' : made'[i] = made[i]
  BY DEF ForgetKey
<1>3. /\ DOMAIN eventOf \ {e} \subseteq DOMAIN eventOf' /\ DOMAIN eventOf' \subseteq DOMAIN eventOf
      /\ \A f \in DOMAIN eventOf' : eventOf'[f] = eventOf[f]
  BY DEF ForgetKey
<1>4. attempt \subseteq Keyed(e)
  BY <1>1 DEF ReqIInv, EventsNameRows
<1>5. /\ \A f : f # e => Keyed(f)' = Keyed(f)
      /\ Keyed(e)' \subseteq Keyed(e)
  BY <1>2, <1>4 DEF Keyed
<1>6. RowsTyped'
  BY <1>2, <1>3 DEF ReqIInv, RowsTyped
<1>7. RequestsTyped'
  BY <1>1 DEF ReqIInv, RequestsTyped
<1>8. EventsNameRows'
  <2>1. ASSUME NEW f \in DOMAIN eventOf' \ {e} PROVE eventOf'[f] \in Keyed(f)'
    BY <1>1, <1>3, <1>5 DEF ReqIInv, EventsNameRows
  <2>2. ASSUME NEW i \in DOMAIN made' \cap Clients
        PROVE  <<made'[i].kind, made'[i].key>> \in DOMAIN eventOf' \cup {e}
    BY <1>1, <1>2, <1>3 DEF ReqIInv, EventsNameRows
  <2> QED BY <2>1, <2>2, <1>1 DEF EventsNameRows
<1>9. RowsPerKey'
  <2>1. ASSUME NEW f \in Kinds \X ReqKeys
        PROVE  Cardinality(Keyed(f)') <= (IF f \in DOMAIN eventOf' THEN 1 ELSE 0)
                                         + (IF f \in {e} THEN 1 ELSE 0)
    <3>1. Cardinality(Keyed(f)) <= IF f \in DOMAIN eventOf THEN 1 ELSE 0
      BY <1>1 DEF ReqIInv, RowsPerKey
    <3>2. CASE f # e
      BY <3>1, <3>2, <1>3, <1>5
    <3>3. CASE f = e
      <4>1. IsFiniteSet(Keyed(e)) /\ Cardinality(Keyed(e)) \in Nat
        BY RowSetsFinite DEF ReqIInv
      <4>2. Cardinality(Keyed(e)') <= Cardinality(Keyed(e)) /\ IsFiniteSet(Keyed(e)')
        BY <4>1, <1>5, FS_Subset
      <4>3. Cardinality(Keyed(e)') \in Nat
        BY <4>2, FS_CardinalityType
      <4> QED BY <4>1, <4>2, <4>3, <3>1, <3>3
    <3> QED BY <3>2, <3>3
  <2> QED BY <2>1, <1>1 DEF RowsPerKey
<1>10. AnswersNameTheRow'
  <2>1. ASSUME NEW c \in Clients, request[c].at = "answered", Key(c) # e
        PROVE  request[c].answer \in Keyed(Key(c))'
    <3> PICK f : f = Key(c)
      OBVIOUS
    <3>1. request[c].answer \in Keyed(f)'
      BY <2>1, <1>1, <1>5 DEF ReqIInv, AnswersNameTheRow
    <3> QED BY <3>1, <1>1 DEF Keyed, Key
  <2>2. \A c \in Clients : Key(c)' = Key(c)
    BY <1>1 DEF Key
  <2> QED BY <2>1, <2>2, <1>1 DEF AnswersNameTheRow
<1>11. Waits'
  BY <1>1, <1>2 DEF ReqIInv, Waits, Key, Quiet, Under
<1>12. Numbers'
  BY <1>1 DEF Numbers
<1> QED BY <1>6, <1>7, <1>8, <1>9, <1>10, <1>11, <1>12 DEF ReqIInv

LEMMA ReqStutter == ASSUME ReqIInv, UNCHANGED reqVars PROVE ReqIInv'
<1>1. UNCHANGED <<routes, made, eventOf, request, forgotten>>
  BY DEF reqVars
<1>2. (RowsTyped /\ RequestsTyped /\ EventsNameRows)'
  BY <1>1 DEF ReqIInv, RowsTyped, RequestsTyped, EventsNameRows, Keyed
<1>3. RowsPerKey'
  BY <1>1 DEF ReqIInv, RowsPerKey, Keyed
<1>4. AnswersNameTheRow' /\ Waits'
  BY <1>1 DEF ReqIInv, AnswersNameTheRow, Waits, Key, Keyed
<1>5. Numbers'
  <2>1. /\ \A p : RowsBelow(p)' = RowsBelow(p)
        /\ \A c \in Clients : RowsBelow(request[c].parent)' = RowsBelow(request[c].parent)
    BY <1>1 DEF RowsBelow
  <2> QED BY <1>1, <2>1 DEF ReqIInv, Numbers
<1> QED BY <1>2, <1>3, <1>4, <1>5 DEF ReqIInv

LEMMA ReqIInvSuffices == ReqIInv => RequestsInv
<1> SUFFICES ASSUME ReqIInv PROVE RequestsInv
  OBVIOUS
<1>1. OneRowPerRequestKey
  <2> SUFFICES ASSUME NEW e \in DOMAIN eventOf \cup forgotten
               PROVE  Cardinality(Keyed(e)) <= IF e \in forgotten THEN 2 ELSE 1
    BY DEF OneRowPerRequestKey
  <2>1. e \in Kinds \X ReqKeys
    BY DEF ReqIInv, RowsTyped, RequestsTyped
  <2>2. Cardinality(Keyed(e)) <= (IF e \in DOMAIN eventOf THEN 1 ELSE 0)
                                 + (IF e \in forgotten THEN 1 ELSE 0)
    BY <2>1 DEF ReqIInv, RowsPerKey
  <2>3. Cardinality(Keyed(e)) \in Nat
    BY RowSetsFinite DEF ReqIInv
  <2> QED BY <2>2, <2>3
<1>2. RepeatedIsAnswered
  BY DEF ReqIInv, Waits, RepeatedIsAnswered
<1>3. AttemptsAreNumbered
  BY DEF ReqIInv, Numbers, RowsTyped, AttemptsAreNumbered
<1> QED BY <1>1, <1>2, <1>3 DEF ReqIInv, RequestsInv

\* However create requests of one key overlap, fail and are sent again, for any
\* number of clients, keys and routes: one row per key, one event that names it, the
\* answer of every repetition, and attempts numbered without a hole.
THEOREM RequestsSound == ReqSpec => []RequestsInv
<1>1. ReqInit => ReqIInv
  BY ReqInitIInv
<1>2. ReqIInv /\ [ReqNext]_reqVars => ReqIInv'
  <2> SUFFICES ASSUME ReqIInv, [ReqNext]_reqVars PROVE ReqIInv'
    OBVIOUS
  <2>1. ASSUME NEW c \in Clients, Send(c) PROVE ReqIInv'
    BY <2>1, SendIInv
  <2>2. ASSUME NEW c \in Clients, Look(c) PROVE ReqIInv'
    BY <2>2, LookIInv
  <2>3. ASSUME NEW c \in Clients, Number(c) PROVE ReqIInv'
    BY <2>3, NumberIInv
  <2>4. ASSUME NEW c \in Clients, Save(c) PROVE ReqIInv'
    BY <2>4, SaveIInv
  <2>5. ASSUME NEW c \in Clients, RollBack(c) PROVE ReqIInv'
    BY <2>5, RollBackIInv
  <2>6. ASSUME NEW e \in DOMAIN eventOf, ForgetKey(e) PROVE ReqIInv'
    BY <2>6, ForgetIInv
  <2>7. ASSUME UNCHANGED reqVars PROVE ReqIInv'
    BY <2>7, ReqStutter
  <2> QED BY <2>1, <2>2, <2>3, <2>4, <2>5, <2>6, <2>7 DEF ReqNext
<1> QED BY <1>1, <1>2, ReqIInvSuffices, PTL DEF ReqSpec

-----------------------------------------------------------------------------
(* The commands of the control plane *)

\* The tables refuse what the other seven write.
LawfulOps == {"CreateLoop", "CreateNode", "CreateTask", "Complete", "Retry"}

Holders(c) == {q \in Callers : inflight[q] = c}
Retriers == {q \in Callers : inflight[q].op = "Retry"}
Queued == IF task.status = "queued" THEN 1 ELSE 0

CommandsTyped ==
  /\ CPTypeOK
  /\ task = [status |-> task.status, attempts |-> task.attempts]
  /\ inflight = [q \in Callers |-> inflight[q]]
  /\ applied \in [Commands -> Nat]

\* Between the reads and the writes of a creating command only other callers
\* journal its key, each under a row of its own.
OwnRowNotJournalled ==
  \A q \in Callers : inflight[q] # Nothing /\ inflight[q].op \in Creating \cup {"Dispatch"} =>
    \A row \in journal : ~(/\ row[1] = Kind(inflight[q])
                          /\ row[2] = q
                          /\ row[3] = inflight[q].key)

\* Who was told a command was applied had begun before the first was told.
AppliedOrHeld ==
  \A c \in Commands :
    /\ c.op \in Creating => applied[c] <= 1
    /\ applied[c] + Cardinality(Holders(c)) <= Cardinality(Callers)

\* Each retry that has begun found the attempts below the budget, and the attempt
\* it stands for is not counted yet.
RetriesCounted ==
  \/ task.attempts + Cardinality(Retriers) + Queued <= Budget + Cardinality(Callers) - 1
  \/ Retriers = {} /\ task.attempts + Queued <= 1

CPIInv ==
  /\ CommandsTyped
  /\ AppliedIsJournalled /\ OwnRowNotJournalled /\ AppliedOrHeld
  /\ RetriesCounted

LEMMA OpsFacts ==
  /\ DOMAIN Ops = LawfulOps \cup {"CreateObjective", "CreateCycle", "Dispatch", "Cancel", "Fail",
                                 "Timeout", "NextCycle"}
  /\ Ops["CreateObjective"] = ObjectiveCommand /\ Ops["CreateLoop"] = LoopCommand
  /\ Ops["CreateCycle"] = CycleCommand /\ Ops["CreateNode"] = NodeCommand
  /\ Ops["CreateTask"] = TaskCommand /\ Ops["Dispatch"] = DispatchCommand
  /\ Ops["Complete"] = CompletionCommand /\ Ops["Cancel"] = CancelCommand
  /\ Ops["Fail"] = FailureCommand /\ Ops["Timeout"] = TimeoutCommand
  /\ Ops["Retry"] = RetryCommand /\ Ops["NextCycle"] = NextCycleCommand
BY DEF Ops, LawfulOps

LEMMA OnlyLawful == ASSUME NEW c, c.op \in DOMAIN Ops, Lawful(c) PROVE c.op \in LawfulOps
<1>1. \A column, value : <<column, value>> \in Ops[c.op].writes => value \in Allows[column]
  <2> SUFFICES ASSUME NEW column, NEW value, <<column, value>> \in Ops[c.op].writes
               PROVE  value \in Allows[column]
    OBVIOUS
  <2>1. <<column, value>>[1] = column /\ <<column, value>>[2] = value
    OBVIOUS
  <2> QED BY <2>1 DEF Lawful
<1>2. /\ "planning" \notin Allows["planning"] /\ "cycle_index" \notin Allows["cycle"]
      /\ "failed" \notin Allows["lifecycle"]
      /\ "dispatch_round_completed" \notin Allows["event"] /\ "task_timed_out" \notin Allows["event"]
  BY DEF Allows
<1>3. c.op # "CreateObjective"
  <2>1. <<"planning", "planning">> \in ObjectiveCommand.writes
    BY DEF ObjectiveCommand, Op
  <2> QED BY <2>1, <1>1, <1>2, OpsFacts
<1>4. c.op # "CreateCycle"
  <2>1. <<"cycle", "cycle_index">> \in CycleCommand.writes
    BY DEF CycleCommand, Op
  <2> QED BY <2>1, <1>1, <1>2, OpsFacts
<1>5. c.op # "NextCycle"
  <2>1. <<"cycle", "cycle_index">> \in NextCycleCommand.writes
    BY DEF NextCycleCommand, Op
  <2> QED BY <2>1, <1>1, <1>2, OpsFacts
<1>6. c.op # "Dispatch"
  <2>1. <<"event", "dispatch_round_completed">> \in DispatchCommand.writes
    BY DEF DispatchCommand, Op
  <2> QED BY <2>1, <1>1, <1>2, OpsFacts
<1>7. c.op # "Cancel"
  <2>1. <<"lifecycle", "failed">> \in CancelCommand.writes
    BY DEF CancelCommand, Op
  <2> QED BY <2>1, <1>1, <1>2, OpsFacts
<1>8. c.op # "Fail"
  <2>1. <<"lifecycle", "failed">> \in FailureCommand.writes
    BY DEF FailureCommand, Op
  <2> QED BY <2>1, <1>1, <1>2, OpsFacts
<1>9. c.op # "Timeout"
  <2>1. <<"event", "task_timed_out">> \in TimeoutCommand.writes
    BY DEF TimeoutCommand, Op
  <2> QED BY <2>1, <1>1, <1>2, OpsFacts
<1> QED BY <1>3, <1>4, <1>5, <1>6, <1>7, <1>8, <1>9, OpsFacts

LEMMA WrittenLawful ==
  ASSUME NEW c, c.op \in LawfulOps, NEW old
  PROVE  /\ Written(c, "status", old) = IF c.op = "Complete" THEN "succeeded"
                                        ELSE IF c.op = "Retry" THEN "queued" ELSE old
         /\ Written(c, "lifecycle", old) = IF c.op = "Complete" THEN "completed"
                                           ELSE IF c.op = "Retry" THEN "queued" ELSE old
<1> DEFINE columns(name) == {x \in Ops[c.op].writes : x[1] = name}
<1>1. CASE c.op \in Creating
  BY <1>1 DEF Written, Creating
<1>2. CASE c.op = "Complete"
  <2>1. Ops[c.op].writes = {<<"status", "succeeded">>, <<"lifecycle", "completed">>, <<"event", "task_completed">>}
    BY <1>2, OpsFacts DEF CompletionCommand, Op
  <2>2. /\ columns("status") = {<<"status", "succeeded">>}
        /\ columns("lifecycle") = {<<"lifecycle", "completed">>}
    BY <2>1
  <2>3. /\ {w[2] : w \in columns("status")} = {"succeeded"}
        /\ {w[2] : w \in columns("lifecycle")} = {"completed"}
    <3>1. {w[2] : w \in {<<"status", "succeeded">>}} = {"succeeded"}
      OBVIOUS
    <3>2. {w[2] : w \in {<<"lifecycle", "completed">>}} = {"completed"}
      OBVIOUS
    <3> HIDE DEF columns
    <3> QED BY <2>2, <3>1, <3>2, Zenon
  <2>4. c.op \notin Creating
    BY <1>2 DEF Creating
  <2> QED BY <1>2, <2>3, <2>4 DEF Written
<1>3. CASE c.op = "Retry"
  <2>1. Ops[c.op].writes = {<<"status", "queued">>, <<"lifecycle", "queued">>, <<"event", "task_retry_scheduled">>}
    BY <1>3, OpsFacts DEF RetryCommand, Op
  <2>2. /\ columns("status") = {<<"status", "queued">>}
        /\ columns("lifecycle") = {<<"lifecycle", "queued">>}
    BY <2>1
  <2>3. /\ {w[2] : w \in columns("status")} = {"queued"}
        /\ {w[2] : w \in columns("lifecycle")} = {"queued"}
    <3>1. {w[2] : w \in {<<"status", "queued">>}} = {"queued"}
      OBVIOUS
    <3>2. {w[2] : w \in {<<"lifecycle", "queued">>}} = {"queued"}
      OBVIOUS
    <3> HIDE DEF columns
    <3> QED BY <2>2, <3>1, <3>2, Zenon
  <2>4. c.op \notin Creating
    BY <1>3 DEF Creating
  <2> QED BY <1>3, <2>3, <2>4 DEF Written
<1> QED BY <1>1, <1>2, <1>3 DEF LawfulOps, Creating

LEMMA CallersFinite ==
  /\ Cardinality(Callers) \in Nat /\ Budget \in Nat /\ MaxAttempts \in Nat
  /\ \A S \in SUBSET Callers : /\ IsFiniteSet(S) /\ Cardinality(S) \in Nat
                               /\ Cardinality(S) <= Cardinality(Callers)
  /\ \A c \in Commands : c # Nothing /\ c.op \in DOMAIN Ops
<1>1. ASSUME NEW S \in SUBSET Callers
      PROVE  /\ IsFiniteSet(S) /\ Cardinality(S) \in Nat
             /\ Cardinality(S) <= Cardinality(Callers)
  <2>1. IsFiniteSet(S) /\ Cardinality(S) <= Cardinality(Callers)
    BY ControlAssumption, FS_Subset
  <2> QED BY <2>1, FS_CardinalityType
<1>2. \A c \in Commands : c # Nothing /\ c.op \in DOMAIN Ops
  BY ControlAssumption, OpsFacts DEF Nothing, LawfulOps
<1> QED BY <1>1, <1>2, ControlAssumption, FS_CardinalityType

LEMMA CPInitIInv == CPInit => CPIInv
<1> SUFFICES ASSUME CPInit PROVE CPIInv
  OBVIOUS
<1>1. /\ task = [status |-> "queued", attempts |-> 0] /\ node = "proposed" /\ journal = {}
      /\ inflight = [q \in Callers |-> Nothing] /\ applied = [c \in Commands |-> 0]
  BY DEF CPInit
<1>2. CommandsTyped
  BY <1>1, CallersFinite DEF CommandsTyped, CPTypeOK, Allows
<1>3. AppliedIsJournalled /\ OwnRowNotJournalled
  BY <1>1 DEF AppliedIsJournalled, OwnRowNotJournalled
<1>4. AppliedOrHeld
  <2>1. \A c \in Commands : Holders(c) = {}
    BY <1>1, CallersFinite DEF Holders
  <2> QED BY <2>1, <1>1, FS_EmptySet, CallersFinite DEF AppliedOrHeld
<1>5. RetriesCounted
  BY <1>1 DEF RetriesCounted, Retriers, Queued, Nothing
<1> QED BY <1>2, <1>3, <1>4, <1>5 DEF CPIInv

LEMMA BeginIInv ==
  ASSUME CPIInv, NEW c \in Commands, NEW q \in Callers, Begin(c, q)
  PROVE  CPIInv'
<1>1. /\ inflight[q] = Nothing /\ ~Journalled(c) /\ Allowed(c)
      /\ inflight' = [inflight EXCEPT ![q] = c] /\ UNCHANGED <<task, node, journal, applied>>
  BY DEF Begin
<1>2. /\ inflight' = [p \in Callers |-> inflight'[p]] /\ inflight'[q] = c
      /\ \A p \in Callers \ {q} : inflight'[p] = inflight[p]
  BY <1>1 DEF CPIInv, CommandsTyped
<1>3. CommandsTyped'
  BY <1>1, <1>2 DEF CPIInv, CommandsTyped, CPTypeOK
<1>4. AppliedIsJournalled'
  BY <1>1 DEF CPIInv, AppliedIsJournalled, Journalled
<1>5. OwnRowNotJournalled'
  <2> SUFFICES ASSUME NEW p \in Callers, inflight'[p] # Nothing,
                      inflight'[p].op \in Creating \cup {"Dispatch"}, NEW row \in journal
               PROVE  ~(/\ row[1] = Kind(inflight'[p]) /\ row[2] = p /\ row[3] = inflight'[p].key)
    BY <1>1 DEF OwnRowNotJournalled, Kind
  <2>1. CASE p = q
    BY <2>1, <1>1, <1>2 DEF Journalled
  <2>2. CASE p # q
    BY <2>2, <1>2 DEF CPIInv, OwnRowNotJournalled
  <2> QED BY <2>1, <2>2
<1>6. AppliedOrHeld'
  <2>1. ASSUME NEW d \in Commands PROVE applied[d] + Cardinality(Holders(d)') <= Cardinality(Callers)
    <3>1. CASE d = c
      <4>1. applied[c] = 0
        BY <1>1 DEF CPIInv, AppliedIsJournalled, CommandsTyped
      <4>2. Holders(c)' \in SUBSET Callers
        BY DEF Holders
      <4> QED BY <3>1, <4>1, <4>2, CallersFinite
    <3>2. CASE d # c
      <4>1. Holders(d)' = Holders(d)
        BY <3>2, <1>1, <1>2, CallersFinite DEF Holders
      <4> QED BY <4>1 DEF CPIInv, AppliedOrHeld
    <3> QED BY <3>1, <3>2
  <2> QED BY <2>1, <1>1 DEF CPIInv, AppliedOrHeld
<1>7. RetriesCounted'
  <2>1. Queued' = Queued
    BY <1>1 DEF Queued
  <2>2. CASE c.op = "Retry"
    <3>1. task.status = "failed" /\ task.attempts < Budget
      BY <2>2, <1>1 DEF Allowed, RetryAllowed
    <3>2. Retriers' \in SUBSET Callers
      BY DEF Retriers
    <3>3. Queued = 0 /\ task.attempts \in Nat
      BY <3>1, CallersFinite DEF Queued, CPIInv, CommandsTyped, CPTypeOK
    <3> QED BY <3>1, <3>2, <3>3, <2>1, <1>1, CallersFinite DEF RetriesCounted
  <2>3. CASE c.op # "Retry"
    <3>1. Retriers' = Retriers
      BY <2>3, <1>1, <1>2 DEF Retriers, Nothing
    <3> QED BY <3>1, <2>1, <1>1 DEF CPIInv, RetriesCounted
  <2> QED BY <2>2, <2>3
<1> QED BY <1>3, <1>4, <1>5, <1>6, <1>7 DEF CPIInv

LEMMA CommitIInv == ASSUME CPIInv, NEW q \in Callers, Commit(q) PROVE CPIInv'
<1> PICK c : c = inflight[q]
  OBVIOUS
<1>1. /\ c \in Commands /\ c # Nothing /\ c.op \in DOMAIN Ops
      /\ inflight' = [inflight EXCEPT ![q] = Nothing]
  BY CallersFinite DEF Commit, CPIInv, CommandsTyped, CPTypeOK
<1>2. /\ inflight' = [p \in Callers |-> inflight'[p]] /\ inflight'[q] = Nothing
      /\ \A p \in Callers \ {q} : inflight'[p] = inflight[p]
  BY <1>1 DEF CPIInv, CommandsTyped
<1>3. \/ UNCHANGED <<task, node, journal, applied>>
      \/ /\ Lawful(c) /\ ~Duplicate(c, q)
         /\ task' = [task EXCEPT !.status = Written(c, "status", task.status)]
         /\ node' = Written(c, "lifecycle", node)
         /\ journal' = journal \cup {<<Kind(c), Aggregate(c, q), c.key>>}
         /\ applied' = [applied EXCEPT ![c] = applied[c] + 1]
  BY DEF Commit
<1>4. /\ Holders(c)' = Holders(c) \ {q} /\ q \in Holders(c)
      /\ \A d \in Commands \ {c} : Holders(d)' = Holders(d)
  BY <1>1, <1>2, CallersFinite DEF Holders
<1>5. /\ Cardinality(Holders(c)') = Cardinality(Holders(c)) - 1
      /\ \A d \in Commands : Cardinality(Holders(d)) \in Nat /\ Cardinality(Holders(d)') \in Nat
  <2>1. \A d \in Commands : Holders(d) \in SUBSET Callers /\ Holders(d)' \in SUBSET Callers
    BY DEF Holders
  <2>2. IsFiniteSet(Holders(c))
    BY <1>1, <2>1, CallersFinite
  <2> QED BY <1>4, <2>1, <2>2, CallersFinite, FS_RemoveElement
<1>6. /\ Retriers' = Retriers \ {q}
      /\ Cardinality(Retriers) \in Nat /\ Cardinality(Retriers') \in Nat
      /\ Cardinality(Retriers') <= Cardinality(Retriers)
      /\ c.op = "Retry" => Cardinality(Retriers') = Cardinality(Retriers) - 1 /\ q \in Retriers
  <2>1. Retriers' = Retriers \ {q} /\ (c.op = "Retry" => q \in Retriers)
    BY <1>1, <1>2 DEF Retriers, Nothing
  <2>2. Retriers \in SUBSET Callers /\ Retriers' \in SUBSET Callers
    BY DEF Retriers
  <2>3. /\ IsFiniteSet(Retriers) /\ Cardinality(Retriers) \in Nat /\ Cardinality(Retriers') \in Nat
    BY <2>2, CallersFinite
  <2>4. Cardinality(Retriers') <= Cardinality(Retriers)
    BY <2>1, <2>3, FS_Subset
  <2>5. c.op = "Retry" => Cardinality(Retriers') = Cardinality(Retriers) - 1
    BY <2>1, <2>3, FS_RemoveElement
  <2> QED BY <2>1, <2>3, <2>4, <2>5
<1>t. /\ task.attempts \in Nat /\ Queued \in 0..1 /\ task = [status |-> task.status, attempts |-> task.attempts]
      /\ CPTypeOK /\ applied \in [Commands -> Nat]
  BY CallersFinite DEF CPIInv, CommandsTyped, CPTypeOK, Queued
<1>7. CASE UNCHANGED <<task, node, journal, applied>>
  <2>1. CommandsTyped'
    BY <1>7, <1>1, <1>2 DEF CPIInv, CommandsTyped, CPTypeOK
  <2>2. AppliedIsJournalled'
    BY <1>7 DEF CPIInv, AppliedIsJournalled, Journalled
  <2>3. OwnRowNotJournalled'
    BY <1>7, <1>2 DEF CPIInv, OwnRowNotJournalled, Kind
  <2>4. AppliedOrHeld'
    <3>1. ASSUME NEW d \in Commands PROVE applied[d] + Cardinality(Holders(d)') <= Cardinality(Callers)
      <4>1. applied[d] + Cardinality(Holders(d)) <= Cardinality(Callers) /\ applied[d] \in Nat
        BY <1>t DEF CPIInv, AppliedOrHeld
      <4>2. Cardinality(Holders(d)') <= Cardinality(Holders(d))
        BY <1>4, <1>5, <1>1
      <4> QED BY <4>1, <4>2, <1>5, CallersFinite
    <3> QED BY <3>1, <1>7 DEF CPIInv, AppliedOrHeld
  <2>5. RetriesCounted'
    <3>1. Queued' = Queued
      BY <1>7 DEF Queued
    <3> QED BY <3>1, <1>7, <1>6, <1>t, CallersFinite DEF CPIInv, RetriesCounted
  <2> QED BY <2>1, <2>2, <2>3, <2>4, <2>5 DEF CPIInv
<1>8. CASE /\ Lawful(c) /\ ~Duplicate(c, q)
           /\ task' = [task EXCEPT !.status = Written(c, "status", task.status)]
           /\ node' = Written(c, "lifecycle", node)
           /\ journal' = journal \cup {<<Kind(c), Aggregate(c, q), c.key>>}
           /\ applied' = [applied EXCEPT ![c] = applied[c] + 1]
  <2> PICK row : row = <<Kind(c), Aggregate(c, q), c.key>>
    OBVIOUS
  <2>1. /\ c.op \in LawfulOps
        /\ row[1] = Kind(c) /\ row[2] = Aggregate(c, q) /\ row[3] = c.key
        /\ journal' = journal \cup {row}
    BY <1>1, <1>8, OnlyLawful
  <2>2. /\ task' = [status |-> task'.status, attempts |-> task'.attempts]
        /\ task'.attempts = task.attempts
        /\ task'.status = IF c.op = "Complete" THEN "succeeded"
                          ELSE IF c.op = "Retry" THEN "queued" ELSE task.status
        /\ node' = IF c.op = "Complete" THEN "completed"
                   ELSE IF c.op = "Retry" THEN "queued" ELSE node
    BY <1>8, <2>1, <1>t, WrittenLawful
  <2>3. /\ applied' \in [Commands -> Nat] /\ applied'[c] = applied[c] + 1
        /\ \A d \in Commands \ {c} : applied'[d] = applied[d]
    BY <1>8, <1>1, <1>t
  <2>4. CommandsTyped'
    <3>1. task'.status \in Allows.status /\ node' \in Allows.lifecycle
      BY <2>2, <1>t DEF CPTypeOK, Allows
    <3>2. \A p \in Callers : inflight'[p] \in Commands \cup {Nothing}
      BY <1>2, <1>t DEF CPTypeOK
    <3> QED BY <3>1, <3>2, <2>2, <2>3, <1>2, <1>t DEF CommandsTyped, CPTypeOK
  <2>5. AppliedIsJournalled'
    <3> SUFFICES ASSUME NEW d \in Commands, applied'[d] > 0
                 PROVE  /\ \E r \in journal' : r[1] = Kind(d) /\ r[3] = d.key
                        /\ d.op \in LawfulOps
      BY DEF AppliedIsJournalled, Journalled, LawfulOps, Kind
    <3>1. CASE d = c
      BY <3>1, <2>1
    <3>2. CASE d # c
      BY <3>2, <2>1, <2>3 DEF CPIInv, AppliedIsJournalled, Journalled, LawfulOps
    <3> QED BY <3>1, <3>2
  <2>6. OwnRowNotJournalled'
    <3> SUFFICES ASSUME NEW p \in Callers, inflight'[p] # Nothing,
                        inflight'[p].op \in Creating \cup {"Dispatch"}, NEW r \in journal'
                 PROVE  ~(/\ r[1] = Kind(inflight'[p]) /\ r[2] = p /\ r[3] = inflight'[p].key)
      BY DEF OwnRowNotJournalled, Kind
    <3>1. p # q /\ inflight'[p] = inflight[p]
      BY <1>2
    <3>2. CASE r \in journal
      BY <3>1, <3>2 DEF CPIInv, OwnRowNotJournalled
    <3>3. CASE r = row
      BY <3>1, <3>3, <2>1, ControlAssumption DEF Aggregate
    <3> QED BY <3>2, <3>3, <2>1
  <2>7. c.op \in Creating => applied[c] = 0
    <3> SUFFICES ASSUME c.op \in Creating PROVE ~Journalled(c)
      BY <1>1, <1>t DEF CPIInv, AppliedIsJournalled
    <3>1. Aggregate(c, q) = q
      BY DEF Aggregate
    <3> QED BY <3>1, <1>1, <1>8 DEF Duplicate, Journalled, CPIInv, OwnRowNotJournalled
  <2>8. AppliedOrHeld'
    <3> SUFFICES ASSUME NEW d \in Commands
                 PROVE  /\ d.op \in Creating => applied'[d] <= 1
                        /\ applied'[d] + Cardinality(Holders(d)') <= Cardinality(Callers)
      BY DEF AppliedOrHeld
    <3>1. CASE d = c
      <4>1. applied[c] + Cardinality(Holders(c)) <= Cardinality(Callers) /\ applied[c] \in Nat
        BY <1>1, <1>t DEF CPIInv, AppliedOrHeld
      <4> QED BY <3>1, <4>1, <2>3, <2>7, <1>1, <1>5, CallersFinite
    <3>2. CASE d # c
      BY <3>2, <2>3, <1>4 DEF CPIInv, AppliedOrHeld
    <3> QED BY <3>1, <3>2
  <2>9. RetriesCounted'
    <3>1. CASE c.op = "Retry"
      <4>1. Retriers # {}
        BY <3>1, <1>6
      <4>2. task.attempts + Cardinality(Retriers) + Queued <= Budget + Cardinality(Callers) - 1
        BY <4>1 DEF CPIInv, RetriesCounted
      <4>3. Queued' = 1
        BY <3>1, <2>2 DEF Queued
      <4> QED BY <3>1, <4>2, <4>3, <2>2, <1>6, <1>t, CallersFinite DEF RetriesCounted
    <3>2. CASE c.op # "Retry"
      <4>1. Queued' <= Queued /\ Queued' \in 0..1
        BY <3>2, <2>2 DEF Queued
      <4>2. Retriers = {} => Retriers' = {}
        BY <1>6
      <4> QED BY <4>1, <4>2, <2>2, <1>6, <1>t, CallersFinite DEF CPIInv, RetriesCounted
    <3> QED BY <3>1, <3>2
  <2> QED BY <2>4, <2>5, <2>6, <2>8, <2>9 DEF CPIInv
<1> QED BY <1>3, <1>7, <1>8

\* The services move the task, and count an attempt where a queued one is lost.
LEMMA ServiceIInv ==
  ASSUME CPIInv, ServiceDispatch \/ \E ok \in BOOLEAN : ServiceVerifies(ok)
  PROVE  CPIInv'
<1>1. UNCHANGED <<journal, inflight, applied>>
  BY DEF ServiceDispatch, ServiceVerifies
<1>t. /\ task.attempts \in 0..MaxAttempts /\ task = [status |-> task.status, attempts |-> task.attempts]
      /\ CPTypeOK
  BY DEF CPIInv, CommandsTyped, CPTypeOK
<1>2. /\ task' = [status |-> task'.status, attempts |-> task'.attempts]
      /\ task'.attempts + Queued' <= task.attempts + Queued /\ task'.attempts \in 0..MaxAttempts
      /\ task'.status \in Allows.status /\ node' \in Allows.lifecycle /\ Queued' \in 0..1
      /\ Queued \in 0..1
  <2>1. CASE ServiceDispatch
    <3>1. /\ task' = [status |-> "running", attempts |-> task.attempts + 1]
          /\ task.status = "queued" /\ task.attempts < MaxAttempts
          /\ node' \in {node, "running"}
      BY <2>1 DEF ServiceDispatch
    <3>2. Queued = 1 /\ Queued' = 0
      BY <3>1 DEF Queued
    <3>3. "running" \in Allows.status /\ "running" \in Allows.lifecycle
      BY DEF Allows
    <3> QED BY <3>1, <3>2, <3>3, <1>t, CallersFinite DEF CPTypeOK
  <2>2. ASSUME NEW ok \in BOOLEAN, ServiceVerifies(ok)
        PROVE  /\ task' = [status |-> task'.status, attempts |-> task'.attempts]
               /\ task'.attempts + Queued' <= task.attempts + Queued /\ task'.attempts \in 0..MaxAttempts
               /\ task'.status \in Allows.status /\ node' \in Allows.lifecycle /\ Queued' \in 0..1
               /\ Queued \in 0..1
    <3>1. /\ task' = [task EXCEPT !.status = IF ok THEN "succeeded" ELSE "failed"]
          /\ task.status = "running" /\ node' \in {node, "completed"}
      BY <2>2 DEF ServiceVerifies
    <3>2. /\ task'.attempts = task.attempts /\ task'.status \in {"succeeded", "failed"}
          /\ task' = [status |-> task'.status, attempts |-> task'.attempts]
      BY <3>1, <1>t
    <3>3. Queued = 0 /\ Queued' = 0
      BY <3>1, <3>2 DEF Queued
    <3>4. {"succeeded", "failed"} \subseteq Allows.status /\ "completed" \in Allows.lifecycle
      BY DEF Allows
    <3> QED BY <3>1, <3>2, <3>3, <3>4, <1>t, CallersFinite DEF CPTypeOK
  <2> QED BY <2>1, <2>2
<1>3. CommandsTyped'
  BY <1>1, <1>2 DEF CPIInv, CommandsTyped, CPTypeOK
<1>4. AppliedIsJournalled' /\ OwnRowNotJournalled' /\ AppliedOrHeld'
  BY <1>1 DEF CPIInv, AppliedIsJournalled, OwnRowNotJournalled, AppliedOrHeld, Journalled, Holders, Kind
<1>5. RetriesCounted'
  <2>1. Retriers' = Retriers
    BY <1>1 DEF Retriers
  <2>2. Cardinality(Retriers) \in Nat
    BY CallersFinite DEF Retriers
  <2> QED BY <2>1, <2>2, <1>2, <1>t, CallersFinite DEF CPIInv, RetriesCounted
<1> QED BY <1>3, <1>4, <1>5 DEF CPIInv

LEMMA CPIInvSuffices == CPIInv => CommandsInv
<1> SUFFICES ASSUME CPIInv PROVE CommandsInv
  OBVIOUS
<1>1. AppliedAgainOnlyByOverlap
  <2> SUFFICES ASSUME NEW c \in Commands
               PROVE  applied[c] <= IF c.op \in Creating THEN 1 ELSE Cardinality(Callers)
    BY DEF AppliedAgainOnlyByOverlap
  <2>1. Cardinality(Holders(c)) \in Nat /\ applied[c] \in Nat
    BY CallersFinite DEF Holders, CPIInv, CommandsTyped
  <2> QED BY <2>1, CallersFinite DEF CPIInv, AppliedOrHeld
<1>2. RetriesNearBudget
  <2>1. Cardinality(Retriers) \in Nat /\ Queued \in 0..1 /\ task.attempts \in Nat
    BY CallersFinite DEF Retriers, Queued, CPIInv, CommandsTyped, CPTypeOK
  <2> QED BY <2>1, CallersFinite DEF CPIInv, RetriesCounted, RetriesNearBudget
<1> QED BY <1>1, <1>2 DEF CPIInv, CommandsTyped, CommandsInv

\* For any callers, commands and budget: a creating command is applied once, any other
\* only by those who had begun before the first commit, each is journalled with
\* what it wrote, and retries overrun the budget by one attempt per caller at most.
THEOREM CommandsSound == CPSpec => []CommandsInv
<1>1. CPInit => CPIInv
  BY CPInitIInv
<1>2. CPIInv /\ [CPNext]_cpVars => CPIInv'
  <2> SUFFICES ASSUME CPIInv, [CPNext]_cpVars PROVE CPIInv'
    OBVIOUS
  <2>1. ASSUME NEW c \in Commands, NEW q \in Callers, Begin(c, q) PROVE CPIInv'
    BY <2>1, BeginIInv
  <2>2. ASSUME NEW q \in Callers, Commit(q) PROVE CPIInv'
    BY <2>2, CommitIInv
  <2>3. ASSUME ServiceDispatch \/ \E ok \in BOOLEAN : ServiceVerifies(ok) PROVE CPIInv'
    BY <2>3, ServiceIInv
  <2>4. ASSUME UNCHANGED cpVars PROVE CPIInv'
    <3>1. UNCHANGED <<task, node, journal, inflight, applied>>
      BY <2>4 DEF cpVars
    <3>2. CommandsTyped' /\ AppliedIsJournalled' /\ OwnRowNotJournalled'
      BY <3>1 DEF CPIInv, CommandsTyped, CPTypeOK, AppliedIsJournalled, OwnRowNotJournalled,
                  Journalled, Kind
    <3>3. AppliedOrHeld' /\ RetriesCounted'
      BY <3>1 DEF CPIInv, AppliedOrHeld, Holders, RetriesCounted, Retriers, Queued
    <3> QED BY <3>2, <3>3 DEF CPIInv
  <2> QED BY <2>1, <2>2, <2>3, <2>4 DEF CPNext
<1> QED BY <1>1, <1>2, CPIInvSuffices, PTL DEF CPSpec

-----------------------------------------------------------------------------
(* A chat session *)

\* From the first message stored on the session is linked, and only messages that
\* were under way then may still not know the objective.
PostingInv ==
  /\ linked \in BOOLEAN /\ objectives \in {0, 1}
  /\ poster \in [ChatMessages -> {"new", "read with", "read without", "stored"}]
  /\ extracted \subseteq Stored
  /\ objectives = 1 => Stored # {}
  /\ Stored # {} => linked
  /\ \A m \in ChatMessages :
       /\ poster[m] = "read with" => linked
       /\ poster[m] = "read without" /\ linked => Stored # {} /\ m \in between
  /\ UnextractedOnlyBehindFirst

Running == {x \in Extractions : extractor[x].at # "done"}
Bound == Cardinality(ChatMessages)

\* An extraction that writes alone has counted right; a second one at the same time
\* is known to race.  Each can still add a question a message.
ExtractionInv ==
  /\ extractor \in [Extractions -> [at : {"new", "agent", "writing", "done"},
                                   read : SUBSET ChatMessages, asks : Nat, count : Nat]]
  /\ open \in Nat /\ counter \in Nat
  /\ \A x \in Extractions :
       /\ extractor[x].read \subseteq Stored
       /\ extractor[x].asks <= Bound
       /\ extractor[x].at = "writing" =>
            /\ extractor[x].count <= open + extractor[x].asks
            /\ x \notin raced => extractor[x].count = open + extractor[x].asks
  /\ \A x, y \in Extractions :
       x # y /\ extractor[x].at = "writing" /\ extractor[y].at = "writing" => x \in raced
  /\ CounterBehindOnlyByOverlap
  /\ open + Bound * Cardinality(Running) <= Bound * Cardinality(Extractions)

ConvIInv == PostingInv /\ ExtractionInv

LEMMA ConvFinite ==
  /\ Bound \in Nat /\ Cardinality(Extractions) \in Nat
  /\ \A S \in SUBSET ChatMessages : Cardinality(S) \in Nat /\ Cardinality(S) <= Bound
  /\ \A S \in SUBSET Extractions : IsFiniteSet(S) /\ Cardinality(S) \in Nat
<1>1. ASSUME NEW S \in SUBSET ChatMessages PROVE Cardinality(S) \in Nat /\ Cardinality(S) <= Bound
  <2>1. IsFiniteSet(S) /\ Cardinality(S) <= Bound
    BY ConversationAssumption, FS_Subset DEF Bound
  <2> QED BY <2>1, FS_CardinalityType
<1>2. ASSUME NEW S \in SUBSET Extractions PROVE IsFiniteSet(S) /\ Cardinality(S) \in Nat
  <2>1. IsFiniteSet(S)
    BY ConversationAssumption, FS_Subset
  <2> QED BY <2>1, FS_CardinalityType
<1> QED BY <1>1, <1>2, ConversationAssumption, FS_CardinalityType DEF Bound

LEMMA OneLess == ASSUME NEW a \in Nat, NEW k \in Nat, k > 0 PROVE a * (k - 1) = a * k - a
OBVIOUS

LEMMA ConvInitIInv == ConvInit => ConvIInv
<1> SUFFICES ASSUME ConvInit PROVE ConvIInv
  OBVIOUS
<1>1. Stored = {}
  BY DEF ConvInit, Stored
<1>2. PostingInv
  BY <1>1 DEF ConvInit, PostingInv, UnextractedOnlyBehindFirst
<1>3. Running = Extractions
  BY DEF ConvInit, Running, Waiting
<1>4. ExtractionInv
  <2>1. Bound * Cardinality(Extractions) \in Nat
    BY ConvFinite
  <2>2. \A x \in Extractions : extractor[x] = Waiting
    BY DEF ConvInit
  <2>3. extractor \in [Extractions -> [at : {"new", "agent", "writing", "done"},
                                      read : SUBSET ChatMessages, asks : Nat, count : Nat]]
    BY DEF ConvInit, Waiting
  <2> QED BY <1>1, <1>3, <2>1, <2>2, <2>3, ConvFinite
          DEF ConvInit, ExtractionInv, Waiting, CounterBehindOnlyByOverlap
<1> QED BY <1>2, <1>4 DEF ConvIInv

LEMMA PostingStep ==
  ASSUME ExtractionInv, UNCHANGED <<extractor, open, counter, raced>>, Stored \subseteq Stored'
  PROVE  ExtractionInv'
<1>1. Running' = Running
  BY DEF Running
<1> QED BY <1>1 DEF ExtractionInv, CounterBehindOnlyByOverlap, Bound

LEMMA ExtractionStep ==
  ASSUME PostingInv, UNCHANGED <<linked, objectives, poster, between, extracted>>
  PROVE  PostingInv' /\ Stored' = Stored
<1>1. Stored' = Stored
  BY DEF Stored
<1> QED BY <1>1 DEF PostingInv, UnextractedOnlyBehindFirst

LEMMA ReadSessionIInv == ASSUME ConvIInv, NEW m \in ChatMessages, ReadSession(m) PROVE ConvIInv'
<1>1. /\ poster' = [poster EXCEPT ![m] = IF linked THEN "read with" ELSE "read without"]
      /\ poster[m] = "new" /\ UNCHANGED <<linked, objectives, between, extracted>>
      /\ UNCHANGED <<extractor, open, counter, raced>>
  BY DEF ReadSession
<1>2. Stored' = Stored
  BY <1>1 DEF Stored, ConvIInv, PostingInv
<1>3. PostingInv'
  BY <1>1, <1>2 DEF ConvIInv, PostingInv, UnextractedOnlyBehindFirst
<1> QED BY <1>1, <1>2, <1>3, PostingStep DEF ConvIInv

LEMMA LoseMessageIInv == ASSUME ConvIInv, NEW m \in ChatMessages, LoseMessage(m) PROVE ConvIInv'
<1>1. /\ poster' = [poster EXCEPT ![m] = "new"]
      /\ poster[m] # "stored" /\ UNCHANGED <<linked, objectives, between, extracted>>
      /\ UNCHANGED <<extractor, open, counter, raced>>
  BY DEF LoseMessage
<1>2. Stored' = Stored
  BY <1>1 DEF Stored, ConvIInv, PostingInv
<1>3. PostingInv'
  BY <1>1, <1>2 DEF ConvIInv, PostingInv, UnextractedOnlyBehindFirst
<1> QED BY <1>1, <1>2, <1>3, PostingStep DEF ConvIInv

\* The second objective that would be refused is never tried.
LEMMA StoreMessageIInv == ASSUME ConvIInv, NEW m \in ChatMessages, StoreMessage(m) PROVE ConvIInv'
<1>1. ~(CreatesObjective(m) /\ objectives = 1)
  BY DEF ConvIInv, PostingInv, CreatesObjective
<1>2. /\ poster[m] \in {"read with", "read without"}
      /\ poster' = [poster EXCEPT ![m] = "stored"]
      /\ linked' = (linked \/ CreatesObjective(m))
      /\ objectives' = IF CreatesObjective(m) THEN objectives + 1 ELSE objectives
      /\ between' = IF CreatesObjective(m)
                    THEN {n \in ChatMessages \ {m} : poster[n] = "read without"}
                    ELSE between
      /\ extracted' = IF KnowsObjective(m) THEN extracted \cup ({m} \cap Notable) ELSE extracted
      /\ UNCHANGED <<extractor, open, counter, raced>>
  BY <1>1 DEF StoreMessage
<1>3. /\ Stored' = Stored \cup {m} /\ m \notin Stored
      /\ \A n \in ChatMessages \ {m} : poster'[n] = poster[n]
      /\ poster'[m] = "stored"
  BY <1>2 DEF Stored, ConvIInv, PostingInv
<1>4. PostingInv'
  <2>1. CASE CreatesObjective(m)
    <3>1. /\ poster[m] = "read without" /\ Stored = {} /\ ~linked /\ objectives = 0
          /\ extracted = {}
      BY <2>1, <1>1 DEF ConvIInv, PostingInv, CreatesObjective
    <3>2. /\ linked' = TRUE /\ objectives' = 1 /\ extracted' = {m} \cap Notable /\ Stored' = {m}
          /\ between' = {n \in ChatMessages \ {m} : poster[n] = "read without"}
      <4>1. KnowsObjective(m)
        BY <2>1 DEF KnowsObjective
      <4>2. extracted' = {} \cup ({m} \cap Notable) /\ Stored' = {} \cup {m}
        BY <4>1, <3>1, <1>2, <1>3
      <4>3. linked' = TRUE
        BY <2>1, <3>1, <1>2 DEF CreatesObjective
      <4>4. objectives' = 1 /\ between' = {n \in ChatMessages \ {m} : poster[n] = "read without"}
        <5>1. objectives' = objectives + 1
          BY <2>1, <1>2, Zenon
        <5>2. between' = {n \in ChatMessages \ {m} : poster[n] = "read without"}
          BY <2>1, <1>2, Zenon
        <5>3. objectives = 0
          BY <3>1
        <5>4. objectives' = 1
          BY <5>1, <5>3
        <5> QED BY <5>2, <5>4, Zenon
      <4>5. extracted' = {m} \cap Notable /\ Stored' = {m}
        BY <4>2
      <4> QED BY <4>3, <4>4, <4>5
    <3> QED BY <3>1, <3>2, <1>2, <1>3 DEF ConvIInv, PostingInv, UnextractedOnlyBehindFirst
  <2>2. CASE ~CreatesObjective(m)
    <3>1. UNCHANGED <<linked, objectives, between>>
      BY <2>2, <1>2 DEF ConvIInv, PostingInv
    <3>2. CASE poster[m] = "read with"
      <4>1. linked /\ extracted' = extracted \cup ({m} \cap Notable)
        BY <3>2, <1>2 DEF KnowsObjective, ConvIInv, PostingInv
      <4> QED BY <4>1, <3>1, <1>2, <1>3 DEF ConvIInv, PostingInv, UnextractedOnlyBehindFirst
    <3>3. CASE poster[m] = "read without"
      <4>1. Stored # {} /\ linked /\ m \in between /\ extracted' = extracted
        BY <3>3, <2>2, <1>2 DEF KnowsObjective, CreatesObjective, ConvIInv, PostingInv
      <4> QED BY <4>1, <3>1, <1>2, <1>3 DEF ConvIInv, PostingInv, UnextractedOnlyBehindFirst
    <3> QED BY <3>2, <3>3, <1>2
  <2> QED BY <2>1, <2>2
<1> QED BY <1>2, <1>3, <1>4, PostingStep DEF ConvIInv

LEMMA LoadMessagesIInv == ASSUME ConvIInv, NEW x \in Extractions, LoadMessages(x) PROVE ConvIInv'
<1> PICK r : r = [at |-> "agent", read |-> Stored, asks |-> 0, count |-> 0]
  OBVIOUS
<1>0. r = [Waiting EXCEPT !.at = "agent", !.read = Stored]
  <2> PICK s : s = Stored
    OBVIOUS
  <2>1. [Waiting EXCEPT !.at = "agent"] = [at |-> "agent", read |-> {}, asks |-> 0, count |-> 0]
    BY DEF Waiting
  <2>2. [[at |-> "agent", read |-> {}, asks |-> 0, count |-> 0] EXCEPT !.read = s]
          = [at |-> "agent", read |-> s, asks |-> 0, count |-> 0]
    OBVIOUS
  <2>3. [Waiting EXCEPT !.at = "agent", !.read = s] = [[Waiting EXCEPT !.at = "agent"] EXCEPT !.read = s]
    BY DEF Waiting
  <2> QED BY <2>1, <2>2, <2>3
<1>1. /\ extractor[x].at = "new" /\ extractor' = [extractor EXCEPT ![x] = r]
      /\ UNCHANGED <<linked, objectives, poster, between, extracted>>
      /\ UNCHANGED <<open, counter, raced>>
  BY <1>0 DEF LoadMessages
<1>2. PostingInv' /\ Stored' = Stored
  BY <1>1, ExtractionStep DEF ConvIInv
<1>3. /\ Stored \in SUBSET ChatMessages
      /\ extractor'[x] = r /\ \A y \in Extractions \ {x} : extractor'[y] = extractor[y]
  BY <1>1 DEF ConvIInv, ExtractionInv, Stored
<1>4. Running' = Running
  BY <1>1, <1>3 DEF Running
<1>5. extractor' \in [Extractions -> [at : {"new", "agent", "writing", "done"},
                                     read : SUBSET ChatMessages, asks : Nat, count : Nat]]
  BY <1>1, <1>3 DEF ConvIInv, ExtractionInv
<1>6. ExtractionInv'
  BY <1>1, <1>2, <1>3, <1>4, <1>5, ConvFinite
     DEF ConvIInv, ExtractionInv, CounterBehindOnlyByOverlap, Bound
<1> QED BY <1>2, <1>6 DEF ConvIInv

\* An extraction that ends gives up the questions it could still have added.
LEMMA EndsOnce ==
  ASSUME ConvIInv, NEW x \in Extractions, extractor[x].at # "done", extractor'[x].at = "done",
         \A y \in Extractions \ {x} : extractor'[y] = extractor[y]
  PROVE  /\ Bound * Cardinality(Running)' = Bound * Cardinality(Running) - Bound
         /\ Bound * Cardinality(Running) \in Nat /\ Bound * Cardinality(Extractions) \in Nat
<1>1. Running' = Running \ {x} /\ x \in Running /\ Running \in SUBSET Extractions
  BY DEF Running
<1>2. IsFiniteSet(Running) /\ Cardinality(Running) \in Nat
  BY <1>1, ConvFinite
<1>3. Cardinality(Running') = Cardinality(Running) - 1 /\ Cardinality(Running) > 0
  <2>1. Cardinality(Running \ {x}) = Cardinality(Running) - 1
    BY <1>1, <1>2, FS_RemoveElement
  <2>2. Cardinality(Running) # 0
    BY <1>1, <1>2, FS_EmptySet
  <2> QED BY <2>1, <2>2, <1>1, <1>2
<1> QED BY <1>2, <1>3, ConvFinite, OneLess

LEMMA WriteExtractIInv ==
  ASSUME ConvIInv, NEW x \in Extractions, NEW asks \in Asks(x), WriteExtract(x, asks)
  PROVE  ConvIInv'
<1> PICK uses : uses = (linked /\ plan)
  OBVIOUS
<1> PICK others : others = {y \in Extractions \ {x} : extractor[y].at = "writing"}
  OBVIOUS
<1> PICK r : r = [extractor[x] EXCEPT !.at = IF uses THEN "writing" ELSE "done",
                                      !.asks = IF uses THEN asks ELSE 0,
                                      !.count = IF uses THEN open + asks ELSE 0]
  OBVIOUS
<1>1. /\ extractor[x].at = "agent"
      /\ extractor' = [extractor EXCEPT ![x].at = IF uses THEN "writing" ELSE "done",
                                        ![x].asks = IF uses THEN asks ELSE 0,
                                        ![x].count = IF uses THEN open + asks ELSE 0]
      /\ raced' = IF uses /\ others # {} THEN raced \cup {x} \cup others ELSE raced
      /\ UNCHANGED <<linked, objectives, poster, between, extracted>>
      /\ UNCHANGED <<open, counter>>
  BY DEF WriteExtract, CountOpen
<1>2. PostingInv' /\ Stored' = Stored
  BY <1>1, ExtractionStep DEF ConvIInv
<1>3. asks \in Nat /\ asks <= Bound
  BY ConvFinite DEF Asks, ConvIInv, ExtractionInv
<1>4. /\ extractor'[x] = r /\ \A y \in Extractions \ {x} : extractor'[y] = extractor[y]
      /\ extractor' \in [Extractions -> [at : {"new", "agent", "writing", "done"},
                                     read : SUBSET ChatMessages, asks : Nat, count : Nat]]
  <2>1. r \in [at : {"new", "agent", "writing", "done"},
                 read : SUBSET ChatMessages, asks : Nat, count : Nat]
    <3>1. open + asks \in Nat
      BY <1>3 DEF ConvIInv, ExtractionInv
    <3>2. extractor[x] \in [at : {"new", "agent", "writing", "done"},
                           read : SUBSET ChatMessages, asks : Nat, count : Nat]
      BY DEF ConvIInv, ExtractionInv
    <3> QED BY <1>3, <3>1, <3>2
  <2>2. extractor' = [extractor EXCEPT ![x] = r]
    BY <1>1 DEF ConvIInv, ExtractionInv
  <2> QED BY <2>1, <2>2 DEF ConvIInv, ExtractionInv
<1>5. /\ r.at = IF uses THEN "writing" ELSE "done"
      /\ r.asks = IF uses THEN asks ELSE 0
      /\ r.count = IF uses THEN open + asks ELSE 0
      /\ r.read = extractor[x].read
  BY DEF ConvIInv, ExtractionInv
<1>6. open + Bound * Cardinality(Running)' <= Bound * Cardinality(Extractions)
  <2>1. CASE uses
    <3>1. Running' = Running
      BY <2>1, <1>1, <1>4, <1>5 DEF Running
    <3> QED BY <3>1 DEF ConvIInv, ExtractionInv
  <2>2. CASE ~uses
    <3>1. r.at = "done"
      BY <2>2, <1>5
    <3>2. /\ Bound * Cardinality(Running)' = Bound * Cardinality(Running) - Bound
          /\ Bound * Cardinality(Running) \in Nat /\ Bound * Cardinality(Extractions) \in Nat
      BY <3>1, <1>1, <1>4, EndsOnce
    <3> QED BY <3>2, ConvFinite DEF ConvIInv, ExtractionInv
  <2> QED BY <2>1, <2>2
<1>7. \A y \in Extractions :
       /\ extractor'[y].read \subseteq Stored
       /\ extractor'[y].asks <= Bound
       /\ extractor'[y].at = "writing" =>
            /\ extractor'[y].count <= open + extractor'[y].asks
            /\ y \notin raced' => extractor'[y].count = open + extractor'[y].asks
  <2> SUFFICES ASSUME NEW y \in Extractions
               PROVE  /\ extractor'[y].read \subseteq Stored
                      /\ extractor'[y].asks <= Bound
                      /\ extractor'[y].at = "writing" =>
                           /\ extractor'[y].count <= open + extractor'[y].asks
                           /\ y \notin raced' => extractor'[y].count = open + extractor'[y].asks
    OBVIOUS
  <2>1. CASE y = x
    BY <2>1, <1>3, <1>4, <1>5, ConvFinite DEF ConvIInv, ExtractionInv
  <2>2. CASE y # x
    BY <2>2, <1>1, <1>4 DEF ConvIInv, ExtractionInv
  <2> QED BY <2>1, <2>2
<1>8. ASSUME NEW y \in Extractions, NEW z \in Extractions, y # z,
             extractor'[y].at = "writing", extractor'[z].at = "writing"
      PROVE  y \in raced'
  <2>1. CASE y = x
    BY <2>1, <1>8, <1>1, <1>4, <1>5
  <2>2. CASE z = x
    BY <2>2, <1>8, <1>1, <1>4, <1>5
  <2>3. CASE y # x /\ z # x
    BY <2>3, <1>8, <1>1, <1>4 DEF ConvIInv, ExtractionInv
  <2> QED BY <2>1, <2>2, <2>3
<1>9. CounterBehindOnlyByOverlap'
  BY <1>1 DEF ConvIInv, ExtractionInv, CounterBehindOnlyByOverlap
<1>10. ExtractionInv'
  BY <1>1, <1>2, <1>4, <1>6, <1>7, <1>8, <1>9 DEF ConvIInv, ExtractionInv, Bound
<1> QED BY <1>2, <1>10 DEF ConvIInv

LEMMA CommitExtractIInv ==
  ASSUME ConvIInv, NEW x \in Extractions, CommitExtract(x)
  PROVE  ConvIInv'
<1> PICK r : r = [at |-> "done", read |-> {}, asks |-> 0, count |-> 0]
  OBVIOUS
<1>0. r = [Waiting EXCEPT !.at = "done"]
  BY DEF Waiting
<1>1. /\ extractor[x].at = "writing" /\ extractor' = [extractor EXCEPT ![x] = r]
      /\ open' = open + extractor[x].asks /\ counter' = extractor[x].count
      /\ UNCHANGED <<linked, objectives, poster, between, extracted>>
      /\ UNCHANGED raced
  BY <1>0 DEF CommitExtract
<1>2. PostingInv' /\ Stored' = Stored
  BY <1>1, ExtractionStep DEF ConvIInv
<1>3. /\ extractor'[x] = r /\ \A y \in Extractions \ {x} : extractor'[y] = extractor[y]
      /\ extractor' \in [Extractions -> [at : {"new", "agent", "writing", "done"},
                                     read : SUBSET ChatMessages, asks : Nat, count : Nat]]
  BY <1>1 DEF ConvIInv, ExtractionInv
<1>4. /\ extractor[x].asks \in Nat /\ extractor[x].asks <= Bound /\ extractor[x].count \in Nat
      /\ extractor[x].count <= open + extractor[x].asks
      /\ x \notin raced => extractor[x].count = open + extractor[x].asks
      /\ open \in Nat
  BY <1>1 DEF ConvIInv, ExtractionInv
<1>5. open' + Bound * Cardinality(Running)' <= Bound * Cardinality(Extractions)
  <2>1. /\ Bound * Cardinality(Running)' = Bound * Cardinality(Running) - Bound
        /\ Bound * Cardinality(Running) \in Nat /\ Bound * Cardinality(Extractions) \in Nat
    BY <1>1, <1>3, EndsOnce
  <2> QED BY <2>1, <1>1, <1>4, ConvFinite DEF ConvIInv, ExtractionInv
<1>6. \A y \in Extractions :
       /\ extractor'[y].read \subseteq Stored
       /\ extractor'[y].asks <= Bound
       /\ extractor'[y].at = "writing" =>
            /\ extractor'[y].count <= open' + extractor'[y].asks
            /\ y \in raced
  <2> SUFFICES ASSUME NEW y \in Extractions
               PROVE  /\ extractor'[y].read \subseteq Stored
                      /\ extractor'[y].asks <= Bound
                      /\ extractor'[y].at = "writing" =>
                           /\ extractor'[y].count <= open' + extractor'[y].asks
                           /\ y \in raced
    OBVIOUS
  <2>1. CASE y = x
    BY <2>1, <1>3, ConvFinite
  <2>2. CASE y # x
    <3>1. extractor[y].asks \in Nat /\ extractor[y].count \in Nat
      BY DEF ConvIInv, ExtractionInv
    <3> QED BY <2>2, <3>1, <1>1, <1>3, <1>4 DEF ConvIInv, ExtractionInv
  <2> QED BY <2>1, <2>2
<1>7. \A y, z \in Extractions :
       y # z /\ extractor'[y].at = "writing" /\ extractor'[z].at = "writing" => y \in raced
  BY <1>6
<1>8. CounterBehindOnlyByOverlap'
  BY <1>1, <1>4 DEF CounterBehindOnlyByOverlap
<1>9. ExtractionInv'
  <2>1. open' \in Nat /\ counter' \in Nat
    BY <1>1, <1>4
  <2> QED BY <1>1, <1>2, <1>3, <1>5, <1>6, <1>7, <1>8, <2>1 DEF ExtractionInv, Bound
<1> QED BY <1>2, <1>9 DEF ConvIInv

LEMMA LoseExtractionIInv ==
  ASSUME ConvIInv, NEW x \in Extractions, LoseExtraction(x)
  PROVE  ConvIInv'
<1> PICK r : r = [at |-> "done", read |-> {}, asks |-> 0, count |-> 0]
  OBVIOUS
<1>0. r = [Waiting EXCEPT !.at = "done"]
  BY DEF Waiting
<1>1. /\ extractor[x].at \in {"agent", "writing"} /\ extractor' = [extractor EXCEPT ![x] = r]
      /\ UNCHANGED <<linked, objectives, poster, between, extracted>>
      /\ UNCHANGED <<open, counter, raced>>
  BY <1>0 DEF LoseExtraction
<1>2. PostingInv' /\ Stored' = Stored
  BY <1>1, ExtractionStep DEF ConvIInv
<1>3. /\ extractor'[x] = r /\ \A y \in Extractions \ {x} : extractor'[y] = extractor[y]
      /\ extractor' \in [Extractions -> [at : {"new", "agent", "writing", "done"},
                                     read : SUBSET ChatMessages, asks : Nat, count : Nat]]
  BY <1>1 DEF ConvIInv, ExtractionInv
<1>4. open + Bound * Cardinality(Running)' <= Bound * Cardinality(Extractions)
  <2>1. /\ Bound * Cardinality(Running)' = Bound * Cardinality(Running) - Bound
        /\ Bound * Cardinality(Running) \in Nat /\ Bound * Cardinality(Extractions) \in Nat
    BY <1>1, <1>3, EndsOnce
  <2> QED BY <2>1, ConvFinite DEF ConvIInv, ExtractionInv
<1>5. /\ extractor'[x].read \subseteq Stored /\ extractor'[x].asks <= Bound
      /\ extractor'[x].at # "writing"
  BY <1>3, ConvFinite
<1>6. ExtractionInv'
  BY <1>1, <1>2, <1>3, <1>4, <1>5 DEF ConvIInv, ExtractionInv, CounterBehindOnlyByOverlap, Bound
<1> QED BY <1>2, <1>6 DEF ConvIInv

LEMMA ConvIInvSuffices == ConvIInv => ConversationInv
<1> SUFFICES ASSUME ConvIInv PROVE ConversationInv
  OBVIOUS
<1>1. counter <= Cardinality(Extractions) * Cardinality(ChatMessages)
  <2>1. Cardinality(Running) \in Nat
    BY ConvFinite DEF Running
  <2>2. Bound * Cardinality(Running) \in Nat /\ Bound * Cardinality(Extractions) \in Nat
    BY <2>1, ConvFinite
  <2>3. counter <= Bound * Cardinality(Extractions)
    BY <2>2 DEF ConvIInv, ExtractionInv, CounterBehindOnlyByOverlap
  <2> QED BY <2>3, ConvFinite DEF Bound
<1>2. ConvTypeOK
  BY <1>1 DEF ConvIInv, PostingInv, ExtractionInv, ConvTypeOK
<1>3. OneObjectivePerSession
  <2>1. objectives <= 1
    <3>1. objectives \in {0, 1}
      BY DEF ConvIInv, PostingInv
    <3> QED BY <3>1
  <2>2. \A m \in ChatMessages : poster[m] # "refused"
    <3>1. poster \in [ChatMessages -> {"new", "read with", "read without", "stored"}]
      BY DEF ConvIInv, PostingInv
    <3> QED BY <3>1
  <2> QED BY <2>1, <2>2 DEF OneObjectivePerSession
<1> QED BY <1>2, <1>3 DEF ConvIInv, PostingInv, ExtractionInv, ConversationInv

\* For any number of messages and extractions at once: one objective a session, an
\* extract of every notable message but those under way when the objective was
\* created, and a counter of open questions never too high, and right without a race.
THEOREM ConversationSound == ConvSpec => []ConversationInv
<1>1. ConvInit => ConvIInv
  BY ConvInitIInv
<1>2. ConvIInv /\ [ConvNext]_convVars => ConvIInv'
  <2> SUFFICES ASSUME ConvIInv, [ConvNext]_convVars PROVE ConvIInv'
    OBVIOUS
  <2>1. ASSUME NEW m \in ChatMessages, ReadSession(m) \/ StoreMessage(m) \/ LoseMessage(m)
        PROVE  ConvIInv'
    BY <2>1, ReadSessionIInv, StoreMessageIInv, LoseMessageIInv
  <2>2. ASSUME NEW x \in Extractions, LoadMessages(x) \/ CommitExtract(x) \/ LoseExtraction(x)
        PROVE  ConvIInv'
    BY <2>2, LoadMessagesIInv, CommitExtractIInv, LoseExtractionIInv
  <2>3. ASSUME NEW x \in Extractions, NEW asks \in Asks(x), WriteExtract(x, asks)
        PROVE  ConvIInv'
    BY <2>3, WriteExtractIInv
  <2>4. ASSUME ChatToTasks \/ MakePlan \/ MakeNodes \/ UNCHANGED convVars PROVE ConvIInv'
    <3>1. /\ UNCHANGED <<linked, objectives, poster, between, extracted>>
          /\ UNCHANGED <<extractor, open, counter, raced>>
      BY <2>4 DEF ChatToTasks, MakePlan, MakeNodes, convVars
    <3> QED BY <3>1, PostingStep, ExtractionStep DEF ConvIInv
  <2> QED BY <2>1, <2>2, <2>3, <2>4 DEF ConvNext
<1> QED BY <1>1, <1>2, ConvIInvSuffices, PTL DEF ConvSpec

-----------------------------------------------------------------------------
(* Policies and the deployment mode *)

PayloadOK(y) == y = [body |-> y.body, settings |-> y.settings] /\ y.body \in Editors

\* What is stored is one of the committed versions.
PoliciesTyped ==
  /\ edits \in [Policies -> Nat] /\ DOMAIN policy \subseteq Policies
  /\ \A p \in DOMAIN policy :
       /\ policy[p] = [payload |-> policy[p].payload, revision |-> policy[p].revision]
       /\ policy[p].revision \in Nat /\ PayloadOK(policy[p].payload)
       /\ <<p, policy[p].revision, policy[p].payload>> \in versions
  /\ editor = [c \in Editors |-> editor[c]]
  /\ \A e \in DOMAIN saved :
       e[1] \in DOMAIN policy /\ saved[e] \in Editors /\ editor[saved[e]].at = "saved"

SavedOver(p) == \E c \in Editors : editor[c].policy = p /\ editor[c].at = "overwrote"

\* The stored revision is the highest until somebody saved over another's change.
RevisionsKept ==
  \A v \in versions : /\ v[1] \in DOMAIN policy /\ v[2] \in Nat
                      /\ v[2] <= policy[v[1]].revision \/ SavedOver(v[1])

\* What a request has read still holds, or it has been overtaken.
EditorOK(x) ==
  /\ x = [at |-> x.at, op |-> x.op, policy |-> x.policy, key |-> x.key, read |-> x.read, known |-> x.known]
  /\ x.op = "post" /\ x.at \in {"begun", "saved"} =>
       x.policy \in Policies /\ <<x.policy, x.key>> \notin x.known
  /\ x.op = "settings" /\ x.at = "begun" =>
       /\ x.policy \in DOMAIN policy
       /\ PayloadOK(x.read[1].payload) /\ x.read[1].revision \in Nat
       /\ x.read[2] \in Nat /\ x.read[2] <= edits[x.policy]
       /\ x.read[2] = edits[x.policy] => x.read[1] = policy[x.policy]
  /\ x.op = "mode" /\ x.at \in {"begun", "saved"} =>
       /\ x.read[1] \in Nat /\ x.known \subseteq DOMAIN modes
       /\ \A d \in x.known : modes[d] <= x.read[1]

\* Each mode is one above those its request knew; together they have a bound.
ModesKept ==
  /\ \E n \in Nat : \A c \in DOMAIN modes : modes[c] \in Nat /\ modes[c] <= n
  /\ \A c \in DOMAIN modes :
       c \in Editors /\ editor[c].op = "mode" /\ editor[c].at = "saved" /\ modes[c] = editor[c].read[1] + 1

PolIInv ==
  /\ PoliciesTyped /\ RevisionsKept /\ ModesKept
  /\ \A c \in Editors : EditorOK(editor[c])

\* A set of numbers with a bound has a greatest one.
LEMMA GreatestNumber ==
  ASSUME NEW S, S \subseteq Nat, S # {}, NEW n \in Nat, \A x \in S : x <= n
  PROVE  \E m \in S : \A x \in S : x <= m
<1> DEFINE T == {n - x : x \in S}
<1>1. T \subseteq Nat /\ T # {}
  <2>1. \A x \in S : x \in Nat /\ n - x \in Nat OBVIOUS
  <2> QED BY <2>1
<1>2. PICK R : IsWellFoundedOn(R, Nat) /\ \A x, y \in Nat : x < y => <<x, y>> \in R
  BY NatLessThanWellFounded, Z3 DEF OpToRel
<1>3. \E t \in T : \A u \in T : ~ (<<u, t>> \in R)
  <2>1. \A RR, SS : IsWellFoundedOn(RR, SS) =>
          \A U : U \subseteq SS /\ U # {} => \E x \in U : \A y \in U : ~ (<<y, x>> \in RR)
    BY WFMin, Zenon
  <2>2. \A U : U \subseteq Nat /\ U # {} => \E x \in U : \A y \in U : ~ (<<y, x>> \in R)
    BY <1>2, <2>1, Zenon
  <2> QED BY <1>1, <2>2
<1>4. PICK t \in T : \A u \in T : ~ (<<u, t>> \in R) BY <1>3
<1>5. \A u \in T : t <= u
  <2> TAKE u \in T
  <2>1. u \in Nat /\ t \in Nat BY <1>1
  <2>2. ~(u < t) BY <1>4, <1>2, <2>1
  <2> QED BY <2>1, <2>2
<1>6. PICK m \in S : t = n - m OBVIOUS
<1>7. \A x \in S : x <= m
  <2> TAKE x \in S
  <2>1. n - x \in T OBVIOUS
  <2>2. t <= n - x BY <1>5, <2>1
  <2>3. x \in Nat /\ m \in Nat OBVIOUS
  <2> QED BY <1>6, <2>2, <2>3
<1> QED BY <1>7

\* The newest mode is none, or no older than any there is.
LEMMA NewestIsNewest ==
  ASSUME ModesKept
  PROVE  Newest \in Nat /\ \A d \in DOMAIN modes : modes[d] <= Newest
<1> DEFINE S == {modes[c] : c \in DOMAIN modes}
<1>1. PICK n \in Nat : \A c \in DOMAIN modes : modes[c] \in Nat /\ modes[c] <= n
  BY DEF ModesKept
<1>2. S \subseteq Nat /\ \A x \in S : x <= n
  BY <1>1
<1>3. CASE S = {}
  BY <1>3 DEF Newest, NoMode
<1>4. CASE S # {}
  <2>1. \E m \in S : \A x \in S : x <= m
    <3> HIDE DEF S
    <3> QED BY <1>2, <1>4, GreatestNumber
  <2>2. Newest = CHOOSE m \in S : \A x \in S : x <= m
    BY <1>4 DEF Newest
  <2>3. Newest \in S /\ \A x \in S : x <= Newest
    BY <2>1, <2>2
  <2> QED BY <1>2, <2>3
<1> QED BY <1>3, <1>4

\* Rows are inserted and replaced, never taken away, and a write counts.
TablesGrow ==
  /\ DOMAIN policy \subseteq DOMAIN policy' /\ versions \subseteq versions'
  /\ DOMAIN modes \subseteq DOMAIN modes' /\ \A d \in DOMAIN modes : modes'[d] = modes[d]
  /\ \A p \in Policies : /\ edits'[p] \in Nat /\ edits[p] <= edits'[p]
                         /\ (edits'[p] = edits[p] /\ p \in DOMAIN policy) => policy'[p] = policy[p]

LEMMA EditorStays ==
  ASSUME PolIInv, TablesGrow, NEW x, EditorOK(x) PROVE EditorOK(x)'
<1>1. x.op = "settings" /\ x.at = "begun" =>
       /\ x.policy \in DOMAIN policy'
       /\ x.read[2] <= edits'[x.policy]
       /\ x.read[2] = edits'[x.policy] => x.read[1] = policy'[x.policy]
  <2> SUFFICES ASSUME x.op = "settings", x.at = "begun"
               PROVE  /\ x.policy \in DOMAIN policy'
                      /\ x.read[2] <= edits'[x.policy]
                      /\ x.read[2] = edits'[x.policy] => x.read[1] = policy'[x.policy]
    OBVIOUS
  <2> PICK p, n : p = x.policy /\ n = x.read[2] OBVIOUS
  <2>1. p \in DOMAIN policy /\ p \in Policies /\ n \in Nat /\ n <= edits[p] /\ edits[p] \in Nat
        /\ (n = edits[p] => x.read[1] = policy[p])
    BY DEF EditorOK, PolIInv, PoliciesTyped
  <2>2. /\ edits'[p] \in Nat /\ edits[p] <= edits'[p] /\ p \in DOMAIN policy'
        /\ edits'[p] = edits[p] => policy'[p] = policy[p]
    BY <2>1 DEF TablesGrow
  <2> QED BY <2>1, <2>2
<1>2. x.op = "mode" /\ x.at \in {"begun", "saved"} =>
       x.known \subseteq DOMAIN modes' /\ \A d \in x.known : modes'[d] <= x.read[1]
  BY DEF EditorOK, TablesGrow
<1> QED BY <1>1, <1>2 DEF EditorOK, PayloadOK

\* A request turns, and the others stay as they are.
LEMMA EditorsMove ==
  ASSUME PolIInv, TablesGrow, NEW c \in Editors, NEW y, editor' = [editor EXCEPT ![c] = y], EditorOK(y)',
         editor[c].at # "overwrote"
  PROVE  /\ editor' = [d \in Editors |-> editor'[d]] /\ editor'[c] = y
         /\ \A d \in Editors : d # c => editor'[d] = editor[d]
         /\ \A d \in Editors : EditorOK(editor[d])'
         /\ \A p : SavedOver(p) => SavedOver(p)'
<1>1. editor = [d \in Editors |-> editor[d]]
  BY DEF PolIInv, PoliciesTyped
<1>2. editor' = [d \in Editors |-> IF d = c THEN y ELSE editor[d]]
  BY <1>1
<1>3. ASSUME NEW d \in Editors PROVE EditorOK(editor[d])'
  <2> PICK x : x = editor[d] OBVIOUS
  <2>1. EditorOK(x)' BY EditorStays DEF PolIInv
  <2>2. CASE d = c BY <1>2, <2>2
  <2>3. CASE d # c
    <3>1. x = editor'[d] BY <1>2, <2>3
    <3> QED BY <2>1, <3>1
  <2> QED BY <2>2, <2>3
<1>4. \A p : SavedOver(p) => SavedOver(p)'
  BY <1>2 DEF SavedOver
<1> QED BY <1>2, <1>3, <1>4

\* A request turns, and no table is written.
LEMMA OnlyAnEditor ==
  ASSUME PolIInv, NEW c \in Editors, NEW y, editor' = [editor EXCEPT ![c] = y], EditorOK(y),
         editor[c].at \in {"new", "begun"}, UNCHANGED <<policy, saved, modes, versions, edits>>
  PROVE  PolIInv'
<1>1. TablesGrow
  BY DEF TablesGrow, PolIInv, PoliciesTyped
<1>2. EditorOK(y)'
  BY <1>1, EditorStays
<1>3. /\ editor' = [d \in Editors |-> editor'[d]]
      /\ \A d \in Editors : d # c => editor'[d] = editor[d]
      /\ \A d \in Editors : EditorOK(editor[d])'
      /\ \A p : SavedOver(p) => SavedOver(p)'
  BY <1>1, <1>2, EditorsMove
<1>4. PoliciesTyped'
  BY <1>3 DEF PolIInv, PoliciesTyped, PayloadOK
<1>5. RevisionsKept'
  BY <1>3 DEF PolIInv, RevisionsKept
<1>6. ModesKept'
  BY <1>3 DEF PolIInv, ModesKept
<1> QED BY <1>3, <1>4, <1>5, <1>6 DEF PolIInv

\* A request with these fields.
RequestOf(a, o, p, k, r, n) ==
  [at |-> a, op |-> o, policy |-> p, key |-> k, read |-> r, known |-> n]

LEMMA UnsentIs == Unsent = RequestOf("new", "none", Unsent.policy, Unsent.key, <<>>, {})
  BY DEF Unsent, RequestOf

\* A new request, once it has read what it needs: one field after the other.
LEMMA PostBegun ==
  ASSUME NEW a, NEW p, NEW k, NEW known
  PROVE  [Unsent EXCEPT !.op = "post", !.policy = p, !.key = k, !.at = a, !.known = known] =
           RequestOf(a, "post", p, k, <<>>, known)
<1>1. PICK u, q, l : u = Unsent /\ q = Unsent.policy /\ l = Unsent.key OBVIOUS
<1>2. u = RequestOf("new", "none", q, l, <<>>, {})
  BY <1>1, UnsentIs
<1>3. PICK u1 : u1 = [u EXCEPT !.op = "post"] OBVIOUS
<1>4. u1 = RequestOf("new", "post", q, l, <<>>, {})
  BY <1>3, <1>2 DEF RequestOf
<1>5. PICK u2 : u2 = [u1 EXCEPT !.policy = p] OBVIOUS
<1>6. u2 = RequestOf("new", "post", p, l, <<>>, {})
  BY <1>5, <1>4 DEF RequestOf
<1>7. PICK u3 : u3 = [u2 EXCEPT !.key = k] OBVIOUS
<1>8. u3 = RequestOf("new", "post", p, k, <<>>, {})
  BY <1>7, <1>6 DEF RequestOf
<1>9. PICK u4 : u4 = [u3 EXCEPT !.at = a] OBVIOUS
<1>10. u4 = RequestOf(a, "post", p, k, <<>>, {})
  BY <1>9, <1>8 DEF RequestOf
<1>11. PICK u5 : u5 = [u4 EXCEPT !.known = known] OBVIOUS
<1>12. u5 = RequestOf(a, "post", p, k, <<>>, known)
  BY <1>11, <1>10 DEF RequestOf
<1> QED BY <1>1, <1>3, <1>5, <1>7, <1>9, <1>11, <1>12, Zenon

LEMMA SettingsBegun ==
  ASSUME NEW a, NEW p, NEW read
  PROVE  [Unsent EXCEPT !.op = "settings", !.policy = p, !.at = a, !.read = read] =
           RequestOf(a, "settings", p, Unsent.key, read, {})
<1>1. PICK u, q, l : u = Unsent /\ q = Unsent.policy /\ l = Unsent.key OBVIOUS
<1>2. u = RequestOf("new", "none", q, l, <<>>, {})
  BY <1>1, UnsentIs
<1>3. PICK u1 : u1 = [u EXCEPT !.op = "settings"] OBVIOUS
<1>4. u1 = RequestOf("new", "settings", q, l, <<>>, {})
  BY <1>3, <1>2 DEF RequestOf
<1>5. PICK u2 : u2 = [u1 EXCEPT !.policy = p] OBVIOUS
<1>6. u2 = RequestOf("new", "settings", p, l, <<>>, {})
  BY <1>5, <1>4 DEF RequestOf
<1>7. PICK u3 : u3 = [u2 EXCEPT !.at = a] OBVIOUS
<1>8. u3 = RequestOf(a, "settings", p, l, <<>>, {})
  BY <1>7, <1>6 DEF RequestOf
<1>9. PICK u4 : u4 = [u3 EXCEPT !.read = read] OBVIOUS
<1>10. u4 = RequestOf(a, "settings", p, l, read, {})
  BY <1>9, <1>8 DEF RequestOf
<1> QED BY <1>1, <1>3, <1>5, <1>7, <1>9, <1>10, Zenon

LEMMA ModeBegun ==
  ASSUME NEW a, NEW read, NEW known
  PROVE  [Unsent EXCEPT !.op = "mode", !.at = a, !.read = read, !.known = known] =
           RequestOf(a, "mode", Unsent.policy, Unsent.key, read, known)
<1>1. PICK u, q, l : u = Unsent /\ q = Unsent.policy /\ l = Unsent.key OBVIOUS
<1>2. u = RequestOf("new", "none", q, l, <<>>, {})
  BY <1>1, UnsentIs
<1>3. PICK u1 : u1 = [u EXCEPT !.op = "mode"] OBVIOUS
<1>4. u1 = RequestOf("new", "mode", q, l, <<>>, {})
  BY <1>3, <1>2 DEF RequestOf
<1>5. PICK u2 : u2 = [u1 EXCEPT !.at = a] OBVIOUS
<1>6. u2 = RequestOf(a, "mode", q, l, <<>>, {})
  BY <1>5, <1>4 DEF RequestOf
<1>7. PICK u3 : u3 = [u2 EXCEPT !.read = read] OBVIOUS
<1>8. u3 = RequestOf(a, "mode", q, l, read, {})
  BY <1>7, <1>6 DEF RequestOf
<1>9. PICK u4 : u4 = [u3 EXCEPT !.known = known] OBVIOUS
<1>10. u4 = RequestOf(a, "mode", q, l, read, known)
  BY <1>9, <1>8 DEF RequestOf
<1> QED BY <1>1, <1>3, <1>5, <1>7, <1>9, <1>10, Zenon

LEMMA BeginPostStep == ASSUME PolIInv, NEW c \in Editors, BeginPost(c) PROVE PolIInv'
<1>1. PICK p \in Policies, k \in PolicyKeys :
        editor' = [editor EXCEPT ![c] = [Unsent EXCEPT !.op = "post", !.policy = p, !.key = k,
          !.at = IF KnownPost(p, k) THEN "duplicated" ELSE "begun", !.known = DOMAIN saved]]
  BY DEF BeginPost
<1> PICK a : a = IF KnownPost(p, k) THEN "duplicated" ELSE "begun" OBVIOUS
<1> PICK known : known = DOMAIN saved OBVIOUS
<1> DEFINE y == [at |-> a, op |-> "post", policy |-> p, key |-> k, read |-> <<>>, known |-> known]
<1>2. editor' = [editor EXCEPT ![c] = y]
  <2>1. [Unsent EXCEPT !.op = "post", !.policy = p, !.key = k, !.at = a, !.known = known] = y
    BY PostBegun DEF y, RequestOf
  <2> QED BY <1>1, <2>1
<1>3. EditorOK(y)
  BY DEF EditorOK, KnownPost
<1> HIDE DEF y
<1> QED BY <1>2, <1>3, OnlyAnEditor DEF BeginPost

LEMMA BeginSettingsStep == ASSUME PolIInv, NEW c \in Editors, BeginSettings(c) PROVE PolIInv'
<1>1. PICK p \in Policies :
        editor' = [editor EXCEPT ![c] = [Unsent EXCEPT !.op = "settings", !.policy = p,
          !.at = IF p \in DOMAIN policy THEN "begun" ELSE "absent",
          !.read = IF p \in DOMAIN policy THEN <<policy[p], edits[p]>> ELSE <<>>]]
  BY DEF BeginSettings
<1>4. ASSUME NEW a1, NEW r1
      PROVE  [Unsent EXCEPT !.op = "settings", !.policy = p, !.at = a1, !.read = r1] =
               RequestOf(a1, "settings", p, Unsent.key, r1, {})
  BY SettingsBegun
<1> PICK a : a = IF p \in DOMAIN policy THEN "begun" ELSE "absent" OBVIOUS
<1> PICK read : read = IF p \in DOMAIN policy THEN <<policy[p], edits[p]>> ELSE <<>> OBVIOUS
<1> DEFINE y == [at |-> a, op |-> "settings", policy |-> p, key |-> Unsent.key,
                 read |-> read, known |-> {}]
<1>2. editor' = [editor EXCEPT ![c] = y]
  <2>1. [Unsent EXCEPT !.op = "settings", !.policy = p, !.at = a, !.read = read] = y
    BY <1>4 DEF y, RequestOf
  <2> QED BY <1>1, <2>1
<1>3. EditorOK(y)
  <2>1. CASE p \in DOMAIN policy
    <3>1. read[1] = policy[p] /\ read[2] = edits[p] /\ a = "begun" BY <2>1
    <3>2. policy[p].revision \in Nat /\ PayloadOK(policy[p].payload) /\ edits[p] \in Nat
      BY <2>1 DEF PolIInv, PoliciesTyped
    <3> QED BY <2>1, <3>1, <3>2 DEF EditorOK
  <2>2. CASE p \notin DOMAIN policy
    <3>1. a = "absent" BY <2>2
    <3> QED BY <3>1 DEF EditorOK
  <2> QED BY <2>1, <2>2
<1> HIDE DEF y
<1> QED BY <1>2, <1>3, OnlyAnEditor DEF BeginSettings

LEMMA BeginModeStep == ASSUME PolIInv, NEW c \in Editors, BeginMode(c) PROVE PolIInv'
<1> PICK n, known : n = Newest /\ known = DOMAIN modes OBVIOUS
<1>1. editor' = [editor EXCEPT ![c] = [Unsent EXCEPT !.op = "mode", !.at = "begun", !.read = <<n>>, !.known = known]]
  BY DEF BeginMode, CurrentMode
<1>4. ASSUME NEW a1, NEW r1, NEW k1
      PROVE  [Unsent EXCEPT !.op = "mode", !.at = a1, !.read = r1, !.known = k1] =
               RequestOf(a1, "mode", Unsent.policy, Unsent.key, r1, k1)
  BY ModeBegun
<1>5. PICK a, read : a = "begun" /\ read = <<n>> OBVIOUS
<1> DEFINE y == [at |-> a, op |-> "mode", policy |-> Unsent.policy,
                 key |-> Unsent.key, read |-> read, known |-> known]
<1>2. editor' = [editor EXCEPT ![c] = y]
  <2>1. [Unsent EXCEPT !.op = "mode", !.at = a, !.read = read, !.known = known] = y
    BY <1>4 DEF y, RequestOf
  <2> QED BY <1>1, <1>5, <2>1
<1>3. EditorOK(y)
  <2>1. read[1] = n /\ a = "begun" BY <1>5
  <2> QED BY <2>1, NewestIsNewest DEF EditorOK, PolIInv
<1> HIDE DEF y
<1> QED BY <1>2, <1>3, OnlyAnEditor DEF BeginMode

\* An answered request.
Answer(x, a) == RequestOf(a, x.op, x.policy, x.key, x.read, x.known)

LEMMA AnsweredIs ==
  ASSUME PolIInv, NEW c \in Editors, NEW a, Answered(c, a)
  PROVE  editor' = [editor EXCEPT ![c] = Answer(editor[c], a)]
<1>1. editor = [d \in Editors |-> editor[d]]
  BY DEF PolIInv, PoliciesTyped
<1>2. ASSUME NEW x, x = RequestOf(x.at, x.op, x.policy, x.key, x.read, x.known)
      PROVE  [x EXCEPT !.at = a] = Answer(x, a)
  BY <1>2 DEF Answer, RequestOf
<1>3. [editor[c] EXCEPT !.at = a] = Answer(editor[c], a)
  BY <1>2 DEF PolIInv, EditorOK, RequestOf
<1> QED BY <1>1, <1>3 DEF Answered

LEMMA AbandonEditStep == ASSUME PolIInv, NEW c \in Editors, AbandonEdit(c) PROVE PolIInv'
<1> DEFINE y == Answer(editor[c], "broken")
<1>1. editor' = [editor EXCEPT ![c] = y] /\ UNCHANGED <<policy, saved, modes, versions, edits>>
      /\ editor[c].at \in {"new", "begun"}
  BY AnsweredIs DEF AbandonEdit
<1>2. EditorOK(y)
  BY DEF EditorOK, Answer, RequestOf
<1> HIDE DEF y
<1> QED BY <1>1, <1>2, OnlyAnEditor

\* The request is about to write this policy.
Writing(c, p) ==
  editor[c].at = "begun" /\ editor[c].op \in {"post", "settings"} /\ editor[c].policy = p

\* A write that was answered puts the row and its version, and counts.
LEMMA StoredStep ==
  ASSUME PolIInv, NEW c \in Editors, NEW p \in Policies, NEW payload, PayloadOK(payload), NEW n \in Nat, NEW a,
         Store(p, payload, n), Answered(c, a), UNCHANGED modes,
         Writing(c, p),
         a \in {"saved", "overwrote"},
         (\A v \in versions : v[1] = p => v[2] < n) \/ a = "overwrote" \/ SavedOver(p),
         \A e \in DOMAIN saved' :
           \/ e \in DOMAIN saved /\ saved'[e] = saved[e]
           \/ e[1] = p /\ saved'[e] = c /\ a = "saved"
  PROVE  /\ PolIInv'
         /\ policy'[p] = [payload |-> payload, revision |-> n]
         /\ \A q \in DOMAIN policy : q # p => policy'[q] = policy[q]
         /\ editor'[c] = Answer(editor[c], a)
         /\ (\A v \in versions : v[1] = p => v[2] < n) \/ SavedOver(p)'
<1> PICK y : y = Answer(editor[c], a) OBVIOUS
<1>1. editor' = [editor EXCEPT ![c] = y]
  BY AnsweredIs
<1>2. /\ policy' = [i \in DOMAIN policy \cup {p} |->
                     IF i = p THEN [payload |-> payload, revision |-> n] ELSE policy[i]]
      /\ versions' = versions \cup {<<p, n, payload>>}
      /\ edits' = [edits EXCEPT ![p] = edits[p] + 1]
  BY DEF Store, Upserted
<1>3. /\ DOMAIN policy' = DOMAIN policy \cup {p}
      /\ policy'[p] = [payload |-> payload, revision |-> n]
      /\ \A q \in DOMAIN policy : q # p => policy'[q] = policy[q]
  BY <1>2
<1>4. edits \in [Policies -> Nat]
  BY DEF PolIInv, PoliciesTyped
<1>5. /\ edits' \in [Policies -> Nat] /\ edits'[p] = edits[p] + 1
      /\ \A q \in Policies : q # p => edits'[q] = edits[q]
  <2>1. edits[p] + 1 \in Nat BY <1>4
  <2> QED BY <1>2, <1>4, <2>1
<1>6. TablesGrow
  <2>1. DOMAIN policy \subseteq DOMAIN policy' /\ versions \subseteq versions'
        /\ DOMAIN modes \subseteq DOMAIN modes' /\ \A d \in DOMAIN modes : modes'[d] = modes[d]
    BY <1>2, <1>3
  <2>2. ASSUME NEW q \in Policies
        PROVE  /\ edits'[q] \in Nat /\ edits[q] <= edits'[q]
               /\ (edits'[q] = edits[q] /\ q \in DOMAIN policy) => policy'[q] = policy[q]
    <3>1. edits[p] \in Nat /\ edits[q] \in Nat /\ edits'[q] \in Nat BY <1>4, <1>5
    <3>2. CASE q = p
      BY <1>5, <3>1, <3>2
    <3>3. CASE q # p
      BY <1>3, <1>5, <3>1, <3>3
    <3> QED BY <3>2, <3>3
  <2> QED BY <2>1, <2>2 DEF TablesGrow
<1>7. EditorOK(y)
  <2>1. EditorOK(editor[c]) BY DEF PolIInv
  <2> QED BY <2>1 DEF EditorOK, Answer, RequestOf, Writing
<1>8. EditorOK(y)'
  BY <1>6, <1>7, EditorStays
<1>9. /\ editor' = [d \in Editors |-> editor'[d]] /\ editor'[c] = y
      /\ \A d \in Editors : d # c => editor'[d] = editor[d]
      /\ \A d \in Editors : EditorOK(editor[d])'
      /\ \A q : SavedOver(q) => SavedOver(q)'
  <2>1. editor[c].at # "overwrote" BY DEF Writing
  <2> QED BY <1>1, <1>6, <1>8, <2>1, EditorsMove
<1>10. y.at = a /\ y.policy = p /\ y.op = editor[c].op /\ editor[c].at = "begun" /\ editor[c].op # "mode"
  BY DEF Answer, RequestOf, Writing
<1>11. (\A v \in versions : v[1] = p => v[2] < n) \/ SavedOver(p)'
  <2>1. CASE a = "overwrote"
    BY <1>9, <1>10, <2>1 DEF SavedOver
  <2> QED BY <1>9, <2>1
<1>12. PoliciesTyped'
  <2>1. ASSUME NEW q \in DOMAIN policy'
        PROVE  /\ policy'[q] = [payload |-> policy'[q].payload, revision |-> policy'[q].revision]
               /\ policy'[q].revision \in Nat /\ PayloadOK(policy'[q].payload)
               /\ <<q, policy'[q].revision, policy'[q].payload>> \in versions'
    <3>1. CASE q = p BY <1>2, <1>3, <3>1
    <3>2. CASE q # p
      <4>1. q \in DOMAIN policy /\ policy'[q] = policy[q] BY <1>3, <3>2
      <4> QED BY <4>1, <1>2 DEF PolIInv, PoliciesTyped
    <3> QED BY <3>1, <3>2
  <2>2. ASSUME NEW e \in DOMAIN saved'
        PROVE  e[1] \in DOMAIN policy' /\ saved'[e] \in Editors /\ editor'[saved'[e]].at = "saved"
    <3>1. CASE e \in DOMAIN saved /\ saved'[e] = saved[e]
      <4>1. e[1] \in DOMAIN policy /\ saved[e] \in Editors /\ editor[saved[e]].at = "saved"
        BY <3>1 DEF PolIInv, PoliciesTyped
      <4>2. saved[e] # c BY <4>1, <1>10
      <4> QED BY <3>1, <4>1, <4>2, <1>3, <1>9
    <3>2. CASE e[1] = p /\ saved'[e] = c /\ a = "saved"
      BY <3>2, <1>3, <1>9, <1>10
    <3> QED BY <3>1, <3>2
  <2>3. DOMAIN policy' \subseteq Policies
    BY <1>3 DEF PolIInv, PoliciesTyped
  <2> QED BY <1>5, <1>9, <2>1, <2>2, <2>3 DEF PoliciesTyped, PayloadOK
<1>13. RevisionsKept'
  <2>1. ASSUME NEW v \in versions'
        PROVE  v[1] \in DOMAIN policy' /\ v[2] \in Nat /\ (v[2] <= policy'[v[1]].revision \/ SavedOver(v[1])')
    <3>1. CASE v = <<p, n, payload>>
      BY <3>1, <1>3
    <3>2. CASE v \in versions
      <4>1. v[1] \in DOMAIN policy /\ v[2] \in Nat /\ (v[2] <= policy[v[1]].revision \/ SavedOver(v[1]))
        BY <3>2 DEF PolIInv, RevisionsKept
      <4>2. CASE v[1] = p
        BY <3>2, <4>1, <4>2, <1>3, <1>11
      <4>3. CASE v[1] # p
        BY <4>1, <4>3, <1>3, <1>9
      <4> QED BY <4>2, <4>3
    <3> QED BY <1>2, <3>1, <3>2
  <2>2. \A v \in versions' : (SavedOver(v[1]))' <=> \E d \in Editors : editor'[d].policy = v[1] /\ editor'[d].at = "overwrote"
    BY DEF SavedOver
  <2> QED BY <2>1, <2>2 DEF RevisionsKept, SavedOver
<1>14. ModesKept'
  <2>1. ASSUME NEW d \in DOMAIN modes
        PROVE  d \in Editors /\ editor'[d].op = "mode" /\ editor'[d].at = "saved" /\ modes[d] = editor'[d].read[1] + 1
    <3>1. d \in Editors /\ editor[d].op = "mode" /\ editor[d].at = "saved" /\ modes[d] = editor[d].read[1] + 1
      BY DEF PolIInv, ModesKept
    <3>2. d # c BY <3>1, <1>10
    <3> QED BY <3>1, <3>2, <1>9
  <2>2. \E m \in Nat : \A d \in DOMAIN modes : modes[d] \in Nat /\ modes[d] <= m
    BY DEF PolIInv, ModesKept
  <2> QED BY <2>1, <2>2 DEF ModesKept
<1>15. \A d \in Editors : EditorOK(editor[d])'
  BY <1>9
<1> QED BY <1>3, <1>9, <1>11, <1>12, <1>13, <1>14, <1>15 DEF PolIInv

\* What a step may never do to a policy.
PolicyStep(p) ==
  /\ policy'[p].payload.body # policy[p].payload.body =>
       \E c \in Editors :
         /\ editor[c].policy = p /\ editor[c].at = "begun"
         /\ \/ editor[c].op = "post" /\ editor'[c].at = "saved"
            \/ editor[c].op = "settings" /\ editor'[c].at = "overwrote"
  /\ policy'[p] # policy[p] =>
       \/ \A v \in versions : v[1] = p => v[2] < policy'[p].revision
       \/ \E c \in Editors : editor[c].policy = p /\ editor'[c].at = "overwrote"

LEMMA SavePostStep ==
  ASSUME PolIInv, NEW c \in Editors, SavePost(c)
  PROVE  PolIInv' /\ \A q \in DOMAIN policy : PolicyStep(q)
<1> PICK p, k : p = editor[c].policy /\ k = editor[c].key OBVIOUS
<1>1. editor[c].at = "begun" /\ editor[c].op = "post" /\ p \in Policies
  BY DEF SavePost, PolIInv, EditorOK
<1>2. CASE /\ Store(p, [body |-> c, settings |-> "none"], NextRevision(p))
           /\ saved' = IF <<p, k>> \in DOMAIN saved THEN saved ELSE Upserted(saved, <<p, k>>, c)
           /\ Answered(c, "saved") /\ UNCHANGED modes
  <2> PICK payload, n : payload = [body |-> c, settings |-> "none"] /\ n = NextRevision(p) OBVIOUS
  <2>1. PayloadOK(payload) BY DEF PayloadOK
  <2>2. n \in Nat /\ ((\A v \in versions : v[1] = p => v[2] < n) \/ SavedOver(p))
    <3>1. CASE p \in DOMAIN policy
      <4>1. policy[p].revision \in Nat /\ n = policy[p].revision + 1
        BY <3>1 DEF PolIInv, PoliciesTyped, NextRevision
      <4>2. \A v \in versions : v[2] \in Nat /\ (v[1] = p => v[2] <= policy[p].revision \/ SavedOver(p))
        BY DEF PolIInv, RevisionsKept
      <4> QED BY <4>1, <4>2
    <3>2. CASE p \notin DOMAIN policy
      BY <3>2 DEF PolIInv, RevisionsKept, NextRevision
    <3> QED BY <3>1, <3>2
  <2>3. \A e \in DOMAIN saved' :
           \/ e \in DOMAIN saved /\ saved'[e] = saved[e]
           \/ e[1] = p /\ saved'[e] = c
    <3> PICK e0 : e0 = <<p, k>> OBVIOUS
    <3>1. e0[1] = p OBVIOUS
    <3>2. CASE e0 \in DOMAIN saved BY <1>2, <3>2
    <3>3. CASE e0 \notin DOMAIN saved
      <4>1. saved' = [i \in DOMAIN saved \cup {e0} |-> IF i = e0 THEN c ELSE saved[i]]
        BY <1>2, <3>3 DEF Upserted
      <4> QED BY <4>1, <3>1
    <3> QED BY <3>2, <3>3
  <2>4. /\ PolIInv'
        /\ policy'[p] = [payload |-> payload, revision |-> n]
        /\ \A q \in DOMAIN policy : q # p => policy'[q] = policy[q]
        /\ editor'[c] = Answer(editor[c], "saved")
        /\ (\A v \in versions : v[1] = p => v[2] < n) \/ SavedOver(p)
    <3>1. /\ PolIInv'
          /\ policy'[p] = [payload |-> payload, revision |-> n]
          /\ \A q \in DOMAIN policy : q # p => policy'[q] = policy[q]
          /\ editor'[c] = Answer(editor[c], "saved")
      <4> PICK a : a = "saved" OBVIOUS
      <4>1. /\ Writing(c, p) /\ Store(p, payload, n) /\ Answered(c, a) /\ UNCHANGED modes
            /\ a \in {"saved", "overwrote"}
        BY <1>1, <1>2 DEF Writing
      <4>2. \A e \in DOMAIN saved' :
             \/ e \in DOMAIN saved /\ saved'[e] = saved[e]
             \/ e[1] = p /\ saved'[e] = c /\ a = "saved"
        BY <2>3
      <4>3. n \in Nat /\ ((\A v \in versions : v[1] = p => v[2] < n) \/ a = "overwrote" \/ SavedOver(p))
        BY <2>2
      <4> QED BY <1>1, <2>1, <4>1, <4>2, <4>3, StoredStep
    <3> QED BY <2>2, <3>1
  <2>5. editor'[c].at = "saved"
    BY <2>4 DEF Answer, RequestOf
  <2>6. SavedOver(p) => \E d \in Editors : editor[d].policy = p /\ editor'[d].at = "overwrote"
    <3> SUFFICES ASSUME NEW d \in Editors, editor[d].policy = p, editor[d].at = "overwrote"
                 PROVE  editor'[d].at = "overwrote"
      BY DEF SavedOver
    <3>1. d # c BY <1>1
    <3>2. editor = [x \in Editors |-> editor[x]] BY DEF PolIInv, PoliciesTyped
    <3>3. editor'[d] = editor[d] BY <1>2, <3>1, <3>2 DEF Answered
    <3> QED BY <3>3
  <2>7. ASSUME NEW q \in DOMAIN policy PROVE PolicyStep(q)
    <3>1. CASE q # p BY <2>4, <3>1 DEF PolicyStep
    <3>2. CASE q = p
      <4>1. \/ \A v \in versions : v[1] = q => v[2] < policy'[q].revision
            \/ \E d \in Editors : editor[d].policy = q /\ editor'[d].at = "overwrote"
        BY <2>4, <2>6, <3>2
      <4>2. editor[c].policy = q /\ editor[c].at = "begun" /\ editor[c].op = "post" /\ editor'[c].at = "saved"
        BY <1>1, <2>5, <3>2
      <4> QED BY <4>1, <4>2 DEF PolicyStep
    <3> QED BY <3>1, <3>2
  <2> QED BY <2>4, <2>7
<1>3. CASE Answered(c, "refused") /\ UNCHANGED <<policy, saved, modes, versions, edits>>
  <2> DEFINE y == Answer(editor[c], "refused")
  <2>1. editor' = [editor EXCEPT ![c] = y] BY <1>3, AnsweredIs
  <2>2. EditorOK(y) BY DEF EditorOK, Answer, RequestOf
  <2>3. PolIInv'
    <3> HIDE DEF y
    <3> QED BY <1>1, <1>3, <2>1, <2>2, OnlyAnEditor
  <2> QED BY <1>3, <2>3 DEF PolicyStep
<1> QED BY <1>2, <1>3 DEF SavePost

LEMMA SaveSettingsStep ==
  ASSUME PolIInv, NEW c \in Editors, SaveSettings(c)
  PROVE  PolIInv' /\ \A q \in DOMAIN policy : PolicyStep(q)
<1> PICK p, x : p = editor[c].policy /\ x = editor[c] OBVIOUS
<1> PICK a : a = IF Overtaken(c) THEN "overwrote" ELSE "saved" OBVIOUS
<1> PICK payload, n : payload = Merged(c) /\ n = x.read[1].revision + 1 OBVIOUS
<1>1. /\ x.at = "begun" /\ x.op = "settings" /\ x.policy = p
      /\ Store(p, payload, n) /\ Answered(c, a) /\ UNCHANGED <<saved, modes>>
  BY DEF SaveSettings
<1>2. /\ p \in DOMAIN policy /\ p \in Policies
      /\ PayloadOK(x.read[1].payload) /\ x.read[1].revision \in Nat
      /\ x.read[2] \in Nat /\ x.read[2] <= edits[p] /\ edits[p] \in Nat
      /\ (x.read[2] = edits[p] => x.read[1] = policy[p])
  BY <1>1 DEF PolIInv, PoliciesTyped, EditorOK
<1>3. payload.body = x.read[1].payload.body /\ PayloadOK(payload)
  <2> PICK w : w = x.read[1].payload OBVIOUS
  <2>1. w = [body |-> w.body, settings |-> w.settings] /\ w.body \in Editors BY <1>2 DEF PayloadOK
  <2>2. [w EXCEPT !.settings = c] = [body |-> w.body, settings |-> c] BY <2>1
  <2>3. payload = [w EXCEPT !.settings = c] BY DEF Merged
  <2>4. payload = [body |-> w.body, settings |-> c] BY <2>2, <2>3
  <2> QED BY <2>1, <2>4 DEF PayloadOK
<1>4. a = "overwrote" \/ (a = "saved" /\ x.read[1] = policy[p])
  BY <1>2 DEF Overtaken
<1>5. n \in Nat /\ ((\A v \in versions : v[1] = p => v[2] < n) \/ a = "overwrote" \/ SavedOver(p))
  <2>1. CASE x.read[1] = policy[p]
    <3>1. policy[p].revision \in Nat /\ n = policy[p].revision + 1
      BY <1>2, <2>1
    <3>2. \A v \in versions : v[2] \in Nat /\ (v[1] = p => v[2] <= policy[p].revision \/ SavedOver(p))
      BY DEF PolIInv, RevisionsKept
    <3> QED BY <3>1, <3>2
  <2> QED BY <1>2, <1>4, <2>1
<1>6. /\ PolIInv'
      /\ policy'[p] = [payload |-> payload, revision |-> n]
      /\ \A q \in DOMAIN policy : q # p => policy'[q] = policy[q]
      /\ editor'[c] = Answer(editor[c], a)
  <2>1. \A e \in DOMAIN saved' : e \in DOMAIN saved /\ saved'[e] = saved[e]
    BY <1>1
  <2>2. /\ Writing(c, p) /\ Store(p, payload, n) /\ Answered(c, a) /\ UNCHANGED modes
        /\ a \in {"saved", "overwrote"}
    BY <1>1, <1>4 DEF Writing
  <2>3. \A e \in DOMAIN saved' :
          \/ e \in DOMAIN saved /\ saved'[e] = saved[e]
          \/ e[1] = p /\ saved'[e] = c /\ a = "saved"
    BY <2>1
  <2> QED BY <1>2, <1>3, <1>5, <2>2, <2>3, StoredStep
<1>7. editor'[c].at = a
  BY <1>6 DEF Answer, RequestOf
<1>8. SavedOver(p) => \E d \in Editors : editor[d].policy = p /\ editor'[d].at = "overwrote"
  <2> SUFFICES ASSUME NEW d \in Editors, editor[d].policy = p, editor[d].at = "overwrote"
               PROVE  editor'[d].at = "overwrote"
    BY DEF SavedOver
  <2>1. d # c BY <1>1
  <2>2. editor = [z \in Editors |-> editor[z]] BY DEF PolIInv, PoliciesTyped
  <2>3. editor'[d] = editor[d] BY <1>1, <2>1, <2>2 DEF Answered
  <2> QED BY <2>3
<1>9. ASSUME NEW q \in DOMAIN policy PROVE PolicyStep(q)
  <2>1. CASE q # p BY <1>6, <2>1 DEF PolicyStep
  <2>2. CASE q = p /\ a = "overwrote"
    <3>1. editor[c].policy = q /\ editor[c].at = "begun" /\ editor[c].op = "settings" /\ editor'[c].at = "overwrote"
      BY <1>1, <1>7, <2>2
    <3> QED BY <3>1 DEF PolicyStep
  <2>3. CASE q = p /\ x.read[1] = policy[p]
    <3>1. policy'[q].payload.body = policy[q].payload.body
      BY <1>3, <1>6, <2>3
    <3>2. \/ \A v \in versions : v[1] = q => v[2] < policy'[q].revision
          \/ \E d \in Editors : editor[d].policy = q /\ editor'[d].at = "overwrote"
      <4>1. CASE a = "overwrote" BY <1>1, <1>7, <2>3, <4>1
      <4> QED BY <1>5, <1>6, <1>8, <2>3, <4>1
    <3> QED BY <3>1, <3>2 DEF PolicyStep
  <2> QED BY <1>4, <2>1, <2>2, <2>3
<1> QED BY <1>6, <1>9

LEMMA InsertModeStep == ASSUME PolIInv, NEW c \in Editors, InsertMode(c) PROVE PolIInv'
<1> PICK n : n = editor[c].read[1] OBVIOUS
<1> PICK y : y = Answer(editor[c], "saved") OBVIOUS
<1>1. /\ editor[c].at = "begun" /\ editor[c].op = "mode" /\ Answered(c, "saved")
      /\ UNCHANGED <<policy, saved, versions, edits>>
      /\ modes' = [i \in DOMAIN modes \cup {c} |-> IF i = c THEN n + 1 ELSE modes[i]]
  BY DEF InsertMode, Upserted
<1>2. n \in Nat
  BY <1>1 DEF PolIInv, EditorOK
<1>3. c \notin DOMAIN modes
  BY <1>1 DEF PolIInv, ModesKept
<1>4. TablesGrow
  BY <1>1, <1>3 DEF TablesGrow, PolIInv, PoliciesTyped
<1>5. editor' = [editor EXCEPT ![c] = y]
  BY <1>1, AnsweredIs
<1>6. EditorOK(y)
  <2>1. EditorOK(editor[c]) BY DEF PolIInv
  <2> QED BY <1>1, <2>1 DEF EditorOK, Answer, RequestOf
<1>7. EditorOK(y)'
  BY <1>4, <1>6, EditorStays
<1>8. y.at = "saved" /\ y.op = "mode" /\ y.read[1] = n
  BY <1>1 DEF Answer, RequestOf
<1>9. /\ editor' = [d \in Editors |-> editor'[d]] /\ editor'[c] = y
      /\ \A d \in Editors : d # c => editor'[d] = editor[d]
      /\ \A d \in Editors : EditorOK(editor[d])'
      /\ \A q : SavedOver(q) => SavedOver(q)'
  <2>1. editor[c].at # "overwrote" BY <1>1
  <2> QED BY <1>4, <1>5, <1>7, <2>1, EditorsMove
<1>10. PoliciesTyped'
  <2>1. \A e \in DOMAIN saved : saved[e] # c
    BY <1>1 DEF PolIInv, PoliciesTyped
  <2> QED BY <1>1, <1>9, <2>1 DEF PolIInv, PoliciesTyped, PayloadOK
<1>11. RevisionsKept'
  BY <1>1, <1>9 DEF PolIInv, RevisionsKept
<1>12. ModesKept'
  <2>1. PICK m \in Nat : \A d \in DOMAIN modes : modes[d] \in Nat /\ modes[d] <= m
    BY DEF PolIInv, ModesKept
  <2>2. m + n + 1 \in Nat /\ \A d \in DOMAIN modes' : modes'[d] \in Nat /\ modes'[d] <= m + n + 1
    BY <1>1, <1>2, <2>1
  <2>3. ASSUME NEW d \in DOMAIN modes'
        PROVE  d \in Editors /\ editor'[d].op = "mode" /\ editor'[d].at = "saved" /\ modes'[d] = editor'[d].read[1] + 1
    <3>1. CASE d = c BY <1>1, <1>8, <1>9, <3>1
    <3>2. CASE d # c BY <1>1, <1>9, <3>2 DEF PolIInv, ModesKept
    <3> QED BY <3>1, <3>2
  <2> QED BY <2>2, <2>3 DEF ModesKept
<1> QED BY <1>9, <1>10, <1>11, <1>12 DEF PolIInv

LEMMA PolStart == ASSUME PolInit PROVE PolIInv
<1>1. EditorOK(Unsent)
  BY DEF EditorOK, Unsent
<1>2. \A c \in Editors : EditorOK(editor[c])
  BY <1>1 DEF PolInit
<1>3. PoliciesTyped /\ RevisionsKept /\ ModesKept
  BY DEF PolInit, PoliciesTyped, RevisionsKept, ModesKept
<1> QED BY <1>2, <1>3 DEF PolIInv

LEMMA PolStep ==
  ASSUME PolIInv, [PolNext]_polVars
  PROVE  PolIInv' /\ \A p \in DOMAIN policy : PolicyStep(p)
<1>1. CASE UNCHANGED polVars
  <2>1. UNCHANGED <<policy, saved, modes, versions, edits, editor>>
    BY <1>1 DEF polVars
  <2>2. PoliciesTyped' /\ \A p : PolicyStep(p)
    BY <2>1 DEF PolIInv, PoliciesTyped, PayloadOK, PolicyStep
  <2>3. RevisionsKept' /\ ModesKept'
    BY <2>1 DEF PolIInv, RevisionsKept, ModesKept, SavedOver
  <2>4. \A c \in Editors : EditorOK(editor[c])'
    BY <2>1 DEF PolIInv, EditorOK, PayloadOK
  <2> QED BY <2>2, <2>3, <2>4 DEF PolIInv
<1>2. CASE PolNext
  <2>1. PICK c \in Editors :
          \/ BeginPost(c) \/ SavePost(c)
          \/ BeginSettings(c) \/ SaveSettings(c)
          \/ BeginMode(c) \/ InsertMode(c)
          \/ AbandonEdit(c)
    BY <1>2 DEF PolNext
  <2>2. CASE BeginPost(c)
    BY <2>2, BeginPostStep DEF BeginPost, PolicyStep
  <2>3. CASE SavePost(c)
    BY <2>3, SavePostStep
  <2>4. CASE BeginSettings(c)
    BY <2>4, BeginSettingsStep DEF BeginSettings, PolicyStep
  <2>5. CASE SaveSettings(c)
    BY <2>5, SaveSettingsStep
  <2>6. CASE BeginMode(c)
    BY <2>6, BeginModeStep DEF BeginMode, PolicyStep
  <2>7. CASE InsertMode(c)
    BY <2>7, InsertModeStep DEF InsertMode, PolicyStep
  <2>8. CASE AbandonEdit(c)
    BY <2>8, AbandonEditStep DEF AbandonEdit, PolicyStep
  <2> QED BY <2>1, <2>2, <2>3, <2>4, <2>5, <2>6, <2>7, <2>8
<1> QED BY <1>1, <1>2

LEMMA PolFollows == ASSUME PolIInv PROVE PolTypeOK /\ PostedAgainOnlyByOverlap /\ ModesShareOnlyByOverlap
<1>1. PolTypeOK
  BY DEF PolIInv, PoliciesTyped, PolTypeOK, PayloadOK
<1>2. PostedAgainOnlyByOverlap
  BY DEF PolIInv, EditorOK, PostedAgainOnlyByOverlap
<1>3. ASSUME NEW c \in DOMAIN modes, NEW d \in DOMAIN modes, modes[c] = modes[d], d \in editor[c].known
      PROVE  FALSE
  <2> PICK x : x = editor[c] OBVIOUS
  <2>1. c \in Editors /\ x.op = "mode" /\ x.at = "saved" /\ modes[c] = x.read[1] + 1
    BY DEF PolIInv, ModesKept
  <2>2. x.read[1] \in Nat /\ modes[d] <= x.read[1]
    BY <1>3, <2>1 DEF PolIInv, EditorOK
  <2> QED BY <1>3, <2>1, <2>2
<1> QED BY <1>1, <1>2, <1>3 DEF ModesShareOnlyByOverlap

\* A policy's payload and revision are those of one committed write, a post stands until
\* a change read before it is saved over it, revisions go up, and a post or a mode's
\* revision is repeated only by requests that overlapped.
THEOREM PoliciesStand == PolSpec => PoliciesHold
<1>1. PolInit => PolIInv
  BY PolStart
<1>2. PolIInv /\ [PolNext]_polVars => PolIInv'
  BY PolStep
<1>3. PolIInv => PolTypeOK /\ PostedAgainOnlyByOverlap /\ ModesShareOnlyByOverlap
  BY PolFollows
<1>4. PolIInv /\ [PolNext]_polVars =>
        [\A p \in DOMAIN policy :
           policy'[p].payload.body # policy[p].payload.body =>
             \E c \in Editors :
               /\ editor[c].policy = p /\ editor[c].at = "begun"
               /\ \/ editor[c].op = "post" /\ editor'[c].at = "saved"
                  \/ editor[c].op = "settings" /\ editor'[c].at = "overwrote"]_polVars
  BY PolStep DEF PolicyStep
<1>5. PolIInv /\ [PolNext]_polVars =>
        [\A p \in DOMAIN policy :
           policy'[p] # policy[p] =>
             \/ \A v \in versions : v[1] = p => v[2] < policy'[p].revision
             \/ \E c \in Editors : editor[c].policy = p /\ editor'[c].at = "overwrote"]_polVars
  BY PolStep DEF PolicyStep
<1> QED BY <1>1, <1>2, <1>3, <1>4, <1>5, PTL DEF PolSpec, PoliciesHold, PostsStand, RevisionsGoUp

-----------------------------------------------------------------------------
(* The roadmap of an objective *)

\* What a request knew is still there, and what it makes is not there yet.
WriterOK(w, x) ==
  /\ x = [at |-> x.at, op |-> x.op, row |-> x.row, known |-> x.known, there |-> x.there]
  /\ x.at \in {"new", "found", "done"}
  /\ w \in Nodes \/ w \in DOMAIN rows => x.at = "done"
  /\ x.at = "found" => /\ x.known \subseteq Nodes
                       /\ x.row = NoRow => x.there = {}
                       /\ x.row # NoRow => x.row \in DOMAIN rows

\* The list the loop runner is about to write has all the nodes it knew, each once.
RewritingOK(x) ==
  /\ x = [at |-> x.at, list |-> x.list, known |-> x.known]
  /\ x.at = "listed" =>
       /\ x.known \subseteq Nodes /\ x.list \in Seq(x.known)
       /\ IsInjective(x.list) /\ ToSet(x.list) = x.known

PlacesTyped ==
  /\ nodes \in Seq(Writers) /\ DOMAIN weight = Nodes
  /\ DOMAIN rows \subseteq Writers \cup {TickRow}
  /\ \A r \in DOMAIN rows : rows[r] \in Seq(Nodes) /\ IsInjective(rows[r])
  /\ writer = [w \in Writers |-> writer[w]]

RoadIInv ==
  /\ PlacesTyped
  /\ \A w \in Writers : WriterOK(w, writer[w])
  /\ RewritingOK(rewriting)
  /\ OrderingRowsAreFew

LEMMA FirstNumbers ==
  ASSUME NEW m \in Nat PROVE IsFiniteSet(1 .. m) /\ Cardinality(1 .. m) = m
<1>1. m \in Int /\ 1 \in Int /\ m - 1 + 1 = m /\ (1 > m => m = 0) OBVIOUS
<1> QED BY <1>1, FS_Interval

\* The elements of a sequence are finitely many.
LEMMA FewElements ==
  ASSUME NEW S, NEW s \in Seq(S) PROVE IsFiniteSet(ToSet(s)) /\ ToSet(s) \subseteq S
<1>1. DOMAIN s = 1 .. Len(s) /\ Len(s) \in Nat /\ \A i \in 1 .. Len(s) : s[i] \in S
  OBVIOUS
<1>2. s \in Surjection(1 .. Len(s), ToSet(s))
  BY <1>1 DEF Surjection, ToSet
<1> QED BY <1>1, <1>2, FirstNumbers, FS_Surjection DEF ToSet

\* A set as a sequence has each element once.
LEMMA AllInOrder ==
  ASSUME NEW S, IsFiniteSet(S), NEW s \in SetToSeqs(S)
  PROVE  s \in Seq(S) /\ IsInjective(s) /\ ToSet(s) = S
<1> DEFINE m == Cardinality(S)
<1>1. m \in Nat /\ IsFiniteSet(1 .. m) /\ Cardinality(1 .. m) = m
  BY FS_CardinalityType, FirstNumbers
<1>2. s \in [1 .. m -> S] /\ \A i, j \in 1 .. m : i # j => s[i] # s[j]
  BY DEF SetToSeqs
<1>3. s \in Injection(1 .. m, S) /\ IsInjective(s)
  BY <1>2 DEF Injection, IsInjective
<1>4. s \in Surjection(1 .. m, S)
  BY <1>1, <1>3, FS_Injection
<1>5. ToSet(s) = S
  BY <1>2, <1>4 DEF Surjection, ToSet
<1>6. s \in Seq(S)
  BY <1>1, <1>2
<1> QED BY <1>3, <1>5, <1>6

LEMMA NodesAre == ASSUME PlacesTyped PROVE IsFiniteSet(Nodes) /\ Nodes \subseteq Writers
BY FewElements DEF PlacesTyped, Nodes

\* A row is put, and the others stay; what a new row or a longer one holds is there.
LEMMA RowPut ==
  ASSUME NEW id, NEW s, PutRow(id, s)
  PROVE  /\ DOMAIN rows' = DOMAIN rows \cup {id} /\ rows'[id] = s
         /\ \A r \in DOMAIN rows : r # id => rows'[r] = rows[r]
BY DEF PutRow

LEMMA NodeAdded ==
  ASSUME PlacesTyped, NEW w \in Writers, AddNode(w)
  PROVE  /\ nodes' \in Seq(Writers) /\ Nodes' = Nodes \cup {w}
         /\ DOMAIN weight' = DOMAIN weight \cup {w}
<1>1. nodes \in Seq(Writers) /\ nodes' = Append(nodes, w)
  BY DEF PlacesTyped, AddNode
<1>2. nodes' \in Seq(Writers) /\ Len(nodes') = Len(nodes) + 1 /\ Len(nodes) \in Nat
      /\ \A i \in 1 .. Len(nodes) : nodes'[i] = nodes[i]
  BY <1>1
<1>3. nodes'[Len(nodes) + 1] = w /\ DOMAIN nodes = 1 .. Len(nodes) /\ DOMAIN nodes' = 1 .. Len(nodes) + 1
  BY <1>1
<1>4. 1 .. Len(nodes) + 1 = (1 .. Len(nodes)) \cup {Len(nodes) + 1}
  BY <1>2
<1>5. Nodes' = Nodes \cup {w}
  BY <1>2, <1>3, <1>4 DEF Nodes, ToSet
<1> QED BY <1>2, <1>5 DEF AddNode

\* A sequence of other nodes with one more.
LEMMA OneMore ==
  ASSUME NEW S, NEW s \in Seq(S), IsInjective(s), NEW w, w \notin S, NEW t, t = Append(s, w)
  PROVE  t \in Seq(S \cup {w}) /\ IsInjective(t)
<1>1. /\ Len(s) \in Nat /\ DOMAIN s = 1 .. Len(s) /\ DOMAIN t = 1 .. Len(s) + 1
      /\ \A i \in 1 .. Len(s) : t[i] = s[i] /\ s[i] \in S
      /\ t[Len(s) + 1] = w
  <2>1. s \in Seq(S \cup {w}) OBVIOUS
  <2> QED BY <2>1
<1>2. \A i \in 1 .. Len(s) + 1 : i \in 1 .. Len(s) \/ i = Len(s) + 1
  BY <1>1
<1>3. IsInjective(t)
  BY <1>1, <1>2 DEF IsInjective
<1>4. t \in Seq(S \cup {w})
  <2>1. s \in Seq(S \cup {w}) OBVIOUS
  <2> QED BY <2>1
<1> QED BY <1>3, <1>4

LEMMA OneMoreIsThere ==
  ASSUME NEW S, NEW s \in Seq(S), NEW w, NEW t, t = Append(s, w)
  PROVE  ToSet(t) = ToSet(s) \cup {w}
<1>1. /\ Len(s) \in Nat /\ DOMAIN s = 1 .. Len(s) /\ DOMAIN t = 1 .. Len(s) + 1
      /\ \A i \in 1 .. Len(s) : t[i] = s[i] /\ s[i] \in S
      /\ t[Len(s) + 1] = w
  <2>1. s \in Seq(S \cup {w}) OBVIOUS
  <2> QED BY <2>1
<1>2. \A i \in 1 .. Len(s) + 1 : i \in 1 .. Len(s) \/ i = Len(s) + 1
  BY <1>1
<1>3. Len(s) + 1 \in 1 .. Len(s) + 1 /\ \A i \in 1 .. Len(s) : i \in 1 .. Len(s) + 1 BY <1>1
<1> QED BY <1>1, <1>2, <1>3 DEF ToSet


\* The nodes and rows grow, a request turns, and the loop runner stays or knows less.
LEMMA WritersStay ==
  ASSUME RoadIInv, NEW w \in Writers, NEW y, writer' = [writer EXCEPT ![w] = y],
         Nodes \subseteq Nodes', Nodes' \subseteq Nodes \cup {w},
         DOMAIN rows \subseteq DOMAIN rows', DOMAIN rows' \subseteq DOMAIN rows \cup {w},
         WriterOK(w, y)'
  PROVE  /\ writer' = [v \in Writers |-> writer'[v]] /\ writer'[w] = y
         /\ \A v \in Writers : v # w => writer'[v] = writer[v]
         /\ \A v \in Writers : WriterOK(v, writer[v])'
<1>1. writer' = [v \in Writers |-> IF v = w THEN y ELSE writer[v]]
  BY DEF RoadIInv, PlacesTyped
<1>2. ASSUME NEW v \in Writers PROVE WriterOK(v, writer[v])'
  <2>1. CASE v = w BY <1>1, <2>1
  <2>2. CASE v # w
    <3>1. writer'[v] = writer[v] BY <1>1, <2>2
    <3>2. WriterOK(v, writer[v]) BY DEF RoadIInv
    <3> QED BY <2>2, <3>1, <3>2 DEF WriterOK
  <2> QED BY <2>1, <2>2
<1> QED BY <1>1, <1>2

LEMMA RewritingStays ==
  ASSUME RewritingOK(rewriting), Nodes \subseteq Nodes', UNCHANGED rewriting PROVE RewritingOK(rewriting)'
BY DEF RewritingOK

\* The writer that is done.
Finished(x) == [at |-> "done", op |-> x.op, row |-> x.row, known |-> x.known, there |-> x.there]

LEMMA FinishedIs ==
  ASSUME RoadIInv, NEW w \in Writers, Done(w) PROVE writer' = [writer EXCEPT ![w] = Finished(writer[w])]
<1>1. writer = [v \in Writers |-> writer[v]]
  BY DEF RoadIInv, PlacesTyped
<1>2. ASSUME NEW x, x = [at |-> x.at, op |-> x.op, row |-> x.row, known |-> x.known, there |-> x.there]
      PROVE  [x EXCEPT !.at = "done"] = Finished(x)
  BY <1>2 DEF Finished
<1>3. [writer[w] EXCEPT !.at = "done"] = Finished(writer[w])
  BY <1>2 DEF RoadIInv, WriterOK
<1> QED BY <1>1, <1>3 DEF Done

\* What a step may never do to the places.
PlacesStep ==
  /\ Placed \ Placed' # {} =>
       \/ rewriting.at = "listed"
       \/ \E w \in Writers : writer[w].op = "reorder" /\ writer'[w].at # writer[w].at
  /\ \A n \in Placed \ Placed' :
       \/ rewriting.at = "listed" /\ rewriting' = Sleeping /\ n \notin rewriting.known
       \/ \E w \in Writers : writer'[w].at # writer[w].at /\ n \notin writer[w].known

\* A writer puts its row, or one that it found, and is done.
LEMMA WriterPuts ==
  ASSUME RoadIInv, NEW w \in Writers, writer[w].at = "found", Done(w),
         NEW s, PutRow(IF writer[w].row = NoRow THEN w ELSE writer[w].row, s),
         nodes' \in Seq(Writers), DOMAIN weight' = Nodes',
         Nodes \subseteq Nodes', Nodes' \subseteq Nodes \cup {w},
         s \in Seq(Nodes'), IsInjective(s), UNCHANGED rewriting
  PROVE  RoadIInv'
<1> PICK x, id, y : x = writer[w] /\ id = (IF x.row = NoRow THEN w ELSE x.row) /\ y = Finished(x) OBVIOUS
<1>1. /\ DOMAIN rows' = DOMAIN rows \cup {id} /\ rows'[id] = s
      /\ \A r \in DOMAIN rows : r # id => rows'[r] = rows[r]
  BY RowPut
<1>2. /\ x.known \subseteq Nodes
      /\ x.row = NoRow => x.there = {}
      /\ x.row # NoRow => x.row \in DOMAIN rows
  BY DEF RoadIInv, WriterOK
<1>3. writer' = [writer EXCEPT ![w] = y]
  BY FinishedIs
<1>4. WriterOK(w, y)'
  BY DEF WriterOK, Finished
<1>5. /\ writer' = [v \in Writers |-> writer'[v]] /\ writer'[w] = y
      /\ \A v \in Writers : v # w => writer'[v] = writer[v]
      /\ \A v \in Writers : WriterOK(v, writer[v])'
  BY <1>1, <1>2, <1>3, <1>4, WritersStay
<1>6. PlacesTyped'
  <2>1. ASSUME NEW r \in DOMAIN rows' PROVE rows'[r] \in Seq(Nodes') /\ IsInjective(rows'[r])
    <3>1. CASE r = id BY <1>1, <3>1
    <3>2. CASE r # id
      <4>1. rows'[r] = rows[r] /\ rows[r] \in Seq(Nodes) /\ IsInjective(rows[r])
        BY <1>1, <3>2 DEF RoadIInv, PlacesTyped
      <4> QED BY <4>1
    <3> QED BY <3>1, <3>2
  <2>2. DOMAIN rows' \subseteq Writers \cup {TickRow}
    BY <1>1, <1>2 DEF RoadIInv, PlacesTyped
  <2> QED BY <1>5, <2>1, <2>2 DEF PlacesTyped
<1>7. OrderingRowsAreFew'
  <2>1. ASSUME NEW v \in DOMAIN rows' \ {TickRow} PROVE writer'[v].there = {}
    <3>1. v \in Writers BY <1>6 DEF PlacesTyped
    <3>2. CASE v \in DOMAIN rows
      <4>1. writer[v].there = {} BY <3>2 DEF RoadIInv, OrderingRowsAreFew
      <4>2. CASE v = w BY <1>5, <4>1, <4>2 DEF Finished
      <4> QED BY <1>5, <3>1, <4>1, <4>2
    <3>3. CASE v \notin DOMAIN rows
      <4>1. v = w /\ x.row = NoRow BY <1>1, <1>2, <3>3
      <4> QED BY <1>2, <1>5, <4>1 DEF Finished
    <3> QED BY <3>2, <3>3
  <2> QED BY <2>1 DEF OrderingRowsAreFew
<1>8. RewritingOK(rewriting)'
  BY RewritingStays DEF RoadIInv
<1> QED BY <1>5, <1>6, <1>7, <1>8 DEF RoadIInv

LEMMA AbsorbStep ==
  ASSUME RoadIInv, NEW w \in Writers, AbsorbAsNode(w) PROVE RoadIInv' /\ PlacesStep
<1> PICK r, id : r = writer[w].row /\ id = (IF r = NoRow THEN w ELSE r) OBVIOUS
<1> PICK s : s = (IF r = NoRow THEN <<w>> ELSE Append(rows[r], w)) OBVIOUS
<1>1. writer[w].at = "found" /\ AddNode(w) /\ Done(w) /\ PutRow(id, s) /\ UNCHANGED rewriting
  BY DEF AbsorbAsNode, Appended
<1>2. /\ nodes' \in Seq(Writers) /\ Nodes' = Nodes \cup {w} /\ DOMAIN weight' = Nodes'
  BY <1>1, NodeAdded DEF RoadIInv, PlacesTyped
<1>3. w \notin Nodes /\ w \notin DOMAIN rows /\ (r # NoRow => r \in DOMAIN rows)
  BY <1>1 DEF RoadIInv, WriterOK
<1>4. s \in Seq(Nodes') /\ IsInjective(s) /\ (r # NoRow => ToSet(s) = ToSet(rows[r]) \cup {w})
  <2>1. CASE r = NoRow
    <3>1. s = <<w>> /\ s \in Seq({w}) BY <2>1
    <3>2. DOMAIN s = {1} BY <3>1
    <3>3. s \in Seq(Nodes') BY <1>2, <3>1
    <3> QED BY <2>1, <3>2, <3>3 DEF IsInjective
  <2>2. CASE r # NoRow
    <3>1. rows[r] \in Seq(Nodes) /\ IsInjective(rows[r])
      BY <1>3, <2>2 DEF RoadIInv, PlacesTyped
    <3>2. s = Append(rows[r], w) BY <2>2
    <3>3. s \in Seq(Nodes \cup {w}) /\ IsInjective(s) /\ ToSet(s) = ToSet(rows[r]) \cup {w}
      BY <1>3, <3>1, <3>2, OneMore, OneMoreIsThere
    <3> QED BY <1>2, <3>3
  <2> QED BY <2>1, <2>2
<1>5. RoadIInv'
  <2>1. PutRow(IF writer[w].row = NoRow THEN w ELSE writer[w].row, s) BY <1>1
  <2> QED BY <1>1, <1>2, <1>4, <2>1, WriterPuts
<1>6. Placed \subseteq Placed'
  <2>1. /\ DOMAIN rows' = DOMAIN rows \cup {id} /\ rows'[id] = s
        /\ \A q \in DOMAIN rows : q # id => rows'[q] = rows[q]
    BY <1>1, RowPut
  <2>2. \A q \in DOMAIN rows : ToSet(rows[q]) \subseteq ToSet(rows'[q])
    BY <1>3, <1>4, <2>1
  <2> QED BY <2>1, <2>2 DEF Placed
<1> QED BY <1>5, <1>6 DEF PlacesStep

LEMMA ReorderStep ==
  ASSUME RoadIInv, NEW w \in Writers, Reorder(w) PROVE RoadIInv' /\ PlacesStep
<1> PICK known, id : known = writer[w].known /\ id = (IF writer[w].row = NoRow THEN w ELSE writer[w].row) OBVIOUS
<1>1. PICK s \in SetToSeqs(known) : PutRow(id, s)
  BY DEF Reorder
<1>2. /\ writer[w].at = "found" /\ writer[w].op = "reorder" /\ Done(w)
      /\ UNCHANGED <<nodes, weight, rewriting>> /\ Nodes' = Nodes
  BY DEF Reorder, Nodes
<1>3. known \subseteq Nodes /\ IsFiniteSet(known)
  BY <1>2, NodesAre, FS_Subset DEF RoadIInv, WriterOK
<1>4. s \in Seq(known) /\ IsInjective(s) /\ ToSet(s) = known
  BY <1>1, <1>3, AllInOrder
<1>5. s \in Seq(Nodes')
  BY <1>2, <1>3, <1>4
<1>6. nodes' \in Seq(Writers) /\ DOMAIN weight' = Nodes'
  BY <1>2 DEF RoadIInv, PlacesTyped
<1>7. PutRow(IF writer[w].row = NoRow THEN w ELSE writer[w].row, s)
  BY <1>1
<1>8. RoadIInv'
  BY <1>2, <1>4, <1>5, <1>6, <1>7, WriterPuts
<1>9. writer'[w].at # writer[w].at
  <2>1. writer = [v \in Writers |-> writer[v]] BY DEF RoadIInv, PlacesTyped
  <2> QED BY <1>2, <2>1, FinishedIs DEF Finished
<1>10. \A n \in Placed \ Placed' : n \notin known
  <2>1. /\ id \in DOMAIN rows' /\ rows'[id] = s
    BY <1>1, RowPut
  <2> QED BY <1>4, <2>1 DEF Placed
<1> QED BY <1>2, <1>8, <1>9, <1>10 DEF PlacesStep

\* A request turns, no row is written.
LEMMA NoRowWritten ==
  ASSUME RoadIInv, NEW w \in Writers, NEW y, writer' = [writer EXCEPT ![w] = y], WriterOK(w, y)',
         y.there = writer[w].there \/ w \notin DOMAIN rows,
         nodes' \in Seq(Writers), DOMAIN weight' = Nodes',
         Nodes \subseteq Nodes', Nodes' \subseteq Nodes \cup {w}, UNCHANGED <<rows, rewriting>>
  PROVE  RoadIInv' /\ PlacesStep
<1>1. /\ writer' = [v \in Writers |-> writer'[v]] /\ writer'[w] = y
      /\ \A v \in Writers : v # w => writer'[v] = writer[v]
      /\ \A v \in Writers : WriterOK(v, writer[v])'
  BY WritersStay
<1>2. PlacesTyped'
  <2>1. ASSUME NEW r \in DOMAIN rows PROVE rows[r] \in Seq(Nodes') /\ IsInjective(rows[r])
    <3>1. rows[r] \in Seq(Nodes) /\ IsInjective(rows[r]) BY DEF RoadIInv, PlacesTyped
    <3> QED BY <3>1
  <2>2. DOMAIN rows \subseteq Writers \cup {TickRow} BY DEF RoadIInv, PlacesTyped
  <2> QED BY <1>1, <2>1, <2>2 DEF PlacesTyped
<1>3. OrderingRowsAreFew'
  BY <1>1 DEF RoadIInv, OrderingRowsAreFew, PlacesTyped
<1>4. RewritingOK(rewriting)'
  BY RewritingStays DEF RoadIInv
<1>5. PlacesStep
  BY DEF PlacesStep, Placed
<1> QED BY <1>1, <1>2, <1>3, <1>4, <1>5 DEF RoadIInv

LEMMA BeginPlacingStep ==
  ASSUME RoadIInv, NEW w \in Writers, NEW op, BeginPlacing(w, op) PROVE RoadIInv' /\ PlacesStep
<1> PICK known, there : known = Nodes /\ there = DOMAIN rows OBVIOUS
<1>1. PICK r \in FoundRow :
        writer' = [writer EXCEPT ![w] = [at |-> "found", op |-> op, row |-> r, known |-> known, there |-> there]]
  BY DEF BeginPlacing
<1> PICK y : y = [at |-> "found", op |-> op, row |-> r, known |-> known, there |-> there] OBVIOUS
<1>2. writer[w].at = "new" /\ UNCHANGED <<nodes, weight, rows, rewriting>> /\ Nodes' = Nodes
  BY DEF BeginPlacing, Nodes
<1>3. w \notin Nodes /\ w \notin DOMAIN rows
  BY <1>2 DEF RoadIInv, WriterOK
<1>4. NoRow \notin DOMAIN rows
  <2>1. NoRow \notin Writers /\ NoRow # TickRow
    BY RoadAssumption DEF NoRow, TickRow
  <2> QED BY <2>1 DEF RoadIInv, PlacesTyped
<1>5. (r = NoRow => there = {}) /\ (r # NoRow => r \in DOMAIN rows)
  BY <1>1, <1>4 DEF FoundRow
<1>6. WriterOK(w, y)'
  <2>1. y.at = "found" /\ y.known = Nodes /\ y.row = r /\ y.there = there OBVIOUS
  <2>2. y = [at |-> y.at, op |-> y.op, row |-> y.row, known |-> y.known, there |-> y.there] OBVIOUS
  <2> QED BY <1>2, <1>3, <1>5, <2>1, <2>2 DEF WriterOK
<1>7. nodes' \in Seq(Writers) /\ DOMAIN weight' = Nodes' /\ writer' = [writer EXCEPT ![w] = y]
  BY <1>1, <1>2 DEF RoadIInv, PlacesTyped
<1> QED BY <1>2, <1>3, <1>6, <1>7, NoRowWritten

\* A request that writes no row is done.
LEMMA DoneWithoutRow ==
  ASSUME RoadIInv, NEW w \in Writers, Done(w), nodes' \in Seq(Writers), DOMAIN weight' = Nodes',
         Nodes \subseteq Nodes', Nodes' \subseteq Nodes \cup {w}, UNCHANGED <<rows, rewriting>>
  PROVE  RoadIInv' /\ PlacesStep
<1> PICK y : y = Finished(writer[w]) OBVIOUS
<1>1. writer' = [writer EXCEPT ![w] = y]
  BY FinishedIs
<1>2. WriterOK(w, y)' /\ y.there = writer[w].there
  BY DEF WriterOK, Finished
<1> QED BY <1>1, <1>2, NoRowWritten

LEMMA CreateUnplacedStep ==
  ASSUME RoadIInv, NEW w \in Writers, CreateUnplaced(w) PROVE RoadIInv' /\ PlacesStep
<1>1. /\ nodes' \in Seq(Writers) /\ Nodes' = Nodes \cup {w}
      /\ DOMAIN weight' = DOMAIN weight \cup {w}
  BY NodeAdded DEF CreateUnplaced, RoadIInv
<1>2. DOMAIN weight' = Nodes'
  BY <1>1 DEF RoadIInv, PlacesTyped
<1> QED BY <1>1, <1>2, DoneWithoutRow DEF CreateUnplaced

LEMMA AbsorbIntoStep ==
  ASSUME RoadIInv, NEW w \in Writers, NEW n \in Writers, AbsorbIntoNode(w, n) PROVE RoadIInv' /\ PlacesStep
<1>1. UNCHANGED <<nodes, rows, rewriting>> /\ Nodes' = Nodes /\ Done(w)
  BY DEF AbsorbIntoNode, Nodes
<1>2. DOMAIN weight' = DOMAIN weight
  BY DEF AbsorbIntoNode
<1>3. nodes' \in Seq(Writers) /\ DOMAIN weight' = Nodes'
  BY <1>1, <1>2 DEF RoadIInv, PlacesTyped
<1> QED BY <1>1, <1>3, DoneWithoutRow

LEMMA GiveUpStep ==
  ASSUME RoadIInv, NEW w \in Writers, GiveUpPlacing(w) PROVE RoadIInv' /\ PlacesStep
<1>1. UNCHANGED <<nodes, weight, rows, rewriting>> /\ Nodes' = Nodes /\ Done(w)
  BY DEF GiveUpPlacing, Nodes
<1>2. nodes' \in Seq(Writers) /\ DOMAIN weight' = Nodes'
  BY <1>1 DEF RoadIInv, PlacesTyped
<1> QED BY <1>1, <1>2, DoneWithoutRow

\* The loop runner's steps leave the requests and the nodes as they are.
LEMMA LoopRunnerTurns ==
  ASSUME RoadIInv, UNCHANGED <<nodes, weight, writer>>, RewritingOK(rewriting)',
         DOMAIN rows' = DOMAIN rows \/ DOMAIN rows' = DOMAIN rows \cup {TickRow},
         \A r \in DOMAIN rows' : rows'[r] \in Seq(Nodes) /\ IsInjective(rows'[r])
  PROVE  RoadIInv'
<1>1. Nodes' = Nodes
  BY DEF Nodes
<1>2. PlacesTyped'
  BY <1>1 DEF RoadIInv, PlacesTyped
<1>3. ASSUME NEW w \in Writers PROVE WriterOK(w, writer[w])'
  <2>1. w # TickRow BY RoadAssumption
  <2> QED BY <1>1, <2>1 DEF RoadIInv, WriterOK
<1>4. OrderingRowsAreFew'
  BY DEF RoadIInv, OrderingRowsAreFew
<1> QED BY <1>2, <1>3, <1>4 DEF RoadIInv

LEMMA ListNodesStep == ASSUME RoadIInv, ListNodes PROVE RoadIInv' /\ PlacesStep
<1> PICK known : known = Nodes OBVIOUS
<1>1. PICK l \in Listed : rewriting' = [at |-> "listed", list |-> l, known |-> known]
  BY DEF ListNodes
<1>2. UNCHANGED <<nodes, weight, rows, writer>> /\ Nodes' = Nodes
  BY DEF ListNodes, Nodes
<1>3. l \in Seq(known) /\ IsInjective(l) /\ ToSet(l) = known
  BY NodesAre, AllInOrder DEF Listed, RoadIInv
<1>4. RewritingOK(rewriting)'
  BY <1>1, <1>2, <1>3 DEF RewritingOK
<1>5. \A r \in DOMAIN rows : rows[r] \in Seq(Nodes) /\ IsInjective(rows[r])
  BY DEF RoadIInv, PlacesTyped
<1>6. RoadIInv'
  BY <1>2, <1>4, <1>5, LoopRunnerTurns
<1>7. PlacesStep
  BY <1>2 DEF PlacesStep, Placed
<1> QED BY <1>6, <1>7

LEMMA RewriteStep == ASSUME RoadIInv, RewriteOrdering PROVE RoadIInv' /\ PlacesStep
<1> PICK l, known : l = rewriting.list /\ known = rewriting.known OBVIOUS
<1>1. rewriting.at = "listed" /\ PutRow(TickRow, l) /\ rewriting' = Sleeping /\ UNCHANGED <<nodes, weight, writer>>
  BY DEF RewriteOrdering
<1>2. known \subseteq Nodes /\ l \in Seq(known) /\ IsInjective(l) /\ ToSet(l) = known
  BY <1>1 DEF RoadIInv, RewritingOK
<1>3. l \in Seq(Nodes)
  BY <1>2
<1>4. /\ DOMAIN rows' = DOMAIN rows \cup {TickRow} /\ rows'[TickRow] = l
      /\ \A r \in DOMAIN rows : r # TickRow => rows'[r] = rows[r]
  BY <1>1, RowPut
<1>5. \A r \in DOMAIN rows' : rows'[r] \in Seq(Nodes) /\ IsInjective(rows'[r])
  BY <1>2, <1>3, <1>4 DEF RoadIInv, PlacesTyped
<1>6. RewritingOK(rewriting)'
  BY <1>1 DEF RewritingOK, Sleeping
<1>7. RoadIInv'
  BY <1>1, <1>4, <1>5, <1>6, LoopRunnerTurns
<1>8. \A n \in Placed \ Placed' : n \notin known
  BY <1>2, <1>4 DEF Placed
<1> QED BY <1>1, <1>7, <1>8 DEF PlacesStep

LEMMA AbandonRewriteStep == ASSUME RoadIInv, AbandonRewrite PROVE RoadIInv' /\ PlacesStep
<1>1. rewriting' = Sleeping /\ UNCHANGED <<nodes, weight, rows, writer>>
  BY DEF AbandonRewrite
<1>2. RewritingOK(rewriting)'
  BY <1>1 DEF RewritingOK, Sleeping
<1>3. \A r \in DOMAIN rows : rows[r] \in Seq(Nodes) /\ IsInjective(rows[r])
  BY DEF RoadIInv, PlacesTyped
<1>4. RoadIInv'
  BY <1>1, <1>2, <1>3, LoopRunnerTurns
<1> QED BY <1>1, <1>4 DEF PlacesStep, Placed

LEMMA RoadStart == ASSUME RoadInit PROVE RoadIInv
<1>1. nodes \in Seq(Writers) /\ Nodes = {} /\ DOMAIN weight = {} /\ DOMAIN rows = {}
  BY DEF RoadInit, Nodes, ToSet
<1>2. RewritingOK(rewriting)
  BY DEF RoadInit, RewritingOK, Sleeping
<1>3. \A w \in Writers : WriterOK(w, writer[w])
  BY <1>1 DEF RoadInit, WriterOK, Unplaced
<1>4. writer = [w \in Writers |-> writer[w]]
  BY DEF RoadInit
<1> QED BY <1>1, <1>2, <1>3, <1>4 DEF RoadIInv, PlacesTyped, OrderingRowsAreFew

LEMMA RoadStep == ASSUME RoadIInv, [RoadNext]_roadVars PROVE RoadIInv' /\ PlacesStep
<1>1. CASE UNCHANGED roadVars
  <2>1. Nodes' = Nodes /\ UNCHANGED <<nodes, weight, rows, writer, rewriting>>
    BY <1>1 DEF roadVars, Nodes
  <2>2. PlacesStep BY <2>1 DEF PlacesStep, Placed
  <2>3. RoadIInv'
    BY <2>1 DEF RoadIInv, PlacesTyped, WriterOK, RewritingOK, OrderingRowsAreFew
  <2> QED BY <2>2, <2>3
<1>2. CASE RoadNext
  <2>1. \/ \E w \in Writers :
             \/ \E op \in {"absorb", "reorder"} : BeginPlacing(w, op)
             \/ AbsorbAsNode(w) \/ Reorder(w) \/ CreateUnplaced(w) \/ GiveUpPlacing(w)
             \/ \E n \in Writers : AbsorbIntoNode(w, n)
        \/ ListNodes \/ RewriteOrdering \/ AbandonRewrite
    BY <1>2 DEF RoadNext
  <2>2. ASSUME NEW w \in Writers,
               \/ \E op \in {"absorb", "reorder"} : BeginPlacing(w, op)
               \/ AbsorbAsNode(w) \/ Reorder(w) \/ CreateUnplaced(w) \/ GiveUpPlacing(w)
               \/ \E n \in Writers : AbsorbIntoNode(w, n)
        PROVE  RoadIInv' /\ PlacesStep
    BY <2>2, BeginPlacingStep, AbsorbStep, ReorderStep, CreateUnplacedStep, GiveUpStep, AbsorbIntoStep
  <2> QED BY <2>1, <2>2, ListNodesStep, RewriteStep, AbandonRewriteStep
<1> QED BY <1>1, <1>2

LEMMA RoadFollows == ASSUME RoadIInv PROVE RoadTypeOK /\ OrderingRowsAreFew
<1>1. ASSUME NEW r \in DOMAIN rows PROVE ToSet(rows[r]) \subseteq Nodes
  BY FewElements DEF RoadIInv, PlacesTyped
<1>2. Placed \subseteq Nodes
  BY <1>1 DEF Placed
<1> QED BY <1>2 DEF RoadIInv, PlacesTyped, RoadTypeOK

\* The order keeps to the nodes there are and to few rows, an append never costs
\* another node its place, and a rewriting costs those that came after its reading.
THEOREM PlacesHold == RoadSpec => PlacesStand
<1>1. RoadInit => RoadIInv
  BY RoadStart
<1>2. RoadIInv /\ [RoadNext]_roadVars => RoadIInv'
  BY RoadStep
<1>3. RoadIInv => RoadTypeOK /\ OrderingRowsAreFew
  BY RoadFollows
<1>4. RoadIInv /\ [RoadNext]_roadVars =>
        [Placed \ Placed' # {} =>
           \/ rewriting.at = "listed"
           \/ \E w \in Writers : writer[w].op = "reorder" /\ writer'[w].at # writer[w].at]_roadVars
  BY RoadStep DEF PlacesStep
<1>5. RoadIInv /\ [RoadNext]_roadVars =>
        [\A n \in Placed \ Placed' :
           \/ rewriting.at = "listed" /\ rewriting' = Sleeping /\ n \notin rewriting.known
           \/ \E w \in Writers : writer'[w].at # writer[w].at /\ n \notin writer[w].known]_roadVars
  BY RoadStep DEF PlacesStep
<1> QED BY <1>1, <1>2, <1>3, <1>4, <1>5, PTL DEF RoadSpec, PlacesStand, AppendsKeepPlaces, RewritesDropOnlyUnseen

-----------------------------------------------------------------------------
(* Following a table over server-sent events *)

StreamTyped ==
  /\ stream \in {"peer", "journal"} /\ drawn \in 0 .. Messages
  /\ opened \in Seq(1 .. Messages) /\ IsInjective(opened)
  /\ visible \subseteq Ids \cap ToSet(opened)
  /\ stream = "journal" => Ids \subseteq ToSet(opened)
  /\ stream = "peer" => ToSet(opened) \subseteq Ids
  /\ overlap \subseteq (1 .. Messages) \X (1 .. Messages)
  /\ sent \in Seq(visible) /\ first \subseteq visible /\ older \subseteq visible

Met(m, n) == <<m, n>> \in overlap /\ <<n, m>> \in overlap

\* Rows out of the order of their ids: a row that was not committed when a greater
\* id was drawn, and two whose times are the other way round, have overlapped.
OverlapsKept ==
  /\ \A m, n \in Ids : m < n /\ m \notin visible => Met(m, n)
  /\ \A i, j \in DOMAIN opened : i < j /\ opened[j] < opened[i] => Met(opened[i], opened[j])

\* What was sent is a first page of k rows, and then ever greater ids above its last;
\* of the rows of the first page that are greater, those of a journal have overlapped it.
SentAs(k) ==
  /\ k \in 0 .. Len(sent) /\ (sent # <<>> => k # 0)
  /\ first = {sent[i] : i \in 1 .. k}
  /\ \A i, j \in 1 .. k : sent[i] = sent[j] => i = j
  /\ \A i \in DOMAIN sent : k < i => sent[k] < sent[i]
  /\ \A i, j \in DOMAIN sent : k < i /\ i < j => sent[i] < sent[j]
  /\ stream = "journal" => \A i \in 1 .. k : sent[k] < sent[i] => Met(sent[i], sent[k])

StreamIInv == StreamTyped /\ OverlapsKept /\ (\E k \in Nat : SentAs(k)) /\ SkippedOnlyByOverlap

LEMMA SentIs ==
  ASSUME StreamTyped
  PROVE  /\ Len(sent) \in Nat /\ DOMAIN sent = 1 .. Len(sent)
         /\ \A i \in 1 .. Len(sent) : sent[i] \in visible /\ sent[i] \in Nat /\ sent[i] # 0
         /\ visible \subseteq Ids /\ drawn \in Nat /\ Ids \subseteq 1 .. Messages
         /\ IsFiniteSet(visible)
<1>1. sent \in Seq(visible) /\ visible \subseteq 1 .. drawn /\ drawn \in 0 .. Messages /\ Messages \in Nat
  BY StreamAssumption DEF StreamTyped, Ids
<1>2. drawn \in Nat /\ 1 .. drawn \subseteq 1 .. Messages
  BY <1>1
<1>3. IsFiniteSet(visible)
  BY <1>1, <1>2, FirstNumbers, FS_Subset
<1>4. Len(sent) \in Nat /\ DOMAIN sent = 1 .. Len(sent) /\ \A i \in 1 .. Len(sent) : sent[i] \in visible
  BY <1>1
<1>5. \A m \in visible : m \in Nat /\ m # 0
  BY <1>1, <1>2
<1>6. \A i \in 1 .. Len(sent) : sent[i] \in visible /\ sent[i] \in Nat /\ sent[i] # 0
  BY <1>4, <1>5
<1> QED BY <1>1, <1>2, <1>3, <1>4, <1>6 DEF Ids

LEMMA CursorIs ==
  ASSUME StreamTyped
  PROVE  /\ sent = <<>> => Cursor = 0
         /\ sent # <<>> => /\ Len(sent) # 0 /\ Cursor = sent[Len(sent)]
                           /\ Cursor \in visible /\ Cursor \in ToSet(sent)
                           /\ Cursor \in Nat /\ Cursor # 0
<1>1. CASE sent = <<>> BY <1>1 DEF Cursor, None
<1>2. CASE sent # <<>>
  <2>1. Len(sent) # 0 /\ Cursor = sent[Len(sent)]
    <3>1. sent \in Seq(visible) BY DEF StreamTyped
    <3> QED BY <1>2, <3>1 DEF Cursor
  <2>2. Len(sent) \in 1 .. Len(sent)
    BY <2>1, SentIs
  <2> QED BY <1>2, <2>1, <2>2, SentIs DEF ToSet
<1> QED BY <1>1, <1>2

LEMMA UnderWayIs ==
  ASSUME StreamTyped
  PROVE  /\ UnderWay \subseteq 1 .. Messages
         /\ \A m \in 1 .. Messages : Meets(m) =>
              /\ overlap \subseteq overlap' /\ overlap' \subseteq (1 .. Messages) \X (1 .. Messages)
              /\ \A n \in UnderWay : Met(m, n)' /\ Met(n, m)'
<1>1. ToSet(opened) \subseteq 1 .. Messages
  BY FewElements DEF StreamTyped
<1>2. UnderWay \subseteq 1 .. Messages
  BY <1>1, SentIs DEF UnderWay
<1>3. ASSUME NEW m \in 1 .. Messages, Meets(m)
      PROVE  /\ overlap \subseteq overlap' /\ overlap' \subseteq (1 .. Messages) \X (1 .. Messages)
             /\ \A n \in UnderWay : Met(m, n)' /\ Met(n, m)'
  <2>1. overlap' = overlap \cup ({m} \X UnderWay) \cup (UnderWay \X {m})
    BY <1>3 DEF Meets
  <2>2. overlap \subseteq (1 .. Messages) \X (1 .. Messages)
    BY DEF StreamTyped
  <2>3. overlap' \subseteq (1 .. Messages) \X (1 .. Messages)
    BY <1>2, <2>1, <2>2
  <2>4. \A n \in UnderWay : <<m, n>> \in overlap' /\ <<n, m>> \in overlap'
    BY <2>1
  <2> QED BY <2>1, <2>3, <2>4 DEF Met
<1> QED BY <1>2, <1>3

\* Nothing is sent, and more may be seen and may have met.
LEMMA ReaderStays ==
  ASSUME StreamIInv, UNCHANGED <<stream, sent, first, older>>, overlap \subseteq overlap'
  PROVE  /\ \E k \in Nat : SentAs(k)'
         /\ \A m : Missed(m) => Missed(m)'
         /\ \A m, n : Met(m, n) => Met(m, n)'
         /\ Cursor' = Cursor
<1>1. \A m, n : Met(m, n) => Met(m, n)'
  BY DEF Met
<1>2. PICK k \in Nat : SentAs(k)
  BY DEF StreamIInv
<1>3. SentAs(k)'
  BY <1>1, <1>2 DEF SentAs
<1>4. \A m : Missed(m) => Missed(m)'
  BY DEF Missed
<1> QED BY <1>1, <1>2, <1>3, <1>4 DEF Cursor

LEMMA DrawStep == ASSUME StreamIInv, Draw PROVE StreamIInv'
<1> PICK m : m = drawn + 1 OBVIOUS
<1>1. /\ drawn < Messages /\ (stream = "journal" => m \in ToSet(opened))
      /\ drawn' = m /\ Meets(m) /\ UNCHANGED <<stream, opened, visible, sent, first, older>>
  BY DEF Draw
<1>2. StreamTyped /\ drawn \in Nat /\ Messages \in Nat
  BY SentIs, StreamAssumption DEF StreamIInv
<1>3. m \in 1 .. Messages /\ Ids' = Ids \cup {m} /\ m \notin Ids /\ \A n \in Ids : n < m /\ n \in Nat
  BY <1>1, <1>2 DEF Ids
<1>4. /\ overlap \subseteq overlap' /\ overlap' \subseteq (1 .. Messages) \X (1 .. Messages)
      /\ \A n \in UnderWay : Met(m, n)' /\ Met(n, m)'
  BY <1>1, <1>2, <1>3, UnderWayIs
<1>5. /\ \E k \in Nat : SentAs(k)'
      /\ \A n : Missed(n) => Missed(n)'
      /\ \A x, y : Met(x, y) => Met(x, y)'
      /\ Cursor' = Cursor
  BY <1>1, <1>4, ReaderStays
<1>6. StreamTyped'
  BY <1>1, <1>2, <1>3, <1>4 DEF StreamTyped
<1>7. OverlapsKept'
  <2>1. ASSUME NEW x \in Ids', NEW y \in Ids', x < y, x \notin visible PROVE Met(x, y)'
    <3>1. CASE y \in Ids
      <4>1. x \in Ids BY <1>3, <2>1, <3>1
      <4> QED BY <1>5, <2>1, <3>1, <4>1 DEF StreamIInv, OverlapsKept
    <3>2. CASE y = m
      <4>1. x \in Ids BY <1>3, <2>1, <3>2
      <4> QED BY <1>4, <2>1, <3>2, <4>1 DEF UnderWay
    <3> QED BY <1>3, <3>1, <3>2
  <2>2. \A i, j \in DOMAIN opened : i < j /\ opened[j] < opened[i] => Met(opened[i], opened[j])'
    BY <1>1, <1>5 DEF StreamIInv, OverlapsKept
  <2> QED BY <1>1, <2>1, <2>2 DEF OverlapsKept
<1>8. SkippedOnlyByOverlap'
  BY <1>1, <1>5 DEF StreamIInv, SkippedOnlyByOverlap
<1> QED BY <1>5, <1>6, <1>7, <1>8 DEF StreamIInv

LEMMA BeginWriteStep == ASSUME StreamIInv, NEW m \in 1 .. Messages, BeginWrite(m) PROVE StreamIInv'
<1>1. /\ m \notin ToSet(opened) /\ (stream = "peer" => m \in Ids) /\ opened' = Append(opened, m) /\ Meets(m)
      /\ UNCHANGED <<stream, drawn, visible, sent, first, older>> /\ Ids' = Ids
  BY DEF BeginWrite, Ids
<1>2. StreamTyped /\ opened \in Seq(1 .. Messages)
  BY DEF StreamIInv, StreamTyped
<1>3. /\ overlap \subseteq overlap' /\ overlap' \subseteq (1 .. Messages) \X (1 .. Messages)
      /\ \A n \in UnderWay : Met(m, n)' /\ Met(n, m)'
  BY <1>1, <1>2, UnderWayIs
<1>4. /\ \E k \in Nat : SentAs(k)'
      /\ \A n : Missed(n) => Missed(n)'
      /\ \A x, y : Met(x, y) => Met(x, y)'
      /\ Cursor' = Cursor
  BY <1>1, <1>3, ReaderStays
<1> PICK t : t = opened' OBVIOUS
<1>5. /\ Len(opened) \in Nat /\ DOMAIN opened = 1 .. Len(opened) /\ DOMAIN t = 1 .. Len(opened) + 1
      /\ t \in Seq(1 .. Messages)
      /\ \A i \in 1 .. Len(opened) : t[i] = opened[i] /\ opened[i] \in ToSet(opened) /\ opened[i] \in 1 .. Messages
      /\ t[Len(opened) + 1] = m
  <2>1. /\ Len(opened) \in Nat /\ DOMAIN opened = 1 .. Len(opened)
        /\ \A i \in 1 .. Len(opened) : opened[i] \in 1 .. Messages
    <3>1. \A R : opened \in Seq(R) => Len(opened) \in Nat /\ DOMAIN opened = 1 .. Len(opened)
                                      /\ \A i \in 1 .. Len(opened) : opened[i] \in R
      OBVIOUS
    <3> QED BY <1>2, <3>1
  <2>2. \A i \in 1 .. Len(opened) : opened[i] \in ToSet(opened)
    BY <2>1 DEF ToSet
  <2>3. /\ DOMAIN t = 1 .. Len(opened) + 1 /\ t \in Seq(1 .. Messages) /\ t[Len(opened) + 1] = m
        /\ \A i \in 1 .. Len(opened) : t[i] = opened[i]
    BY <1>1, <1>2
  <2> QED BY <2>1, <2>2, <2>3
<1>6. \A i \in DOMAIN t : i \in 1 .. Len(opened) \/ i = Len(opened) + 1
  BY <1>5
<1>7. IsInjective(t)
  <2>1. IsInjective(opened) BY DEF StreamIInv, StreamTyped
  <2> QED BY <1>1, <1>5, <1>6, <2>1 DEF IsInjective
<1>8. ToSet(t) = ToSet(opened) \cup {m}
  BY <1>1, <1>2, OneMoreIsThere
<1>9. StreamTyped'
  BY <1>1, <1>2, <1>3, <1>5, <1>7, <1>8 DEF StreamTyped
<1>10. OverlapsKept'
  <2>1. ASSUME NEW i \in DOMAIN t, NEW j \in DOMAIN t, i < j, t[j] < t[i] PROVE Met(t[i], t[j])'
    <3>1. CASE j \in 1 .. Len(opened)
      <4>1. i \in 1 .. Len(opened) BY <1>5, <1>6, <2>1, <3>1
      <4>2. Met(opened[i], opened[j]) BY <1>5, <2>1, <3>1, <4>1 DEF StreamIInv, OverlapsKept
      <4> QED BY <1>4, <1>5, <3>1, <4>1, <4>2
    <3>2. CASE j = Len(opened) + 1
      <4>1. i \in 1 .. Len(opened) BY <1>5, <1>6, <2>1, <3>2
      <4> PICK n : n = opened[i] OBVIOUS
      <4>2. n = t[i] /\ t[j] = m /\ m < n /\ n \in ToSet(opened) /\ n \in 1 .. Messages
        BY <1>5, <2>1, <3>2, <4>1
      <4>3. m \notin visible
        BY <1>1, <1>2 DEF StreamTyped
      <4>4. Met(n, m)'
        <5>1. CASE stream = "peer"
          <6>1. m \in Ids /\ n \in Ids BY <1>1, <1>2, <4>2, <5>1 DEF StreamTyped
          <6>2. Met(m, n) BY <4>2, <4>3, <6>1 DEF StreamIInv, OverlapsKept
          <6> QED BY <1>4, <6>2 DEF Met
        <5>2. CASE stream = "journal"
          <6>1. m \notin Ids BY <1>1, <1>2, <5>2 DEF StreamTyped
          <6>2. n \notin Ids BY <1>2, <4>2, <6>1, SentIs DEF Ids
          <6>3. n \in UnderWay BY <1>2, <4>2, <6>2 DEF UnderWay, StreamTyped
          <6> QED BY <1>3, <6>3
        <5> QED BY <1>2, <5>1, <5>2 DEF StreamTyped
      <4> QED BY <4>2, <4>4
    <3> QED BY <1>6, <3>1, <3>2
  <2>2. \A x, y \in Ids : x < y /\ x \notin visible => Met(x, y)'
    BY <1>4 DEF StreamIInv, OverlapsKept
  <2> QED BY <1>1, <2>1, <2>2 DEF OverlapsKept
<1>11. SkippedOnlyByOverlap'
  BY <1>1, <1>4 DEF StreamIInv, SkippedOnlyByOverlap
<1> QED BY <1>4, <1>9, <1>10, <1>11 DEF StreamIInv

LEMMA CommitWriteStep == ASSUME StreamIInv, NEW m \in 1 .. Messages, CommitWrite(m) PROVE StreamIInv'
<1>1. /\ m \notin visible /\ m \in Ids /\ m \in ToSet(opened) /\ visible' = visible \cup {m}
      /\ UNCHANGED <<stream, drawn, opened, overlap, sent, first, older>> /\ Ids' = Ids
  BY DEF CommitWrite, UnderWay, Ids
<1>2. StreamTyped
  BY DEF StreamIInv
<1>3. /\ \E k \in Nat : SentAs(k)'
      /\ \A n : Missed(n) => Missed(n)'
      /\ \A x, y : Met(x, y) => Met(x, y)'
      /\ Cursor' = Cursor
  BY <1>1, ReaderStays
<1>4. StreamTyped'
  <2>1. sent \in Seq(visible') BY <1>1, <1>2 DEF StreamTyped
  <2> QED BY <1>1, <1>2, <2>1 DEF StreamTyped
<1>5. OverlapsKept'
  BY <1>1, <1>3 DEF StreamIInv, OverlapsKept
<1>6. SkippedOnlyByOverlap'
  <2>1. ASSUME NEW x \in visible', x <= Cursor, x \notin ToSet(sent) PROVE Missed(x)'
    <3>1. CASE x \in visible
      BY <1>3, <2>1, <3>1 DEF StreamIInv, SkippedOnlyByOverlap
    <3>2. CASE x = m
      <4>1. ~(m <= 0) OBVIOUS
      <4>2. sent # <<>>
        BY <1>2, <2>1, <3>2, <4>1, CursorIs
      <4>3. Cursor \in visible /\ Cursor \in ToSet(sent) /\ Cursor \in Nat /\ Cursor \in Ids
        BY <1>2, <4>2, CursorIs, SentIs
      <4>4. m < Cursor
        BY <1>1, <2>1, <3>2, <4>3
      <4>5. Met(m, Cursor)
        BY <1>1, <4>3, <4>4 DEF StreamIInv, OverlapsKept
      <4>6. Missed(m)
        BY <1>1, <4>3, <4>5 DEF Missed, Met
      <4> QED BY <1>3, <3>2, <4>6
    <3> QED BY <1>1, <3>1, <3>2
  <2> QED BY <1>1, <1>3, <2>1 DEF SkippedOnlyByOverlap
<1> QED BY <1>3, <1>4, <1>5, <1>6 DEF StreamIInv

\* A page is in the order asked for, and before what is left out.
LEMMA PageIs ==
  ASSUME NEW S, IsFiniteSet(S), NEW limit, NEW before, NEW p \in Pages(S, limit, before)
  PROVE  /\ p \in Seq(S) /\ IsInjective(p)
         /\ \A i, j \in DOMAIN p : i < j => <<p[i], p[j]>> \in before
         /\ \A i \in DOMAIN p : \A m \in S : m \notin ToSet(p) => <<p[i], m>> \in before
<1>1. PICK T \in Foremost(S, limit, before) : p \in SetToSeqs(T)
  BY DEF Pages
<1>2. T \subseteq S /\ \A m \in T, n \in S \ T : <<m, n>> \in before
  BY DEF Foremost
<1>3. IsFiniteSet(T)
  BY <1>2, FS_Subset
<1>4. p \in Seq(T) /\ IsInjective(p) /\ ToSet(p) = T
  BY <1>1, <1>3, AllInOrder
<1>5. \A i, j \in DOMAIN p : i < j => <<p[i], p[j]>> \in before
  BY DEF Pages
<1>6. \A i \in DOMAIN p : p[i] \in T
  BY <1>4
<1>7. p \in Seq(S)
  BY <1>2, <1>4
<1> QED BY <1>2, <1>4, <1>5, <1>6, <1>7

\* The rows after a cursor: greater ids, ascending, none passed over.
LEMMA FollowingIs ==
  ASSUME StreamTyped, NEW c, NEW p \in Following(c)
  PROVE  /\ p \in Seq({m \in visible : m > c})
         /\ \A i, j \in DOMAIN p : i < j => p[i] < p[j]
         /\ \A m \in visible : m > c /\ m \notin ToSet(p) => \A i \in DOMAIN p : p[i] < m
<1> PICK S : S = {m \in visible : m > c} OBVIOUS
<1>1. IsFiniteSet(S)
  BY SentIs, FS_Subset
<1>2. p \in Pages(S, NextPage, ById)
  BY DEF Following
<1>3. /\ p \in Seq(S)
      /\ \A i, j \in DOMAIN p : i < j => <<p[i], p[j]>> \in ById
      /\ \A i \in DOMAIN p : \A m \in S : m \notin ToSet(p) => <<p[i], m>> \in ById
  BY <1>1, <1>2, PageIs
<1>4. \A m, n : <<m, n>> \in ById => m < n
  BY DEF ById
<1> QED BY <1>3, <1>4

\* The first page: each row once; of a journal, none begun before is left out.
LEMMA OpeningIs ==
  ASSUME StreamTyped, NEW p \in Opening
  PROVE  /\ p \in Seq(visible) /\ IsInjective(p)
         /\ stream = "journal" =>
              /\ \A i, j \in DOMAIN p : i < j => <<p[i], p[j]>> \in ByTime
              /\ \A i \in DOMAIN p : \A m \in visible : m \notin ToSet(p) => <<p[i], m>> \in ByTime
<1>1. IsFiniteSet(visible)
  BY SentIs
<1> PICK before : before = IF stream = "peer" THEN Backwards(ByTime) ELSE ByTime OBVIOUS
<1>2. p \in Pages(visible, FirstPage, before)
  BY DEF Opening
<1>3. /\ p \in Seq(visible) /\ IsInjective(p)
      /\ \A i, j \in DOMAIN p : i < j => <<p[i], p[j]>> \in before
      /\ \A i \in DOMAIN p : \A m \in visible : m \notin ToSet(p) => <<p[i], m>> \in before
  BY <1>1, <1>2, PageIs
<1>4. stream = "journal" => before = ByTime
  OBVIOUS
<1> QED BY <1>3, <1>4

\* Of two rows begun one after the other, the earlier has the smaller id, or they have met.
LEMMA ByTimeIs ==
  ASSUME OverlapsKept, NEW m \in Nat, NEW n \in Nat, <<m, n>> \in ByTime PROVE m <= n \/ Met(m, n)
<1>1. PICK i, j \in DOMAIN opened : i < j /\ <<m, n>> = <<opened[i], opened[j]>>
  BY DEF ByTime
<1>2. m = opened[i] /\ n = opened[j]
  BY <1>1
<1> QED BY <1>1, <1>2 DEF OverlapsKept

\* What is sent after a page.
LEMMA SentThen ==
  ASSUME NEW S, NEW s \in Seq(S), NEW p \in Seq(S), NEW t, t = s \o p
  PROVE  /\ t \in Seq(S) /\ Len(t) = Len(s) + Len(p) /\ DOMAIN t = 1 .. Len(s) + Len(p)
         /\ Len(s) \in Nat /\ Len(p) \in Nat
         /\ \A i \in 1 .. Len(s) : i \in DOMAIN t /\ t[i] = s[i]
         /\ \A i \in DOMAIN t : i \in 1 .. Len(s) \/ (Len(s) < i /\ i - Len(s) \in 1 .. Len(p) /\ t[i] = p[i - Len(s)])
         /\ \A i \in 1 .. Len(p) : Len(s) + i \in DOMAIN t /\ t[Len(s) + i] = p[i]
<1>1. /\ t \in Seq(S) /\ Len(t) = Len(s) + Len(p) /\ Len(s) \in Nat /\ Len(p) \in Nat
      /\ \A i \in 1 .. Len(s) + Len(p) : t[i] = IF i <= Len(s) THEN s[i] ELSE p[i - Len(s)]
  BY ConcatProperties
<1>2. DOMAIN t = 1 .. Len(s) + Len(p)
  BY <1>1
<1>3. ASSUME NEW i \in 1 .. Len(s) PROVE i \in DOMAIN t /\ t[i] = s[i]
  <2>1. i \in 1 .. Len(s) + Len(p) /\ i <= Len(s) BY <1>1
  <2> QED BY <1>1, <1>2, <2>1
<1>4. ASSUME NEW i \in DOMAIN t
      PROVE  i \in 1 .. Len(s) \/ (Len(s) < i /\ i - Len(s) \in 1 .. Len(p) /\ t[i] = p[i - Len(s)])
  <2>1. i \in 1 .. Len(s) + Len(p) BY <1>2
  <2>2. CASE i <= Len(s) BY <1>1, <2>1, <2>2
  <2>3. CASE ~(i <= Len(s))
    <3>1. Len(s) < i /\ i - Len(s) \in 1 .. Len(p) BY <1>1, <2>1, <2>3
    <3> QED BY <1>1, <2>1, <2>3, <3>1
  <2> QED BY <2>2, <2>3
<1>5. ASSUME NEW i \in 1 .. Len(p) PROVE Len(s) + i \in DOMAIN t /\ t[Len(s) + i] = p[i]
  <2>1. Len(s) + i \in 1 .. Len(s) + Len(p) /\ ~(Len(s) + i <= Len(s)) /\ (Len(s) + i) - Len(s) = i BY <1>1
  <2> QED BY <1>1, <1>2, <2>1
<1> QED BY <1>1, <1>2, <1>3, <1>4, <1>5

\* The first page of a connection.
LEMMA OpeningStep ==
  ASSUME StreamIInv, sent = <<>>, NEW p \in Opening, p # <<>>, sent' = sent \o p,
         first' = ToSet(p), older' = visible \ ToSet(p), UNCHANGED <<stream, drawn, opened, visible, overlap>>
  PROVE  StreamIInv'
<1>1. StreamTyped /\ OverlapsKept
  BY DEF StreamIInv
<1>2. /\ p \in Seq(visible) /\ IsInjective(p)
      /\ stream = "journal" =>
           /\ \A i, j \in DOMAIN p : i < j => <<p[i], p[j]>> \in ByTime
           /\ \A i \in DOMAIN p : \A m \in visible : m \notin ToSet(p) => <<p[i], m>> \in ByTime
  BY <1>1, OpeningIs
<1>3. sent' = p
  BY <1>2
<1> PICK k : k = Len(p) OBVIOUS
<1>4. /\ k \in Nat /\ k # 0 /\ DOMAIN p = 1 .. k /\ k \in 1 .. k
      /\ \A i \in 1 .. k : p[i] \in visible /\ p[i] \in Nat
      /\ visible \subseteq Nat
  BY <1>1, <1>2, SentIs DEF Ids
<1>5. StreamTyped'
  <2>1. ToSet(p) \subseteq visible BY <1>4 DEF ToSet
  <2>2. Ids' = Ids BY DEF Ids
  <2> QED BY <1>1, <1>2, <1>3, <2>1, <2>2 DEF StreamTyped
<1>6. OverlapsKept'
  <2>1. Ids' = Ids BY DEF Ids
  <2> QED BY <1>1, <2>1 DEF OverlapsKept, Met
<1>7. ASSUME NEW m \in visible, NEW n \in visible, <<m, n>> \in ByTime, n <= m, n # m PROVE Met(m, n)
  <2>1. m \in Nat /\ n \in Nat BY <1>4
  <2> QED BY <1>1, <1>7, <2>1, ByTimeIs
<1>8. SentAs(k)'
  <2>1. stream = "journal" => \A i \in 1 .. k : p[k] < p[i] => Met(p[i], p[k])
    <3> SUFFICES ASSUME stream = "journal", NEW i \in 1 .. k, p[k] < p[i] PROVE Met(p[i], p[k])
      OBVIOUS
    <3>1. p[k] \in Nat /\ p[i] \in Nat /\ p[k] \in visible /\ p[i] \in visible /\ p[k] # p[i] /\ p[k] <= p[i]
      BY <1>4
    <3>2. i < k BY <1>4, <3>1
    <3>3. <<p[i], p[k]>> \in ByTime BY <1>2, <1>4, <3>2
    <3> QED BY <1>7, <3>1, <3>3
  <2>2. \A i, j \in 1 .. k : p[i] = p[j] => i = j
    BY <1>2, <1>4 DEF IsInjective
  <2>3. \A i \in DOMAIN p : ~(k < i)
    BY <1>4
  <2>4. ToSet(p) = {p[i] : i \in 1 .. k}
    BY <1>4 DEF ToSet
  <2>5. k \in 0 .. Len(p) BY <1>4
  <2> QED BY <1>3, <1>4, <2>1, <2>2, <2>3, <2>4, <2>5 DEF SentAs, Met
<1>9. SkippedOnlyByOverlap'
  <2>1. Cursor' = p[k]
    BY <1>3 DEF Cursor
  <2>2. ASSUME NEW m \in visible, m <= p[k], m \notin ToSet(p) PROVE Missed(m)'
    <3>1. CASE stream = "peer"
      <4>1. m \in older' BY <2>2
      <4> QED BY <3>1, <4>1 DEF Missed
    <3>2. CASE stream = "journal"
      <4>1. <<p[k], m>> \in ByTime BY <1>2, <1>4, <2>2, <3>2
      <4>2. p[k] \in ToSet(p) BY <1>4 DEF ToSet
      <4>3. p[k] # m /\ p[k] \in visible BY <1>4, <2>2, <4>2
      <4>4. Met(p[k], m) BY <1>7, <2>2, <4>1, <4>3
      <4> QED BY <1>3, <4>2, <4>3, <4>4 DEF Missed, Met
    <3> QED BY <1>1, <3>1, <3>2 DEF StreamTyped
  <2> QED BY <1>3, <2>1, <2>2 DEF SkippedOnlyByOverlap
<1> QED BY <1>4, <1>5, <1>6, <1>8, <1>9 DEF StreamIInv

\* A page after the first.
LEMMA FollowingStep ==
  ASSUME StreamIInv, sent # <<>>, NEW c, c = Cursor, NEW p \in Following(c), p # <<>>, sent' = sent \o p,
         UNCHANGED <<stream, drawn, opened, visible, overlap, first, older>>
  PROVE  StreamIInv'
<1> PICK s, t, l : s = sent /\ t = sent' /\ l = Len(sent) OBVIOUS
<1>1. StreamTyped /\ OverlapsKept
  BY DEF StreamIInv
<1>2. /\ s \in Seq(visible) /\ l \in Nat /\ l # 0 /\ DOMAIN s = 1 .. l /\ l \in 1 .. l
      /\ c = s[l] /\ c \in Nat /\ c \in visible /\ c # 0
      /\ \A i \in 1 .. l : s[i] \in Nat
      /\ visible \subseteq Nat
  <2>1. s \in Seq(visible) BY <1>1 DEF StreamTyped
  <2>2. l # 0 /\ c = s[l] /\ c \in Nat /\ c # 0 /\ c \in visible BY <1>1, CursorIs
  <2>3. l \in Nat /\ DOMAIN s = 1 .. l /\ \A i \in 1 .. l : s[i] \in Nat BY <1>1, SentIs
  <2>4. visible \subseteq Nat BY <1>1, SentIs DEF Ids
  <2> QED BY <2>1, <2>2, <2>3, <2>4
<1> PICK S : S = {m \in visible : m > c} OBVIOUS
<1>3. /\ p \in Seq(S)
      /\ \A i, j \in DOMAIN p : i < j => p[i] < p[j]
      /\ \A m \in visible : m > c /\ m \notin ToSet(p) => \A i \in DOMAIN p : p[i] < m
  BY <1>1, FollowingIs
<1> PICK n : n = Len(p) OBVIOUS
<1>4. /\ n \in Nat /\ n # 0 /\ DOMAIN p = 1 .. n /\ n \in 1 .. n /\ p \in Seq(visible)
      /\ \A i \in 1 .. n : p[i] \in visible /\ p[i] \in Nat /\ c < p[i]
  <2>1. n \in Nat /\ n # 0 /\ DOMAIN p = 1 .. n /\ n \in 1 .. n BY <1>3
  <2>2. \A i \in 1 .. n : p[i] \in S BY <1>3, <2>1
  <2>3. p \in Seq(visible) BY <1>3
  <2> QED BY <1>2, <2>1, <2>2, <2>3
<1>5. /\ t \in Seq(visible) /\ Len(t) = l + n /\ DOMAIN t = 1 .. l + n
      /\ \A i \in 1 .. l : i \in DOMAIN t /\ t[i] = s[i]
      /\ \A i \in DOMAIN t : i \in 1 .. l \/ (l < i /\ i - l \in 1 .. n /\ t[i] = p[i - l])
      /\ \A i \in 1 .. n : l + i \in DOMAIN t /\ t[l + i] = p[i]
  BY <1>2, <1>4, SentThen
<1>6. StreamTyped'
  <2>1. Ids' = Ids BY DEF Ids
  <2> QED BY <1>1, <1>5, <2>1 DEF StreamTyped
<1>7. OverlapsKept'
  <2>1. Ids' = Ids BY DEF Ids
  <2> QED BY <1>1, <2>1 DEF OverlapsKept, Met
<1>8. PICK k \in Nat : SentAs(k)
  BY DEF StreamIInv
<1>9. /\ k \in 1 .. l /\ first = {s[i] : i \in 1 .. k}
      /\ \A i, j \in 1 .. k : s[i] = s[j] => i = j
      /\ \A i \in 1 .. l : k < i => s[k] < s[i]
      /\ \A i, j \in 1 .. l : k < i /\ i < j => s[i] < s[j]
      /\ stream = "journal" => \A i \in 1 .. k : s[k] < s[i] => Met(s[i], s[k])
  <2>1. s # <<>> /\ k \in 0 .. l /\ k # 0
    BY <1>8 DEF SentAs
  <2>2. k \in 1 .. l
    BY <1>2, <2>1
  <2>3. /\ first = {s[i] : i \in 1 .. k}
        /\ \A i, j \in 1 .. k : s[i] = s[j] => i = j
        /\ \A i \in DOMAIN s : k < i => s[k] < s[i]
        /\ \A i, j \in DOMAIN s : k < i /\ i < j => s[i] < s[j]
        /\ stream = "journal" => \A i \in 1 .. k : s[k] < s[i] => Met(s[i], s[k])
    BY <1>8 DEF SentAs
  <2> QED BY <1>2, <2>2, <2>3
<1>10. s[k] <= c /\ \A i \in 1 .. l : k < i => s[i] <= c
  <2>1. ASSUME NEW i \in 1 .. l, k <= i PROVE s[i] <= c
    <3>1. CASE i = l BY <1>2, <3>1
    <3>2. CASE i # l /\ i = k
      <4>1. k < l BY <1>2, <1>9, <3>2
      <4>2. s[k] < s[l] BY <1>2, <1>9, <4>1
      <4> QED BY <1>2, <1>9, <3>2, <4>2
    <3>3. CASE i # l /\ i # k
      <4>1. k < i /\ i < l BY <1>2, <1>9, <2>1, <3>3
      <4>2. s[i] < s[l] BY <1>2, <1>9, <4>1
      <4> QED BY <1>2, <4>2
    <3> QED BY <3>1, <3>2, <3>3
  <2>2. k \in 1 .. l /\ k <= k BY <1>9
  <2>3. \A i \in 1 .. l : k < i => k <= i BY <1>9
  <2> QED BY <2>1, <2>2, <2>3
<1>11. SentAs(k)'
  <2>1. \A i \in 1 .. k : i \in 1 .. l /\ t[i] = s[i]
    BY <1>2, <1>5, <1>9
  <2>2. t[k] = s[k] /\ k \in 1 .. k
    BY <1>9, <2>1
  <2>3. ASSUME NEW i \in DOMAIN t, k < i PROVE t[k] < t[i]
    <3>1. CASE i \in 1 .. l BY <1>5, <1>9, <2>2, <2>3, <3>1
    <3>2. CASE l < i /\ i - l \in 1 .. n /\ t[i] = p[i - l]
      <4>1. c < t[i] /\ t[i] \in Nat BY <1>4, <3>2
      <4>2. s[k] \in Nat BY <1>2, <1>9
      <4> QED BY <1>2, <1>10, <2>2, <4>1, <4>2
    <3> QED BY <1>5, <3>1, <3>2
  <2>4. ASSUME NEW i \in DOMAIN t, NEW j \in DOMAIN t, k < i, i < j PROVE t[i] < t[j]
    <3>1. CASE i \in 1 .. l /\ j \in 1 .. l BY <1>5, <1>9, <2>4, <3>1
    <3>2. CASE i \in 1 .. l /\ l < j /\ j - l \in 1 .. n /\ t[j] = p[j - l]
      <4>1. c < t[j] /\ t[j] \in Nat BY <1>4, <3>2
      <4>2. t[i] <= c /\ t[i] \in Nat BY <1>2, <1>5, <1>10, <2>4, <3>2
      <4> QED BY <1>2, <4>1, <4>2
    <3>3. CASE /\ l < i /\ i - l \in 1 .. n /\ t[i] = p[i - l]
               /\ l < j /\ j - l \in 1 .. n /\ t[j] = p[j - l]
      <4>1. i - l < j - l
        <5>1. i \in Nat /\ j \in Nat BY <1>2, <1>4, <1>5
        <5> QED BY <1>2, <2>4, <5>1
      <4> QED BY <1>3, <1>4, <3>3, <4>1
    <3>4. CASE l < i /\ j \in 1 .. l
      <4>1. i \in Nat /\ j \in Nat BY <1>2, <1>4, <1>5
      <4> QED BY <1>2, <2>4, <3>4, <4>1
    <3> QED BY <1>5, <3>1, <3>2, <3>3, <3>4
  <2>5. first = {t[i] : i \in 1 .. k}
    BY <1>9, <2>1
  <2>6. \A i, j \in 1 .. k : t[i] = t[j] => i = j
    BY <1>9, <2>1
  <2>7. stream = "journal" => \A i \in 1 .. k : t[k] < t[i] => Met(t[i], t[k])
    BY <1>9, <2>1, <2>2
  <2>8. k \in 0 .. Len(t) /\ k # 0
    BY <1>2, <1>4, <1>5, <1>9
  <2> QED BY <2>3, <2>4, <2>5, <2>6, <2>7, <2>8 DEF SentAs, Met
<1>12. ToSet(s) \subseteq ToSet(t) /\ ToSet(p) \subseteq ToSet(t)
  <2>1. \A i \in 1 .. l : s[i] \in ToSet(t)
    BY <1>5 DEF ToSet
  <2>2. \A i \in 1 .. n : p[i] \in ToSet(t)
    <3>1. \A i \in DOMAIN t : t[i] \in ToSet(t) BY DEF ToSet
    <3> QED BY <1>5, <3>1
  <2>3. ToSet(s) = {s[i] : i \in 1 .. l} /\ ToSet(p) = {p[i] : i \in 1 .. n}
    BY <1>2, <1>4 DEF ToSet
  <2> QED BY <2>1, <2>2, <2>3
<1>13. SkippedOnlyByOverlap'
  <2>1. Cursor' = p[n]
    <3>1. t # <<>> /\ Len(t) = l + n /\ t[l + n] = p[n]
      BY <1>2, <1>4, <1>5
    <3> QED BY <3>1 DEF Cursor
  <2>2. ASSUME NEW m \in visible, m <= p[n], m \notin ToSet(t) PROVE Missed(m)'
    <3>1. m \in Nat /\ m \notin ToSet(s) /\ m \notin ToSet(p) /\ p[n] \in Nat
      BY <1>2, <1>4, <1>12, <2>2
    <3>2. ~(m > c)
      BY <1>3, <1>4, <2>2, <3>1
    <3>3. Missed(m)
      BY <1>2, <3>1, <3>2 DEF StreamIInv, SkippedOnlyByOverlap
    <3> QED BY <1>12, <3>3 DEF Missed
  <2> QED BY <2>1, <2>2 DEF SkippedOnlyByOverlap
<1> QED BY <1>6, <1>7, <1>8, <1>11, <1>13 DEF StreamIInv

LEMMA PollStep == ASSUME StreamIInv, Poll PROVE StreamIInv'
<1>1. StreamTyped
  BY DEF StreamIInv
<1>2. UNCHANGED <<stream, drawn, opened, visible, overlap>>
  BY DEF Poll
<1>3. CASE sent = <<>>
  <2>1. Cursor = None BY <1>1, <1>3, CursorIs DEF None
  <2>2. PICK p \in Opening : p # <<>> /\ sent' = sent \o p /\ first' = ToSet(p) /\ older' = visible \ ToSet(p)
    BY <2>1 DEF Poll
  <2> QED BY <1>2, <1>3, <2>2, OpeningStep
<1>4. CASE sent # <<>>
  <2> PICK c : c = Cursor OBVIOUS
  <2>1. c # None BY <1>1, <1>4, CursorIs DEF None
  <2>2. PICK p \in Following(c) : p # <<>> /\ sent' = sent \o p /\ UNCHANGED <<first, older>>
    BY <2>1 DEF Poll
  <2> QED BY <1>2, <1>4, <2>2, FollowingStep
<1> QED BY <1>3, <1>4

LEMMA ReconnectStep == ASSUME StreamIInv, Reconnect PROVE StreamIInv'
<1>1. sent' = <<>> /\ first' = {} /\ older' = {} /\ UNCHANGED <<stream, drawn, opened, visible, overlap>>
  BY DEF Reconnect
<1>2. StreamTyped /\ Ids' = Ids
  BY <1>1 DEF StreamIInv, Ids
<1>3. StreamTyped'
  BY <1>1, <1>2 DEF StreamTyped
<1>4. OverlapsKept'
  BY <1>1, <1>2 DEF StreamIInv, OverlapsKept, Met
<1>5. SentAs(0)'
  <2>1. 1 .. 0 = {} OBVIOUS
  <2> QED BY <1>1, <2>1 DEF SentAs
<1>6. SkippedOnlyByOverlap'
  <2>1. Cursor' = 0 BY <1>1 DEF Cursor, None
  <2>2. \A m \in visible : ~(m <= 0)
    BY <1>2, SentIs DEF Ids
  <2> QED BY <1>1, <2>1, <2>2 DEF SkippedOnlyByOverlap
<1> QED BY <1>3, <1>4, <1>5, <1>6 DEF StreamIInv

LEMMA StreamStart == ASSUME ESInit PROVE StreamIInv
<1>1. Ids = {} /\ ToSet(opened) = {} /\ Messages \in Nat
  BY StreamAssumption DEF ESInit, Ids, ToSet
<1>2. StreamTyped
  BY <1>1 DEF ESInit, StreamTyped, IsInjective
<1>3. OverlapsKept /\ SkippedOnlyByOverlap
  BY <1>1 DEF ESInit, OverlapsKept, SkippedOnlyByOverlap
<1>4. SentAs(0)
  <2>1. 1 .. 0 = {} OBVIOUS
  <2> QED BY <2>1 DEF ESInit, SentAs
<1> QED BY <1>2, <1>3, <1>4 DEF StreamIInv

LEMMA StreamStep == ASSUME StreamIInv, [ESNext]_esVars PROVE StreamIInv'
<1>1. CASE UNCHANGED esVars
  <2>1. UNCHANGED <<stream, drawn, opened, visible, overlap, sent, first, older>> /\ Ids' = Ids
    BY <1>1 DEF esVars, Ids
  <2>2. (\E k \in Nat : SentAs(k)') /\ (\A m : Missed(m) => Missed(m)') /\ Cursor' = Cursor
    BY <2>1, ReaderStays
  <2>3. StreamTyped' BY <2>1 DEF StreamIInv, StreamTyped
  <2>4. OverlapsKept' BY <2>1 DEF StreamIInv, OverlapsKept, Met
  <2>5. SkippedOnlyByOverlap' BY <2>1, <2>2 DEF StreamIInv, SkippedOnlyByOverlap
  <2> QED BY <2>2, <2>3, <2>4, <2>5 DEF StreamIInv
<1>2. CASE ESNext
  BY <1>2, DrawStep, BeginWriteStep, CommitWriteStep, PollStep, ReconnectStep DEF ESNext
<1> QED BY <1>1, <1>2

\* The places of a row that was sent more than once: one on the first page, one after it.
LEMMA SentTwice ==
  ASSUME StreamTyped, NEW k \in Nat, SentAs(k), NEW m \in visible, NEW I, I = {i \in DOMAIN sent : sent[i] = m},
         Cardinality(I) > 1
  PROVE  Cardinality(I) = 2 /\ \E i \in 1 .. k, j \in DOMAIN sent : k < j /\ sent[i] = m /\ sent[j] = m
<1>1. Len(sent) \in Nat /\ DOMAIN sent = 1 .. Len(sent) /\ k \in 0 .. Len(sent)
      /\ \A i \in 1 .. Len(sent) : sent[i] \in Nat
  BY SentIs DEF SentAs
<1>2. I \subseteq 1 .. Len(sent) /\ IsFiniteSet(I)
  BY <1>1, FirstNumbers, FS_Subset
<1>3. ASSUME NEW i \in I, NEW j \in I, i <= k, j <= k PROVE i = j
  <2>1. i \in 1 .. k /\ j \in 1 .. k /\ sent[i] = sent[j] BY <1>1, <1>2, <1>3
  <2> QED BY <2>1 DEF SentAs
<1>4. ASSUME NEW i \in I, NEW j \in I, k < i, k < j PROVE i = j
  <2>1. i \in 1 .. Len(sent) /\ j \in 1 .. Len(sent) /\ sent[i] = sent[j] /\ sent[i] \in Nat
    BY <1>1, <1>2
  <2>2. ~(i < j) BY <1>1, <1>4, <2>1 DEF SentAs
  <2>3. ~(j < i) BY <1>1, <1>4, <2>1 DEF SentAs
  <2> QED BY <2>1, <2>2, <2>3
<1>5. \E i, j \in I : i # j
  <2>1. SUFFICES ASSUME \A i, j \in I : i = j PROVE FALSE
    OBVIOUS
  <2>2. CASE I = {}
    BY <2>2, FS_EmptySet
  <2>3. CASE I # {}
    <3>1. PICK i \in I : TRUE BY <2>3
    <3>2. I = {i} BY <2>1, <3>1
    <3>3. Cardinality({i}) = 1 BY FS_Singleton
    <3> QED BY <3>2, <3>3
  <2> QED BY <2>2, <2>3
<1>6. PICK i \in I, j \in I : i <= k /\ k < j
  <2>1. PICK x \in I, y \in I : x # y BY <1>5
  <2>2. x \in 1 .. Len(sent) /\ y \in 1 .. Len(sent) BY <1>2
  <2>3. CASE x <= k
    <3>1. ~(y <= k) BY <1>3, <2>1, <2>3
    <3>2. k < y BY <1>1, <2>2, <3>1
    <3> QED BY <2>3, <3>2
  <2>4. CASE ~(x <= k)
    <3>1. k < x BY <1>1, <2>2, <2>4
    <3>2. ~(k < y) BY <1>4, <2>1, <3>1
    <3>3. y <= k BY <1>1, <2>2, <3>2
    <3> QED BY <3>1, <3>3
  <2> QED BY <2>3, <2>4
<1>7. \A x \in I : x = i \/ x = j
  <2> TAKE x \in I
  <2>1. x \in 1 .. Len(sent) /\ (x <= k \/ k < x) BY <1>1, <1>2
  <2> QED BY <1>3, <1>4, <1>6, <2>1
<1>8. I = {i, j} /\ i # j
  <2>1. i # j BY <1>1, <1>2, <1>6
  <2> QED BY <1>7, <2>1
<1>9. Cardinality(I) = 2
  <2>1. IsFiniteSet({i}) /\ Cardinality({i}) = 1 BY FS_Singleton
  <2>2. j \notin {i} /\ I = {i} \cup {j} BY <1>8
  <2>3. Cardinality({i} \cup {j}) = Cardinality({i}) + 1 BY <2>1, <2>2, FS_AddElement
  <2> QED BY <2>1, <2>2, <2>3
<1>10. i \in 1 .. k /\ j \in DOMAIN sent /\ sent[i] = m /\ sent[j] = m
  BY <1>1, <1>2, <1>6
<1> QED BY <1>6, <1>9, <1>10

LEMMA StreamFollows == ASSUME StreamIInv PROVE StreamInv
<1>1. StreamTyped /\ SkippedOnlyByOverlap
  BY DEF StreamIInv
<1>2. ESTypeOK
  <2>1. ToSet(opened) \subseteq 1 .. Messages
    BY <1>1, FewElements DEF StreamTyped
  <2>2. ToSet(sent) \subseteq visible
    BY <1>1, FewElements DEF StreamTyped
  <2> QED BY <1>1, <2>1, <2>2 DEF StreamTyped, ESTypeOK
<1>3. SentAgainOnlyFromFirstPage
  <2>1. PICK k \in Nat : SentAs(k)
    BY DEF StreamIInv
  <2>2. ASSUME NEW m \in visible, Cardinality({i \in DOMAIN sent : sent[i] = m}) > 1
        PROVE  /\ Cardinality({i \in DOMAIN sent : sent[i] = m}) = 2 /\ m \in first
               /\ stream = "peer" \/ \E n \in first : n # m /\ <<m, n>> \in overlap
    <3> PICK I : I = {i \in DOMAIN sent : sent[i] = m} OBVIOUS
    <3>1. Cardinality(I) = 2 /\ \E i \in 1 .. k, j \in DOMAIN sent : k < j /\ sent[i] = m /\ sent[j] = m
      BY <1>1, <2>1, <2>2, SentTwice
    <3>2. PICK i \in 1 .. k, j \in DOMAIN sent : k < j /\ sent[i] = m /\ sent[j] = m
      BY <3>1
    <3> PICK n : n = sent[k] OBVIOUS
    <3>3. m \in first
      BY <2>1, <3>2 DEF SentAs
    <3>4. k \in 1 .. k /\ n \in first
      <4>1. k \in 1 .. k BY <3>2
      <4> QED BY <2>1, <4>1 DEF SentAs
    <3>5. n < m /\ m \in Nat
      BY <1>1, <2>1, <3>2, SentIs DEF SentAs
    <3>6. n \in Nat /\ n # m
      <4>1. n \in visible BY <1>1, <3>4 DEF StreamTyped
      <4>2. n \in Nat BY <1>1, <4>1, SentIs DEF Ids
      <4> QED BY <3>5, <4>2
    <3>7. stream = "journal" => Met(m, n)
      BY <2>1, <3>2, <3>4, <3>5 DEF SentAs
    <3> QED BY <1>1, <3>1, <3>3, <3>4, <3>6, <3>7 DEF StreamTyped, Met
  <2> QED BY <2>2 DEF SentAgainOnlyFromFirstPage
<1> QED BY <1>1, <1>2, <1>3 DEF StreamInv

\* A cursor over ids passes a row over, or sends it twice, only for the reasons named
\* there: writers that overlapped, and the first page of a topic.
THEOREM StreamsFollow == ESSpec => []StreamInv
<1>1. ESInit => StreamIInv
  BY StreamStart
<1>2. StreamIInv /\ [ESNext]_esVars => StreamIInv'
  BY StreamStep
<1>3. StreamIInv => StreamInv
  BY StreamFollows
<1> QED BY <1>1, <1>2, <1>3, PTL DEF ESSpec

==============================================================================
