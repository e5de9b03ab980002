---------------------------- MODULE EventStreams ----------------------------
(***************************************************************************)
(* Following a table over server-sent events: peer messages of a topic      *)
(* (routes/peer.rs) and the event journal (routes/stream.rs).  The reader   *)
(* polls; it remembers the id of the last row it sent and asks for greater  *)
(* ids.  A writer takes its id and its transaction's time at two different  *)
(* moments and shows its row at a third, its commit; so rows appear out of  *)
(* the order of either column.  A client whose connection drops, or who     *)
(* switches tail mode off and on (cli/src/repl.rs), starts over.            *)
(*                                                                          *)
(* A message is its place in the order of ids.  A query that fails is       *)
(* repeated and changes nothing.                                            *)
(***************************************************************************)
EXTENDS Naturals, FiniteSets, SequencesExt

CONSTANTS Messages,     \* bound: messages ever sent
          FirstPage, NextPage,    \* LIMIT of the first query and of the others
          MaxReconnects \* bound: connections after the first

ASSUME StreamAssumption == {FirstPage, NextPage} \subseteq Nat \ {0} /\ Messages \in Nat

VARIABLES stream,      \* "peer" or "journal"
          drawn,       \* ids 1 .. drawn are taken
          opened,       \* messages in the order of created_at
          visible,     \* messages committed
          overlap,     \* <<m, n>>: both were under way at one moment
          sent,        \* what this connection sent, in order
          first, older,    \* rows on its first page; rows committed then and not on it
          reconnects

esVars == <<stream, drawn, opened, visible, overlap, sent, first, older, reconnects>>

None == 0

-----------------------------------------------------------------------------
(* Writers *)

Ids == 1 .. drawn

UnderWay == (Ids \cup ToSet(opened)) \ visible

Meets(m) == overlap' = overlap \cup ({m} \X UnderWay) \cup (UnderWay \X {m})

\* A peer message has its id before its transaction begins, an event afterwards.
Draw ==
  LET m == drawn + 1 IN
  /\ drawn < Messages
  /\ stream = "journal" => m \in ToSet(opened)
  /\ drawn' = m /\ Meets(m)
  /\ UNCHANGED <<stream, opened, visible, sent, first, older, reconnects>>

BeginWrite(m) ==
  /\ m \notin ToSet(opened)
  /\ stream = "peer" => m \in Ids
  /\ opened' = Append(opened, m) /\ Meets(m)
  /\ UNCHANGED <<stream, drawn, visible, sent, first, older, reconnects>>

CommitWrite(m) ==
  /\ m \in UnderWay \cap Ids \cap ToSet(opened)
  /\ visible' = visible \cup {m}
  /\ UNCHANGED <<stream, drawn, opened, overlap, sent, first, older, reconnects>>

-----------------------------------------------------------------------------
(* The reader *)

\* The order of the rows does not matter to it: the last one sent is the cursor,
\* on the first page of a topic the oldest row.
Cursor == IF sent = <<>> THEN None ELSE sent[Len(sent)]

\* What LIMIT leaves of these rows: those before all others.
Foremost(S, limit, before) ==
  {T \in SUBSET S : /\ Cardinality(T) = IF Cardinality(S) < limit THEN Cardinality(S) ELSE limit
                    /\ \A m \in T, n \in S \ T : <<m, n>> \in before}

\* The page of them: these, in the order asked for.
Pages(S, limit, before) ==
  {p \in UNION {SetToSeqs(T) : T \in Foremost(S, limit, before)} :
     \A i, j \in DOMAIN p : i < j => <<p[i], p[j]>> \in before}

ById == {e \in Ids \X Ids : e[1] < e[2]}
ByTime == {e \in visible \X visible : \E i, j \in DOMAIN opened : i < j /\ e = <<opened[i], opened[j]>>}
Backwards(before) == {<<e[2], e[1]>> : e \in before}

\* The newest messages of the topic, the newest first; the oldest events.
Opening ==
  Pages(visible, FirstPage, IF stream = "peer" THEN Backwards(ByTime) ELSE ByTime)

\* Mistake: ids from the cursor on, the cursor included.
FollowingFrom(c) == Pages({m \in visible : m >= c}, NextPage, ById)

\* Mistake: the newest rows are taken when there are more than fit a page.
FollowingNewest(c) == Pages({m \in visible : m > c}, NextPage, Backwards(ById))

\* Mistake: waits for the next id, as if there were no gaps.
FollowingGapless(c) == Pages({m \in visible : m = c + 1}, NextPage, ById)

\* Mistake: rows are read before they are committed.
FollowingDirty(c) == Pages({m \in Ids : m > c}, NextPage, ById)

Following(c) == Pages({m \in visible : m > c}, NextPage, ById)

Poll ==
  /\ \E page \in IF Cursor = None THEN Opening ELSE Following(Cursor) :
       /\ page # <<>>
       /\ sent' = sent \o page
       /\ IF Cursor = None
          THEN first' = ToSet(page) /\ older' = visible \ ToSet(page)
          ELSE UNCHANGED <<first, older>>
  /\ UNCHANGED <<stream, drawn, opened, visible, overlap, reconnects>>

Reconnect ==
  /\ reconnects < MaxReconnects /\ reconnects' = reconnects + 1
  /\ sent' = <<>> /\ first' = {} /\ older' = {}
  /\ UNCHANGED <<stream, drawn, opened, visible, overlap>>

ESInit ==
  /\ stream \in {"peer", "journal"}
  /\ drawn = 0 /\ opened = <<>> /\ visible = {} /\ overlap = {}
  /\ sent = <<>> /\ first = {} /\ older = {} /\ reconnects = 0

ESNext ==
  \/ Draw
  \/ \E m \in 1 .. Messages : BeginWrite(m) \/ CommitWrite(m)
  \/ Poll
  \/ Reconnect

\* The server's loop sleeps two seconds and polls again; clients come and go.
ESSpec == ESInit /\ [][ESNext]_esVars /\ WF_esVars(Poll)

-----------------------------------------------------------------------------
(* Properties *)

ESTypeOK ==
  /\ drawn \in 0 .. Messages /\ ToSet(opened) \subseteq 1 .. Messages
  /\ visible \subseteq Ids /\ overlap \subseteq (1 .. Messages) \X (1 .. Messages)
  /\ ToSet(sent) \subseteq visible /\ first \subseteq visible /\ older \subseteq visible

\* What a client may miss at all: rows already there when it connected to a topic
\* and not on the first page, or written together with one it was sent.
Missed(m) ==
  \/ stream = "peer" /\ m \in older
  \/ \E n \in ToSet(sent) : n # m /\ <<m, n>> \in overlap

\* A row is passed over for good only when its transaction overlapped that of a
\* row already sent, or when it was too old for the first page of a topic.
SkippedOnlyByOverlap ==
  \A m \in visible : m <= Cursor /\ m \notin ToSet(sent) => Missed(m)

\* A connection sends a row twice at most, and twice only rows of the first page:
\* those of a topic, whose cursor is the oldest row, or rows whose transactions
\* overlapped, whose two orders differ.
SentAgainOnlyFromFirstPage ==
  \A m \in visible :
    LET times == Cardinality({i \in DOMAIN sent : sent[i] = m}) IN
    times > 1 => /\ times = 2 /\ m \in first
                 /\ stream = "peer" \/ \E n \in first : n # m /\ <<m, n>> \in overlap

\* What a cursor over ids does to rows committed in another order: a row is passed
\* over or sent twice only for the reasons named above, on both kinds of stream.
StreamInv ==
  /\ ESTypeOK
  /\ SkippedOnlyByOverlap
  /\ SentAgainOnlyFromFirstPage

\* A row that is committed is sent on the last connection, unless it may be missed.
CommittedIsSent ==
  \A m \in 1 .. Messages : m \in visible ~> m \in ToSet(sent) \/ Missed(m)
=============================================================================
