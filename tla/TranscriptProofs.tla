-------------------------- MODULE TranscriptProofs --------------------------
(***************************************************************************)
(* Machine-checked facts about a room's transcript, for either client, any *)
(* page size and any numbers of messages, changes and calls under way.     *)
(*                                                                         *)
(* The argument: up to the first named fault, a row differs from the       *)
(* server's message by nothing but what is still to come: an event due or  *)
(* on its way, the page being fetched, or a call of this account's.  That  *)
(* is said message by message (Shows), of an edit, a deletion, a post and  *)
(* the own reaction apart, for a step touches one message's row and leaves *)
(* the others' as they were (ApartShows).                                  *)
(***************************************************************************)
EXTENDS Transcript, FiniteSetTheorems, WellFoundedInduction, TLAPS

Kinds == {"post", "edit", "delete", "react", "unreact"}
Toggles == {"react", "unreact"}
Messages == [v : 0..1, mine : BOOLEAN, theirs : BOOLEAN, gone : BOOLEAN]
RowRecords == [v : 0..1, count : Nat, me : BOOLEAN]
Events == [kind : Kinds, id : Nat, row : RowRecords, mine : BOOLEAN]
CallRecords == [kind : Kinds, id : Nat, phase : {"sent", "answered", "failed"},
                undo : RowRecords, row : RowRecords]

(* w can be a row of message i: whoever reacted is counted, and the row is *)
(* not ahead of the message.                                               *)
RowOf(i, w) == /\ i \in Posted /\ w \in RowRecords
               /\ w.me => w.count > 0
               /\ w.v <= room[i].v
Table(f) == \A i \in DOMAIN f : RowOf(i, f[i])

\* An event carries a row of its message; an edit's says so, a post's is of a
\* message nobody reacted to yet, a deletion's comes after the message is gone.
Tells(e) == /\ RowOf(e.id, e.row)
            /\ e.mine => e.row.count > 0
            /\ e.kind = "edit" => e.row.v = 1
            /\ e.kind = "post" => ~e.row.me /\ ~e.mine
            /\ e.kind = "delete" => room[e.id].gone

\* A call is about a message that is posted, or posts one; what it would undo and
\* what it is answered with are rows of it.
Asks(c) == /\ c.id = 0 \/ c.id \in Posted
           /\ c.id = 0 => c.kind = "post" /\ c.phase # "answered"
           /\ c.kind = "delete" => RowOf(c.id, c.undo)
           /\ c.phase = "answered" =>
                /\ RowOf(c.id, c.row)
                /\ c.kind = "edit" => c.row.v = 1
                /\ c.kind = "post" => ~c.row.me

RoomTypes == room \in Seq(Messages) /\ Len(room) <= MaxMessages /\ ops \in 0..MaxOps
ScreenTypes ==
  /\ client \in Clients /\ open \in BOOLEAN /\ hears \in BOOLEAN /\ loaded \in BOOLEAN
  /\ unsent \in BOOLEAN /\ floor \in 1..(MaxMessages + 1)
RowTypes == Table(rows) /\ newest \subseteq DOMAIN rows
FetchTypes ==
  /\ fetch = [phase |-> fetch.phase, older |-> fetch.older, page |-> fetch.page,
              base |-> fetch.base, low |-> fetch.low]
  /\ fetch.phase \in {"none", "sent", "read"} /\ fetch.older \in BOOLEAN
  /\ fetch.low \in 1..(MaxMessages + 1)
  /\ Table(fetch.page) /\ Table(fetch.base)
News(q) == q \in Seq(Events) /\ \A n \in 1..Len(q) : Tells(q[n])
NewsTypes == News(frames) /\ News(outbox)
CallTypes == /\ calls \subseteq CallRecords /\ \A c \in calls : Asks(c)
             /\ IsFiniteSet(calls) /\ Cardinality(calls) <= MaxCalls
Types == /\ RoomTypes /\ ScreenTypes /\ RowTypes /\ FetchTypes /\ NewsTypes
         /\ CallTypes

(* What is mounted, connected and under way at one time.                   *)
Scene == /\ hears => open
         /\ ~hears => frames = <<>>
         /\ calls # {} => loaded
         /\ fetch.phase # "none" => fetch.older = loaded
         /\ open /\ ~loaded => fetch.phase # "none"
         /\ fetch.phase # "read" => DOMAIN fetch.page = {}

(* An event of kind k about message i is in a queue, or in one of the two. *)
Has(q, k, i) == \E n \in 1..Len(q) : q[n].kind = k /\ q[n].id = i
Coming(k, i) == Has(frames, k, i) \/ Has(outbox, k, i)
Later(q, n, k) == \E m \in 1..Len(q) : n < m /\ q[m].kind = k /\ q[m].id = q[n].id

(* The last event of a message that is gone says so, and a message that was*)
(* edited is posted before it is.                                          *)
Due(e, k) == \/ k = "delete" /\ e.kind # "delete" /\ room[e.id].gone
             \/ k = "edit" /\ e.kind = "post" /\ room[e.id].v = 1
InOrder ==
  \A k \in {"edit", "delete"} :
    /\ \A n \in 1..Len(frames) :
         Due(frames[n], k) => Later(frames, n, k) \/ Has(outbox, k, frames[n].id)
    /\ \A n \in 1..Len(outbox) : Due(outbox[n], k) => Later(outbox, n, k)

\* What the server's message says of a call: an answered one stands there; one
\* that toggles and was not carried out finds the reaction as it was.
Agrees(c) ==
  IF c.phase = "answered"
  THEN /\ c.kind = "delete" => room[c.id].gone
       /\ c.kind = "post" => ~room[c.id].mine
       /\ c.kind \in Toggles => c.row.me = room[c.id].mine
  ELSE /\ c.kind = "post" => c.id = 0
       /\ c.kind \in Toggles /\ room[c.id].v = 0 => room[c.id].mine = (c.kind = "unreact")

\* No two calls are about one message, and no two post.
CallsAgree ==
  /\ \A c \in calls, d \in calls :
       c.id = d.id \/ (c.kind = "post" /\ d.kind = "post") => c = d
  /\ \A c \in calls : Agrees(c)

\* Nothing is held before a page is; a page under way is for the rows there are.
PagesAgree ==
  /\ ~loaded => DOMAIN rows = {}
  /\ fetch.phase # "none" => fetch.base = rows
  /\ fetch.phase = "sent" /\ fetch.older => fetch.low = floor

\* An edit of i shows, wherever i is held, once no event of it is to come; so it
\* does in what a call for its deletion would put back.
EditShows(i) ==
  room[i].v = 1 /\ ~Coming("edit", i) =>
    /\ i \in DOMAIN rows => rows[i].v = 1
    /\ i \in DOMAIN fetch.page => fetch.page[i].v = 1
    /\ \A c \in calls : c.id = i => /\ c.kind = "delete" => c.undo.v = 1
                                    /\ c.kind # "post"

\* A message that is gone is held nowhere once no event of that is to come, and
\* only the call that deleted it is left.
DeleteShows(i) ==
  room[i].gone /\ ~Coming("delete", i) =>
    /\ i \notin DOMAIN rows /\ i \notin DOMAIN fetch.page
    /\ \A c \in calls : c.id = i => c.kind = "delete" /\ c.phase = "answered"

\* The web took the row out, and puts it back if the call fails.
Undoable(i) ==
  client = "web" /\ \E c \in calls : c.id = i /\ c.kind = "delete" /\ c.phase # "answered"

\* A message that stands is held wherever the pages reach down to it, once no
\* event of its post is to come.
PostShows(i) ==
  ~room[i].gone /\ ~Coming("post", i) =>
    /\ loaded /\ i >= floor => i \in DOMAIN rows \/ Undoable(i)
    /\ fetch.phase = "read" /\ i >= fetch.low /\ (loaded => i < floor) =>
         i \in DOMAIN fetch.page

\* One's own reaction to a message nobody edited is shown as the server holds it,
\* unless a call that toggles it is under way.
FlagShows(i) ==
  room[i].v = 0 /\ (\A c \in calls : c.id = i => c.kind \notin Toggles) =>
    /\ i \in DOMAIN rows => rows[i].me = room[i].mine
    /\ i \in DOMAIN fetch.page => fetch.page[i].me = room[i].mine
    /\ \A c \in calls : c.id = i /\ c.kind = "delete" => c.undo.me = room[i].mine
Shows(i) == EditShows(i) /\ DeleteShows(i) /\ PostShows(i) /\ FlagShows(i)

Agreed ==
  faults = {} => InOrder /\ CallsAgree /\ PagesAgree /\ \A i \in Posted : Shows(i)

\* Types and the scene hold whatever happens; the rest up to the first fault.
TranscriptInv == Types /\ Scene /\ Agreed
----------------------------------------------------------------------------
(* Tables of rows.                                                         *)

\* The ids of the messages posted.
LEMMA PostedIs ==
  ASSUME RoomTypes
  PROVE  /\ Len(room) \in Nat /\ Posted \subseteq Ids /\ Posted \subseteq Nat
         /\ 0 \notin Posted
         /\ \A i \in Posted : room[i] \in Messages
BY BoundsAreNat DEF RoomTypes, Posted, Ids

\* What one table laid over another holds.
LEMMA OverIs ==
  ASSUME NEW f, NEW g
  PROVE  /\ DOMAIN Over(f, g) = DOMAIN f \cup DOMAIN g
         /\ \A j \in DOMAIN f : Over(f, g)[j] = f[j]
         /\ \A j \in DOMAIN g : j \notin DOMAIN f => Over(f, g)[j] = g[j]
BY DEF Over

\* Rows laid over rows are rows of the same messages.
LEMMA OverTable ==
  ASSUME NEW f, NEW g, Table(f), Table(g)
  PROVE  Table(Over(f, g))
<1>1. SUFFICES ASSUME NEW j \in DOMAIN Over(f, g) PROVE RowOf(j, Over(f, g)[j])
  BY DEF Table
<1>2. j \in DOMAIN f \/ (j \in DOMAIN g /\ j \notin DOMAIN f)
  BY <1>1 DEF Over
<1>3. CASE j \in DOMAIN f
  BY <1>3 DEF Table, Over
<1>4. CASE j \in DOMAIN g /\ j \notin DOMAIN f
  BY <1>4 DEF Table, Over
<1>. QED BY <1>2, <1>3, <1>4

(* Whoever reacted is counted.                                             *)
LEMMA RowFacts ==
  ASSUME NEW m \in Messages, NEW me \in BOOLEAN, me => m.mine \/ m.theirs
  PROVE  /\ Row(m, me) \in RowRecords /\ Row(m, me).v = m.v /\ Row(m, me).me = me
         /\ me => Row(m, me).count > 0
<1>1. /\ B(m.mine) \in {0, 1} /\ B(m.theirs) \in {0, 1}
      /\ m.mine => B(m.mine) = 1
      /\ m.theirs => B(m.theirs) = 1
  BY DEF B, Messages
<1>2. Tally(m) \in Nat /\ (me => Tally(m) > 0)
  BY <1>1 DEF Tally
<1>. QED BY <1>2 DEF Row, RowRecords, Messages

(* The row of a message that is posted is one.                             *)
LEMMA RowIs ==
  ASSUME NEW i \in Posted, room[i] \in Messages, NEW me \in BOOLEAN,
         me => room[i].mine \/ room[i].theirs
  PROVE  RowOf(i, Row(room[i], me)) /\ Row(room[i], me).v = room[i].v
         /\ Row(room[i], me).me = me
<1>1. room[i].v \in 0..1
  BY DEF Messages
<1>. QED BY <1>1, RowFacts DEF RowOf

(* What is done to the rows is done to one message's.                      *)
Elsewhere(i) ==
  \A j : j # i => /\ j \in DOMAIN rows' <=> j \in DOMAIN rows
                  /\ j \in DOMAIN rows => rows'[j] = rows[j]

\* A row put in (mergeMessages) leaves the others as they are.
LEMMA MergeIs ==
  ASSUME NEW i, NEW r, rows' = Merge(i, r)
  PROVE  Elsewhere(i) /\ DOMAIN rows' = DOMAIN rows \cup {i} /\ rows'[i] = r
<1>1. DOMAIN rows' = DOMAIN rows \cup {i} /\ rows'[i] = r
  BY DEF Merge, Over
<1>2. \A j \in DOMAIN rows : j # i => rows'[j] = rows[j]
  BY DEF Merge, Over
<1>. QED BY <1>1, <1>2 DEF Elsewhere

\* A transcript left alone is left alone but for any message.
LEMMA SameIs ==
  ASSUME NEW i, rows' = rows
  PROVE  Elsewhere(i)
BY DEF Elsewhere

(* The transcript that a step leaves is typed if the row it wrote is.      *)
LEMMA WrittenTypes ==
  ASSUME RowTypes, NEW i, Elsewhere(i), room' = room,
         i \in DOMAIN rows' => RowOf(i, rows'[i]),
         newest' \subseteq newest \cup {i}, i \in newest' => i \in DOMAIN rows'
  PROVE  RowTypes'
<1>1. \A j, w : RowOf(j, w) => RowOf(j, w)'
  BY DEF RowOf, Posted
<1>2. \A j \in DOMAIN rows' : RowOf(j, rows'[j])
  <2>1. TAKE j \in DOMAIN rows'
  <2>2. CASE j = i
    BY <2>2
  <2>3. CASE j # i
    BY <2>3 DEF RowTypes, Table, Elsewhere
  <2>. QED BY <2>2, <2>3
<1>3. newest' \subseteq DOMAIN rows'
  BY DEF RowTypes, Elsewhere
<1>4. Table(rows)'
  BY <1>1, <1>2 DEF Table
<1>. QED BY <1>3, <1>4 DEF RowTypes

\* The rows that a post's frame or answer leaves (applyMessageCreated).
LEMMA CreatedIs ==
  ASSUME RowTypes, NEW i, NEW r, RowOf(i, r), room' = room, Created(i, r)
  PROVE  /\ RowTypes' /\ Elsewhere(i)
         /\ IF client = "web" /\ ~loaded THEN rows' = rows
            ELSE i \in DOMAIN rows' /\ rows'[i] = r
<1>1. CASE client = "web" /\ ~loaded
  <2>1. rows' = rows /\ newest' = newest
    BY <1>1 DEF Created
  <2>2. i \in DOMAIN rows => RowOf(i, rows[i])
    BY DEF RowTypes, Table
  <2>. QED BY <1>1, <2>1, <2>2, SameIs, WrittenTypes DEF RowTypes
<1>2. CASE ~(client = "web" /\ ~loaded)
  <2>1. rows' = Merge(i, r) /\ newest' = newest \cup {i}
    BY <1>2 DEF Created
  <2>2. Elsewhere(i) /\ DOMAIN rows' = DOMAIN rows \cup {i} /\ rows'[i] = r
    BY <2>1, MergeIs
  <2>. QED BY <1>2, <2>1, <2>2, WrittenTypes
<1>. QED BY <1>1, <1>2

\* The rows that an edit's frame or answer leaves (applyMessageUpdated):
\* the web looks on its first page only.
LEMMA UpdatedIs ==
  ASSUME RowTypes, NEW i, NEW r, RowOf(i, r), room' = room, Updated(i, r)
  PROVE  /\ RowTypes' /\ Elsewhere(i)
         /\ IF client = "mobile" \/ i \in newest \cap DOMAIN rows
            THEN i \in DOMAIN rows' /\ rows'[i] = r ELSE rows' = rows
<1>1. newest' = newest
  BY DEF Updated
<1>2. CASE client = "mobile" \/ i \in newest \cap DOMAIN rows
  <2>1. rows' = Merge(i, r)
    BY <1>2 DEF Updated
  <2>2. Elsewhere(i) /\ DOMAIN rows' = DOMAIN rows \cup {i} /\ rows'[i] = r
    BY <2>1, MergeIs
  <2>. QED BY <1>1, <1>2, <2>2, WrittenTypes
<1>3. CASE ~(client = "mobile" \/ i \in newest \cap DOMAIN rows)
  <2>1. rows' = rows
    BY <1>3 DEF Updated
  <2>2. i \in DOMAIN rows => RowOf(i, rows[i])
    BY DEF RowTypes, Table
  <2>. QED BY <1>1, <1>3, <2>1, <2>2, SameIs, WrittenTypes DEF RowTypes
<1>. QED BY <1>2, <1>3

\* The rows that a deletion leaves (applyMessageDeleted).
LEMMA DeletedIs ==
  ASSUME RowTypes, NEW i, room' = room, Deleted(i)
  PROVE  RowTypes' /\ Elsewhere(i) /\ i \notin DOMAIN rows'
<1>1. rows' = Without(rows, i) /\ newest' = newest \ {i}
  BY DEF Deleted
<1>2. Elsewhere(i) /\ i \notin DOMAIN rows'
  BY <1>1 DEF Without, Elsewhere
<1>. QED BY <1>1, <1>2, WrittenTypes

(* The row of a message that is held takes another's place.                *)
LEMMA ReplacedIs ==
  ASSUME RowTypes, NEW i, NEW r, RowOf(i, r), room' = room, newest' = newest,
         rows' = IF i \in DOMAIN rows THEN [rows EXCEPT ![i] = r] ELSE rows
  PROVE  /\ RowTypes' /\ Elsewhere(i)
         /\ i \in DOMAIN rows' <=> i \in DOMAIN rows
         /\ i \in DOMAIN rows => rows'[i] = r
<1>1. /\ Elsewhere(i) /\ (i \in DOMAIN rows' <=> i \in DOMAIN rows)
      /\ i \in DOMAIN rows => rows'[i] = r
  BY DEF Elsewhere
<1>. QED BY <1>1, WrittenTypes DEF RowTypes
----------------------------------------------------------------------------
(* A change is committed.                                                  *)

\* What each kind of change makes of a message.
LEMMA ChangedIs ==
  ASSUME NEW k \in Kinds, NEW m \in Messages, NEW who \in {"me", "other"}
  PROVE  /\ Changed(k, m, who) \in Messages
         /\ k = "post" => Changed(k, m, who) = Fresh
         /\ k = "edit" => Changed(k, m, who) = [m EXCEPT !.v = 1]
         /\ k = "delete" => Changed(k, m, who) = [m EXCEPT !.gone = TRUE]
         /\ k = "react" /\ who = "me" => Changed(k, m, who) = [m EXCEPT !.mine = TRUE]
         /\ k = "unreact" /\ who = "me" => Changed(k, m, who) = [m EXCEPT !.mine = FALSE]
         /\ k = "react" /\ who = "other" => Changed(k, m, who) = [m EXCEPT !.theirs = TRUE]
         /\ k = "unreact" /\ who = "other" =>
              Changed(k, m, who) = [m EXCEPT !.theirs = FALSE]
<1>1. CASE k = "post"
  BY <1>1 DEF Changed, Fresh, Messages
<1>2. CASE k = "edit"
  BY <1>2 DEF Changed, Messages
<1>3. CASE k = "delete"
  BY <1>3 DEF Changed, Messages
<1>4. CASE k = "react"
  BY <1>4 DEF Changed, Messages
<1>5. CASE k = "unreact"
  BY <1>5 DEF Changed, Messages
<1>. QED BY <1>1, <1>2, <1>3, <1>4, <1>5 DEF Kinds

(* What a change of kind k by `who` makes of the message m.                *)
Becomes(k, m, who, n) ==
  /\ n \in Messages
  /\ n.v = IF k = "edit" THEN 1 ELSE m.v
  /\ n.gone = (k = "delete" \/ m.gone)
  /\ k \notin Toggles \/ who = "other" => n.mine = m.mine
  /\ k \in Toggles /\ who = "me" => n.mine = (k = "react")
  /\ k \in Toggles => n.v = m.v

\* A change does to a message what its kind says.
LEMMA ChangedBecomes ==
  ASSUME NEW k \in Kinds, k # "post", NEW m \in Messages, NEW who \in {"me", "other"}
  PROVE  Becomes(k, m, who, Changed(k, m, who))
<1>1. CASE k = "edit"
  <2>1. Changed(k, m, who) = [m EXCEPT !.v = 1]
    BY <1>1, ChangedIs
  <2>. QED BY <1>1, <2>1, ChangedIs DEF Becomes, Messages, Toggles
<1>2. CASE k = "delete"
  <2>1. Changed(k, m, who) = [m EXCEPT !.gone = TRUE]
    BY <1>2, ChangedIs
  <2>. QED BY <1>2, <2>1, ChangedIs DEF Becomes, Messages, Toggles
<1>3. CASE k = "react" /\ who = "me"
  <2>1. Changed(k, m, who) = [m EXCEPT !.mine = TRUE]
    BY <1>3, ChangedIs
  <2>. QED BY <1>3, <2>1, ChangedIs DEF Becomes, Messages, Toggles
<1>4. CASE k = "react" /\ who = "other"
  <2>1. Changed(k, m, who) = [m EXCEPT !.theirs = TRUE]
    BY <1>4, ChangedIs
  <2>. QED BY <1>4, <2>1, ChangedIs DEF Becomes, Messages, Toggles
<1>5. CASE k = "unreact" /\ who = "me"
  <2>1. Changed(k, m, who) = [m EXCEPT !.mine = FALSE]
    BY <1>5, ChangedIs
  <2>. QED BY <1>5, <2>1, ChangedIs DEF Becomes, Messages, Toggles
<1>6. CASE k = "unreact" /\ who = "other"
  <2>1. Changed(k, m, who) = [m EXCEPT !.theirs = FALSE]
    BY <1>6, ChangedIs
  <2>. QED BY <1>6, <2>1, ChangedIs DEF Becomes, Messages, Toggles
<1>. QED BY <1>1, <1>2, <1>3, <1>4, <1>5, <1>6 DEF Kinds

\* What a committed change does to the room and to the events due.
LEMMA CommitIs ==
  ASSUME RoomTypes, NEW k \in Kinds, NEW i, NEW who \in {"me", "other"}, Commit(k, i, who)
  PROVE  /\ RoomTypes' /\ i \in Posted' /\ i \in Nat /\ i # 0 /\ Posted \subseteq Posted'
         /\ \A j \in Posted : j # i => room'[j] = room[j]
         /\ \A j \in Posted' : j # i => j \in Posted
         /\ k = "post" => i \notin Posted /\ i = Len(room) + 1 /\ room'[i] = Fresh
         /\ k # "post" => /\ i \in Posted /\ ~room[i].gone
                          /\ Becomes(k, room[i], who, room'[i])
         /\ k = "edit" => room[i].v = 0
         /\ room'[i] \in Messages
         /\ outbox' = IF k # "post" /\ room'[i] = room[i] THEN outbox
                      ELSE Append(outbox, Event(k, i, room'[i], who))
<1>1. /\ room \in Seq(Messages) /\ Len(room) \in Nat /\ MaxMessages \in Nat
      /\ Len(room) <= MaxMessages /\ ops \in 0..MaxOps /\ MaxOps \in Nat
  BY BoundsAreNat DEF RoomTypes
<1>2. ops < MaxOps /\ ops' = ops + 1
  BY DEF Commit, Allowed
<1>3. Fresh \in Messages
  BY DEF Fresh, Messages
<1>4. CASE k = "post"
  <2>1. i = Len(room) + 1 /\ i \in Ids
    BY <1>4 DEF Commit, Allowed
  <2>2. Changed("post", Fresh, who) = Fresh
    BY DEF Changed
  <2>3. room' = Append(room, Fresh)
    BY <1>4, <2>2 DEF Commit
  <2>4. /\ room' \in Seq(Messages) /\ Len(room') = Len(room) + 1
        /\ room'[i] = Fresh /\ \A j \in 1..Len(room) : room'[j] = room[j]
    BY <1>1, <1>3, <2>1, <2>3
  <2>5. outbox' = Append(outbox, Event(k, i, room'[i], who))
    BY <1>4, <2>2, <2>4 DEF Commit
  <2>6. RoomTypes'
    BY <1>1, <1>2, <2>1, <2>4 DEF RoomTypes, Ids
  <2>. QED BY <1>1, <1>3, <1>4, <2>1, <2>4, <2>5, <2>6 DEF Posted
<1>5. CASE k # "post"
  <2>1. i \in Posted /\ ~room[i].gone /\ (k = "edit" => room[i].v = 0)
    BY <1>5 DEF Commit, Allowed, Alive
  <2>2. i \in 1..Len(room) /\ room[i] \in Messages
    BY <1>1, <2>1 DEF Posted
  <2>. DEFINE m == Changed(k, room[i], who)
  <2>3. m \in Messages /\ Becomes(k, room[i], who, m)
    BY <1>5, <2>2, ChangedIs, ChangedBecomes
  <2>4. room' = [room EXCEPT ![i] = m]
    BY <1>5 DEF Commit
  <2>5. outbox' = IF k # "post" /\ m = room[i] THEN outbox
                  ELSE Append(outbox, Event(k, i, m, who))
    BY <1>5 DEF Commit
  <2>. HIDE DEF m
  <2>6. /\ room' \in Seq(Messages) /\ Len(room') = Len(room)
        /\ room'[i] = m /\ \A j \in 1..Len(room) : j # i => room'[j] = room[j]
    BY <1>1, <2>2, <2>3, <2>4
  <2>7. RoomTypes'
    BY <1>1, <1>2, <2>6 DEF RoomTypes
  <2>. QED BY <1>1, <1>5, <2>1, <2>2, <2>3, <2>5, <2>6, <2>7 DEF Posted
<1>. QED BY <1>4, <1>5

(* What was a row, an event or a call of a message still is.               *)
Grows == /\ Posted \subseteq Posted'
         /\ \A j \in Posted : /\ room'[j].v \in 0..1 /\ room[j].v <= room'[j].v
                              /\ room[j].gone => room'[j].gone

LEMMA GrowsKeeps ==
  ASSUME RoomTypes, Grows
  PROVE  /\ \A j, w : RowOf(j, w) => RowOf(j, w)'
         /\ \A e : Tells(e) => Tells(e)'
         /\ \A c : Asks(c) => Asks(c)'
<1>1. \A j \in Posted : room[j].v \in 0..1
  BY PostedIs DEF Messages
<1>2. ASSUME NEW j, NEW w, RowOf(j, w) PROVE RowOf(j, w)'
  BY <1>1, <1>2 DEF RowOf, Grows, RowRecords
<1>3. ASSUME NEW e, Tells(e) PROVE Tells(e)'
  BY <1>2, <1>3 DEF Tells, Grows, RowOf
<1>4. ASSUME NEW c, Asks(c) PROVE Asks(c)'
  BY <1>2, <1>4 DEF Asks, Grows
<1>. QED BY <1>2, <1>3, <1>4

\* A room left alone has lost nothing.
LEMMA StillKeeps ==
  ASSUME RoomTypes, room' = room
  PROVE  Grows
BY PostedIs DEF Grows, Posted, Messages

\* A committed change takes back no message, no edit and no deletion.
LEMMA CommitGrows ==
  ASSUME RoomTypes, NEW k \in Kinds, NEW i, NEW who \in {"me", "other"}, Commit(k, i, who)
  PROVE  Grows
<1>1. ASSUME NEW j \in Posted
      PROVE  /\ room'[j].v \in 0..1 /\ room[j].v <= room'[j].v
             /\ room[j].gone => room'[j].gone
  <2>1. room[j] \in Messages
    BY PostedIs
  <2>2. CASE j # i
    BY <2>1, <2>2, CommitIs DEF Messages
  <2>3. CASE j = i
    <3>1. k # "post" /\ Becomes(k, room[i], who, room'[i])
      BY <2>3, CommitIs
    <3>. QED BY <2>1, <2>3, <3>1 DEF Becomes, Messages
  <2>. QED BY <2>2, <2>3
<1>. QED BY <1>1, CommitIs DEF Grows

\* The event of a change is about the message as the change left it.
LEMMA EventIs ==
  ASSUME RoomTypes, NEW k \in Kinds, NEW i, NEW who \in {"me", "other"}, Commit(k, i, who),
         NEW e, e = Event(k, i, room'[i], who)
  PROVE  e \in Events /\ e.kind = k /\ e.id = i /\ Tells(e)' /\ e.mine = room'[i].mine
<1>1. PICK m : m = room'[i]
  OBVIOUS
<1>2. PICK me : me = IF who = "me" THEN m.mine ELSE m.theirs
  OBVIOUS
<1>3. m \in Messages /\ i \in Posted' /\ i \in Nat /\ RoomTypes'
  BY <1>1, CommitIs
<1>4. me \in BOOLEAN /\ (me => m.mine \/ m.theirs) /\ m.mine \in BOOLEAN /\ m.theirs \in BOOLEAN
  BY <1>2, <1>3 DEF Messages
<1>5. /\ B(m.mine) \in {0, 1} /\ B(m.theirs) \in {0, 1}
      /\ m.mine => B(m.mine) = 1
      /\ m.theirs => B(m.theirs) = 1
  BY <1>4 DEF B
<1>6. Tally(m) \in Nat /\ (m.mine \/ m.theirs => Tally(m) > 0)
  BY <1>5 DEF Tally
<1>7. e = [kind |-> k, id |-> i, row |-> Row(m, me), mine |-> m.mine]
  BY <1>1, <1>2 DEF Event
<1>8. PICK w : w = Row(m, me)
  OBVIOUS
<1>9. w \in RowRecords /\ w.v = m.v /\ w.me = me /\ w.count = Tally(m)
  BY <1>3, <1>4, <1>6, <1>8 DEF Row, RowRecords, Messages
<1>10. RowOf(i, w)'
  <2>1. m.v \in 0..1
    BY <1>3 DEF Messages
  <2>. QED BY <1>1, <1>3, <1>4, <1>6, <1>9, <2>1 DEF RowOf
<1>11. e.kind = k /\ e.id = i /\ e.mine = m.mine /\ e.row = w /\ e \in Events
  BY <1>3, <1>4, <1>7, <1>8, <1>9 DEF Events
<1>12. /\ k = "edit" => m.v = 1
       /\ k = "delete" => m.gone
  BY <1>1, CommitIs DEF Becomes, Toggles
<1>13. k = "post" => ~me /\ ~m.mine
  <2>1. k = "post" => m = Fresh
    BY <1>1, CommitIs
  <2>. QED BY <1>2, <2>1 DEF Fresh
<1>14. Tells(e)'
  BY <1>1, <1>4, <1>6, <1>9, <1>10, <1>11, <1>12, <1>13 DEF Tells
<1>. QED BY <1>1, <1>11, <1>14
----------------------------------------------------------------------------
(* Events on their way.                                                    *)

(* p is q with e at its end.                                               *)
Adds(q, e, p) ==
  /\ q \in Seq(Events) /\ e \in Events
  /\ p \in Seq(Events) /\ Len(p) = Len(q) + 1 /\ p[Len(p)] = e
  /\ \A n \in 1..Len(q) : p[n] = q[n]

\* An event appended is added.
LEMMA AppendAdds ==
  ASSUME NEW q \in Seq(Events), NEW e \in Events
  PROVE  Adds(q, e, Append(q, e))
BY DEF Adds

\* What a queue holds with one event more.
LEMMA AddsHas ==
  ASSUME NEW q, NEW e, NEW p, Adds(q, e, p)
  PROVE  /\ \A k, i : Has(p, k, i) <=> Has(q, k, i) \/ (e.kind = k /\ e.id = i)
         /\ \A n \in 1..Len(q) : \A k :
              Later(p, n, k) <=> Later(q, n, k) \/ (e.kind = k /\ e.id = q[n].id)
<1>1. /\ Len(p) = Len(q) + 1 /\ p[Len(p)] = e /\ Len(q) \in Nat
      /\ \A n \in 1..Len(q) : p[n] = q[n]
  BY DEF Adds
<1>2. ASSUME NEW k, NEW i
      PROVE  Has(p, k, i) <=> Has(q, k, i) \/ (e.kind = k /\ e.id = i)
  BY <1>1 DEF Has
<1>3. ASSUME NEW n \in 1..Len(q), NEW k
      PROVE  Later(p, n, k) <=> Later(q, n, k) \/ (e.kind = k /\ e.id = q[n].id)
  BY <1>1 DEF Later
<1>. QED BY <1>2, <1>3

(* p is q without its n-th event.                                          *)
Cuts(q, n, p) ==
  /\ q \in Seq(Events) /\ p \in Seq(Events) /\ Len(q) = Len(p) + 1 /\ n \in 1..Len(q)
  /\ \A m \in 1..Len(p) : p[m] = IF m < n THEN q[m] ELSE q[m + 1]

\* The events of two queues, one after the other.
LEMMA JoinedIs ==
  ASSUME NEW a \in Seq(Events), NEW b \in Seq(Events)
  PROVE  /\ a \o b \in Seq(Events) /\ Len(a \o b) = Len(a) + Len(b)
         /\ Len(a) \in Nat /\ Len(b) \in Nat
         /\ \A m \in 1..Len(a) : (a \o b)[m] = a[m]
         /\ \A m \in 1..Len(b) : (a \o b)[m + Len(a)] = b[m]
OBVIOUS

\* Publishing the n-th event takes it out of the queue.
LEMMA PublishCuts ==
  ASSUME NEW q \in Seq(Events), NEW n \in 1..Len(q)
  PROVE  Cuts(q, n, SubSeq(q, 1, n - 1) \o SubSeq(q, n + 1, Len(q)))
<1>1. Len(q) \in Nat /\ n \in Nat /\ n >= 1 /\ n <= Len(q)
  OBVIOUS
<1>2. PICK a : a = SubSeq(q, 1, n - 1)
  OBVIOUS
<1>3. PICK b : b = SubSeq(q, n + 1, Len(q))
  OBVIOUS
<1>4. /\ a \in Seq(Events) /\ Len(a) = n - 1
      /\ \A m \in 1..(n - 1) : a[m] = q[m]
  BY <1>1, <1>2
<1>5. b \in Seq(Events) /\ Len(b) = Len(q) - n
  BY <1>1, <1>3
<1>6. \A m \in 1..(Len(q) - n) : b[m] = q[m + n]
  <2>1. TAKE m \in 1..(Len(q) - n)
  <2>2. b[m] = q[n + 1 + m - 1]
    BY <1>1, <1>3
  <2>3. n + 1 + m - 1 = m + n
    BY <1>1
  <2>. QED BY <2>2, <2>3
<1>7. PICK p : p = a \o b
  OBVIOUS
<1>8. /\ p \in Seq(Events) /\ Len(p) = Len(a) + Len(b)
      /\ \A m \in 1..Len(a) : p[m] = a[m]
      /\ \A m \in 1..Len(b) : p[m + Len(a)] = b[m]
  BY <1>4, <1>5, <1>7, JoinedIs
<1>9. Len(q) = Len(p) + 1 /\ Len(p) \in Nat
  BY <1>1, <1>4, <1>5, <1>8
<1>10. ASSUME NEW m \in 1..Len(p) PROVE p[m] = IF m < n THEN q[m] ELSE q[m + 1]
  <2>1. CASE m < n
    <3>1. m \in 1..(n - 1)
      BY <1>1, <1>9, <2>1
    <3>. QED BY <1>4, <1>8, <2>1, <3>1
  <2>2. CASE ~(m < n)
    <3>1. PICK l : l = m - (n - 1)
      OBVIOUS
    <3>2. l \in 1..(Len(q) - n) /\ l + (n - 1) = m /\ l + n = m + 1
      BY <1>1, <1>9, <2>2, <3>1
    <3>3. p[m] = b[l]
      BY <1>4, <1>5, <1>8, <3>2
    <3>. QED BY <1>6, <2>2, <3>2, <3>3
  <2>. QED BY <2>1, <2>2
<1>. QED BY <1>1, <1>2, <1>3, <1>7, <1>8, <1>9, <1>10 DEF Cuts

\* Taking the next frame takes the first event out of the queue.
LEMMA TailCuts ==
  ASSUME NEW q \in Seq(Events), q # <<>>
  PROVE  Cuts(q, 1, Tail(q)) /\ Head(q) = q[1]
<1>1. /\ Tail(q) \in Seq(Events) /\ Len(q) = Len(Tail(q)) + 1 /\ 1 \in 1..Len(q)
      /\ Head(q) = q[1] /\ Len(Tail(q)) \in Nat
      /\ \A m \in 1..Len(Tail(q)) : Tail(q)[m] = q[m + 1]
  OBVIOUS
<1>. QED BY <1>1 DEF Cuts

\* What a queue holds with one event less.
LEMMA CutHas ==
  ASSUME NEW q, NEW n, NEW p, Cuts(q, n, p)
  PROVE  /\ p \in Seq(Events) /\ q[n] \in Events
         /\ \A k, i : Has(q, k, i) <=> Has(p, k, i) \/ (q[n].kind = k /\ q[n].id = i)
<1>1. Len(q) \in Nat /\ n \in Nat /\ n >= 1 /\ n <= Len(q) /\ q[n] \in Events
  BY DEF Cuts
<1>5. p \in Seq(Events) /\ Len(q) = Len(p) + 1 /\ Len(p) \in Nat
  BY DEF Cuts
<1>6. \A m \in 1..Len(p) : p[m] = IF m < n THEN q[m] ELSE q[m + 1]
  BY DEF Cuts
<1>7. ASSUME NEW k, NEW i
      PROVE  Has(q, k, i) <=> Has(p, k, i) \/ (q[n].kind = k /\ q[n].id = i)
  <2>1. ASSUME Has(q, k, i) PROVE Has(p, k, i) \/ (q[n].kind = k /\ q[n].id = i)
    <3>1. PICK m \in 1..Len(q) : q[m].kind = k /\ q[m].id = i
      BY <2>1 DEF Has
    <3>2. CASE m < n
      <4>1. m \in 1..Len(p) /\ p[m] = q[m]
        BY <1>1, <1>5, <1>6, <3>2
      <4>. QED BY <3>1, <4>1 DEF Has
    <3>3. CASE m > n
      <4>1. m - 1 \in 1..Len(p) /\ ~(m - 1 < n) /\ (m - 1) + 1 = m
        BY <1>1, <1>5, <3>3
      <4>2. p[m - 1] = q[m]
        BY <1>6, <4>1
      <4>. QED BY <3>1, <4>1, <4>2 DEF Has
    <3>. QED BY <1>1, <3>1, <3>2, <3>3
  <2>2. ASSUME Has(p, k, i) PROVE Has(q, k, i)
    <3>1. PICK m \in 1..Len(p) : p[m].kind = k /\ p[m].id = i
      BY <2>2 DEF Has
    <3>2. m \in 1..Len(q) /\ m + 1 \in 1..Len(q) /\ (p[m] = q[m] \/ p[m] = q[m + 1])
      BY <1>5, <1>6
    <3>. QED BY <3>1, <3>2 DEF Has
  <2>3. ASSUME q[n].kind = k /\ q[n].id = i PROVE Has(q, k, i)
    BY <1>1, <2>3 DEF Has
  <2>. QED BY <2>1, <2>2, <2>3
<1>. QED BY <1>1, <1>5, <1>7

(* What is later than an event that stays, is still later or was taken out.*)
LEMMA CutLater ==
  ASSUME NEW q, NEW n, NEW p, Cuts(q, n, p), NEW m \in 1..Len(p), NEW k
  PROVE  LET o == IF m < n THEN m ELSE m + 1 IN
         /\ o \in 1..Len(q) /\ p[m] = q[o]
         /\ Later(q, o, k) => \/ Later(p, m, k)
                              \/ m < n /\ q[n].kind = k /\ q[n].id = q[m].id
<1>. DEFINE o == IF m < n THEN m ELSE m + 1
<1>1. /\ Len(q) = Len(p) + 1 /\ Len(p) \in Nat /\ n \in Nat /\ m \in Nat
      /\ n <= Len(q)
      /\ \A l \in 1..Len(p) : p[l] = IF l < n THEN q[l] ELSE q[l + 1]
  BY DEF Cuts
<1>2. o \in 1..Len(q) /\ p[m] = q[o]
  BY <1>1
<1>3. ASSUME Later(q, o, k)
      PROVE  Later(p, m, k) \/ (m < n /\ q[n].kind = k /\ q[n].id = q[m].id)
  <2>1. PICK l \in 1..Len(q) : o < l /\ q[l].kind = k /\ q[l].id = q[o].id
    BY <1>3 DEF Later
  <2>2. CASE l < n
    <3>0. m <= o /\ o \in Nat
      BY <1>1
    <3>. HIDE DEF o
    <3>1. m < l /\ l \in 1..Len(p)
      BY <1>1, <2>1, <2>2, <3>0
    <3>3. p[l] = q[l]
      BY <1>1, <2>2, <3>1
    <3>. QED BY <1>2, <2>1, <3>1, <3>3 DEF Later
  <2>3. CASE l = n
    BY <1>1, <1>2, <2>1, <2>3
  <2>4. CASE l > n
    <3>1. l - 1 \in 1..Len(p) /\ m < l - 1 /\ ~(l - 1 < n) /\ (l - 1) + 1 = l
      BY <1>1, <1>2, <2>1, <2>4
    <3>2. p[l - 1] = q[l]
      BY <1>1, <3>1
    <3>. QED BY <1>2, <2>1, <3>1, <3>2 DEF Later
  <2>. QED BY <1>1, <2>1, <2>2, <2>3, <2>4
<1>. QED BY <1>2, <1>3

(* What is later than the event taken out stays.                           *)
LEMMA CutBehind ==
  ASSUME NEW q, NEW n, NEW p, Cuts(q, n, p), NEW k, Later(q, n, k)
  PROVE  Has(p, k, q[n].id)
<1>1. Len(q) = Len(p) + 1 /\ Len(p) \in Nat /\ n \in Nat
  BY DEF Cuts
<1>2. PICK l \in 1..Len(q) : n < l /\ q[l].kind = k /\ q[l].id = q[n].id
  BY DEF Later
<1>3. l - 1 \in 1..Len(p) /\ ~(l - 1 < n) /\ (l - 1) + 1 = l
  <2>1. n >= 1
    BY DEF Cuts
  <2>. QED BY <1>1, <1>2, <2>1
<1>4. p[l - 1] = q[l]
  BY <1>3 DEF Cuts
<1>. QED BY <1>2, <1>3, <1>4 DEF Has

\* The queues after a change is committed: its event is due, in order.
LEMMA CommitNews ==
  ASSUME RoomTypes, NewsTypes, NEW k \in Kinds, NEW i, NEW who \in {"me", "other"},
         Commit(k, i, who), frames' = frames
  PROVE  /\ NewsTypes' /\ (InOrder => InOrder')
         /\ \A l, j : Coming(l, j) => Coming(l, j)'
         /\ \A l, j : Coming(l, j)' => Coming(l, j) \/ (l = k /\ j = i)
         /\ k \notin Toggles => Coming(k, i)'
<1>1. /\ frames \in Seq(Events) /\ \A n \in 1..Len(frames) : Tells(frames[n])
      /\ outbox \in Seq(Events) /\ \A n \in 1..Len(outbox) : Tells(outbox[n])
      /\ Len(outbox) \in Nat /\ Len(frames) \in Nat
  BY DEF NewsTypes, News
<1>2. Grows /\ \A e : Tells(e) => Tells(e)'
  BY CommitGrows, GrowsKeeps
<1>3. News(frames)'
  BY <1>1, <1>2 DEF News
<1>4. \A j \in Posted : j # i => room'[j] = room[j]
  BY CommitIs
<1>5. CASE k # "post" /\ room'[i] = room[i]
  <2>1. outbox' = outbox
    BY <1>5, CommitIs
  <2>2. News(outbox)'
    BY <1>1, <1>2, <2>1 DEF News
  <2>3. \A j \in Posted : room'[j] = room[j]
    BY <1>4, <1>5
  <2>4. \A l, j : Coming(l, j)' <=> Coming(l, j)
    BY <2>1 DEF Coming, Has
  <2>5. ASSUME InOrder PROVE InOrder'
    <3>1. \A n \in 1..Len(frames) : \A l : Due(frames[n], l)' => Due(frames[n], l)
      BY <1>1, <2>3 DEF Due, Tells, RowOf
    <3>2. \A n \in 1..Len(outbox) : \A l : Due(outbox[n], l)' => Due(outbox[n], l)
      BY <1>1, <2>1, <2>3 DEF Due, Tells, RowOf
    <3>3. ASSUME NEW l \in {"edit", "delete"}, NEW n \in 1..Len(frames), Due(frames[n], l)'
          PROVE  Later(frames, n, l) \/ Has(outbox, l, frames[n].id)
      BY <2>5, <3>1, <3>3 DEF InOrder
    <3>4. ASSUME NEW l \in {"edit", "delete"}, NEW n \in 1..Len(outbox), Due(outbox[n], l)'
          PROVE  Later(outbox, n, l)
      BY <2>5, <3>2, <3>4 DEF InOrder
    <3>. QED BY <2>1, <3>3, <3>4 DEF InOrder
  <2>6. k \in Toggles
    <3>1. room[i] \in Messages /\ Becomes(k, room[i], who, room'[i]) /\ ~room[i].gone
          /\ (k = "edit" => room[i].v = 0)
      BY <1>5, CommitIs, PostedIs
    <3>2. k # "edit"
      BY <1>5, <3>1 DEF Becomes, Toggles
    <3>3. k # "delete"
      BY <1>5, <3>1 DEF Becomes, Toggles
    <3>. QED BY <1>5, <3>2, <3>3 DEF Kinds, Toggles
  <2>. QED BY <1>3, <2>2, <2>4, <2>5, <2>6 DEF NewsTypes
<1>6. CASE ~(k # "post" /\ room'[i] = room[i])
  <2>1. PICK e : e = Event(k, i, room'[i], who)
    OBVIOUS
  <2>2. e \in Events /\ e.kind = k /\ e.id = i /\ Tells(e)'
    BY <2>1, EventIs
  <2>3. outbox' = Append(outbox, e)
    BY <1>6, <2>1, CommitIs
  <2>4. /\ outbox' \in Seq(Events) /\ Len(outbox') = Len(outbox) + 1 /\ outbox'[Len(outbox')] = e
        /\ \A n \in 1..Len(outbox) : outbox'[n] = outbox[n]
        /\ \A l, j : Has(outbox', l, j) <=> Has(outbox, l, j) \/ (e.kind = l /\ e.id = j)
        /\ \A n \in 1..Len(outbox) : \A l :
             Later(outbox', n, l) <=> Later(outbox, n, l) \/ (e.kind = l /\ e.id = outbox[n].id)
    <3>1. Adds(outbox, e, outbox')
      BY <1>1, <2>2, <2>3, AppendAdds
    <3>2. /\ \A l, j : Has(outbox', l, j) <=> Has(outbox, l, j) \/ (e.kind = l /\ e.id = j)
          /\ \A n \in 1..Len(outbox) : \A l :
               Later(outbox', n, l) <=> Later(outbox, n, l) \/ (e.kind = l /\ e.id = outbox[n].id)
      BY <3>1, AddsHas
    <3>. QED BY <3>1, <3>2 DEF Adds
  <2>5. \A n \in 1..Len(outbox') : n \in 1..Len(outbox) \/ n = Len(outbox')
    BY <1>1, <2>4
  <2>6. News(outbox)'
    BY <1>1, <1>2, <2>2, <2>4, <2>5 DEF News
  <2>7. \A l, j : Coming(l, j)' <=> Coming(l, j) \/ (l = k /\ j = i)
    BY <2>2, <2>4 DEF Coming
  <2>8. \A f, l : Tells(f) /\ Due(f, l)' /\ l \in {"edit", "delete"} => Due(f, l) \/ (l = k /\ f.id = i)
    <3>1. TAKE f, l
    <3>2. HAVE Tells(f) /\ Due(f, l)' /\ l \in {"edit", "delete"}
    <3>3. f.id \in Posted
      BY <3>2 DEF Tells, RowOf
    <3>4. CASE f.id # i
      BY <1>4, <3>2, <3>3, <3>4 DEF Due
    <3>5. CASE f.id = i
      <4>1. room[i] \in Messages /\ k # "post" /\ Becomes(k, room[i], who, room'[i])
        BY <3>3, <3>5, CommitIs, PostedIs
      <4>2. CASE l = "delete"
        <5>1. room'[i].gone
          BY <3>2, <3>5, <4>2 DEF Due
        <5>2. k = "delete" \/ room[i].gone
          BY <4>1, <5>1 DEF Becomes
        <5>. QED BY <3>2, <3>5, <4>2, <5>2 DEF Due
      <4>3. CASE l = "edit"
        <5>1. room'[i].v = 1 /\ f.kind = "post"
          BY <3>2, <3>5, <4>3 DEF Due
        <5>2. k = "edit" \/ room[i].v = 1
          BY <4>1, <5>1 DEF Becomes
        <5>. QED BY <3>2, <3>5, <4>3, <5>1, <5>2 DEF Due
      <4>. QED BY <3>2, <4>2, <4>3
    <3>. QED BY <3>4, <3>5
  <2>9. \A l \in {"edit", "delete"} : ~Due(e, l)'
    <3>1. k = "post" => room'[i].v = 0 /\ ~room'[i].gone
      BY CommitIs DEF Fresh
    <3>2. k # "post" /\ k # "delete" => ~room'[i].gone
      <4>1. k # "post" => /\ room[i] \in Messages /\ ~room[i].gone
                          /\ Becomes(k, room[i], who, room'[i])
        BY CommitIs, PostedIs
      <4>. QED BY <4>1 DEF Becomes
    <3>. QED BY <2>2, <3>1, <3>2 DEF Due
  <2>10. ASSUME InOrder PROVE InOrder'
    <3>1. ASSUME NEW l \in {"edit", "delete"}, NEW n \in 1..Len(frames), Due(frames[n], l)'
          PROVE  Later(frames, n, l) \/ Has(outbox', l, frames[n].id)
      BY <1>1, <2>2, <2>4, <2>8, <2>10, <3>1 DEF InOrder
    <3>2. ASSUME NEW l \in {"edit", "delete"}, NEW n \in 1..Len(outbox'), Due(outbox[n], l)'
          PROVE  Later(outbox', n, l)
      <4>1. PICK f : f = outbox'[n]
        OBVIOUS
      <4>2. Due(f, l)'
        BY <3>2, <4>1 DEF Due
      <4>3. n \in 1..Len(outbox)
        BY <2>4, <2>5, <2>9, <4>1, <4>2
      <4>4. f = outbox[n] /\ Tells(f)
        BY <1>1, <2>4, <4>1, <4>3
      <4>5. Due(f, l) \/ (l = k /\ f.id = i)
        BY <2>8, <4>2, <4>4
      <4>. QED BY <2>2, <2>4, <2>10, <4>3, <4>4, <4>5 DEF InOrder
    <3>. QED BY <3>1, <3>2 DEF InOrder
  <2>. QED BY <1>3, <2>6, <2>7, <2>10 DEF NewsTypes
<1>. QED BY <1>5, <1>6

(* What the queues are after the next frame is taken.                      *)
LEMMA ReceiveNews ==
  ASSUME NewsTypes, frames # <<>>, NEW e, e = Head(frames), frames' = Tail(frames),
         outbox' = outbox, room' = room
  PROVE  /\ NewsTypes' /\ e \in Events /\ Tells(e)
         /\ InOrder =>
              /\ InOrder'
              /\ \A k \in {"edit", "delete"} :
                   Due(e, k) => Coming(k, e.id)'
         /\ \A k, i : Coming(k, i) <=>
              Coming(k, i)' \/ (e.kind = k /\ e.id = i)
<1>1. /\ frames \in Seq(Events) /\ \A n \in 1..Len(frames) : Tells(frames[n])
      /\ outbox \in Seq(Events) /\ \A n \in 1..Len(outbox) : Tells(outbox[n])
      /\ Len(frames) \in Nat
  BY DEF NewsTypes, News
<1>2. Cuts(frames, 1, frames') /\ e = frames[1]
  BY <1>1, TailCuts
<1>3. /\ frames' \in Seq(Events) /\ Len(frames) = Len(frames') + 1 /\ e \in Events
      /\ 1 \in 1..Len(frames) /\ Len(frames') \in Nat
      /\ \A k, i : Has(frames, k, i) <=> Has(frames', k, i) \/ (e.kind = k /\ e.id = i)
  <2>1. /\ frames' \in Seq(Events) /\ Len(frames) = Len(frames') + 1
        /\ 1 \in 1..Len(frames) /\ Len(frames') \in Nat
    BY <1>2 DEF Cuts
  <2>2. /\ frames[1] \in Events
        /\ \A k, i : Has(frames, k, i) <=> Has(frames', k, i) \/ (frames[1].kind = k /\ frames[1].id = i)
    BY <1>2, CutHas
  <2>. QED BY <1>2, <2>1, <2>2
<1>9. \A n \in 1..Len(frames') :
        /\ n + 1 \in 1..Len(frames) /\ frames'[n] = frames[n + 1]
        /\ \A k : Later(frames, n + 1, k) => Later(frames', n, k)
  <2>1. TAKE n \in 1..Len(frames')
  <2>2. ~(n < 1)
    BY <1>3
  <2>3. \A k : Later(frames, n + 1, k) => Later(frames', n, k)
    BY <1>2, <2>2, CutLater
  <2>. QED BY <1>2, <1>3, <2>2, <2>3 DEF Cuts
<1>4. (\A f : Tells(f)' <=> Tells(f)) /\ (\A f, k : Due(f, k)' <=> Due(f, k))
  BY DEF Tells, RowOf, Due, Posted
<1>5. NewsTypes' /\ Tells(e)
  BY <1>1, <1>2, <1>3, <1>4, <1>9 DEF NewsTypes, News
<1>6. \A k, i : Coming(k, i) <=> Coming(k, i)' \/ (e.kind = k /\ e.id = i)
  BY <1>3 DEF Coming
<1>7. ASSUME InOrder, NEW k \in {"edit", "delete"}, Due(e, k) PROVE Coming(k, e.id)'
  <2>1. Later(frames, 1, k) \/ Has(outbox, k, e.id)
    BY <1>2, <1>3, <1>7 DEF InOrder
  <2>2. Has(frames', k, e.id) \/ Has(outbox, k, e.id)
    BY <1>2, <2>1, CutBehind
  <2>. QED BY <2>2 DEF Coming
<1>8. ASSUME InOrder PROVE InOrder'
  <2>1. ASSUME NEW k \in {"edit", "delete"}, NEW n \in 1..Len(frames'), Due(frames'[n], k)
        PROVE  Later(frames', n, k) \/ Has(outbox, k, frames'[n].id)
    BY <1>3, <1>8, <1>9, <2>1 DEF InOrder
  <2>2. \A k \in {"edit", "delete"}, n \in 1..Len(outbox) :
          Due(outbox[n], k) => Later(outbox, n, k)
    BY <1>8 DEF InOrder
  <2>. QED BY <1>4, <2>1, <2>2 DEF InOrder
<1>. QED BY <1>3, <1>5, <1>6, <1>7, <1>8

(* An event is published: nothing about it that is earlier stays behind.   *)
LEMMA PublishNews ==
  ASSUME NewsTypes, NEW n \in 1..Len(outbox), room' = room,
         Cuts(outbox, n, outbox'),
         IF hears THEN Adds(frames, outbox[n], frames') ELSE frames = <<>> /\ frames' = <<>>
  PROVE  /\ NewsTypes'
         /\ hears => \A k, i : Coming(k, i)' <=> Coming(k, i)
         /\ InOrder /\ (\A j \in 1..(n - 1) : outbox[j].id # outbox[n].id) => InOrder'
<1>. DEFINE e == outbox[n]
<1>1. /\ frames \in Seq(Events) /\ \A m \in 1..Len(frames) : Tells(frames[m])
      /\ outbox \in Seq(Events) /\ \A m \in 1..Len(outbox) : Tells(outbox[m])
      /\ Len(frames) \in Nat /\ Len(outbox) \in Nat
  BY DEF NewsTypes, News
<1>2. Cuts(outbox, n, outbox')
  OBVIOUS
<1>3. /\ outbox' \in Seq(Events) /\ e \in Events
      /\ \A k, i : Has(outbox, k, i) <=> Has(outbox', k, i) \/ (e.kind = k /\ e.id = i)
  BY <1>2, CutHas
<1>4. (\A f : Tells(f)' <=> Tells(f)) /\ (\A f, k : Due(f, k)' <=> Due(f, k))
  BY DEF Tells, RowOf, Due, Posted
<1>5. \A m \in 1..Len(outbox') : \E o \in 1..Len(outbox) :
        /\ outbox'[m] = outbox[o] /\ o = IF m < n THEN m ELSE m + 1
        /\ \A k : Later(outbox, o, k) => \/ Later(outbox', m, k)
                                         \/ m < n /\ e.kind = k /\ e.id = outbox[m].id
  <2>1. TAKE m \in 1..Len(outbox')
  <2>2. PICK o : o = IF m < n THEN m ELSE m + 1
    OBVIOUS
  <2>3. o \in 1..Len(outbox) /\ outbox'[m] = outbox[o]
    BY <1>2, <2>2, CutLater
  <2>4. \A k : Later(outbox, o, k) => \/ Later(outbox', m, k)
                                      \/ m < n /\ e.kind = k /\ e.id = outbox[m].id
    BY <1>2, <2>2, CutLater
  <2>. QED BY <2>2, <2>3, <2>4
<1>6. News(outbox)'
  BY <1>1, <1>3, <1>4, <1>5 DEF News
<1>7. hears => /\ frames' \in Seq(Events) /\ Len(frames') = Len(frames) + 1
               /\ frames'[Len(frames')] = e
               /\ \A m \in 1..Len(frames) : frames'[m] = frames[m]
               /\ \A k, i : Has(frames', k, i) <=> Has(frames, k, i) \/ (e.kind = k /\ e.id = i)
               /\ \A m \in 1..Len(frames) : \A k :
                    Later(frames', m, k) <=> Later(frames, m, k) \/ (e.kind = k /\ e.id = frames[m].id)
  <2>1. SUFFICES ASSUME hears
                 PROVE  /\ Adds(frames, e, frames')
                        /\ \A k, i : Has(frames', k, i) <=> Has(frames, k, i) \/ (e.kind = k /\ e.id = i)
                        /\ \A m \in 1..Len(frames) : \A k :
                             Later(frames', m, k) <=> Later(frames, m, k) \/ (e.kind = k /\ e.id = frames[m].id)
    BY DEF Adds
  <2>2. Adds(frames, e, frames')
    BY <2>1
  <2>. QED BY <2>2, AddsHas
<1>8. ~hears => frames' = <<>> /\ frames = <<>>
  OBVIOUS
<1>9. News(frames)'
  <2>1. CASE hears
    <3>1. \A m \in 1..Len(frames') : m \in 1..Len(frames) \/ m = Len(frames')
      BY <1>1, <1>7, <2>1
    <3>. QED BY <1>1, <1>4, <1>7, <2>1, <3>1 DEF News
  <2>2. CASE ~hears
    BY <1>8, <2>2 DEF News
  <2>. QED BY <2>1, <2>2
<1>10. hears => \A k, i : Coming(k, i)' <=> Coming(k, i)
  BY <1>3, <1>7 DEF Coming
<1>11. ASSUME InOrder, \A j \in 1..(n - 1) : outbox[j].id # outbox[n].id PROVE InOrder'
  <2>1. ASSUME NEW k \in {"edit", "delete"}, NEW m \in 1..Len(outbox'), Due(outbox'[m], k)
        PROVE  Later(outbox', m, k)
    <3>1. PICK o \in 1..Len(outbox) :
            /\ outbox'[m] = outbox[o] /\ o = IF m < n THEN m ELSE m + 1
            /\ \A l : Later(outbox, o, l) => \/ Later(outbox', m, l)
                                             \/ m < n /\ e.kind = l /\ e.id = outbox[m].id
      BY <1>5
    <3>2. Later(outbox, o, k)
      BY <1>11, <2>1, <3>1 DEF InOrder
    <3>3. ~(m < n /\ e.id = outbox[m].id)
      BY <1>1, <1>11, <2>1
    <3>. QED BY <3>1, <3>2, <3>3
  <2>2. ASSUME NEW k \in {"edit", "delete"}, NEW m \in 1..Len(frames'), Due(frames'[m], k)
        PROVE  Later(frames', m, k) \/ Has(outbox', k, frames'[m].id)
    <3>1. hears
      BY <1>8, <2>2
    <3>2. CASE m \in 1..Len(frames)
      <4>1. frames'[m] = frames[m]
        BY <1>7, <3>1, <3>2
      <4>2. Later(frames, m, k) \/ Has(outbox, k, frames[m].id)
        BY <1>11, <2>2, <3>2, <4>1 DEF InOrder
      <4>. QED BY <1>3, <1>7, <3>1, <3>2, <4>1, <4>2
    <3>3. CASE m = Len(frames')
      <4>1. frames'[m] = e
        BY <1>7, <3>1, <3>3
      <4>2. Later(outbox, n, k)
        BY <1>11, <2>2, <4>1 DEF InOrder
      <4>. QED BY <1>2, <4>1, <4>2, CutBehind
    <3>. QED BY <1>1, <1>7, <3>1, <3>2, <3>3
  <2>. QED BY <1>4, <2>1, <2>2 DEF InOrder
<1>. QED BY <1>6, <1>9, <1>10, <1>11 DEF NewsTypes

(* The connection is lost, or the screen left.                             *)
LEMMA EmptiedNews ==
  ASSUME NewsTypes, frames' = <<>>, outbox' = outbox, room' = room
  PROVE  NewsTypes' /\ (InOrder => InOrder')
<1>1. (\A f : Tells(f)' <=> Tells(f)) /\ (\A f, k : Due(f, k)' <=> Due(f, k))
  BY DEF Tells, RowOf, Due, Posted
<1>2. News(outbox)' /\ News(frames)'
  BY <1>1 DEF NewsTypes, News
<1>3. ASSUME InOrder PROVE InOrder'
  <2>1. \A k \in {"edit", "delete"}, n \in 1..Len(outbox) :
          Due(outbox[n], k) => Later(outbox, n, k)
    BY <1>3 DEF InOrder
  <2>2. \A n : n \notin 1..Len(frames')
    OBVIOUS
  <2>. QED BY <1>1, <2>1, <2>2 DEF InOrder
<1>. QED BY <1>2, <1>3 DEF NewsTypes

\* Queues left alone over a room left alone.
LEMMA StillNews ==
  ASSUME NewsTypes, UNCHANGED <<room, outbox, frames>>
  PROVE  /\ NewsTypes' /\ (InOrder => InOrder')
         /\ \A k, i : Coming(k, i)' <=> Coming(k, i)
BY DEF NewsTypes, News, Tells, RowOf, Posted, InOrder, Due, Later, Has, Coming
----------------------------------------------------------------------------
(* What a step leaves alone.                                               *)

\* What was held before a change to the room is typed after it.
LEMMA KeptTypes ==
  ASSUME RoomTypes, Grows
  PROVE  /\ RowTypes /\ UNCHANGED <<rows, newest>> => RowTypes'
         /\ FetchTypes /\ UNCHANGED fetch => FetchTypes'
         /\ CallTypes /\ UNCHANGED calls => CallTypes'
<1>1. /\ \A j, w : RowOf(j, w) => RowOf(j, w)'
      /\ \A c : Asks(c) => Asks(c)'
  BY GrowsKeeps
<1>2. ASSUME RowTypes, UNCHANGED <<rows, newest>> PROVE RowTypes'
  BY <1>1, <1>2 DEF RowTypes, Table
<1>3. ASSUME FetchTypes, UNCHANGED fetch PROVE FetchTypes'
  <2>1. Table(fetch.page)' /\ Table(fetch.base)'
    BY <1>1, <1>3 DEF FetchTypes, Table
  <2>. QED BY <1>3, <2>1 DEF FetchTypes
<1>4. ASSUME CallTypes, UNCHANGED calls PROVE CallTypes'
  BY <1>1, <1>4 DEF CallTypes
<1>. QED BY <1>2, <1>3, <1>4

\* What a step that changes no message leaves alone is typed after it.
LEMMA StillTypes ==
  ASSUME Types, UNCHANGED <<room, ops>>
  PROVE  /\ RoomTypes' /\ Grows
         /\ UNCHANGED <<rows, newest>> => RowTypes'
         /\ UNCHANGED fetch => FetchTypes'
         /\ UNCHANGED calls => CallTypes'
         /\ UNCHANGED <<outbox, frames>> => NewsTypes'
<1>1. RoomTypes' /\ Grows
  <2>1. Grows
    BY StillKeeps DEF Types
  <2>. QED BY <2>1 DEF Types, RoomTypes
<1>. QED BY <1>1, KeptTypes, StillNews DEF Types

(* A message that nothing is done to is shown as before.                   *)
LEMMA ApartShows ==
  ASSUME NEW j, Shows(j), room'[j] = room[j],
         j \in DOMAIN rows' <=> j \in DOMAIN rows,
         j \in DOMAIN rows => rows'[j] = rows[j],
         \A d : d.id = j => (d \in calls' <=> d \in calls),
         \A k \in Kinds : Coming(k, j) => Coming(k, j)',
         UNCHANGED <<client, loaded, floor, fetch>>
  PROVE  Shows(j)'
<1>1. /\ Coming("edit", j) => Coming("edit", j)'
      /\ Coming("delete", j) => Coming("delete", j)'
      /\ Coming("post", j) => Coming("post", j)'
  BY DEF Kinds
<1>2. EditShows(j)'
  BY <1>1 DEF Shows, EditShows
<1>3. DeleteShows(j)'
  BY <1>1 DEF Shows, DeleteShows
<1>4. PostShows(j)'
  BY <1>1 DEF Shows, PostShows, Undoable
<1>5. FlagShows(j)'
  BY DEF Shows, FlagShows
<1>. QED BY <1>2, <1>3, <1>4, <1>5 DEF Shows

(* Nothing changes but what is on its way and whether the client hears.    *)
LEMMA HeardShows ==
  ASSUME \A i \in Posted : Shows(i), \A k \in Kinds : \A i : Coming(k, i) => Coming(k, i)',
         UNCHANGED <<client, room, rows, calls, loaded, floor, fetch>>
  PROVE  \A i \in Posted' : Shows(i)'
<1>1. Posted' = Posted
  BY DEF Posted
<1>2. SUFFICES ASSUME NEW i \in Posted PROVE Shows(i)'
  BY <1>1
<1>. QED BY ApartShows

\* With some calls over, the others agree with the room still.
LEMMA AgreeIs ==
  ASSUME room' = room, calls' \subseteq calls, CallsAgree
  PROVE  CallsAgree'
BY DEF CallsAgree, Agrees

\* The server takes up the client's subscription (useRoomSubscription.ts).
LEMMA SubscribedKeeps == TranscriptInv /\ Subscribed => TranscriptInv'
<1>. SUFFICES ASSUME TranscriptInv, Subscribed PROVE TranscriptInv'
  OBVIOUS
<1>1. /\ open /\ hears' = TRUE /\ UNCHANGED <<client, room, ops, outbox, open, frames>>
      /\ UNCHANGED <<loaded, newest, floor, fetch, rows, calls, unsent, faults>>
  BY DEF Subscribed, serverVars, pageVars
<1>2. Types'
  BY <1>1, StillTypes DEF TranscriptInv, Types, ScreenTypes
<1>3. Scene'
  BY <1>1 DEF TranscriptInv, Scene
<1>4. ASSUME faults' = {}
      PROVE  InOrder' /\ CallsAgree' /\ PagesAgree' /\ \A i \in Posted' : Shows(i)'
  <2>1. InOrder /\ CallsAgree /\ PagesAgree /\ \A i \in Posted : Shows(i)
    BY <1>1, <1>4 DEF TranscriptInv, Agreed
  <2>2. InOrder' /\ \A k, i : Coming(k, i)' <=> Coming(k, i)
    BY <1>1, <2>1, StillNews DEF TranscriptInv, Types
  <2>3. CallsAgree' /\ PagesAgree'
    BY <1>1, <2>1, AgreeIs DEF PagesAgree
  <2>. QED BY <1>1, <2>1, <2>2, <2>3, HeardShows
<1>. QED BY <1>2, <1>3, <1>4 DEF TranscriptInv, Agreed

\* A message that failed is discarded (discard).
LEMMA DiscardKeeps == TranscriptInv /\ Discard => TranscriptInv'
<1>. SUFFICES ASSUME TranscriptInv, Discard PROVE TranscriptInv'
  OBVIOUS
<1>1. /\ unsent' = FALSE /\ UNCHANGED <<client, room, ops, outbox, open, hears, frames>>
      /\ UNCHANGED <<loaded, newest, floor, fetch, rows, calls, faults>>
  BY DEF Discard, serverVars, pageVars, screenVars
<1>2. Types'
  BY <1>1, StillTypes DEF TranscriptInv, Types, ScreenTypes
<1>3. Scene'
  BY <1>1 DEF TranscriptInv, Scene
<1>4. ASSUME faults' = {}
      PROVE  InOrder' /\ CallsAgree' /\ PagesAgree' /\ \A i \in Posted' : Shows(i)'
  <2>1. InOrder /\ CallsAgree /\ PagesAgree /\ \A i \in Posted : Shows(i)
    BY <1>1, <1>4 DEF TranscriptInv, Agreed
  <2>2. InOrder' /\ \A k, i : Coming(k, i)' <=> Coming(k, i)
    BY <1>1, <2>1, StillNews DEF TranscriptInv, Types
  <2>3. CallsAgree' /\ PagesAgree'
    BY <1>1, <2>1, AgreeIs DEF PagesAgree
  <2>. QED BY <1>1, <2>1, <2>2, <2>3, HeardShows
<1>. QED BY <1>2, <1>3, <1>4 DEF TranscriptInv, Agreed

(* Nothing shows that a client without a transcript could be wrong about.  *)
LEMMA NothingShows ==
  ASSUME \A i \in Posted : Shows(i), RowTypes, room' = room, DOMAIN rows' = {},
         DOMAIN fetch'.page = {}, fetch'.phase # "read", ~loaded', calls' = {}
  PROVE  \A i \in Posted' : Shows(i)'
<1>1. Posted' = Posted
  BY DEF Posted
<1>2. SUFFICES ASSUME NEW i \in Posted PROVE Shows(i)'
  BY <1>1
<1>. QED BY DEF Shows, EditShows, DeleteShows, PostShows, FlagShows

\* The connection is lost (handleClose).
LEMMA LostKeeps == TranscriptInv /\ Lost => TranscriptInv'
<1>. SUFFICES ASSUME TranscriptInv, Lost PROVE TranscriptInv'
  OBVIOUS
<1>1. /\ hears' = FALSE /\ frames' = <<>> /\ UNCHANGED <<client, room, ops, outbox, open>>
      /\ UNCHANGED <<loaded, newest, floor, fetch, rows, calls, unsent>>
      /\ faults' = {} => faults = {} /\ frames = <<>>
  BY DEF Lost, serverVars, pageVars
<1>2. NewsTypes' /\ (InOrder => InOrder')
  BY <1>1, EmptiedNews DEF TranscriptInv, Types
<1>3. Types'
  BY <1>1, <1>2, StillTypes DEF TranscriptInv, Types, ScreenTypes
<1>4. Scene'
  BY <1>1 DEF TranscriptInv, Scene
<1>5. ASSUME faults' = {}
      PROVE  InOrder' /\ CallsAgree' /\ PagesAgree' /\ \A i \in Posted' : Shows(i)'
  <2>1. InOrder /\ CallsAgree /\ PagesAgree /\ \A i \in Posted : Shows(i)
    BY <1>1, <1>5 DEF TranscriptInv, Agreed
  <2>2. \A k, i : Coming(k, i)' <=> Coming(k, i)
    BY <1>1, <1>5, StillNews DEF TranscriptInv, Types
  <2>3. CallsAgree' /\ PagesAgree'
    BY <1>1, <2>1, AgreeIs DEF PagesAgree
  <2>. QED BY <1>1, <1>2, <2>1, <2>2, <2>3, HeardShows
<1>. QED BY <1>3, <1>4, <1>5 DEF TranscriptInv, Agreed

\* The screen is left, and what it held with it.
LEMMA LeaveKeeps == TranscriptInv /\ Leave => TranscriptInv'
<1>. SUFFICES ASSUME TranscriptInv, Leave PROVE TranscriptInv'
  OBVIOUS
<1>1. /\ open' = FALSE /\ hears' = FALSE /\ frames' = <<>> /\ unsent' = FALSE
      /\ UNCHANGED <<client, room, ops, outbox>>
      /\ faults' = {} => faults = {} /\ (client = "web" => frames = <<>>)
  BY DEF Leave, serverVars
<1>2. NewsTypes' /\ (InOrder => InOrder')
  BY <1>1, EmptiedNews DEF TranscriptInv, Types
<1>3. CASE client = "web"
  <2>1. UNCHANGED <<loaded, rows, newest, floor, fetch, calls>>
    BY <1>3 DEF Leave
  <2>2. Types'
    BY <1>1, <1>2, <2>1, StillTypes DEF TranscriptInv, Types, ScreenTypes
  <2>3. Scene'
    BY <1>1, <2>1 DEF TranscriptInv, Scene
  <2>4. ASSUME faults' = {}
        PROVE  InOrder' /\ CallsAgree' /\ PagesAgree' /\ \A i \in Posted' : Shows(i)'
    <3>1. InOrder /\ CallsAgree /\ PagesAgree /\ \A i \in Posted : Shows(i)
      BY <1>1, <2>4 DEF TranscriptInv, Agreed
    <3>2. \A k, i : Coming(k, i)' <=> Coming(k, i)
      BY <1>1, <1>3, <2>4, StillNews DEF TranscriptInv, Types
    <3>3. CallsAgree' /\ PagesAgree'
      BY <1>1, <2>1, <3>1, AgreeIs DEF PagesAgree
    <3>. QED BY <1>1, <1>2, <2>1, <3>1, <3>2, <3>3, HeardShows
  <2>. QED BY <2>2, <2>3, <2>4 DEF TranscriptInv, Agreed
<1>4. CASE client # "web"
  <2>1. /\ loaded' = FALSE /\ rows' = <<>> /\ newest' = {} /\ floor' = MaxMessages + 1
        /\ fetch' = NoFetch /\ calls' = {}
    BY <1>4 DEF Leave
  <2>2. DOMAIN rows' = {} /\ DOMAIN fetch'.page = {} /\ DOMAIN fetch'.base = {}
        /\ fetch'.phase = "none" /\ fetch'.older = FALSE /\ fetch'.low = 1
    BY <2>1 DEF NoFetch
  <2>3. RowTypes'
    BY <2>1, <2>2 DEF RowTypes, Table
  <2>4. FetchTypes'
    <3>1. Table(fetch.page)' /\ Table(fetch.base)'
      BY <2>2 DEF Table
    <3>. QED BY <2>1, <3>1, BoundsAreNat DEF FetchTypes, NoFetch
  <2>5. Types'
    <3>1. RoomTypes' /\ CallTypes'
      <4>1. RoomTypes'
        BY <1>1 DEF TranscriptInv, Types, RoomTypes
      <4>2. CallTypes'
        BY <2>1, BoundsAreNat, FS_EmptySet DEF CallTypes
      <4>. QED BY <4>1, <4>2
    <3>2. MaxMessages + 1 \in 1..(MaxMessages + 1)
      BY BoundsAreNat
    <3>3. ScreenTypes'
      BY <1>1, <2>1, <3>2 DEF TranscriptInv, Types, ScreenTypes
    <3>. QED BY <1>2, <2>3, <2>4, <3>1, <3>3 DEF Types
  <2>6. Scene'
    BY <1>1, <2>1, <2>2 DEF Scene
  <2>7. ASSUME faults' = {}
        PROVE  InOrder' /\ CallsAgree' /\ PagesAgree' /\ \A i \in Posted' : Shows(i)'
    <3>1. InOrder /\ CallsAgree /\ PagesAgree /\ \A i \in Posted : Shows(i)
      BY <1>1, <2>7 DEF TranscriptInv, Agreed
    <3>2. CallsAgree' /\ PagesAgree'
      BY <2>1, <2>2 DEF CallsAgree, PagesAgree
    <3>. QED BY <1>1, <1>2, <2>1, <2>2, <3>1, <3>2, NothingShows DEF TranscriptInv, Types
  <2>. QED BY <2>5, <2>6, <2>7 DEF TranscriptInv, Agreed
<1>. QED BY <1>3, <1>4

\* The server broadcasts an event.
LEMMA PublishKeeps == ASSUME NEW n \in 1..MaxOps PROVE TranscriptInv /\ Publish(n) => TranscriptInv'
<1>. SUFFICES ASSUME TranscriptInv, Publish(n) PROVE TranscriptInv'
  OBVIOUS
<1>1. /\ n \in 1..Len(outbox) /\ UNCHANGED <<client, room, ops, open, hears>>
      /\ UNCHANGED <<loaded, newest, floor, fetch, rows, calls, unsent>>
      /\ outbox' = SubSeq(outbox, 1, n - 1) \o SubSeq(outbox, n + 1, Len(outbox))
      /\ frames' = IF hears THEN Append(frames, outbox[n]) ELSE frames
  BY DEF Publish
<1>2. faults' = {} => /\ faults = {}
                      /\ \A j \in 1..(n - 1) : outbox[j].id # outbox[n].id
                      /\ hears \/ (~loaded /\ fetch.phase # "read")
  BY DEF Publish
<1>3. outbox \in Seq(Events) /\ frames \in Seq(Events) /\ outbox[n] \in Events
  BY <1>1 DEF TranscriptInv, Types, NewsTypes, News
<1>4. Cuts(outbox, n, outbox')
  BY <1>1, <1>3, PublishCuts
<1>5. IF hears THEN Adds(frames, outbox[n], frames') ELSE frames = <<>> /\ frames' = <<>>
  BY <1>1, <1>3, AppendAdds DEF TranscriptInv, Scene
<1>6. /\ NewsTypes' /\ (hears => \A k, i : Coming(k, i)' <=> Coming(k, i))
      /\ InOrder /\ (\A j \in 1..(n - 1) : outbox[j].id # outbox[n].id) => InOrder'
  BY <1>1, <1>4, <1>5, PublishNews DEF TranscriptInv, Types
<1>7. Types'
  BY <1>1, <1>6, StillTypes DEF TranscriptInv, Types, ScreenTypes
<1>8. Scene'
  BY <1>1, <1>5 DEF TranscriptInv, Scene
<1>9. ASSUME faults' = {}
      PROVE  InOrder' /\ CallsAgree' /\ PagesAgree' /\ \A i \in Posted' : Shows(i)'
  <2>1. InOrder /\ CallsAgree /\ PagesAgree /\ \A i \in Posted : Shows(i)
    BY <1>2, <1>9 DEF TranscriptInv, Agreed
  <2>2. InOrder'
    BY <1>2, <1>6, <1>9, <2>1
  <2>3. CallsAgree' /\ PagesAgree'
    BY <1>1, <2>1, AgreeIs DEF PagesAgree
  <2>4. \A i \in Posted' : Shows(i)'
    <3>1. CASE hears
      BY <1>1, <1>6, <2>1, <3>1, HeardShows
    <3>2. CASE ~hears
      <4>1. ~loaded /\ fetch.phase # "read"
        BY <1>2, <1>9, <3>2
      <4>2. DOMAIN rows = {} /\ calls = {} /\ DOMAIN fetch.page = {}
        BY <2>1, <4>1 DEF PagesAgree, TranscriptInv, Scene
      <4>. QED BY <1>1, <2>1, <4>1, <4>2, NothingShows DEF TranscriptInv, Types
    <3>. QED BY <3>1, <3>2
  <2>. QED BY <2>2, <2>3, <2>4
<1>. QED BY <1>7, <1>8, <1>9 DEF TranscriptInv, Agreed
----------------------------------------------------------------------------
(* Changes to the room.                                                    *)

(* What a client holds is of messages that are posted.                     *)
LEMMA HeldPosted ==
  ASSUME Types
  PROVE  /\ \A j \in DOMAIN rows : j \in Posted
         /\ \A j \in DOMAIN fetch.page : j \in Posted
         /\ \A c \in calls : c.id = 0 \/ c.id \in Posted
BY DEF Types, RowTypes, FetchTypes, CallTypes, Table, RowOf, Asks

\* Somebody else posts, edits, deletes or reacts.
LEMMA OtherKeeps ==
  ASSUME NEW k \in Kinds, NEW i \in Ids
  PROVE  TranscriptInv /\ Other(k, i) => TranscriptInv'
<1>. SUFFICES ASSUME TranscriptInv, Other(k, i) PROVE TranscriptInv'
  OBVIOUS
<1>1. /\ Commit(k, i, "other") /\ UNCHANGED <<client, open, hears, frames, loaded, newest>>
      /\ UNCHANGED <<floor, fetch, rows, calls, unsent, faults>>
  BY DEF Other, screenVars, pageVars
<1>2. /\ RoomTypes' /\ i \in Posted' /\ i # 0 /\ Posted \subseteq Posted'
      /\ \A j \in Posted : j # i => room'[j] = room[j]
      /\ \A j \in Posted' : j # i => j \in Posted
      /\ k = "post" => i \notin Posted /\ room'[i] = Fresh
      /\ k # "post" => /\ i \in Posted /\ ~room[i].gone
                       /\ Becomes(k, room[i], "other", room'[i])
  BY <1>1, CommitIs DEF TranscriptInv, Types
<1>3. /\ NewsTypes' /\ (InOrder => InOrder')
      /\ \A l, j : Coming(l, j) => Coming(l, j)'
      /\ k \notin Toggles => Coming(k, i)'
  BY <1>1, CommitNews DEF TranscriptInv, Types
<1>4. Types'
  <2>1. Grows
    BY <1>1, CommitGrows DEF TranscriptInv, Types
  <2>2. RowTypes' /\ FetchTypes' /\ CallTypes'
    BY <1>1, <2>1, KeptTypes DEF TranscriptInv, Types
  <2>3. ScreenTypes'
    BY <1>1 DEF TranscriptInv, Types, ScreenTypes
  <2>. QED BY <1>2, <1>3, <2>2, <2>3 DEF Types
<1>5. Scene'
  BY <1>1 DEF TranscriptInv, Scene
<1>6. k # "post" =>
        /\ room[i].v \in 0..1 /\ room'[i].v \in 0..1
        /\ room'[i].mine = room[i].mine /\ (room[i].gone => room'[i].gone)
        /\ room'[i].v = 0 => room[i].v = 0
        /\ room'[i].v = 1 => room[i].v = 1 \/ k = "edit"
        /\ room'[i].gone => room[i].gone \/ k = "delete"
  <2>1. k # "post" => room[i] \in Messages
    BY <1>2, PostedIs DEF TranscriptInv, Types
  <2>. QED BY <1>2, <2>1 DEF Becomes, Messages
<1>7. ASSUME faults' = {}
      PROVE  InOrder' /\ CallsAgree' /\ PagesAgree' /\ \A j \in Posted' : Shows(j)'
  <2>1. InOrder /\ CallsAgree /\ PagesAgree /\ \A j \in Posted : Shows(j)
    BY <1>1, <1>7 DEF TranscriptInv, Agreed
  <2>2. PagesAgree'
    BY <1>1, <2>1 DEF PagesAgree
  <2>3. ASSUME NEW c \in calls PROVE Agrees(c)'
    <3>1. Agrees(c) /\ Asks(c)
      BY <2>1 DEF CallsAgree, TranscriptInv, Types, CallTypes
    <3>2. CASE c.id # i
      <4>1. c.id = 0 => c.kind = "post" /\ c.phase # "answered"
        BY <3>1 DEF Asks
      <4>2. c.id # 0 => room'[c.id] = room[c.id]
        BY <1>2, <3>1, <3>2 DEF Asks
      <4>3. CASE c.id = 0
        BY <3>1, <4>1, <4>3 DEF Agrees, Toggles
      <4>4. CASE c.id # 0
        BY <3>1, <4>2, <4>4 DEF Agrees
      <4>. QED BY <4>3, <4>4
    <3>3. CASE c.id = i
      <4>1. k # "post"
        BY <1>2, <3>1, <3>3 DEF Asks
      <4>. QED BY <1>6, <3>1, <3>3, <4>1 DEF Agrees
    <3>. QED BY <3>2, <3>3
  <2>4. CallsAgree'
    BY <1>1, <2>1, <2>3 DEF CallsAgree
  <2>5. ASSUME NEW j \in Posted' PROVE Shows(j)'
    <3>1. CASE j # i
      BY <1>1, <1>2, <1>3, <2>1, <3>1, ApartShows
    <3>2. CASE j = i /\ k = "post"
      <4>1. i \notin DOMAIN rows /\ i \notin DOMAIN fetch.page /\ \A c \in calls : c.id # i
        BY <1>2, <3>2, HeldPosted DEF TranscriptInv
      <4>2. Coming("post", i)'
        BY <1>3, <3>2 DEF Toggles
      <4>3. room'[i].v = 0 /\ ~room'[i].gone
        BY <1>2, <3>2 DEF Fresh
      <4>4. EditShows(i)' /\ DeleteShows(i)' /\ PostShows(i)'
        BY <4>2, <4>3 DEF EditShows, DeleteShows, PostShows
      <4>5. FlagShows(i)'
        BY <1>1, <4>1 DEF FlagShows
      <4>. QED BY <3>2, <4>4, <4>5 DEF Shows
    <3>3. CASE j = i /\ k # "post"
      <4>1. Shows(i)
        BY <1>2, <2>1, <3>3
      <4>2. /\ k = "edit" => Coming("edit", i)'
            /\ k = "delete" => Coming("delete", i)'
        BY <1>3 DEF Toggles
      <4>3. EditShows(i)'
        BY <1>1, <1>3, <1>6, <3>3, <4>1, <4>2 DEF Shows, EditShows
      <4>4. DeleteShows(i)'
        BY <1>1, <1>3, <1>6, <3>3, <4>1, <4>2 DEF Shows, DeleteShows
      <4>5. PostShows(i)'
        BY <1>1, <1>3, <1>6, <3>3, <4>1 DEF Shows, PostShows, Undoable
      <4>6. FlagShows(i)'
        BY <1>1, <1>6, <3>3, <4>1 DEF Shows, FlagShows
      <4>. QED BY <3>3, <4>3, <4>4, <4>5, <4>6 DEF Shows
    <3>. QED BY <3>1, <3>2, <3>3
  <2>. QED BY <1>3, <2>1, <2>2, <2>4, <2>5
<1>. QED BY <1>4, <1>5, <1>7 DEF TranscriptInv, Agreed

(* A call is given a new record in its place.                              *)
LEMMA AnsweredCalls ==
  ASSUME IsFiniteSet(calls), Cardinality(calls) <= MaxCalls, NEW c \in calls, NEW d,
         calls' = (calls \ {c}) \cup {d}
  PROVE  IsFiniteSet(calls') /\ Cardinality(calls') <= MaxCalls
<1>. DEFINE rest == calls \ {c}
<1>1. /\ IsFiniteSet(rest) /\ Cardinality(rest) = Cardinality(calls) - 1
      /\ Cardinality(calls) \in Nat
  BY FS_RemoveElement, FS_CardinalityType
<1>2. Cardinality(rest) \in Nat
  BY <1>1, FS_CardinalityType
<1>3. /\ IsFiniteSet(rest \cup {d})
      /\ \/ Cardinality(rest \cup {d}) = Cardinality(rest)
         \/ Cardinality(rest \cup {d}) = Cardinality(rest) + 1
  BY <1>1, FS_AddElement
<1>. QED BY <1>1, <1>2, <1>3, BoundsAreNat

\* The server carries out a call of this account (messages.rs).
LEMMA ServeKeeps ==
  ASSUME NEW c
  PROVE  TranscriptInv /\ Serve(c) => TranscriptInv'
<1>. SUFFICES ASSUME TranscriptInv, Serve(c) PROVE TranscriptInv'
  OBVIOUS
<1>1. /\ c \in calls /\ c.phase = "sent"
      /\ UNCHANGED <<client, open, hears, frames, loaded, newest>>
      /\ UNCHANGED <<floor, fetch, rows, unsent, faults>>
  BY DEF Serve, screenVars, pageVars
<1>2. PICK i : i = IF c.kind = "post" THEN Len(room) + 1 ELSE c.id
  OBVIOUS
<1>3. PICK k : k = c.kind
  OBVIOUS
<1>4. PICK m : m = room'[i]
  OBVIOUS
<1>5. PICK d : d = [c EXCEPT !.id = i, !.phase = "answered", !.row = Row(m, m.mine)]
  OBVIOUS
<1>6. Commit(k, i, "me") /\ calls' = (calls \ {c}) \cup {d}
  BY <1>2, <1>3, <1>4, <1>5 DEF Serve
<1>7. /\ calls \subseteq CallRecords /\ \A e \in calls : Asks(e)
      /\ IsFiniteSet(calls) /\ Cardinality(calls) <= MaxCalls
      /\ c \in CallRecords /\ Asks(c) /\ k \in Kinds
  BY <1>1, <1>3 DEF TranscriptInv, Types, CallTypes, CallRecords
<1>8. /\ RoomTypes' /\ i \in Posted' /\ i # 0 /\ i \in Nat /\ Posted \subseteq Posted'
      /\ \A j \in Posted : j # i => room'[j] = room[j]
      /\ \A j \in Posted' : j # i => j \in Posted
      /\ k = "post" => i \notin Posted /\ m = Fresh
      /\ k # "post" => /\ i \in Posted /\ ~room[i].gone
                       /\ Becomes(k, room[i], "me", m)
      /\ m \in Messages
  BY <1>4, <1>6, <1>7, CommitIs DEF TranscriptInv, Types
<1>9. /\ NewsTypes' /\ (InOrder => InOrder')
      /\ \A l, j : Coming(l, j) => Coming(l, j)'
      /\ k \notin Toggles => Coming(k, i)'
  BY <1>1, <1>6, <1>7, CommitNews DEF TranscriptInv, Types
<1>10. PICK r : r = Row(m, m.mine)
  OBVIOUS
<1>11. r \in RowRecords /\ r.v = m.v /\ r.me = m.mine /\ (r.me => r.count > 0)
  <2>1. m.mine \in BOOLEAN
    BY <1>8 DEF Messages
  <2>. QED BY <1>8, <1>10, <2>1, RowFacts
<1>12. /\ d \in CallRecords /\ d.kind = k /\ d.id = i /\ d.phase = "answered"
       /\ d.undo = c.undo /\ d.row = r
  BY <1>3, <1>5, <1>7, <1>8, <1>10, <1>11 DEF CallRecords
<1>13. Grows
  BY <1>6, <1>7, CommitGrows DEF TranscriptInv, Types
<1>14. m.v \in Nat /\ (k = "edit" => m.v = 1)
  BY <1>8 DEF Becomes, Messages
<1>15. CallTypes'
  <2>1. \A e : Asks(e) => Asks(e)'
    BY <1>13, GrowsKeeps DEF TranscriptInv, Types
  <2>2. RowOf(i, r)'
    BY <1>4, <1>8, <1>11, <1>14 DEF RowOf
  <2>3. k = "delete" => RowOf(i, c.undo)'
    <3>1. k = "delete" => RowOf(c.id, c.undo) /\ c.id = i
      BY <1>2, <1>3, <1>7 DEF Asks
    <3>. QED BY <1>13, <3>1, GrowsKeeps DEF TranscriptInv, Types
  <2>4. k = "post" => ~r.me
    BY <1>8, <1>11 DEF Fresh
  <2>5. Asks(d)'
    BY <1>8, <1>11, <1>12, <1>14, <2>2, <2>3, <2>4 DEF Asks
  <2>6. calls' \subseteq CallRecords /\ \A e \in calls' : Asks(e)'
    BY <1>6, <1>7, <1>12, <2>1, <2>5
  <2>7. IsFiniteSet(calls') /\ Cardinality(calls') <= MaxCalls
    BY <1>1, <1>6, <1>7, AnsweredCalls
  <2>. QED BY <2>6, <2>7 DEF CallTypes
<1>16. Types'
  <2>1. RowTypes' /\ FetchTypes'
    BY <1>1, <1>13, KeptTypes DEF TranscriptInv, Types
  <2>2. ScreenTypes'
    BY <1>1 DEF TranscriptInv, Types, ScreenTypes
  <2>. QED BY <1>8, <1>9, <1>15, <2>1, <2>2 DEF Types
<1>17. Scene'
  BY <1>1 DEF TranscriptInv, Scene
<1>18. k # "post" =>
        /\ room[i].v \in 0..1 /\ m.v \in 0..1 /\ i = c.id
        /\ k \notin Toggles => m.mine = room[i].mine
        /\ m.v = 0 => room[i].v = 0
        /\ m.v = 1 => room[i].v = 1 \/ k = "edit"
        /\ m.gone => k = "delete"
  <2>1. k # "post" => room[i] \in Messages
    BY <1>8, PostedIs DEF TranscriptInv, Types
  <2>. QED BY <1>2, <1>3, <1>8, <2>1 DEF Becomes, Messages
<1>19. ASSUME faults' = {}
       PROVE  InOrder' /\ CallsAgree' /\ PagesAgree' /\ \A j \in Posted' : Shows(j)'
  <2>1. InOrder /\ CallsAgree /\ PagesAgree /\ \A j \in Posted : Shows(j)
    BY <1>1, <1>19 DEF TranscriptInv, Agreed
  <2>2. PagesAgree'
    BY <1>1, <2>1 DEF PagesAgree
  <2>3. ASSUME NEW e \in calls, e # c
        PROVE  e.id # i /\ ~(e.kind = "post" /\ k = "post")
    <3>1. /\ e.id # c.id /\ ~(e.kind = "post" /\ c.kind = "post")
      BY <1>1, <2>1, <2>3 DEF CallsAgree
    <3>2. e.id = 0 \/ e.id \in Posted
      BY <1>7 DEF Asks
    <3>. QED BY <1>3, <1>8, <1>18, <3>1, <3>2
  <2>4. ASSUME NEW e \in calls, e # c PROVE Agrees(e)'
    <3>1. Agrees(e) /\ Asks(e) /\ e.id # i
      BY <1>7, <2>1, <2>3, <2>4 DEF CallsAgree
    <3>2. e.id = 0 => e.kind = "post" /\ e.phase # "answered"
      BY <3>1 DEF Asks
    <3>3. e.id # 0 => room'[e.id] = room[e.id]
      BY <1>8, <3>1 DEF Asks
    <3>4. CASE e.id = 0
      BY <3>1, <3>2, <3>4 DEF Agrees, Toggles
    <3>5. CASE e.id # 0
      BY <3>1, <3>3, <3>5 DEF Agrees
    <3>. QED BY <3>4, <3>5
  <2>5. Agrees(d)'
    <3>1. k = "delete" => m.gone
      BY <1>8 DEF Becomes
    <3>2. k = "post" => ~m.mine
      BY <1>8 DEF Fresh
    <3>. QED BY <1>4, <1>11, <1>12, <3>1, <3>2 DEF Agrees
  <2>6. CallsAgree'
    <3>1. \A e \in calls' : Agrees(e)'
      BY <1>6, <2>4, <2>5
    <3>2. ASSUME NEW e \in calls', NEW f \in calls',
                 e.id = f.id \/ (e.kind = "post" /\ f.kind = "post")
          PROVE  e = f
      BY <1>6, <1>12, <2>1, <2>3, <3>2 DEF CallsAgree
    <3>. QED BY <3>1, <3>2 DEF CallsAgree
  <2>7. ASSUME NEW j \in Posted' PROVE Shows(j)'
    <3>1. CASE j # i
      <4>1. j \in Posted /\ j # 0
        BY <1>8, <3>1, PostedIs DEF TranscriptInv, Types
      <4>2. c.id # j
        BY <1>2, <1>3, <1>7, <1>18, <3>1, <4>1, <2>1, <1>1 DEF Asks, CallsAgree, Agrees
      <4>3. \A e : e.id = j => (e \in calls' <=> e \in calls)
        BY <1>6, <1>12, <3>1, <4>2
      <4>. QED BY <1>1, <1>8, <1>9, <2>1, <3>1, <4>1, <4>3, ApartShows
    <3>2. CASE j = i /\ k = "post"
      <4>1. /\ i \notin DOMAIN rows /\ i \notin DOMAIN fetch.page
            /\ \A e \in calls' : e.id = i => e = d
        BY <1>6, <1>8, <2>3, <3>2, HeldPosted DEF TranscriptInv
      <4>2. Coming("post", i)'
        BY <1>9, <3>2 DEF Toggles
      <4>3. m.v = 0 /\ ~m.gone
        BY <1>8, <3>2 DEF Fresh
      <4>4. EditShows(i)' /\ DeleteShows(i)' /\ PostShows(i)'
        BY <1>4, <4>2, <4>3 DEF EditShows, DeleteShows, PostShows
      <4>5. FlagShows(i)'
        BY <1>1, <1>12, <3>2, <4>1 DEF FlagShows
      <4>. QED BY <3>2, <4>4, <4>5 DEF Shows
    <3>3. CASE j = i /\ k # "post"
      <4>1. Shows(i)
        BY <1>8, <2>1, <3>3
      <4>2. /\ k = "edit" => Coming("edit", i)'
            /\ k = "delete" => Coming("delete", i)'
        BY <1>9 DEF Toggles
      <4>3. \A e \in calls' : e.id = i => e = d
        BY <1>6, <2>3
      <4>4. c.id = i
        BY <1>18, <3>3
      <4>5. EditShows(i)'
        <5>1. SUFFICES ASSUME m.v = 1, ~Coming("edit", i)'
                       PROVE  /\ i \in DOMAIN rows' => rows'[i].v = 1
                              /\ i \in DOMAIN fetch'.page => fetch'.page[i].v = 1
                              /\ d.kind = "delete" => d.undo.v = 1
                              /\ d.kind # "post"
          BY <1>4, <4>3 DEF EditShows
        <5>2. room[i].v = 1 /\ ~Coming("edit", i)
          BY <1>9, <1>18, <3>3, <4>2, <5>1
        <5>. QED BY <1>1, <1>3, <1>12, <3>3, <4>1, <4>4, <5>2 DEF Shows, EditShows
      <4>6. DeleteShows(i)'
        BY <1>4, <1>18, <3>3, <4>2 DEF DeleteShows
      <4>7. PostShows(i)'
        <5>1. SUFFICES ASSUME ~m.gone, ~Coming("post", i)'
                       PROVE  /\ loaded' /\ i >= floor' => i \in DOMAIN rows' \/ Undoable(i)'
                              /\ fetch'.phase = "read" /\ i >= fetch'.low /\ (loaded' => i < floor')
                                   => i \in DOMAIN fetch'.page
          BY <1>4 DEF PostShows
        <5>2. ~room[i].gone /\ ~Coming("post", i) /\ k # "delete"
          BY <1>8, <1>9, <3>3, <5>1 DEF Becomes
        <5>3. Undoable(i) => Undoable(i)'
          BY <1>1, <1>3, <1>6, <2>3, <5>2 DEF Undoable
        <5>. QED BY <1>1, <4>1, <5>2, <5>3 DEF Shows, PostShows
      <4>8. FlagShows(i)'
        <5>1. SUFFICES ASSUME m.v = 0, d.kind \notin Toggles
                       PROVE  /\ i \in DOMAIN rows' => rows'[i].me = m.mine
                              /\ i \in DOMAIN fetch'.page => fetch'.page[i].me = m.mine
                              /\ d.kind = "delete" => d.undo.me = m.mine
          BY <1>4, <1>6, <1>12, <4>3 DEF FlagShows
        <5>2. room[i].v = 0 /\ m.mine = room[i].mine
          BY <1>12, <1>18, <3>3, <5>1
        <5>3. \A e \in calls : e.id = i => e.kind \notin Toggles
          BY <1>3, <1>12, <2>3, <5>1
        <5>. QED BY <1>1, <1>3, <1>12, <4>1, <4>4, <5>2, <5>3 DEF Shows, FlagShows
      <4>. QED BY <3>3, <4>5, <4>6, <4>7, <4>8 DEF Shows
    <3>. QED BY <3>1, <3>2, <3>3
  <2>. QED BY <1>9, <2>1, <2>2, <2>6, <2>7
<1>. QED BY <1>16, <1>17, <1>19 DEF TranscriptInv, Agreed
----------------------------------------------------------------------------
(* The screen and the pages.                                               *)

(* Nothing is done to a message, and the page that was fetched is none.    *)
LEMMA PagelessShows ==
  ASSUME \A i \in Posted : Shows(i), UNCHANGED <<client, room, outbox, frames, rows, calls>>,
         UNCHANGED <<loaded, floor>>, DOMAIN fetch'.page = {}, fetch'.phase # "read"
  PROVE  \A i \in Posted' : Shows(i)'
<1>1. Posted' = Posted
  BY DEF Posted
<1>2. SUFFICES ASSUME NEW i \in Posted PROVE Shows(i)'
  BY <1>1
<1>3. Shows(i) /\ \A k : Coming(k, i)' <=> Coming(k, i)
  BY DEF Coming, Has
<1>4. EditShows(i)'
  BY <1>3 DEF Shows, EditShows
<1>5. DeleteShows(i)'
  BY <1>3 DEF Shows, DeleteShows
<1>6. PostShows(i)'
  BY <1>3 DEF Shows, PostShows, Undoable
<1>7. FlagShows(i)'
  BY <1>3 DEF Shows, FlagShows
<1>. QED BY <1>4, <1>5, <1>6, <1>7 DEF Shows

(* The page asked for, and no page.                                        *)
LEMMA StartIs ==
  ASSUME Types, UNCHANGED room, NEW older \in BOOLEAN,
         fetch' = StartFetch(older) \/ fetch' = NoFetch
  PROVE  FetchTypes' /\ DOMAIN fetch'.page = {} /\ fetch'.phase # "read"
<1>1. \A f : Table(f)' <=> Table(f)
  BY DEF Table, RowOf, Posted
<1>2. Table(<<>>) /\ Table(rows) /\ floor \in 1..(MaxMessages + 1) /\ 1 \in 1..(MaxMessages + 1)
  BY BoundsAreNat DEF Types, RowTypes, ScreenTypes, Table
<1>3. CASE fetch' = StartFetch(older)
  <2>1. /\ fetch'.page = <<>> /\ fetch'.base = rows /\ fetch'.low = floor
        /\ fetch'.phase = "sent" /\ fetch'.older = older
        /\ fetch' = [phase |-> fetch'.phase, older |-> fetch'.older, page |-> fetch'.page,
                     base |-> fetch'.base, low |-> fetch'.low]
    BY <1>3 DEF StartFetch
  <2>2. Table(fetch.page)' /\ Table(fetch.base)'
    BY <1>1, <1>2, <2>1 DEF Table, RowOf, Posted
  <2>. QED BY <1>2, <2>1, <2>2 DEF FetchTypes
<1>4. CASE fetch' = NoFetch
  <2>1. /\ fetch'.page = <<>> /\ fetch'.base = <<>> /\ fetch'.low = 1
        /\ fetch'.phase = "none" /\ fetch'.older \in BOOLEAN
        /\ fetch' = [phase |-> fetch'.phase, older |-> fetch'.older, page |-> fetch'.page,
                     base |-> fetch'.base, low |-> fetch'.low]
    BY <1>4 DEF NoFetch
  <2>2. Table(fetch.page)' /\ Table(fetch.base)'
    BY <2>1 DEF Table
  <2>. QED BY <1>2, <2>1, <2>2 DEF FetchTypes
<1>. QED BY <1>3, <1>4

\* The screen is opened and asks for the first page.
LEMMA OpenKeeps == TranscriptInv /\ Open => TranscriptInv'
<1>. SUFFICES ASSUME TranscriptInv, Open PROVE TranscriptInv'
  OBVIOUS
<1>1. /\ ~open /\ open' = TRUE /\ UNCHANGED <<client, room, ops, outbox, hears, frames>>
      /\ UNCHANGED <<loaded, rows, newest, floor, calls, unsent, faults>>
      /\ fetch' = IF loaded \/ fetch.phase # "none" THEN fetch ELSE StartFetch(FALSE)
  BY DEF Open, serverVars
<1>2. (calls # {} => loaded) /\ ~hears
  BY <1>1 DEF TranscriptInv, Scene
<1>3. RoomTypes' /\ RowTypes' /\ CallTypes' /\ NewsTypes' /\ ScreenTypes'
  BY <1>1, StillTypes DEF TranscriptInv, Types, ScreenTypes
<1>4. CASE loaded \/ fetch.phase # "none"
  <2>1. fetch' = fetch
    BY <1>1, <1>4
  <2>2. Types'
    BY <1>1, <1>3, <2>1, StillTypes DEF TranscriptInv, Types
  <2>3. Scene'
    BY <1>1, <1>4, <2>1 DEF TranscriptInv, Scene
  <2>4. ASSUME faults' = {}
        PROVE  InOrder' /\ CallsAgree' /\ PagesAgree' /\ \A i \in Posted' : Shows(i)'
    <3>1. InOrder /\ CallsAgree /\ PagesAgree /\ \A i \in Posted : Shows(i)
      BY <1>1, <2>4 DEF TranscriptInv, Agreed
    <3>2. InOrder' /\ \A k, i : Coming(k, i)' <=> Coming(k, i)
      BY <1>1, <3>1, StillNews DEF TranscriptInv, Types
    <3>3. CallsAgree' /\ PagesAgree'
      BY <1>1, <2>1, <3>1, AgreeIs DEF PagesAgree
    <3>. QED BY <1>1, <2>1, <3>1, <3>2, <3>3, HeardShows
  <2>. QED BY <2>2, <2>3, <2>4 DEF TranscriptInv, Agreed
<1>5. CASE ~loaded /\ fetch.phase = "none"
  <2>1. fetch' = StartFetch(FALSE)
    BY <1>1, <1>5
  <2>2. FetchTypes' /\ DOMAIN fetch'.page = {} /\ fetch'.phase # "read"
    BY <1>1, <2>1, StartIs DEF TranscriptInv
  <2>3. fetch'.phase = "sent" /\ fetch'.older = loaded /\ ~fetch'.older /\ fetch'.base = rows
    <3>1. loaded = FALSE
      BY <1>5 DEF TranscriptInv, Types, ScreenTypes
    <3>. QED BY <2>1, <3>1 DEF StartFetch
  <2>4. Scene'
    BY <1>1, <1>2, <1>5, <2>2, <2>3 DEF TranscriptInv, Scene
  <2>5. ASSUME faults' = {}
        PROVE  InOrder' /\ CallsAgree' /\ PagesAgree' /\ \A i \in Posted' : Shows(i)'
    <3>1. InOrder /\ CallsAgree /\ PagesAgree /\ \A i \in Posted : Shows(i)
      BY <1>1, <2>5 DEF TranscriptInv, Agreed
    <3>2. InOrder'
      BY <1>1, <3>1, StillNews DEF TranscriptInv, Types
    <3>3. CallsAgree'
      BY <1>1, <3>1, AgreeIs
    <3>4. PagesAgree'
      BY <1>1, <2>3, <3>1 DEF PagesAgree
    <3>. QED BY <1>1, <2>2, <3>1, <3>2, <3>3, <3>4, PagelessShows
  <2>. QED BY <1>3, <2>2, <2>4, <2>5 DEF TranscriptInv, Types, Agreed
<1>. QED BY <1>4, <1>5

\* The page before the oldest row is asked for (requestOlder, loadOlder).
LEMMA LoadOlderKeeps == TranscriptInv /\ LoadOlder => TranscriptInv'
<1>. SUFFICES ASSUME TranscriptInv, LoadOlder PROVE TranscriptInv'
  OBVIOUS
<1>1. /\ open /\ loaded /\ fetch.phase = "none" /\ fetch' = StartFetch(TRUE)
      /\ UNCHANGED <<client, room, ops, outbox, open, hears, frames>>
      /\ UNCHANGED <<loaded, rows, newest, floor, calls, unsent, faults>>
  BY DEF LoadOlder, serverVars, screenVars
<1>2. RoomTypes' /\ RowTypes' /\ CallTypes' /\ NewsTypes' /\ ScreenTypes'
  BY <1>1, StillTypes DEF TranscriptInv, Types, ScreenTypes
<1>3. FetchTypes' /\ DOMAIN fetch'.page = {} /\ fetch'.phase # "read"
  BY <1>1, StartIs DEF TranscriptInv
<1>4. fetch'.phase = "sent" /\ fetch'.older = TRUE /\ fetch'.base = rows /\ fetch'.low = floor
  BY <1>1 DEF StartFetch
<1>5. Scene'
  BY <1>1, <1>3, <1>4 DEF TranscriptInv, Scene, ScreenTypes
<1>6. ASSUME faults' = {}
      PROVE  InOrder' /\ CallsAgree' /\ PagesAgree' /\ \A i \in Posted' : Shows(i)'
  <2>1. InOrder /\ CallsAgree /\ PagesAgree /\ \A i \in Posted : Shows(i)
    BY <1>1, <1>6 DEF TranscriptInv, Agreed
  <2>2. InOrder'
    BY <1>1, <2>1, StillNews DEF TranscriptInv, Types
  <2>3. CallsAgree'
    BY <1>1, <2>1, AgreeIs
  <2>4. PagesAgree'
    BY <1>1, <1>4, <2>1 DEF PagesAgree
  <2>. QED BY <1>1, <1>3, <2>1, <2>2, <2>3, <2>4, PagelessShows
<1>. QED BY <1>2, <1>3, <1>5, <1>6 DEF TranscriptInv, Types, Agreed

\* A page fails to come.
LEMMA FetchFailsKeeps == TranscriptInv /\ FetchFails => TranscriptInv'
<1>. SUFFICES ASSUME TranscriptInv, FetchFails PROVE TranscriptInv'
  OBVIOUS
<1>1. /\ fetch.phase # "none" /\ fetch.older /\ fetch' = NoFetch
      /\ UNCHANGED <<client, room, ops, outbox, open, hears, frames>>
      /\ UNCHANGED <<loaded, rows, newest, floor, calls, unsent, faults>>
  BY DEF FetchFails, serverVars, screenVars
<1>2. RoomTypes' /\ RowTypes' /\ CallTypes' /\ NewsTypes' /\ ScreenTypes'
  BY <1>1, StillTypes DEF TranscriptInv, Types, ScreenTypes
<1>3. FetchTypes' /\ DOMAIN fetch'.page = {} /\ fetch'.phase # "read"
  BY <1>1, StartIs DEF TranscriptInv
<1>4. fetch'.phase = "none"
  BY <1>1 DEF NoFetch
<1>5. Scene'
  <2>1. loaded
    BY <1>1 DEF TranscriptInv, Scene
  <2>. QED BY <1>1, <1>3, <1>4, <2>1 DEF TranscriptInv, Scene
<1>6. ASSUME faults' = {}
      PROVE  InOrder' /\ CallsAgree' /\ PagesAgree' /\ \A i \in Posted' : Shows(i)'
  <2>1. InOrder /\ CallsAgree /\ PagesAgree /\ \A i \in Posted : Shows(i)
    BY <1>1, <1>6 DEF TranscriptInv, Agreed
  <2>2. InOrder'
    BY <1>1, <2>1, StillNews DEF TranscriptInv, Types
  <2>3. CallsAgree'
    BY <1>1, <2>1, AgreeIs
  <2>4. PagesAgree'
    BY <1>1, <1>4, <2>1 DEF PagesAgree
  <2>. QED BY <1>1, <1>3, <2>1, <2>2, <2>3, <2>4, PagelessShows
<1>. QED BY <1>2, <1>3, <1>5, <1>6 DEF TranscriptInv, Types, Agreed

\* A page is put over the rows held: the web puts it over what it held when
\* it asked, the phone puts an older one over what it holds now.
LEMMA FetchDoneKeeps == TranscriptInv /\ FetchDone => TranscriptInv'
<1>. SUFFICES ASSUME TranscriptInv, FetchDone PROVE TranscriptInv'
  OBVIOUS
<1>1. /\ fetch.phase = "read" /\ loaded' = TRUE /\ floor' = fetch.low /\ fetch' = NoFetch
      /\ UNCHANGED <<client, room, ops, outbox, open, hears, frames>>
      /\ UNCHANGED <<calls, unsent, faults>>
  BY DEF FetchDone, serverVars, screenVars
<1>2. rows' = IF ~fetch.older THEN fetch.page
              ELSE IF client = "mobile" THEN Over(fetch.page, rows)
              ELSE Over(fetch.page, fetch.base)
  BY DEF FetchDone
<1>3. newest' = IF fetch.older THEN newest \cap DOMAIN rows' ELSE DOMAIN fetch.page
  BY DEF FetchDone
<1>4. /\ Table(fetch.page) /\ Table(fetch.base) /\ Table(rows) /\ fetch.older \in BOOLEAN
      /\ fetch.low \in 1..(MaxMessages + 1)
  BY DEF TranscriptInv, Types, FetchTypes, RowTypes
<1>5. RowTypes'
  <2>1. \E f : f = rows' /\ Table(f)
    BY <1>2, <1>4, OverTable
  <2>2. PICK f : f = rows' /\ Table(f)
    BY <2>1
  <2>3. Table(rows)'
    BY <1>1, <2>2 DEF Table, RowOf, Posted
  <2>. QED BY <1>2, <1>3, <1>4, <2>3 DEF RowTypes
<1>6. FetchTypes' /\ DOMAIN fetch'.page = {} /\ fetch'.phase # "read"
  BY <1>1, StartIs DEF TranscriptInv
<1>7. Types'
  <2>1. RoomTypes' /\ CallTypes' /\ NewsTypes'
    BY <1>1, StillTypes DEF TranscriptInv
  <2>2. ScreenTypes'
    BY <1>1, <1>4 DEF TranscriptInv, Types, ScreenTypes
  <2>. QED BY <1>5, <1>6, <2>1, <2>2 DEF Types
<1>8. fetch'.phase = "none"
  BY <1>1 DEF NoFetch
<1>9. Scene'
  BY <1>1, <1>6, <1>8 DEF TranscriptInv, Scene
<1>10. ASSUME faults' = {}
       PROVE  InOrder' /\ CallsAgree' /\ PagesAgree' /\ \A i \in Posted' : Shows(i)'
  <2>1. InOrder /\ CallsAgree /\ PagesAgree /\ \A i \in Posted : Shows(i)
    BY <1>1, <1>10 DEF TranscriptInv, Agreed
  <2>2. InOrder' /\ \A k, i : Coming(k, i)' <=> Coming(k, i)
    BY <1>1, <2>1, StillNews DEF TranscriptInv, Types
  <2>3. CallsAgree'
    BY <1>1, <2>1, AgreeIs
  <2>4. PagesAgree'
    BY <1>1, <1>8 DEF PagesAgree
  <2>5. fetch.base = rows /\ fetch.older = loaded /\ (~loaded => DOMAIN rows = {})
    BY <1>1, <2>1 DEF PagesAgree, TranscriptInv, Scene
  <2>6. /\ \A i \in DOMAIN fetch.page : i \in DOMAIN rows' /\ rows'[i] = fetch.page[i]
        /\ \A i \in DOMAIN rows : i \notin DOMAIN fetch.page =>
             i \in DOMAIN rows' /\ rows'[i] = rows[i]
        /\ \A i \in DOMAIN rows' : i \in DOMAIN fetch.page \/ i \in DOMAIN rows
    <3>1. CASE fetch.older
      <4>1. rows' = Over(fetch.page, rows)
        BY <1>2, <2>5, <3>1
      <4>2. /\ DOMAIN Over(fetch.page, rows) = DOMAIN fetch.page \cup DOMAIN rows
            /\ \A i \in DOMAIN fetch.page : Over(fetch.page, rows)[i] = fetch.page[i]
            /\ \A i \in DOMAIN rows : i \notin DOMAIN fetch.page =>
                 Over(fetch.page, rows)[i] = rows[i]
        BY OverIs
      <4>. QED BY <4>1, <4>2
    <3>2. CASE ~fetch.older
      BY <1>2, <2>5, <3>2
    <3>. QED BY <3>1, <3>2
  <2>7. Posted' = Posted
    BY <1>1 DEF Posted
  <2>8. ASSUME NEW i \in Posted PROVE Shows(i)'
    <3>1. Shows(i) /\ \A k : Coming(k, i)' <=> Coming(k, i)
      BY <2>1, <2>2
    <3>2. EditShows(i)'
      BY <1>1, <1>6, <2>6, <3>1 DEF Shows, EditShows
    <3>3. DeleteShows(i)'
      BY <1>1, <1>6, <2>6, <3>1 DEF Shows, DeleteShows
    <3>4. PostShows(i)'
      <4>1. SUFFICES ASSUME ~room[i].gone, ~Coming("post", i), i >= fetch.low
                     PROVE  i \in DOMAIN rows' \/ Undoable(i)'
        BY <1>1, <1>6, <3>1 DEF PostShows
      <4>2. Undoable(i)' <=> Undoable(i)
        BY <1>1 DEF Undoable
      <4>3. i \in DOMAIN rows \/ Undoable(i) \/ i \in DOMAIN fetch.page
        <5>1. i \in Nat /\ floor \in Nat
          BY PostedIs DEF TranscriptInv, Types, ScreenTypes
        <5>2. i >= floor \/ i < floor
          BY <5>1
        <5>. QED BY <1>1, <3>1, <4>1, <5>2 DEF Shows, PostShows
      <4>. QED BY <2>6, <4>2, <4>3
    <3>5. FlagShows(i)'
      BY <1>1, <1>6, <2>6, <3>1 DEF Shows, FlagShows
    <3>. QED BY <3>2, <3>3, <3>4, <3>5 DEF Shows
  <2>. QED BY <2>2, <2>3, <2>4, <2>7, <2>8
<1>. QED BY <1>7, <1>9, <1>10 DEF TranscriptInv, Agreed

(* The oldest and the newest of some messages.                             *)
LEMMA OldestIs ==
  ASSUME NEW S, S \subseteq Nat, S # {}
  PROVE  \E x \in S : \A y \in S : x <= y
<1>. DEFINE R == OpToRel(<, Nat)
<1>1. \A x, y \in Nat : y < x => <<y, x>> \in R
  <2>1. SUFFICES ASSUME NEW x \in Nat, NEW y \in Nat, y < x PROVE <<y, x>> \in R
    OBVIOUS
  <2>2. PICK p : p = <<y, x>>
    OBVIOUS
  <2>3. p \in Nat \X Nat /\ p[1] < p[2]
    BY <2>1, <2>2
  <2>. QED BY <2>2, <2>3, Zenon DEF OpToRel
<1>. HIDE DEF R
<1>2. \E x \in S : \A y \in S : ~ (<<y, x>> \in R)
  BY NatLessThanWellFounded, WFMin DEF R
<1>3. PICK x \in S : \A y \in S : ~ (<<y, x>> \in R)
  BY <1>2
<1>4. \A y \in S : ~(y < x) /\ x \in Nat /\ y \in Nat
  BY <1>1, <1>3
<1>. QED BY <1>4

\* The newest of some messages.
LEMMA NewestIs ==
  ASSUME NEW S, S \subseteq Ids, S # {}
  PROVE  \E x \in S : \A y \in S : y <= x
<1>. DEFINE T == {MaxMessages - y : y \in S}
<1>1. T \subseteq Nat /\ T # {}
  <2>1. \A y \in S : y \in Nat /\ y <= MaxMessages /\ MaxMessages \in Nat
    BY BoundsAreNat DEF Ids
  <2>2. \A y \in S : MaxMessages - y \in Nat
    BY <2>1
  <2>. QED BY <2>2
<1>2. PICK t \in T : \A u \in T : t <= u
  BY <1>1, OldestIs
<1>3. PICK x \in S : t = MaxMessages - x
  BY <1>2
<1>4. \A y \in S : MaxMessages - x <= MaxMessages - y
  BY <1>2, <1>3
<1>. QED BY <1>4, BoundsAreNat DEF Ids

(* The newest PageSize messages of those asked for.                        *)
PageOf(below) == {i \in below : Cardinality({j \in below : j > i}) < PageSize}

\* The newest PageSize messages of those asked for.
LEMMA PageIs ==
  ASSUME NEW below, below \subseteq Ids
  PROVE  LET page == PageOf(below) IN
         /\ \A i \in page, j \in below : j >= i => j \in page
         /\ below # page =>
              /\ (CHOOSE i \in page : \A j \in page : i <= j) \in page
              /\ \A j \in page : (CHOOSE i \in page : \A l \in page : i <= l) <= j
<1>. DEFINE page == PageOf(below)
<1>1. /\ PageSize \in Nat /\ PageSize > 0 /\ MaxMessages \in Nat /\ below \subseteq Nat
      /\ page \subseteq below
  BY BoundsAreNat DEF Ids, PageOf
<1>2. IsFiniteSet(below)
  <2>1. IsFiniteSet(Ids)
    BY <1>1, FS_Interval DEF Ids
  <2>. QED BY <2>1, FS_Subset
<1>3. ASSUME NEW i \in page, NEW j \in below, j >= i PROVE j \in page
  <2>1. PICK a : a = {l \in below : l > i}
    OBVIOUS
  <2>2. PICK b : b = {l \in below : l > j}
    OBVIOUS
  <2>3. b \subseteq a /\ IsFiniteSet(a)
    <3>1. i \in Nat /\ j \in Nat
      BY <1>1
    <3>2. ASSUME NEW l \in below, l > j PROVE l > i
      <4>1. l \in Nat
        BY <1>1
      <4>. QED BY <1>3, <3>1, <3>2, <4>1
    <3>3. a \subseteq below /\ b \subseteq a
      BY <2>1, <2>2, <3>2
    <3>. QED BY <1>2, <3>3, FS_Subset
  <2>4. IsFiniteSet(b) /\ Cardinality(b) <= Cardinality(a)
    BY <2>3, FS_Subset
  <2>5. Cardinality(a) \in Nat /\ Cardinality(b) \in Nat
    BY <2>3, <2>4, FS_CardinalityType
  <2>6. Cardinality(a) < PageSize
    BY <2>1 DEF PageOf
  <2>7. Cardinality(b) < PageSize
    BY <1>1, <2>4, <2>5, <2>6
  <2>. QED BY <2>2, <2>7 DEF PageOf
<1>4. ASSUME below # page
      PROVE  \E i \in page : \A j \in page : i <= j
  <2>1. below # {}
    BY <1>1, <1>4
  <2>2. PICK x \in below : \A y \in below : y <= x
    BY <2>1, NewestIs
  <2>3. {j \in below : j > x} = {}
    <3>1. \A y \in below : y \in Nat /\ x \in Nat
      BY <1>1
    <3>2. \A y \in below : ~(y > x)
      BY <2>2, <3>1
    <3>. QED BY <3>2
  <2>4. x \in page
    BY <1>1, <2>3, FS_EmptySet DEF PageOf
  <2>. QED BY <1>1, <2>4, OldestIs
<1>. HIDE DEF page
<1>5. ASSUME below # page
      PROVE  /\ (CHOOSE i \in page : \A j \in page : i <= j) \in page
             /\ \A j \in page : (CHOOSE i \in page : \A l \in page : i <= l) <= j
  BY <1>4, <1>5
<1>. QED BY <1>3, <1>5 DEF page

\* The server reads a page (list).
LEMMA FetchReadKeeps == TranscriptInv /\ FetchRead => TranscriptInv'
<1>. SUFFICES ASSUME TranscriptInv, FetchRead PROVE TranscriptInv'
  OBVIOUS
<1>1. /\ fetch.phase = "sent" /\ UNCHANGED <<client, room, ops, outbox, open, hears, frames>>
      /\ UNCHANGED <<loaded, rows, newest, floor, calls, unsent, faults>>
  BY DEF FetchRead, serverVars, screenVars
<1>2. PICK below : below = {i \in Alive : ~fetch.older \/ i < fetch.low}
  OBVIOUS
<1>3. PICK page : page = PageOf(below)
  OBVIOUS
<1>4. PICK low : low = IF below # page THEN CHOOSE i \in page : \A j \in page : i <= j ELSE 1
  OBVIOUS
<1>5. PICK table : table = [i \in page |-> Row(room[i], room[i].mine)]
  OBVIOUS
<1>6. fetch' = [fetch EXCEPT !.phase = "read", !.page = table, !.low = low]
  BY <1>2, <1>3, <1>4, <1>5 DEF FetchRead, PageOf
<1>7. /\ fetch = [phase |-> fetch.phase, older |-> fetch.older, page |-> fetch.page,
                  base |-> fetch.base, low |-> fetch.low]
      /\ Table(fetch.base) /\ fetch.older \in BOOLEAN
  BY DEF TranscriptInv, Types, FetchTypes
<1>8. /\ fetch'.phase = "read" /\ fetch'.page = table /\ fetch'.low = low
      /\ fetch'.base = fetch.base
      /\ fetch' = [phase |-> fetch'.phase, older |-> fetch'.older, page |-> fetch'.page,
                   base |-> fetch'.base, low |-> fetch'.low]
  BY <1>6, <1>7
<1>9. fetch'.older = fetch.older
  BY <1>6, <1>7
<1>10. Posted \subseteq Ids /\ below \subseteq Posted /\ below \subseteq Ids /\ page \subseteq below
  BY <1>2, <1>3, PostedIs DEF TranscriptInv, Types, Alive, PageOf
<1>11. \A i \in page, j \in below : j >= i => j \in page
  BY <1>3, <1>10, PageIs
<1>12. /\ below # page => low \in page /\ \A j \in page : low <= j
       /\ below = page => low = 1
  <2>1. below # page => low \in page
    BY <1>3, <1>4, <1>10, PageIs
  <2>2. below # page => \A j \in page : low <= j
    BY <1>3, <1>4, <1>10, PageIs
  <2>. QED BY <1>4, <2>1, <2>2
<1>13. low \in 1..(MaxMessages + 1)
  <2>1. low \in Ids \/ low = 1
    BY <1>10, <1>12
  <2>. QED BY <2>1, BoundsAreNat DEF Ids
<1>14. \A i \in page : /\ i \in DOMAIN table /\ RowOf(i, table[i])
                       /\ table[i].v = room[i].v /\ table[i].me = room[i].mine
  <2>1. TAKE i \in page
  <2>2. i \in Posted /\ room[i] \in Messages /\ room[i].mine \in BOOLEAN
    BY <1>10, PostedIs DEF TranscriptInv, Types, Messages
  <2>3. table[i] = Row(room[i], room[i].mine) /\ i \in DOMAIN table
    BY <1>5
  <2>. QED BY <2>2, <2>3, RowIs
<1>15. DOMAIN table = page
  BY <1>5
<1>16. Types'
  <2>1. RoomTypes' /\ RowTypes' /\ CallTypes' /\ NewsTypes' /\ ScreenTypes'
    BY <1>1, StillTypes DEF TranscriptInv, Types, ScreenTypes
  <2>2. Table(fetch.page)'
    BY <1>1, <1>8, <1>14, <1>15 DEF Table, RowOf, Posted
  <2>3. Table(fetch.base)'
    BY <1>1, <1>7, <1>8 DEF Table, RowOf, Posted
  <2>4. FetchTypes'
    BY <1>7, <1>8, <1>9, <1>13, <2>2, <2>3 DEF FetchTypes
  <2>. QED BY <2>1, <2>4 DEF Types
<1>17. Scene'
  BY <1>1, <1>8, <1>9 DEF TranscriptInv, Scene
<1>18. ASSUME faults' = {}
       PROVE  InOrder' /\ CallsAgree' /\ PagesAgree' /\ \A i \in Posted' : Shows(i)'
  <2>1. InOrder /\ CallsAgree /\ PagesAgree /\ \A i \in Posted : Shows(i)
    BY <1>1, <1>18 DEF TranscriptInv, Agreed
  <2>2. InOrder' /\ \A k, i : Coming(k, i)' <=> Coming(k, i)
    BY <1>1, <2>1, StillNews DEF TranscriptInv, Types
  <2>3. CallsAgree'
    BY <1>1, <2>1, AgreeIs
  <2>4. PagesAgree'
    BY <1>1, <1>8, <2>1 DEF PagesAgree
  <2>5. Posted' = Posted
    BY <1>1 DEF Posted
  <2>6. ASSUME NEW i \in Posted PROVE Shows(i)'
    <3>1. Shows(i) /\ \A k : Coming(k, i)' <=> Coming(k, i)
      BY <2>1, <2>2
    <3>2. EditShows(i)'
      BY <1>1, <1>8, <1>14, <1>15, <3>1 DEF Shows, EditShows
    <3>3. DeleteShows(i)'
      <4>1. room[i].gone => i \notin page
        BY <1>2, <1>10 DEF Alive
      <4>. QED BY <1>1, <1>8, <1>15, <3>1, <4>1 DEF Shows, DeleteShows
    <3>4. PostShows(i)'
      <4>1. Undoable(i)' <=> Undoable(i)
        BY <1>1 DEF Undoable
      <4>2. ASSUME ~room[i].gone, i >= low, loaded => i < floor
            PROVE  i \in page
        <5>1. i \in Nat /\ i \in Alive
          BY <4>2, PostedIs DEF TranscriptInv, Types, Alive
        <5>2. fetch.older => loaded /\ fetch.low = floor
          BY <1>1, <2>1 DEF TranscriptInv, Scene, PagesAgree
        <5>3. i \in below
          BY <1>2, <1>7, <4>2, <5>1, <5>2
        <5>. QED BY <1>11, <1>12, <4>2, <5>3
      <4>. QED BY <1>1, <1>8, <1>15, <3>1, <4>1, <4>2 DEF Shows, PostShows
    <3>5. FlagShows(i)'
      BY <1>1, <1>8, <1>14, <1>15, <3>1 DEF Shows, FlagShows
    <3>. QED BY <3>2, <3>3, <3>4, <3>5 DEF Shows
  <2>. QED BY <2>2, <2>3, <2>4, <2>5, <2>6
<1>. QED BY <1>16, <1>17, <1>18 DEF TranscriptInv, Agreed
----------------------------------------------------------------------------
(* This account's calls.                                                   *)

(* A call has failed.                                                      *)
LEMMA FailedIs ==
  ASSUME RoomTypes, CallTypes, room' = room, NEW c \in calls,
         calls' = (calls \ {c}) \cup {[c EXCEPT !.phase = "failed"]}
  PROVE  /\ CallTypes'
         /\ LET d == [c EXCEPT !.phase = "failed"] IN
            d.kind = c.kind /\ d.id = c.id /\ d.undo = c.undo /\ d.phase = "failed"
<1>1. PICK d : d = [c EXCEPT !.phase = "failed"]
  OBVIOUS
<1>2. c \in CallRecords /\ Asks(c) /\ calls' = (calls \ {c}) \cup {d}
  BY <1>1 DEF CallTypes
<1>3. /\ d.kind = c.kind /\ d.id = c.id /\ d.undo = c.undo /\ d.phase = "failed"
      /\ d \in CallRecords
  BY <1>1, <1>2 DEF CallRecords
<1>4. Asks(d)
  BY <1>2, <1>3 DEF Asks
<1>5. \A e : Asks(e)' <=> Asks(e)
  BY DEF Asks, RowOf, Posted
<1>6. IsFiniteSet(calls') /\ Cardinality(calls') <= MaxCalls
  BY <1>2, AnsweredCalls DEF CallTypes
<1>7. calls' \subseteq CallRecords /\ \A e \in calls' : Asks(e)'
  BY <1>2, <1>3, <1>4, <1>5 DEF CallTypes
<1>. QED BY <1>1, <1>3, <1>6, <1>7 DEF CallTypes

\* The answer to a call is lost, whether or not it was carried out.
LEMMA AnswerLostKeeps ==
  ASSUME NEW c
  PROVE  TranscriptInv /\ AnswerLost(c) => TranscriptInv'
<1>. SUFFICES ASSUME TranscriptInv, AnswerLost(c) PROVE TranscriptInv'
  OBVIOUS
<1>1. /\ c \in calls /\ UNCHANGED <<client, room, ops, outbox, open, hears, frames>>
      /\ UNCHANGED <<loaded, rows, newest, floor, fetch, unsent>>
      /\ calls' = (calls \ {c}) \cup {[c EXCEPT !.phase = "failed"]} /\ faults' # {}
  BY DEF AnswerLost, serverVars, screenVars, pageVars
<1>2. CallTypes'
  BY <1>1, FailedIs DEF TranscriptInv, Types
<1>3. Types'
  BY <1>1, <1>2, StillTypes DEF TranscriptInv, Types, ScreenTypes
<1>4. Scene'
  BY <1>1 DEF TranscriptInv, Scene
<1>. QED BY <1>1, <1>3, <1>4 DEF TranscriptInv, Agreed

\* A call is refused, or never arrives.
LEMMA RefuseKeeps ==
  ASSUME NEW c
  PROVE  TranscriptInv /\ Refuse(c) => TranscriptInv'
<1>. SUFFICES ASSUME TranscriptInv, Refuse(c) PROVE TranscriptInv'
  OBVIOUS
<1>1. PICK d : d = [c EXCEPT !.phase = "failed"]
  OBVIOUS
<1>2. /\ c \in calls /\ c.phase = "sent"
      /\ UNCHANGED <<client, room, ops, outbox, open, hears, frames>>
      /\ UNCHANGED <<loaded, rows, newest, floor, fetch, unsent, faults>>
      /\ calls' = (calls \ {c}) \cup {d}
  BY <1>1 DEF Refuse, serverVars, screenVars, pageVars
<1>3. /\ CallTypes'
      /\ d.kind = c.kind /\ d.id = c.id /\ d.undo = c.undo /\ d.phase = "failed"
  BY <1>1, <1>2, FailedIs DEF TranscriptInv, Types
<1>4. Types'
  BY <1>2, <1>3, StillTypes DEF TranscriptInv, Types, ScreenTypes
<1>5. Scene'
  BY <1>2 DEF TranscriptInv, Scene
<1>6. ASSUME faults' = {}
      PROVE  InOrder' /\ CallsAgree' /\ PagesAgree' /\ \A i \in Posted' : Shows(i)'
  <2>1. InOrder /\ CallsAgree /\ PagesAgree /\ \A i \in Posted : Shows(i)
    BY <1>2, <1>6 DEF TranscriptInv, Agreed
  <2>2. InOrder' /\ \A k, i : Coming(k, i)' <=> Coming(k, i)
    BY <1>2, <2>1, StillNews DEF TranscriptInv, Types
  <2>3. PagesAgree'
    BY <1>2, <2>1 DEF PagesAgree
  <2>4. \A e \in calls' : Agrees(e)'
    BY <1>2, <1>3, <2>1 DEF CallsAgree, Agrees
  <2>5. CallsAgree'
    BY <1>2, <1>3, <2>1, <2>4 DEF CallsAgree
  <2>6. Posted' = Posted
    BY <1>2 DEF Posted
  <2>7. ASSUME NEW i \in Posted PROVE Shows(i)'
    <3>1. Shows(i) /\ \A k : Coming(k, i)' <=> Coming(k, i)
      BY <2>1, <2>2
    <3>2. EditShows(i)'
      BY <1>2, <1>3, <3>1 DEF Shows, EditShows
    <3>3. DeleteShows(i)'
      BY <1>2, <1>3, <3>1 DEF Shows, DeleteShows
    <3>4. PostShows(i)'
      <4>1. Undoable(i) => Undoable(i)'
        BY <1>2, <1>3 DEF Undoable
      <4>. QED BY <1>2, <3>1, <4>1 DEF Shows, PostShows
    <3>5. FlagShows(i)'
      BY <1>2, <1>3, <3>1 DEF Shows, FlagShows
    <3>. QED BY <3>2, <3>3, <3>4, <3>5 DEF Shows
  <2>. QED BY <2>2, <2>3, <2>5, <2>6, <2>7
<1>. QED BY <1>4, <1>5, <1>6 DEF TranscriptInv, Agreed
----------------------------------------------------------------------------
(* The next frame.                                                         *)

\* The rows that a tally leaves (applyReactionsUpdated): whoever reacted is
\* still lit where anybody is counted.
LEMMA ReactionsAre ==
  ASSUME RowTypes, NEW i, NEW r, RowOf(i, r), room' = room, ReactionsUpdated(i, r)
  PROVE  /\ RowTypes' /\ Elsewhere(i) /\ (i \in DOMAIN rows' <=> i \in DOMAIN rows)
         /\ i \in DOMAIN rows => /\ rows'[i].v = rows[i].v
                                 /\ rows'[i].me <=> rows[i].me /\ r.count > 0
<1>1. CASE i \in DOMAIN rows
  <2>1. PICK w : w = [v |-> rows[i].v, count |-> r.count, me |-> rows[i].me /\ r.count > 0]
    OBVIOUS
  <2>2. rows' = [rows EXCEPT ![i] = w] /\ newest' = newest
    BY <1>1, <2>1 DEF ReactionsUpdated
  <2>3. RowOf(i, rows[i])
    BY <1>1 DEF RowTypes, Table
  <2>4. w.v = rows[i].v /\ w.count = r.count /\ (w.me <=> rows[i].me /\ r.count > 0)
        /\ w \in RowRecords
    BY <2>1, <2>3 DEF RowOf, RowRecords
  <2>5. RowOf(i, w)
    BY <2>3, <2>4 DEF RowOf
  <2>. QED BY <1>1, <2>2, <2>4, <2>5, ReplacedIs
<1>2. CASE i \notin DOMAIN rows
  <2>1. rows' = rows /\ newest' = newest
    BY <1>2 DEF ReactionsUpdated
  <2>. QED BY <1>2, <2>1, SameIs, WrittenTypes DEF RowTypes
<1>. QED BY <1>1, <1>2

\* The next frame is applied to the rows (cache.ts).
LEMMA ReceiveKeeps == TranscriptInv /\ Receive => TranscriptInv'
<1>. SUFFICES ASSUME TranscriptInv, Receive PROVE TranscriptInv'
  OBVIOUS
<1>1. PICK e : e = Head(frames)
  OBVIOUS
<1>2. PICK i : i = e.id
  OBVIOUS
<1>3. /\ frames # <<>> /\ frames' = Tail(frames)
      /\ UNCHANGED <<client, room, ops, outbox, open, hears>>
      /\ UNCHANGED <<loaded, floor, fetch, calls, unsent>>
  BY DEF Receive, serverVars
<1>4. NewsTypes' /\ e \in Events /\ Tells(e)
  BY <1>1, <1>3, ReceiveNews DEF TranscriptInv, Types
<1>5. /\ e.kind = "post" => Created(i, e.row)
      /\ e.kind = "edit" => Updated(i, e.row)
      /\ e.kind = "delete" => Deleted(i)
      /\ e.kind \in Toggles => ReactionsUpdated(i, e.row)
      /\ e.kind \in {"post", "edit", "delete"} \/ e.kind \in Toggles
  <2>1. CASE e.kind = "post"
    BY <1>1, <1>2, <2>1 DEF Receive, Toggles
  <2>2. CASE e.kind = "edit"
    BY <1>1, <1>2, <2>2 DEF Receive, Toggles
  <2>3. CASE e.kind = "delete"
    BY <1>1, <1>2, <2>3 DEF Receive, Toggles
  <2>4. CASE e.kind \in Toggles
    <3>1. ReactionsUpdated(i, e.row)
      BY <1>1, <1>2, <2>4 DEF Receive, Toggles
    <3>. QED BY <2>4, <3>1 DEF Toggles
  <2>. QED BY <1>4, <2>1, <2>2, <2>3, <2>4 DEF Events, Kinds, Toggles
<1>6. /\ RowOf(i, e.row) /\ i \in Posted /\ e.row \in RowRecords
      /\ e.mine => e.row.count > 0
      /\ e.kind = "edit" => e.row.v = 1
      /\ e.kind = "post" => ~e.row.me /\ ~e.mine
      /\ e.kind = "delete" => room[i].gone
  BY <1>2, <1>4 DEF Tells, RowOf
<1>7. RowTypes' /\ Elsewhere(i)
  BY <1>3, <1>5, <1>6, CreatedIs, UpdatedIs, DeletedIs, ReactionsAre DEF TranscriptInv, Types
<1>8. Types'
  BY <1>3, <1>4, <1>7, StillTypes DEF TranscriptInv, Types, ScreenTypes
<1>9. hears /\ open
  BY <1>3 DEF TranscriptInv, Scene
<1>10. Scene'
  BY <1>3, <1>9 DEF TranscriptInv, Scene
<1>11. ASSUME faults' = {}
       PROVE  InOrder' /\ CallsAgree' /\ PagesAgree' /\ \A j \in Posted' : Shows(j)'
  <2>1. /\ faults = {} /\ fetch.phase = "none"
        /\ ~(e.kind = "edit" /\ client = "web" /\ i \in DOMAIN rows \ newest)
        /\ e.kind \in {"edit", "delete"} =>
             \A c \in calls : c.id = i => c.kind = e.kind /\ c.phase = "answered"
        /\ e.kind # "edit" => e.mine = room[i].mine
    BY <1>1, <1>2, <1>11 DEF Receive, Overlap, Echo
  <2>2. InOrder /\ CallsAgree /\ PagesAgree /\ \A j \in Posted : Shows(j)
    BY <2>1 DEF TranscriptInv, Agreed
  <2>3. loaded /\ DOMAIN fetch.page = {}
    BY <1>9, <2>1 DEF TranscriptInv, Scene
  <2>4. /\ InOrder'
        /\ \A k \in {"edit", "delete"} : Due(e, k) => Coming(k, i)'
        /\ \A k, j : Coming(k, j) <=> Coming(k, j)' \/ (e.kind = k /\ i = j)
    <3>1. \A k \in {"edit", "delete"} : Due(e, k) => Coming(k, e.id)'
      BY <1>1, <1>3, <2>2, ReceiveNews DEF TranscriptInv, Types
    <3>2. \A k \in {"edit", "delete"} : Due(e, k) => Coming(k, i)'
      <4>1. TAKE k \in {"edit", "delete"}
      <4>2. HAVE Due(e, k)
      <4>3. PICK j : j = e.id /\ Coming(k, j)'
        BY <3>1, <4>2
      <4>. QED BY <1>2, <4>3
    <3>3. \A k, j : Coming(k, j) <=> Coming(k, j)' \/ (e.kind = k /\ e.id = j)
      BY <1>1, <1>3, ReceiveNews DEF TranscriptInv, Types
    <3>4. InOrder'
      BY <1>1, <1>3, <2>2, ReceiveNews DEF TranscriptInv, Types
    <3>. QED BY <1>2, <3>2, <3>3, <3>4
  <2>5. CallsAgree'
    BY <1>3, <2>2, AgreeIs
  <2>6. PagesAgree'
    BY <1>3, <2>1, <2>3 DEF PagesAgree
  <2>7. Posted' = Posted /\ Shows(i) /\ room[i].v \in 0..1
    BY <1>3, <1>6, <2>2, PostedIs DEF Posted, TranscriptInv, Types, Messages
  <2>8. /\ e.kind # "delete" /\ room[i].gone => Coming("delete", i)'
        /\ e.kind = "post" /\ room[i].v = 1 => Coming("edit", i)'
    BY <1>2, <2>4 DEF Due
  <2>9. Shows(i)'
    <3>1. CASE e.kind = "post"
      <4>1. i \in DOMAIN rows' /\ rows'[i] = e.row
        BY <1>3, <1>5, <1>6, <2>3, <3>1, CreatedIs DEF TranscriptInv, Types
      <4>2. EditShows(i)' /\ DeleteShows(i)' /\ PostShows(i)'
        BY <1>3, <2>1, <2>8, <3>1, <4>1 DEF EditShows, DeleteShows, PostShows
      <4>3. room[i].mine = FALSE /\ e.row.me = FALSE
        <5>1. e.mine = FALSE /\ e.row.me = FALSE
          BY <1>4, <1>6, <3>1 DEF Events, RowRecords
        <5>. QED BY <2>1, <3>1, <5>1
      <4>4. FlagShows(i)'
        BY <1>3, <2>3, <2>7, <4>1, <4>3 DEF Shows, FlagShows
      <4>. QED BY <4>2, <4>4 DEF Shows
    <3>2. CASE e.kind = "edit"
      <4>1. i \in DOMAIN rows' => rows'[i] = e.row
        <5>1. client \in {"web", "mobile"}
          BY ClientsKnown DEF TranscriptInv, Types, ScreenTypes
        <5>2. IF client = "mobile" \/ i \in newest \cap DOMAIN rows
              THEN i \in DOMAIN rows' /\ rows'[i] = e.row ELSE rows' = rows
          BY <1>3, <1>5, <1>6, <3>2, UpdatedIs DEF TranscriptInv, Types
        <5>. QED BY <2>1, <3>2, <5>1, <5>2
      <4>2. i \in DOMAIN rows => i \in DOMAIN rows'
        BY <1>3, <1>5, <1>6, <3>2, UpdatedIs DEF TranscriptInv, Types
      <4>3. room[i].v = 1
        BY <1>6, <2>7, <3>2 DEF RowOf
      <4>4. EditShows(i)'
        BY <1>3, <1>6, <2>1, <2>3, <3>2, <4>1 DEF EditShows
      <4>5. DeleteShows(i)'
        BY <1>3, <2>8, <3>2 DEF DeleteShows
      <4>6. PostShows(i)'
        BY <1>3, <2>1, <2>4, <2>7, <3>2, <4>2 DEF Shows, PostShows, Undoable
      <4>7. FlagShows(i)'
        BY <1>3, <4>3 DEF FlagShows
      <4>. QED BY <4>4, <4>5, <4>6, <4>7 DEF Shows
    <3>3. CASE e.kind = "delete"
      <4>1. i \notin DOMAIN rows'
        BY <1>3, <1>5, <3>3, DeletedIs DEF TranscriptInv, Types
      <4>2. EditShows(i)'
        BY <1>3, <2>1, <2>3, <2>4, <2>7, <3>3, <4>1 DEF Shows, EditShows
      <4>3. DeleteShows(i)'
        BY <1>3, <2>1, <2>3, <3>3, <4>1 DEF DeleteShows
      <4>4. PostShows(i)'
        BY <1>3, <1>6, <3>3 DEF PostShows
      <4>5. FlagShows(i)'
        BY <1>3, <2>3, <2>7, <4>1 DEF Shows, FlagShows
      <4>. QED BY <4>2, <4>3, <4>4, <4>5 DEF Shows
    <3>4. CASE e.kind \in Toggles
      <4>1. /\ i \in DOMAIN rows' <=> i \in DOMAIN rows
            /\ i \in DOMAIN rows => /\ rows'[i].v = rows[i].v
                                    /\ rows'[i].me <=> rows[i].me /\ e.row.count > 0
        BY <1>3, <1>5, <1>6, <3>4, ReactionsAre DEF TranscriptInv, Types
      <4>2. EditShows(i)'
        BY <1>3, <2>3, <2>4, <2>7, <3>4, <4>1 DEF Shows, EditShows, Toggles
      <4>3. DeleteShows(i)'
        BY <1>3, <2>8, <3>4 DEF DeleteShows, Toggles
      <4>4. PostShows(i)'
        BY <1>3, <2>1, <2>4, <2>7, <3>4, <4>1 DEF Shows, PostShows, Undoable, Toggles
      <4>5. FlagShows(i)'
        <5>1. SUFFICES ASSUME room[i].v = 0, \A c \in calls : c.id = i => c.kind \notin Toggles
                       PROVE  /\ i \in DOMAIN rows' => rows'[i].me = room[i].mine
                              /\ \A c \in calls : c.id = i /\ c.kind = "delete" =>
                                   c.undo.me = room[i].mine
          BY <1>3, <2>3 DEF FlagShows
        <5>2. /\ i \in DOMAIN rows => rows[i].me = room[i].mine
              /\ \A c \in calls : c.id = i /\ c.kind = "delete" => c.undo.me = room[i].mine
          BY <2>7, <5>1 DEF Shows, FlagShows
        <5>3. e.mine = room[i].mine
          BY <2>1, <3>4 DEF Toggles
        <5>4. room[i].mine => e.row.count > 0
          BY <1>6, <5>3
        <5>5. i \in DOMAIN rows => (rows'[i].me <=> room[i].mine)
          BY <4>1, <5>2, <5>4
        <5>6. i \in DOMAIN rows' => rows'[i].me \in BOOLEAN
          BY <1>7 DEF RowTypes, Table, RowOf, RowRecords
        <5>7. room[i].mine \in BOOLEAN
          BY <1>6, PostedIs DEF TranscriptInv, Types, Messages
        <5>. QED BY <4>1, <5>2, <5>5, <5>6, <5>7
      <4>. QED BY <4>2, <4>3, <4>4, <4>5 DEF Shows
    <3>. QED BY <1>5, <3>1, <3>2, <3>3, <3>4
  <2>10. ASSUME NEW j \in Posted, j # i PROVE Shows(j)'
    BY <1>3, <1>7, <2>2, <2>4, <2>10, ApartShows DEF Elsewhere
  <2>. QED BY <2>4, <2>5, <2>6, <2>7, <2>9, <2>10
<1>. QED BY <1>8, <1>10, <1>11 DEF TranscriptInv, Agreed
----------------------------------------------------------------------------
(* A call starts.                                                          *)

\* A call is under way with those there were.
LEMMA StartedCalls ==
  ASSUME CallTypes, CanCall, room' = room, NEW k \in Kinds, NEW i, NEW u \in RowRecords,
         NEW c, c = Call(k, i, u), calls' = calls \cup {c},
         (k = "post" /\ i = 0) \/ i \in Posted, i \in Nat, k = "delete" => RowOf(i, u)
  PROVE  /\ CallTypes'
         /\ c.kind = k /\ c.id = i /\ c.phase = "sent" /\ c.undo = u
<1>1. NoRow \in RowRecords
  BY DEF NoRow, RowRecords
<1>2. /\ c \in CallRecords /\ c.kind = k /\ c.id = i /\ c.phase = "sent" /\ c.undo = u
  BY <1>1 DEF Call, CallRecords
<1>3. Asks(c)
  <2>1. RowOf(i, u) => i \in Posted
    BY DEF RowOf
  <2>2. 0 \notin Posted
    BY DEF Posted
  <2>. QED BY <1>2, <2>1, <2>2 DEF Asks
<1>4. \A e : Asks(e)' <=> Asks(e)
  BY DEF Asks, RowOf, Posted
<1>5. calls' \subseteq CallRecords /\ \A e \in calls' : Asks(e)'
  BY <1>2, <1>3, <1>4 DEF CallTypes
<1>6. IsFiniteSet(calls') /\ Cardinality(calls') <= MaxCalls
  <2>1. IsFiniteSet(calls) /\ Cardinality(calls) < MaxCalls /\ Cardinality(calls) \in Nat
    BY FS_CardinalityType DEF CallTypes, CanCall
  <2>. QED BY <2>1, FS_AddElement, BoundsAreNat
<1>. QED BY <1>2, <1>5, <1>6 DEF CallTypes

(* The calls are told apart still.                                         *)
LEMMA StartedAgree ==
  ASSUME CallsAgree, room' = room, NEW c, calls' = calls \cup {c}, Agrees(c),
         \A d \in calls : d.id # c.id /\ ~(d.kind = "post" /\ c.kind = "post")
  PROVE  CallsAgree'
<1>1. \A d : Agrees(d)' <=> Agrees(d)
  BY DEF Agrees
<1>2. \A d \in calls' : Agrees(d)'
  BY <1>1 DEF CallsAgree
<1>3. ASSUME NEW d \in calls', NEW e \in calls',
             d.id = e.id \/ (d.kind = "post" /\ e.kind = "post")
      PROVE  d = e
  BY <1>3 DEF CallsAgree
<1>. QED BY <1>2, <1>3 DEF CallsAgree

\* A message is sent, or sent again (send, retry).
LEMMA SendKeeps ==
  ASSUME NEW again \in BOOLEAN
  PROVE  TranscriptInv /\ Send(again) => TranscriptInv'
<1>. SUFFICES ASSUME TranscriptInv, Send(again) PROVE TranscriptInv'
  OBVIOUS
<1>1. PICK c : c = Call("post", 0, NoRow)
  OBVIOUS
<1>2. /\ CanCall /\ (\A d \in calls : d.kind # "post") /\ unsent' \in BOOLEAN
      /\ calls' = calls \cup {c}
      /\ UNCHANGED <<client, room, ops, outbox, open, hears, frames>>
      /\ UNCHANGED <<loaded, rows, newest, floor, fetch>>
      /\ faults' = {} => faults = {}
  BY <1>1 DEF Send, Starts, serverVars, screenVars, pageVars, TranscriptInv, Types, ScreenTypes
<1>3. NoRow \in RowRecords /\ "post" \in Kinds
  BY DEF NoRow, RowRecords, Kinds
<1>4. CallTypes' /\ c.kind = "post" /\ c.id = 0 /\ c.phase = "sent"
  BY <1>1, <1>2, <1>3, StartedCalls DEF TranscriptInv, Types
<1>5. Types'
  BY <1>2, <1>4, StillTypes DEF TranscriptInv, Types, ScreenTypes
<1>6. Scene'
  BY <1>2 DEF TranscriptInv, Scene, CanCall
<1>7. ASSUME faults' = {}
      PROVE  InOrder' /\ CallsAgree' /\ PagesAgree' /\ \A i \in Posted' : Shows(i)'
  <2>1. InOrder /\ CallsAgree /\ PagesAgree /\ \A i \in Posted : Shows(i)
    BY <1>2, <1>7 DEF TranscriptInv, Agreed
  <2>2. InOrder' /\ \A k, i : Coming(k, i)' <=> Coming(k, i)
    BY <1>2, <2>1, StillNews DEF TranscriptInv, Types
  <2>3. Agrees(c)
    BY <1>4 DEF Agrees, Toggles
  <2>4. \A d \in calls : d.id # 0
    BY <1>2 DEF TranscriptInv, Types, CallTypes, Asks
  <2>5. CallsAgree'
    BY <1>2, <1>4, <2>1, <2>3, <2>4, StartedAgree
  <2>6. PagesAgree'
    BY <1>2, <2>1 DEF PagesAgree
  <2>7. Posted' = Posted /\ 0 \notin Posted
    BY <1>2, PostedIs DEF Posted, TranscriptInv, Types
  <2>8. ASSUME NEW i \in Posted PROVE Shows(i)'
    <3>1. \A d : d.id = i => (d \in calls' <=> d \in calls)
      BY <1>2, <1>4, <2>7
    <3>. QED BY <1>2, <2>1, <2>2, <3>1, ApartShows
  <2>. QED BY <2>2, <2>5, <2>6, <2>7, <2>8
<1>. QED BY <1>5, <1>6, <1>7 DEF TranscriptInv, Agreed

\* An edit is submitted (editMessage, submitEdit).
LEMMA EditKeeps ==
  ASSUME NEW i \in Ids
  PROVE  TranscriptInv /\ Edit(i) => TranscriptInv'
<1>. SUFFICES ASSUME TranscriptInv, Edit(i) PROVE TranscriptInv'
  OBVIOUS
<1>1. PICK c : c = Call("edit", i, NoRow)
  OBVIOUS
<1>2. /\ CanCall /\ i \in DOMAIN rows /\ rows[i].v = 0 /\ calls' = calls \cup {c}
      /\ UNCHANGED <<client, room, ops, outbox, open, hears, frames>>
      /\ UNCHANGED <<loaded, rows, newest, floor, fetch, unsent>>
  BY <1>1 DEF Edit, Starts, serverVars, screenVars, pageVars
<1>3. faults' = {} => /\ faults = {} /\ fetch.phase = "none" /\ \A d \in calls : d.id # c.id
  BY <1>1 DEF Edit, Starts, Overlap
<1>4. NoRow \in RowRecords /\ "edit" \in Kinds /\ i \in Posted /\ i \in Nat
  BY <1>2, HeldPosted, PostedIs DEF NoRow, RowRecords, Kinds, TranscriptInv, Types
<1>5. CallTypes' /\ c.kind = "edit" /\ c.id = i /\ c.phase = "sent"
  BY <1>1, <1>2, <1>4, StartedCalls DEF TranscriptInv, Types
<1>6. Types'
  BY <1>2, <1>5, StillTypes DEF TranscriptInv, Types, ScreenTypes
<1>7. Scene'
  BY <1>2 DEF TranscriptInv, Scene, CanCall
<1>8. ASSUME faults' = {}
      PROVE  InOrder' /\ CallsAgree' /\ PagesAgree' /\ \A j \in Posted' : Shows(j)'
  <2>1. InOrder /\ CallsAgree /\ PagesAgree /\ \A j \in Posted : Shows(j)
    BY <1>3, <1>8 DEF TranscriptInv, Agreed
  <2>2. InOrder' /\ \A k, j : Coming(k, j)' <=> Coming(k, j)
    BY <1>2, <2>1, StillNews DEF TranscriptInv, Types
  <2>3. Agrees(c)
    BY <1>5 DEF Agrees, Toggles
  <2>4. CallsAgree'
    BY <1>2, <1>3, <1>5, <1>8, <2>1, <2>3, StartedAgree
  <2>5. PagesAgree'
    BY <1>2, <2>1 DEF PagesAgree
  <2>6. Posted' = Posted
    BY <1>2 DEF Posted
  <2>7. ASSUME NEW j \in Posted, j # i PROVE Shows(j)'
    <3>1. \A d : d.id = j => (d \in calls' <=> d \in calls)
      BY <1>2, <1>5, <2>7
    <3>. QED BY <1>2, <2>1, <2>2, <3>1, ApartShows
  <2>8. Shows(i)'
    <3>1. Shows(i) /\ \A d \in calls' : d.id = i => d = c
      BY <1>2, <1>3, <1>4, <1>5, <1>8, <2>1
    <3>2. EditShows(i)' /\ DeleteShows(i)'
      BY <1>2, <2>2, <3>1 DEF Shows, EditShows, DeleteShows
    <3>3. PostShows(i)'
      BY <1>2, <1>3, <1>8 DEF PostShows
    <3>4. FlagShows(i)'
      BY <1>2, <1>3, <1>5, <1>8, <3>1 DEF Shows, FlagShows, Toggles
    <3>. QED BY <3>2, <3>3, <3>4 DEF Shows
  <2>. QED BY <2>2, <2>4, <2>5, <2>6, <2>7, <2>8
<1>. QED BY <1>6, <1>7, <1>8 DEF TranscriptInv, Agreed

\* A message is deleted: the web takes its row out at once.
LEMMA DeleteKeeps ==
  ASSUME NEW i \in Ids
  PROVE  TranscriptInv /\ Delete(i) => TranscriptInv'
<1>. SUFFICES ASSUME TranscriptInv, Delete(i) PROVE TranscriptInv'
  OBVIOUS
<1>1. PICK c : c = Call("delete", i, rows[i])
  OBVIOUS
<1>2. /\ CanCall /\ i \in DOMAIN rows /\ calls' = calls \cup {c}
      /\ IF client = "web" THEN Deleted(i) ELSE UNCHANGED <<rows, newest>>
      /\ UNCHANGED <<client, room, ops, outbox, open, hears, frames>>
      /\ UNCHANGED <<loaded, floor, fetch, unsent>>
  BY <1>1 DEF Delete, Starts, serverVars, screenVars
<1>3. faults' = {} => /\ faults = {} /\ fetch.phase = "none" /\ \A d \in calls : d.id # c.id
  BY <1>1 DEF Delete, Starts, Overlap
<1>4. "delete" \in Kinds /\ i \in Posted /\ i \in Nat /\ RowOf(i, rows[i]) /\ rows[i] \in RowRecords
  BY <1>2, HeldPosted, PostedIs DEF Kinds, TranscriptInv, Types, RowTypes, Table, RowOf
<1>5. CallTypes' /\ c.kind = "delete" /\ c.id = i /\ c.phase = "sent" /\ c.undo = rows[i]
  BY <1>1, <1>2, <1>4, StartedCalls DEF TranscriptInv, Types
<1>6. RowTypes' /\ Elsewhere(i)
  <2>1. CASE client = "web"
    BY <1>2, <2>1, DeletedIs DEF TranscriptInv, Types
  <2>2. CASE client # "web"
    BY <1>2, <2>2, StillTypes, SameIs DEF TranscriptInv
  <2>. QED BY <2>1, <2>2
<1>7. Types'
  BY <1>2, <1>5, <1>6, StillTypes DEF TranscriptInv, Types, ScreenTypes
<1>8. Scene'
  BY <1>2 DEF TranscriptInv, Scene, CanCall
<1>9. ASSUME faults' = {}
      PROVE  InOrder' /\ CallsAgree' /\ PagesAgree' /\ \A j \in Posted' : Shows(j)'
  <2>1. InOrder /\ CallsAgree /\ PagesAgree /\ \A j \in Posted : Shows(j)
    BY <1>3, <1>9 DEF TranscriptInv, Agreed
  <2>2. InOrder' /\ \A k, j : Coming(k, j)' <=> Coming(k, j)
    BY <1>2, <2>1, StillNews DEF TranscriptInv, Types
  <2>3. Agrees(c)
    BY <1>5 DEF Agrees, Toggles
  <2>4. CallsAgree'
    BY <1>2, <1>3, <1>5, <1>9, <2>1, <2>3, StartedAgree
  <2>5. PagesAgree'
    BY <1>2, <1>3, <1>9 DEF PagesAgree, CanCall
  <2>6. Posted' = Posted
    BY <1>2 DEF Posted
  <2>7. ASSUME NEW j \in Posted, j # i PROVE Shows(j)'
    <3>1. \A d : d.id = j => (d \in calls' <=> d \in calls)
      BY <1>2, <1>5, <2>7
    <3>. QED BY <1>2, <1>6, <2>1, <2>2, <2>7, <3>1, ApartShows DEF Elsewhere
  <2>8. Shows(i)'
    <3>1. /\ Shows(i) /\ (\A d \in calls' : d.id = i => d = c) /\ (\A d \in calls : d.id # i)
          /\ c \in calls'
      BY <1>2, <1>3, <1>4, <1>5, <1>9, <2>1
    <3>2. /\ client = "web" => i \notin DOMAIN rows'
          /\ client # "web" => rows' = rows
      BY <1>2, DeletedIs DEF TranscriptInv, Types
    <3>3. DOMAIN fetch.page = {}
      BY <1>3, <1>9 DEF TranscriptInv, Scene
    <3>4. EditShows(i)'
      BY <1>2, <1>5, <2>2, <3>1, <3>2, <3>3 DEF Shows, EditShows
    <3>5. DeleteShows(i)'
      BY <1>2, <2>2, <3>1 DEF Shows, DeleteShows
    <3>6. PostShows(i)'
      BY <1>2, <1>3, <1>5, <1>9, <3>1, <3>2 DEF PostShows, Undoable
    <3>7. FlagShows(i)'
      BY <1>2, <1>5, <3>1, <3>2, <3>3 DEF Shows, FlagShows
    <3>. QED BY <3>4, <3>5, <3>6, <3>7 DEF Shows
  <2>. QED BY <2>2, <2>4, <2>5, <2>6, <2>7, <2>8
<1>. QED BY <1>7, <1>8, <1>9 DEF TranscriptInv, Agreed

(* One's own reaction is put on or taken off a row that is held.           *)
LEMMA LocalIs ==
  ASSUME RowTypes, NEW i, NEW add \in BOOLEAN, room' = room, LocalReaction(i, add)
  PROVE  /\ RowTypes' /\ Elsewhere(i) /\ (i \in DOMAIN rows' <=> i \in DOMAIN rows)
         /\ i \in DOMAIN rows => rows'[i].v = rows[i].v /\ rows'[i].me = add
<1>1. CASE i \in DOMAIN rows
  <2>1. PICK w : w = rows[i]
    OBVIOUS
  <2>2. PICK r : r = IF w.count = 0 /\ ~add THEN w
                     ELSE IF add THEN [w EXCEPT !.count = @ + 1, !.me = TRUE]
                     ELSE [w EXCEPT !.count = @ - 1, !.me = FALSE]
    OBVIOUS
  <2>3. rows' = [rows EXCEPT ![i] = r] /\ newest' = newest
    BY <1>1, <2>1, <2>2 DEF LocalReaction
  <2>4. RowOf(i, w) /\ w \in RowRecords /\ (w.me => w.count > 0)
    BY <1>1, <2>1 DEF RowTypes, Table, RowOf
  <2>5. r \in RowRecords /\ r.v = w.v /\ r.me = add /\ (r.me => r.count > 0)
    <3>1. CASE w.count = 0 /\ ~add
      <4>1. r = w /\ w.me = FALSE /\ add = FALSE
        BY <2>2, <2>4, <3>1 DEF RowRecords
      <4>. QED BY <2>4, <4>1
    <3>2. CASE add
      <4>1. r = [w EXCEPT !.count = @ + 1, !.me = TRUE] /\ add = TRUE
        BY <2>2, <3>2
      <4>2. w.count \in Nat /\ w.count + 1 \in Nat /\ w.count + 1 > 0
        BY <2>4 DEF RowRecords
      <4>3. r.v = w.v /\ r.count = w.count + 1 /\ r.me = TRUE
        BY <2>4, <4>1 DEF RowRecords
      <4>4. r \in RowRecords
        BY <2>4, <4>1, <4>2 DEF RowRecords
      <4>. QED BY <4>1, <4>2, <4>3, <4>4
    <3>3. CASE w.count # 0 /\ ~add
      <4>1. r = [w EXCEPT !.count = @ - 1, !.me = FALSE] /\ add = FALSE
        BY <2>2, <3>3
      <4>2. w.count - 1 \in Nat
        BY <2>4, <3>3 DEF RowRecords
      <4>. QED BY <2>4, <4>1, <4>2 DEF RowRecords
    <3>. QED BY <3>1, <3>2, <3>3
  <2>6. RowOf(i, r)
    BY <2>4, <2>5 DEF RowOf
  <2>. QED BY <1>1, <2>1, <2>3, <2>5, <2>6, ReplacedIs
<1>2. CASE i \notin DOMAIN rows
  <2>1. rows' = rows /\ newest' = newest
    BY <1>2 DEF LocalReaction
  <2>. QED BY <1>2, <2>1, SameIs, WrittenTypes DEF RowTypes
<1>. QED BY <1>1, <1>2

\* One's own reaction is toggled, on the row first (toggleReaction).
LEMMA ToggleKeeps ==
  ASSUME NEW i \in Ids
  PROVE  TranscriptInv /\ Toggle(i) => TranscriptInv'
<1>. SUFFICES ASSUME TranscriptInv, Toggle(i) PROVE TranscriptInv'
  OBVIOUS
<1>1. PICK k : k = IF rows[i].me THEN "unreact" ELSE "react"
  OBVIOUS
<1>2. PICK c : c = Call(k, i, NoRow)
  OBVIOUS
<1>3. /\ CanCall /\ i \in DOMAIN rows /\ calls' = calls \cup {c}
      /\ LocalReaction(i, ~rows[i].me)
      /\ UNCHANGED <<client, room, ops, outbox, open, hears, frames>>
      /\ UNCHANGED <<loaded, floor, fetch, unsent>>
  BY <1>1, <1>2 DEF Toggle, Starts, serverVars, screenVars
<1>4. faults' = {} => /\ faults = {} /\ fetch.phase = "none" /\ \A d \in calls : d.id # c.id
  BY <1>1, <1>2 DEF Toggle, Starts, Overlap
<1>5. NoRow \in RowRecords /\ k \in Kinds /\ k \in Toggles /\ i \in Posted /\ i \in Nat
  BY <1>1, <1>3, HeldPosted, PostedIs DEF NoRow, RowRecords, Kinds, Toggles, TranscriptInv, Types
<1>6. CallTypes' /\ c.kind = k /\ c.id = i /\ c.phase = "sent"
  <2>1. k # "delete" /\ k # "post"
    BY <1>1
  <2>. QED BY <1>2, <1>3, <1>5, <2>1, StartedCalls DEF TranscriptInv, Types
<1>7. rows[i].me \in BOOLEAN
  BY <1>3 DEF TranscriptInv, Types, RowTypes, Table, RowOf, RowRecords
<1>8. RowTypes' /\ Elsewhere(i) /\ i \in DOMAIN rows' /\ rows'[i].v = rows[i].v
  <2>1. PICK add \in BOOLEAN : add = ~rows[i].me
    OBVIOUS
  <2>. QED BY <1>3, <2>1, LocalIs DEF TranscriptInv, Types
<1>9. Types'
  BY <1>3, <1>6, <1>8, StillTypes DEF TranscriptInv, Types, ScreenTypes
<1>10. Scene'
  BY <1>3 DEF TranscriptInv, Scene, CanCall
<1>11. ASSUME faults' = {}
       PROVE  InOrder' /\ CallsAgree' /\ PagesAgree' /\ \A j \in Posted' : Shows(j)'
  <2>1. InOrder /\ CallsAgree /\ PagesAgree /\ \A j \in Posted : Shows(j)
    BY <1>4, <1>11 DEF TranscriptInv, Agreed
  <2>2. InOrder' /\ \A l, j : Coming(l, j)' <=> Coming(l, j)
    BY <1>3, <2>1, StillNews DEF TranscriptInv, Types
  <2>3. Agrees(c)
    <3>1. room[i].v = 0 => rows[i].me = room[i].mine
      BY <1>3, <1>4, <1>5, <1>6, <1>11, <2>1 DEF Shows, FlagShows
    <3>2. rows[i].me = (k = "unreact")
      BY <1>1, <1>7
    <3>3. c.phase # "answered" /\ c.kind # "post"
      BY <1>5, <1>6 DEF Toggles
    <3>. QED BY <1>6, <3>1, <3>2, <3>3 DEF Agrees
  <2>4. CallsAgree'
    <3>1. c.kind # "post"
      BY <1>5, <1>6 DEF Toggles
    <3>. QED BY <1>3, <1>4, <1>6, <1>11, <2>1, <2>3, <3>1, StartedAgree
  <2>5. PagesAgree'
    BY <1>3, <1>4, <1>11 DEF PagesAgree, CanCall
  <2>6. Posted' = Posted
    BY <1>3 DEF Posted
  <2>7. ASSUME NEW j \in Posted, j # i PROVE Shows(j)'
    <3>1. \A d : d.id = j => (d \in calls' <=> d \in calls)
      BY <1>3, <1>6, <2>7
    <3>. QED BY <1>3, <1>8, <2>1, <2>2, <2>7, <3>1, ApartShows DEF Elsewhere
  <2>8. Shows(i)'
    <3>1. /\ Shows(i) /\ (\A d \in calls' : d.id = i => d = c) /\ c \in calls'
      BY <1>3, <1>4, <1>5, <1>6, <1>11, <2>1
    <3>2. c.kind # "post" /\ c.kind # "delete"
      BY <1>5, <1>6 DEF Toggles
    <3>3. EditShows(i)'
      BY <1>3, <1>8, <2>2, <3>1, <3>2 DEF Shows, EditShows
    <3>4. DeleteShows(i)'
      BY <1>3, <2>2, <3>1 DEF Shows, DeleteShows
    <3>5. PostShows(i)'
      BY <1>3, <1>4, <1>8, <1>11 DEF PostShows
    <3>6. FlagShows(i)'
      BY <1>5, <1>6, <3>1 DEF FlagShows
    <3>. QED BY <3>3, <3>4, <3>5, <3>6 DEF Shows
  <2>. QED BY <2>2, <2>4, <2>5, <2>6, <2>7, <2>8
<1>. QED BY <1>9, <1>10, <1>11 DEF TranscriptInv, Agreed
----------------------------------------------------------------------------
(* A call ends.                                                            *)

\* A call is over.
LEMMA EndedCalls ==
  ASSUME CallTypes, room' = room, NEW c \in calls, calls' = calls \ {c}
  PROVE  CallTypes' /\ c \in CallRecords /\ Asks(c)
<1>1. \A e : Asks(e)' <=> Asks(e)
  BY DEF Asks, RowOf, Posted
<1>2. /\ IsFiniteSet(calls) /\ Cardinality(calls) <= MaxCalls
      /\ Cardinality(calls) \in Nat
  BY FS_CardinalityType DEF CallTypes
<1>3. IsFiniteSet(calls') /\ Cardinality(calls') = Cardinality(calls) - 1
  BY <1>2, FS_RemoveElement
<1>. QED BY <1>1, <1>2, <1>3, BoundsAreNat DEF CallTypes

(* The row an edit's answer leaves.                                        *)
LEMMA EditedIs ==
  ASSUME RowTypes, NEW i, NEW r, RowOf(i, r), room' = room, Edited(i, r),
         client \in {"web", "mobile"}
  PROVE  /\ RowTypes' /\ Elsewhere(i)
         /\ i \in DOMAIN rows => i \in DOMAIN rows'
         /\ i \in DOMAIN rows' =>
              \/ rows'[i].v = r.v
              \/ client = "web" /\ i \in DOMAIN rows \ newest
<1>1. r \in RowRecords /\ i \in Posted /\ r.v <= room[i].v
  BY DEF RowOf
<1>2. CASE client = "web"
  <2>1. PICK w : w = [r EXCEPT !.count = 0, !.me = FALSE]
    OBVIOUS
  <2>2. w.v = r.v /\ ~w.me /\ w \in RowRecords
    BY <1>1, <2>1 DEF RowRecords
  <2>3. RowOf(i, w)
    BY <1>1, <2>2 DEF RowOf
  <2>4. Updated(i, w)
    BY <1>2, <2>1 DEF Edited
  <2>5. /\ RowTypes' /\ Elsewhere(i)
        /\ IF client = "mobile" \/ i \in newest \cap DOMAIN rows
           THEN i \in DOMAIN rows' /\ rows'[i] = w ELSE rows' = rows
    BY <2>3, <2>4, UpdatedIs
  <2>. QED BY <1>2, <2>2, <2>5
<1>3. CASE client # "web" /\ i \in DOMAIN rows
  <2>1. PICK w : w = [rows[i] EXCEPT !.v = r.v]
    OBVIOUS
  <2>2. RowOf(i, rows[i]) /\ rows[i] \in RowRecords
    BY <1>3 DEF RowTypes, Table, RowOf
  <2>3. /\ w.v = r.v /\ w.count = rows[i].count /\ w.me = rows[i].me /\ w \in RowRecords
    BY <1>1, <2>1, <2>2 DEF RowRecords
  <2>4. RowOf(i, w)
    BY <1>1, <2>2, <2>3 DEF RowOf
  <2>5. rows' = [rows EXCEPT ![i] = w] /\ newest' = newest
    BY <1>3, <2>1 DEF Edited
  <2>. QED BY <1>3, <2>3, <2>4, <2>5, ReplacedIs
<1>4. CASE client # "web" /\ i \notin DOMAIN rows
  <2>1. rows' = rows /\ newest' = newest
    BY <1>4 DEF Edited
  <2>. QED BY <1>4, <2>1, SameIs, WrittenTypes DEF RowTypes
<1>. QED BY <1>2, <1>3, <1>4

(* What the answer to c does to the row of its message.                    *)
Answered(c, i) ==
  /\ c.kind = "post" => IF client = "web" /\ loaded THEN i \in DOMAIN rows' /\ rows'[i] = c.row
                        ELSE rows' = rows
  /\ c.kind = "edit" =>
       /\ i \in DOMAIN rows => i \in DOMAIN rows'
       /\ i \in DOMAIN rows' => \/ rows'[i].v = c.row.v
                                \/ client = "web" /\ i \in DOMAIN rows \ newest
  /\ c.kind = "delete" => i \notin DOMAIN rows'
  /\ c.kind \in Toggles => /\ i \in DOMAIN rows' <=> i \in DOMAIN rows
                           /\ i \in DOMAIN rows => /\ rows'[i].v = rows[i].v
                                                   /\ rows'[i].me = c.row.me

\* What the answer to c does to the row of its message.
LEMMA AnsweredIs ==
  ASSUME Types, NEW c \in calls, Succeed(c)
  PROVE  RowTypes' /\ Elsewhere(c.id) /\ Answered(c, c.id)
<1>1. PICK i : i = c.id
  OBVIOUS
<1>2. c \in CallRecords /\ Asks(c) /\ c.phase = "answered" /\ room' = room /\ RowTypes
      /\ client \in {"web", "mobile"}
  BY ClientsKnown DEF Succeed, Types, CallTypes, ScreenTypes, serverVars
<1>3. RowOf(i, c.row) /\ c.row \in RowRecords
  BY <1>1, <1>2 DEF Asks, RowOf
<1>4. CASE c.kind = "post"
  <2>1. IF client = "web" THEN Created(i, c.row) ELSE UNCHANGED <<rows, newest>>
    BY <1>1, <1>4 DEF Succeed
  <2>2. CASE client = "web"
    BY <1>1, <1>2, <1>3, <1>4, <2>1, <2>2, CreatedIs DEF Answered, Toggles
  <2>3. CASE client # "web"
    <3>1. rows' = rows /\ newest' = newest
      BY <2>1, <2>3
    <3>2. RowTypes' /\ Elsewhere(i)
      BY <1>2, <3>1, SameIs, WrittenTypes DEF RowTypes, Table
    <3>. QED BY <1>1, <1>4, <2>3, <3>1, <3>2 DEF Answered, Toggles
  <2>. QED BY <2>2, <2>3
<1>5. CASE c.kind = "edit"
  <2>1. Edited(i, c.row)
    BY <1>1, <1>5 DEF Succeed
  <2>. QED BY <1>1, <1>2, <1>3, <1>5, <2>1, EditedIs DEF Answered, Toggles
<1>6. CASE c.kind = "delete"
  <2>1. Deleted(i)
    BY <1>1, <1>6 DEF Succeed
  <2>. QED BY <1>1, <1>2, <1>6, <2>1, DeletedIs DEF Answered, Toggles
<1>7. CASE c.kind \in Toggles
  <2>1. PICK w : w = [v |-> rows[i].v, count |-> c.row.count, me |-> c.row.me]
    OBVIOUS
  <2>2. /\ rows' = IF i \in DOMAIN rows THEN [rows EXCEPT ![i] = w] ELSE rows
        /\ newest' = newest
    BY <1>1, <1>7, <2>1 DEF Succeed, Toggles
  <2>3. CASE i \in DOMAIN rows
    <3>1. RowOf(i, rows[i])
      BY <1>2, <2>3 DEF RowTypes, Table
    <3>2. w.v = rows[i].v /\ w.count = c.row.count /\ w.me = c.row.me /\ w \in RowRecords
      BY <1>3, <2>1, <3>1 DEF RowOf, RowRecords
    <3>3. RowOf(i, w)
      BY <1>3, <3>1, <3>2 DEF RowOf
    <3>. QED BY <1>1, <1>2, <1>7, <2>2, <2>3, <3>2, <3>3, ReplacedIs DEF Answered, Toggles
  <2>4. CASE i \notin DOMAIN rows
    <3>1. rows' = rows
      BY <2>2, <2>4
    <3>2. RowTypes' /\ Elsewhere(i)
      BY <1>2, <2>2, <2>4, <3>1, SameIs, WrittenTypes DEF RowTypes
    <3>. QED BY <1>1, <1>7, <2>4, <3>1, <3>2 DEF Answered, Toggles
  <2>. QED BY <2>3, <2>4
<1>. QED BY <1>2, <1>4, <1>5, <1>6, <1>7 DEF CallRecords, Kinds, Toggles

\* A call is answered, and its answer applied to the rows.
LEMMA SucceedKeeps ==
  ASSUME NEW c
  PROVE  TranscriptInv /\ Succeed(c) => TranscriptInv'
<1>. SUFFICES ASSUME TranscriptInv, Succeed(c) PROVE TranscriptInv'
  OBVIOUS
<1>1. PICK i : i = c.id
  OBVIOUS
<1>2. /\ c \in calls /\ c.phase = "answered" /\ calls' = calls \ {c}
      /\ UNCHANGED <<client, room, ops, outbox, open, hears, frames>>
      /\ UNCHANGED <<loaded, floor, fetch, unsent>>
  BY DEF Succeed, serverVars, screenVars
<1>3. faults' = {} => /\ faults = {} /\ fetch.phase = "none"
                      /\ ~(c.kind = "edit" /\ client = "web" /\ i \in DOMAIN rows \ newest)
  BY <1>1 DEF Succeed, Overlap
<1>4. CallTypes' /\ c \in CallRecords /\ Asks(c)
  BY <1>2, EndedCalls DEF TranscriptInv, Types
<1>5. RowTypes' /\ Elsewhere(i) /\ Answered(c, i)
  BY <1>1, <1>2, AnsweredIs DEF TranscriptInv
<1>6. Types'
  BY <1>2, <1>4, <1>5, StillTypes DEF TranscriptInv, Types, ScreenTypes
<1>7. loaded
  BY <1>2 DEF TranscriptInv, Scene
<1>8. Scene'
  BY <1>2, <1>7 DEF TranscriptInv, Scene
<1>9. /\ i \in Posted /\ room[i] \in Messages /\ RowOf(i, c.row)
      /\ c.kind = "edit" => c.row.v = 1
      /\ c.kind = "post" => ~c.row.me
      /\ c.kind \in Kinds
  BY <1>1, <1>2, <1>4, PostedIs DEF Asks, RowOf, CallRecords, TranscriptInv, Types
<1>10. ASSUME faults' = {}
       PROVE  InOrder' /\ CallsAgree' /\ PagesAgree' /\ \A j \in Posted' : Shows(j)'
  <2>1. InOrder /\ CallsAgree /\ PagesAgree /\ \A j \in Posted : Shows(j)
    BY <1>3, <1>10 DEF TranscriptInv, Agreed
  <2>2. InOrder' /\ \A k, j : Coming(k, j)' <=> Coming(k, j)
    BY <1>2, <2>1, StillNews DEF TranscriptInv, Types
  <2>3. CallsAgree'
    BY <1>2, <2>1, AgreeIs
  <2>4. PagesAgree'
    BY <1>2, <1>3, <1>7, <1>10 DEF PagesAgree
  <2>5. Posted' = Posted
    BY <1>2 DEF Posted
  <2>6. ASSUME NEW j \in Posted, j # i PROVE Shows(j)'
    <3>1. \A d : d.id = j => (d \in calls' <=> d \in calls)
      BY <1>1, <1>2, <2>6
    <3>. QED BY <1>2, <1>5, <2>1, <2>2, <2>6, <3>1, ApartShows DEF Elsewhere
  <2>7. /\ Shows(i) /\ (\A d \in calls' : d.id # i) /\ (\A d \in calls : d.id = i => d = c)
        /\ DOMAIN fetch.page = {}
    BY <1>1, <1>2, <1>3, <1>9, <1>10, <2>1 DEF CallsAgree, TranscriptInv, Scene
  <2>8. /\ c.kind = "delete" => room[i].gone
        /\ c.kind = "post" => ~room[i].mine
        /\ c.kind \in Toggles => c.row.me = room[i].mine
    BY <1>1, <1>2, <2>1 DEF CallsAgree, Agrees
  <2>9. c.kind # "delete" => (room[i].gone => Coming("delete", i))
    BY <1>1, <1>2, <2>7 DEF Shows, DeleteShows
  <2>10. c.kind # "delete" => ~Undoable(i)
    BY <2>7 DEF Undoable
  <2>11. Shows(i)'
    <3>1. CASE c.kind = "post"
      <4>1. EditShows(i)'
        BY <1>1, <1>2, <2>2, <2>7, <3>1 DEF Shows, EditShows
      <4>2. DeleteShows(i)'
        BY <1>2, <2>2, <2>9, <3>1 DEF DeleteShows
      <4>3. PostShows(i)'
        BY <1>2, <1>3, <1>5, <1>7, <1>10, <2>2, <2>7, <2>10, <3>1
           DEF Shows, PostShows, Answered
      <4>4. FlagShows(i)'
        <5>1. c.row.me = FALSE /\ room[i].mine = FALSE
          BY <1>9, <2>8, <3>1 DEF RowOf, RowRecords, Messages
        <5>2. rows' = rows \/ (i \in DOMAIN rows' /\ rows'[i] = c.row)
          BY <1>5, <3>1 DEF Answered
        <5>3. \A d \in calls : d.id = i => d.kind \notin Toggles
          BY <2>7, <3>1 DEF Toggles
        <5>. QED BY <1>2, <2>7, <5>1, <5>2, <5>3 DEF Shows, FlagShows
      <4>. QED BY <4>1, <4>2, <4>3, <4>4 DEF Shows
    <3>2. CASE c.kind = "edit"
      <4>1. /\ i \in DOMAIN rows => i \in DOMAIN rows'
            /\ i \in DOMAIN rows' => rows'[i].v = 1
        BY <1>3, <1>5, <1>9, <1>10, <3>2 DEF Answered
      <4>2. room[i].v # 0
        BY <1>9, <3>2 DEF RowOf, Messages
      <4>3. EditShows(i)'
        BY <1>2, <2>7, <4>1 DEF EditShows
      <4>4. DeleteShows(i)'
        BY <1>2, <2>2, <2>9, <3>2 DEF DeleteShows
      <4>5. PostShows(i)'
        BY <1>2, <1>3, <1>10, <2>2, <2>7, <2>10, <3>2, <4>1 DEF Shows, PostShows
      <4>6. FlagShows(i)'
        BY <1>2, <4>2 DEF FlagShows
      <4>. QED BY <4>3, <4>4, <4>5, <4>6 DEF Shows
    <3>3. CASE c.kind = "delete"
      <4>1. i \notin DOMAIN rows' /\ room[i].gone
        BY <1>5, <2>8, <3>3 DEF Answered
      <4>. QED BY <1>2, <2>7, <4>1 DEF Shows, EditShows, DeleteShows, PostShows, FlagShows
    <3>4. CASE c.kind \in Toggles
      <4>1. c.kind # "delete" /\ c.kind # "post" /\ c.kind # "edit"
        BY <3>4 DEF Toggles
      <4>2. /\ i \in DOMAIN rows' <=> i \in DOMAIN rows
            /\ i \in DOMAIN rows => rows'[i].v = rows[i].v /\ rows'[i].me = room[i].mine
        BY <1>5, <2>8, <3>4 DEF Answered
      <4>3. EditShows(i)'
        BY <1>2, <2>2, <2>7, <4>2 DEF Shows, EditShows
      <4>4. DeleteShows(i)'
        BY <1>2, <2>2, <2>9, <4>1 DEF DeleteShows
      <4>5. PostShows(i)'
        BY <1>2, <1>3, <1>10, <2>2, <2>7, <2>10, <4>1, <4>2 DEF Shows, PostShows
      <4>6. FlagShows(i)'
        BY <1>2, <2>7, <4>2 DEF FlagShows
      <4>. QED BY <4>3, <4>4, <4>5, <4>6 DEF Shows
    <3>. QED BY <1>9, <3>1, <3>2, <3>3, <3>4 DEF Kinds, Toggles
  <2>. QED BY <2>2, <2>3, <2>4, <2>5, <2>6, <2>11
<1>. QED BY <1>6, <1>8, <1>10 DEF TranscriptInv, Agreed

(* What is undone of a call that failed.                                   *)
Undone(c, i) ==
  /\ c.kind = "delete" => IF client = "web" THEN loaded => i \in DOMAIN rows' /\ rows'[i] = c.undo
                          ELSE rows' = rows
  /\ c.kind \in {"post", "edit"} => rows' = rows
  /\ c.kind \in Toggles => /\ i \in DOMAIN rows' <=> i \in DOMAIN rows
                           /\ i \in DOMAIN rows => /\ rows'[i].v = rows[i].v
                                                   /\ rows'[i].me = (c.kind = "unreact")

\* What is undone of a call that failed.
LEMMA UndoneIs ==
  ASSUME Types, NEW c \in calls, Fail(c)
  PROVE  RowTypes' /\ Elsewhere(c.id) /\ Undone(c, c.id)
<1>1. PICK i : i = c.id
  OBVIOUS
<1>2. c \in CallRecords /\ Asks(c) /\ room' = room /\ RowTypes
  BY DEF Fail, Types, CallTypes, serverVars
<1>3. CASE c.kind = "delete" /\ client = "web"
  <2>1. Created(i, c.undo) /\ RowOf(i, c.undo)
    BY <1>1, <1>2, <1>3 DEF Fail, Asks
  <2>. QED BY <1>1, <1>2, <1>3, <2>1, CreatedIs DEF Undone, Toggles
<1>4. CASE c.kind \in Toggles
  <2>1. PICK add \in BOOLEAN : add = (c.kind = "unreact")
    OBVIOUS
  <2>2. LocalReaction(i, c.kind = "unreact")
    BY <1>1, <1>4 DEF Fail, Toggles
  <2>3. LocalReaction(i, add)
    BY <2>1, <2>2
  <2>4. /\ RowTypes' /\ Elsewhere(i) /\ (i \in DOMAIN rows' <=> i \in DOMAIN rows)
        /\ i \in DOMAIN rows => rows'[i].v = rows[i].v /\ rows'[i].me = add
    BY <1>2, <2>3, LocalIs
  <2>5. c.kind # "delete" /\ c.kind \notin {"post", "edit"}
    BY <1>4 DEF Toggles
  <2>. QED BY <1>1, <2>1, <2>4, <2>5 DEF Undone
<1>5. CASE ~(c.kind = "delete" /\ client = "web") /\ c.kind \notin Toggles
  <2>1. rows' = rows /\ newest' = newest
    BY <1>5 DEF Fail, Toggles
  <2>2. RowTypes' /\ Elsewhere(i)
    BY <1>2, <2>1, SameIs, WrittenTypes DEF RowTypes, Table
  <2>. QED BY <1>1, <1>5, <2>1, <2>2 DEF Undone
<1>. QED BY <1>3, <1>4, <1>5

\* A call has failed, and what was shown ahead of it is undone.
LEMMA FailKeeps ==
  ASSUME NEW c
  PROVE  TranscriptInv /\ Fail(c) => TranscriptInv'
<1>. SUFFICES ASSUME TranscriptInv, Fail(c) PROVE TranscriptInv'
  OBVIOUS
<1>1. PICK i : i = c.id
  OBVIOUS
<1>2. /\ c \in calls /\ c.phase = "failed" /\ calls' = calls \ {c}
      /\ UNCHANGED <<client, room, ops, outbox, open, hears, frames>>
      /\ UNCHANGED <<loaded, floor, fetch>>
      /\ unsent' \in {unsent, TRUE}
      /\ faults' = {} => faults = {} /\ fetch.phase = "none"
  BY DEF Fail, serverVars, screenVars, Overlap
<1>3. CallTypes' /\ c \in CallRecords /\ Asks(c)
  BY <1>2, EndedCalls DEF TranscriptInv, Types
<1>4. RowTypes' /\ Elsewhere(i) /\ Undone(c, i)
  BY <1>1, <1>2, UndoneIs DEF TranscriptInv
<1>5. Types'
  <2>1. unsent' \in BOOLEAN
    BY <1>2 DEF TranscriptInv, Types, ScreenTypes
  <2>. QED BY <1>2, <1>3, <1>4, <2>1, StillTypes DEF TranscriptInv, Types, ScreenTypes
<1>6. loaded
  BY <1>2 DEF TranscriptInv, Scene
<1>7. Scene'
  BY <1>2, <1>6 DEF TranscriptInv, Scene
<1>8. ASSUME faults' = {}
      PROVE  InOrder' /\ CallsAgree' /\ PagesAgree' /\ \A j \in Posted' : Shows(j)'
  <2>1. InOrder /\ CallsAgree /\ PagesAgree /\ \A j \in Posted : Shows(j)
    BY <1>2, <1>8 DEF TranscriptInv, Agreed
  <2>2. InOrder' /\ \A k, j : Coming(k, j)' <=> Coming(k, j)
    BY <1>2, <2>1, StillNews DEF TranscriptInv, Types
  <2>3. CallsAgree'
    BY <1>2, <2>1, AgreeIs
  <2>4. PagesAgree'
    BY <1>2, <1>6, <1>8 DEF PagesAgree
  <2>5. Posted' = Posted /\ 0 \notin Posted
    BY <1>2, PostedIs DEF Posted, TranscriptInv, Types
  <2>6. ASSUME NEW j \in Posted, j # i PROVE Shows(j)'
    <3>1. \A d : d.id = j => (d \in calls' <=> d \in calls)
      BY <1>1, <1>2, <2>6
    <3>. QED BY <1>2, <1>4, <2>1, <2>2, <2>6, <3>1, ApartShows DEF Elsewhere
  <2>7. ASSUME i \in Posted PROVE Shows(i)'
    <3>1. /\ Shows(i) /\ (\A d \in calls' : d.id # i) /\ (\A d \in calls : d.id = i => d = c)
          /\ DOMAIN fetch.page = {}
      BY <1>1, <1>2, <1>8, <2>1, <2>7 DEF CallsAgree, TranscriptInv, Scene
    <3>2. /\ c.kind # "post"
          /\ c.kind \in Toggles /\ room[i].v = 0 => room[i].mine = (c.kind = "unreact")
      BY <1>1, <1>2, <2>1, <2>5, <2>7 DEF CallsAgree, Agrees
    <3>3. room[i].gone => Coming("delete", i)
      BY <1>1, <1>2, <3>1 DEF Shows, DeleteShows
    <3>4. DeleteShows(i)'
      BY <1>2, <2>2, <3>3 DEF DeleteShows
    <3>5. CASE c.kind = "delete"
      <4>1. /\ client = "web" => i \in DOMAIN rows' /\ rows'[i] = c.undo
            /\ client # "web" => rows' = rows
        BY <1>4, <1>6, <3>5 DEF Undone
      <4>2. EditShows(i)'
        BY <1>1, <1>2, <2>2, <3>1, <3>5, <4>1 DEF Shows, EditShows
      <4>3. PostShows(i)'
        BY <1>2, <1>8, <2>2, <3>1, <4>1 DEF Shows, PostShows, Undoable
      <4>4. \A d \in calls : d.id = i => d.kind \notin Toggles
        BY <3>1, <3>5 DEF Toggles
      <4>5. FlagShows(i)'
        BY <1>1, <1>2, <3>1, <3>5, <4>1, <4>4 DEF Shows, FlagShows
      <4>. QED BY <3>4, <4>2, <4>3, <4>5 DEF Shows
    <3>6. CASE c.kind = "edit"
      <4>1. rows' = rows /\ ~Undoable(i)
        BY <1>4, <3>1, <3>6 DEF Undone, Undoable
      <4>2. EditShows(i)'
        BY <1>2, <2>2, <3>1, <4>1 DEF Shows, EditShows
      <4>3. PostShows(i)'
        BY <1>2, <1>8, <2>2, <3>1, <4>1 DEF Shows, PostShows
      <4>4. \A d \in calls : d.id = i => d.kind \notin Toggles
        BY <3>1, <3>6 DEF Toggles
      <4>5. FlagShows(i)'
        BY <1>2, <3>1, <4>1, <4>4 DEF Shows, FlagShows
      <4>. QED BY <3>4, <4>2, <4>3, <4>5 DEF Shows
    <3>7. CASE c.kind \in Toggles
      <4>1. /\ i \in DOMAIN rows' <=> i \in DOMAIN rows
            /\ i \in DOMAIN rows => rows'[i].v = rows[i].v
            /\ i \in DOMAIN rows => rows'[i].me = (c.kind = "unreact")
        BY <1>4, <3>7 DEF Undone
      <4>2. ~Undoable(i)
        BY <3>1, <3>7 DEF Undoable, Toggles
      <4>3. EditShows(i)'
        BY <1>2, <2>2, <3>1, <4>1 DEF Shows, EditShows
      <4>4. PostShows(i)'
        BY <1>2, <1>8, <2>2, <3>1, <4>1, <4>2 DEF Shows, PostShows
      <4>5. FlagShows(i)'
        BY <1>2, <3>1, <3>2, <3>7, <4>1 DEF FlagShows
      <4>. QED BY <3>4, <4>3, <4>4, <4>5 DEF Shows
    <3>. QED BY <1>3, <3>2, <3>5, <3>6, <3>7 DEF CallRecords, Kinds, Toggles
  <2>. QED BY <2>2, <2>3, <2>4, <2>5, <2>6, <2>7
<1>. QED BY <1>5, <1>7, <1>8 DEF TranscriptInv, Agreed
----------------------------------------------------------------------------
(* The specification.                                                      *)

\* A client that has opened nothing yet.
LEMMA TranscriptInit == Init => TranscriptInv
<1>. SUFFICES ASSUME Init PROVE TranscriptInv
  OBVIOUS
<1>1. /\ client \in Clients /\ ops = 0 /\ outbox = <<>> /\ open = FALSE /\ hears = FALSE
      /\ frames = <<>> /\ loaded = FALSE /\ rows = <<>> /\ newest = {}
      /\ floor = MaxMessages + 1 /\ fetch = NoFetch /\ calls = {} /\ unsent = FALSE
  BY DEF Init
<1>2. /\ Held \in Nat /\ Held <= MaxMessages /\ MaxMessages \in Nat /\ MaxOps \in Nat
      /\ MaxCalls \in Nat
  BY BoundsAreNat
<1>3. /\ room \in Seq(Messages) /\ Len(room) = Held
      /\ \A i \in Posted : room[i].v = 0 /\ ~room[i].gone
  <2>1. Fresh \in Messages /\ Fresh.v = 0 /\ ~Fresh.gone
    BY DEF Fresh, Messages
  <2>2. room = [i \in 1..Held |-> Fresh]
    BY DEF Init
  <2>3. room \in Seq(Messages) /\ Len(room) = Held
    BY <1>2, <2>1, <2>2
  <2>. QED BY <2>1, <2>2, <2>3 DEF Posted
<1>4. /\ fetch.phase = "none" /\ fetch.older \in BOOLEAN /\ DOMAIN fetch.page = {}
      /\ DOMAIN fetch.base = {} /\ fetch.low = 1 /\ DOMAIN rows = {}
      /\ fetch = [phase |-> fetch.phase, older |-> fetch.older, page |-> fetch.page,
                  base |-> fetch.base, low |-> fetch.low]
  BY <1>1 DEF NoFetch
<1>5. RoomTypes /\ ScreenTypes
  <2>1. MaxMessages + 1 \in 1..(MaxMessages + 1) /\ 0 \in 0..MaxOps
    BY <1>2
  <2>2. RoomTypes
    BY <1>1, <1>2, <1>3, <2>1 DEF RoomTypes
  <2>3. ScreenTypes
    BY <1>1, <2>1 DEF ScreenTypes
  <2>. QED BY <2>2, <2>3
<1>6. RowTypes /\ FetchTypes
  BY <1>1, <1>2, <1>4 DEF RowTypes, FetchTypes, Table
<1>7. NewsTypes
  BY <1>1 DEF NewsTypes, News
<1>8. CallTypes
  BY <1>1, <1>2, FS_EmptySet DEF CallTypes
<1>9. Scene
  BY <1>1, <1>4 DEF Scene
<1>10. InOrder /\ CallsAgree /\ PagesAgree
  BY <1>1, <1>4 DEF InOrder, CallsAgree, PagesAgree
<1>11. ASSUME NEW i \in Posted PROVE Shows(i)
  BY <1>1, <1>3, <1>4 DEF Shows, EditShows, DeleteShows, PostShows, FlagShows
<1>. QED BY <1>5, <1>6, <1>7, <1>8, <1>9, <1>10, <1>11 DEF TranscriptInv, Types, Agreed

\* A step of nothing.
LEMMA TranscriptStutters == TranscriptInv /\ UNCHANGED vars => TranscriptInv'
<1>. SUFFICES ASSUME TranscriptInv, UNCHANGED vars PROVE TranscriptInv'
  OBVIOUS
<1>1. /\ UNCHANGED <<client, room, ops, outbox, open, hears, frames>>
      /\ UNCHANGED <<loaded, rows, newest, floor, fetch, calls, unsent, faults>>
  BY DEF vars
<1>2. Types'
  BY <1>1, StillTypes DEF TranscriptInv, Types, ScreenTypes
<1>3. Scene'
  BY <1>1 DEF TranscriptInv, Scene
<1>4. ASSUME faults' = {}
      PROVE  InOrder' /\ CallsAgree' /\ PagesAgree' /\ \A i \in Posted' : Shows(i)'
  <2>1. InOrder /\ CallsAgree /\ PagesAgree /\ \A i \in Posted : Shows(i)
    BY <1>1, <1>4 DEF TranscriptInv, Agreed
  <2>2. InOrder' /\ \A k, i : Coming(k, i)' <=> Coming(k, i)
    BY <1>1, <2>1, StillNews DEF TranscriptInv, Types
  <2>3. CallsAgree' /\ PagesAgree'
    BY <1>1, <2>1, AgreeIs DEF PagesAgree
  <2>. QED BY <1>1, <2>1, <2>2, <2>3, HeardShows
<1>. QED BY <1>2, <1>3, <1>4 DEF TranscriptInv, Agreed

\* Whatever order pages, frames and answers come in, a row differs from the
\* server's message by nothing but what events, a page or a call still carry
\* (cache.ts, useMessageHistory.ts, Chat.tsx, RoomChatScreen.tsx).
THEOREM TranscriptInvHolds == Spec => []TranscriptInv
<1>1. TranscriptInv /\ Next => TranscriptInv'
  <2>. SUFFICES ASSUME TranscriptInv, Next PROVE TranscriptInv'
    OBVIOUS
  <2>1. CASE \E k \in Kinds, i \in Ids : Other(k, i)
    BY <2>1, OtherKeeps
  <2>2. CASE \E n \in 1..MaxOps : Publish(n)
    BY <2>2, PublishKeeps
  <2>3. CASE Receive
    BY <2>3, ReceiveKeeps
  <2>4. CASE Open \/ Leave \/ Subscribed \/ Lost
    BY <2>4, OpenKeeps, LeaveKeeps, SubscribedKeeps, LostKeeps
  <2>5. CASE LoadOlder \/ FetchRead \/ FetchDone \/ FetchFails
    BY <2>5, LoadOlderKeeps, FetchReadKeeps, FetchDoneKeeps, FetchFailsKeeps
  <2>6. CASE (\E again \in BOOLEAN : Send(again)) \/ Discard
    BY <2>6, SendKeeps, DiscardKeeps
  <2>7. CASE \E i \in Ids : Edit(i) \/ Delete(i) \/ Toggle(i)
    BY <2>7, EditKeeps, DeleteKeeps, ToggleKeeps
  <2>8. CASE \E c \in calls : Serve(c) \/ Refuse(c) \/ AnswerLost(c) \/ Succeed(c) \/ Fail(c)
    BY <2>8, ServeKeeps, RefuseKeeps, AnswerLostKeeps, SucceedKeeps, FailKeeps
  <2>. QED BY <2>1, <2>2, <2>3, <2>4, <2>5, <2>6, <2>7, <2>8 DEF Next, Kinds
<1>. QED BY <1>1, TranscriptInit, TranscriptStutters, PTL DEF Spec

\* Nothing is under way any more, and nothing went wrong.
LEMMA SettledIs ==
  ASSUME TranscriptInv, Settled, NoFaultYet
  PROVE  /\ loaded /\ calls = {} /\ \A k, i : ~Coming(k, i)
         /\ \A i \in Posted : Shows(i)
<1>1. \A k, i : ~Coming(k, i)
  BY DEF Settled, Coming, Has
<1>. QED BY <1>1 DEF Settled, NoFaultYet, TranscriptInv, Agreed

\* At rest, and up to the first named fault, the transcript shows the messages
\* of the room that its pages reach down to, those and no others, as last edited:
\* whichever of pages, frames and answers came last (mergeMessages,
\* applyMessageUpdated, applyMessageDeleted, useMessageHistory.ts).
THEOREM TranscriptConverges == Spec => []Converges
<1>1. TranscriptInv => TypeOK
  <2>. SUFFICES ASSUME TranscriptInv PROVE TypeOK
    OBVIOUS
  <2>1. /\ RoomTypes /\ ScreenTypes /\ RowTypes /\ Cardinality(calls) <= MaxCalls
    BY DEF TranscriptInv, Types, CallTypes
  <2>2. DOMAIN rows \subseteq Ids
    BY HeldPosted, PostedIs DEF TranscriptInv, Types
  <2>3. \A i \in DOMAIN rows : rows[i].v \in 0..1 /\ rows[i].count \in Nat
    BY <2>1 DEF RowTypes, Table, RowOf, RowRecords
  <2>. QED BY <2>1, <2>2, <2>3 DEF TypeOK, RoomTypes, ScreenTypes, RowTypes, Messages
<1>2. TranscriptInv /\ Settled /\ NoFaultYet =>
        /\ {i \in Alive : i >= floor} \subseteq DOMAIN rows
        /\ DOMAIN rows \subseteq Alive
        /\ \A i \in DOMAIN rows : rows[i].v = room[i].v
  <2>. SUFFICES ASSUME TranscriptInv, Settled, NoFaultYet
                PROVE  /\ {i \in Alive : i >= floor} \subseteq DOMAIN rows
                       /\ DOMAIN rows \subseteq Alive
                       /\ \A i \in DOMAIN rows : rows[i].v = room[i].v
    OBVIOUS
  <2>1. /\ loaded /\ calls = {} /\ (\A k, i : ~Coming(k, i)) /\ \A i \in Posted : Shows(i)
    BY SettledIs
  <2>2. ASSUME NEW i \in Alive, i >= floor PROVE i \in DOMAIN rows
    <3>1. i \in Posted /\ ~room[i].gone
      BY DEF Alive
    <3>2. i \in DOMAIN rows \/ Undoable(i)
      BY <2>1, <2>2, <3>1 DEF Shows, PostShows
    <3>. QED BY <2>1, <3>2 DEF Undoable
  <2>3. ASSUME NEW i \in DOMAIN rows PROVE i \in Alive /\ rows[i].v = room[i].v
    <3>1. i \in Posted /\ RowOf(i, rows[i])
      BY DEF TranscriptInv, Types, RowTypes, Table, RowOf
    <3>2. ~room[i].gone
      BY <2>1, <2>3, <3>1 DEF Shows, DeleteShows
    <3>3. room[i].v = 1 => rows[i].v = 1
      BY <2>1, <2>3, <3>1 DEF Shows, EditShows
    <3>4. room[i].v \in 0..1 /\ rows[i].v \in 0..1 /\ rows[i].v <= room[i].v
      BY <3>1, PostedIs DEF RowOf, RowRecords, Messages, TranscriptInv, Types
    <3>. QED BY <3>1, <3>2, <3>3, <3>4 DEF Alive
  <2>. QED BY <2>2, <2>3
<1>3. TranscriptInv => Converges
  BY <1>1, <1>2 DEF Converges
<1>. QED BY <1>3, TranscriptInvHolds, PTL

\* At rest, and up to the first named fault, the transcript lights one's own
\* reaction exactly where the server holds it, whoever else reacted meanwhile
\* (applyReactionsUpdated, applyLocalReaction, toggleReaction).
THEOREM OwnReactionIsShown == Spec => []OwnReactionShown
<1>1. TranscriptInv => OwnReactionShown
  <2>. SUFFICES ASSUME TranscriptInv, Settled, NoFaultYet, NEW i \in DOMAIN rows, room[i].v = 0
                PROVE  rows[i].me = room[i].mine
    BY DEF OwnReactionShown
  <2>1. i \in Posted
    BY HeldPosted DEF TranscriptInv
  <2>2. calls = {} /\ Shows(i)
    BY <2>1, SettledIs
  <2>. QED BY <2>2 DEF Shows, FlagShows
<1>. QED BY <1>1, TranscriptInvHolds, PTL
=============================================================================
