----------------------------- MODULE Transcript -----------------------------
(***************************************************************************)
(* A room's transcript on one client: Chat.tsx with its query and the      *)
(* cache bridge (cache.ts, useQueryCacheSync.ts) on the web,               *)
(* RoomChatScreen.tsx and useMessageHistory.ts on the phone.  Messages     *)
(* reach it three ways that nothing orders among each other: pages read    *)
(* over HTTP, frames of the socket, and the answers to its own calls.      *)
(* Rows are shown in the order of (created_at, id) whatever way they came, *)
(* so a transcript is a function from message ids to rows; messages are    *)
(* numbered in that order.                                                 *)
(***************************************************************************)
EXTENDS Naturals, Sequences, FiniteSets

CONSTANTS Clients,       \* which of "web" and "mobile" to follow
          Held,          \* messages the room holds when it is opened
          MaxMessages,   \* bound: messages of the room
          PageSize,      \* messages of a page
          MaxOps,        \* bound: changes to the room
          MaxCalls       \* bound: calls of this client under way at a time

ASSUME ClientsKnown == Clients \subseteq {"web", "mobile"}
ASSUME BoundsAreNat == /\ Held \in Nat /\ MaxMessages \in Nat /\ Held <= MaxMessages
                       /\ PageSize \in Nat \ {0} /\ MaxOps \in Nat /\ MaxCalls \in Nat

VARIABLES
  client,    \* which of the two apps shows the room
  room,      \* server: its messages, in order
  ops,       \* server: how many changes were made
  outbox,    \* server: events of changes that are committed, not yet published
  open,      \* the room's screen is mounted
  hears,     \* the server has the client's subscription on a live connection
  frames,    \* events on their way to the client
  loaded,    \* a first page has arrived
  rows,      \* the transcript held: message id -> row
  newest,    \* web: the ids of page 0
  floor,     \* the oldest message the pages read so far reach down to
  fetch,     \* the page being fetched
  calls,     \* the calls this client waits for
  unsent,    \* web: a failed message waits to be retried or discarded
  faults     \* history: which of the known faults have happened

vars == <<client, room, ops, outbox, open, hears, frames, loaded, rows, newest,
          floor, fetch, calls, unsent, faults>>

serverVars == <<room, ops, outbox>>
screenVars == <<open, hears, frames>>
pageVars == <<loaded, newest, floor, fetch>>

Ids == 1..MaxMessages
Posted == 1..Len(room)
Alive == {i \in Posted : ~room[i].gone}

\* One reaction is followed: this account's, and one other account's.
B(p) == IF p THEN 1 ELSE 0
Tally(m) == B(m.mine) + B(m.theirs)
Row(m, me) == [v |-> m.v, count |-> Tally(m), me |-> me]
NoFetch == [phase |-> "none", older |-> FALSE, page |-> <<>>, base |-> <<>>, low |-> 1]
Fresh == [v |-> 0, mine |-> FALSE, theirs |-> FALSE, gone |-> FALSE]

Init ==
  /\ client \in Clients
  /\ room = [i \in 1..Held |-> Fresh] /\ ops = 0 /\ outbox = <<>>
  /\ open = FALSE /\ hears = FALSE /\ frames = <<>>
  /\ loaded = FALSE /\ rows = <<>> /\ newest = {} /\ floor = MaxMessages + 1
  /\ fetch = NoFetch /\ calls = {} /\ unsent = FALSE /\ faults = {}

Without(r, i) == [j \in DOMAIN r \ {i} |-> r[j]]

----------------------------------------------------------------------------
(* The server.  A change is committed and its event published after; two   *)
(* handlers may publish in the other order.                                *)

\* The event a change of kind k to message i, by `who`, broadcasts.  An edit's
\* tally is read for the one who edited, flags included.
Event(k, i, m, who) ==
  [kind |-> k, id |-> i, row |-> Row(m, IF who = "me" THEN m.mine ELSE m.theirs),
   mine |-> m.mine]

Changed(k, m, who) ==
  CASE k = "post"   -> Fresh
    [] k = "edit"   -> [m EXCEPT !.v = 1]
    [] k = "delete" -> [m EXCEPT !.gone = TRUE]
    [] k = "react"  -> IF who = "me" THEN [m EXCEPT !.mine = TRUE]
                                     ELSE [m EXCEPT !.theirs = TRUE]
    [] k = "unreact" -> IF who = "me" THEN [m EXCEPT !.mine = FALSE]
                                      ELSE [m EXCEPT !.theirs = FALSE]

\* react and unreact broadcast only when they changed something.
Allowed(k, i) ==
  /\ ops < MaxOps
  /\ IF k = "post" THEN i = Len(room) + 1 /\ i \in Ids ELSE i \in Alive
  /\ k = "edit" => room[i].v = 0

Commit(k, i, who) ==
  /\ Allowed(k, i)
  /\ LET m == Changed(k, IF k = "post" THEN Fresh ELSE room[i], who) IN
       /\ room' = IF k = "post" THEN Append(room, m) ELSE [room EXCEPT ![i] = m]
       /\ ops' = ops + 1
       /\ outbox' = IF k # "post" /\ m = room[i] THEN outbox
                    ELSE Append(outbox, Event(k, i, m, who))

\* Somebody else posts, edits, moderates or reacts.
Other(k, i) ==
  /\ Commit(k, i, "other")
  /\ UNCHANGED <<client, screenVars, pageVars, rows, calls, unsent, faults>>

Publish(n) ==
  /\ n \in 1..Len(outbox)
  /\ outbox' = SubSeq(outbox, 1, n - 1) \o SubSeq(outbox, n + 1, Len(outbox))
  /\ frames' = IF hears THEN Append(frames, outbox[n]) ELSE frames
  /\ faults' = faults
       \cup (IF \E j \in 1..(n - 1) : outbox[j].id = outbox[n].id
             THEN {"reordered"} ELSE {})
       \cup (IF ~hears /\ (loaded \/ fetch.phase = "read") THEN {"missed"} ELSE {})
  /\ UNCHANGED <<client, room, ops, open, hears, loaded, rows, newest, floor,
                 fetch, calls, unsent>>

----------------------------------------------------------------------------
(* What is done to the rows.                                               *)

\* mergeMessages: f's rows take the place of g's.
Over(f, g) == [i \in DOMAIN f \cup DOMAIN g |-> IF i \in DOMAIN f THEN f[i] ELSE g[i]]
Merge(i, r) == Over([j \in {i} |-> r], rows)

\* applyMessageCreated; the phone merges whatever it holds.
Created(i, r) ==
  IF client = "web" /\ ~loaded THEN UNCHANGED <<rows, newest>>
  ELSE rows' = Merge(i, r) /\ newest' = newest \cup {i}

\* applyMessageUpdated looks at page 0 only; the phone merges.
Updated(i, r) ==
  /\ rows' = IF client = "mobile" \/ i \in newest \cap DOMAIN rows
             THEN Merge(i, r) ELSE rows
  /\ UNCHANGED newest

\* Mutant: like an update, a deletion looks at page 0 only.
Deleted_Newest(i) ==
  rows' = (IF i \in newest THEN Without(rows, i) ELSE rows) /\ newest' = newest \ {i}

\* applyMessageDeleted.
Deleted(i) == rows' = Without(rows, i) /\ newest' = newest \ {i}

\* Mutant: the flag of whoever reacted is taken for one's own.
ReactionsUpdated_Theirs(i, r) ==
  /\ rows' = IF i \in DOMAIN rows
             THEN [rows EXCEPT ![i] = [v |-> @.v, count |-> r.count, me |-> r.me]]
             ELSE rows
  /\ UNCHANGED newest

\* applyReactionsUpdated: the broadcast's counts, one's own flag as held.
ReactionsUpdated(i, r) ==
  /\ rows' = IF i \in DOMAIN rows
             THEN [rows EXCEPT ![i] = [v |-> @.v, count |-> r.count,
                                       me |-> @.me /\ r.count > 0]]
             ELSE rows
  /\ UNCHANGED newest

\* applyLocalReaction, applyLocally.
LocalReaction(i, add) ==
  LET Toggled(w) ==
        IF w.count = 0 /\ ~add THEN w
        ELSE IF add THEN [w EXCEPT !.count = @ + 1, !.me = TRUE]
        ELSE [w EXCEPT !.count = @ - 1, !.me = FALSE]
  IN  /\ rows' = IF i \in DOMAIN rows THEN [rows EXCEPT ![i] = Toggled(@)] ELSE rows
      /\ UNCHANGED newest

\* A page that is being fetched will replace rows written meanwhile.
Overlap == IF fetch.phase = "none" THEN {} ELSE {"overlap"}

\* The event is the client's own change coming back.
Echo(c, e) == c.kind = e.kind /\ c.phase = "answered"

\* The next frame.
Receive ==
  /\ frames # <<>> /\ frames' = Tail(frames)
  /\ LET e == Head(frames) IN
       /\ CASE e.kind = "post"   -> Created(e.id, e.row)
            [] e.kind = "edit"   -> Updated(e.id, e.row)
            [] e.kind = "delete" -> Deleted(e.id)
            [] e.kind \in {"react", "unreact"} -> ReactionsUpdated(e.id, e.row)
       /\ faults' = faults \cup Overlap
            \cup (IF e.kind = "edit" /\ client = "web" /\ e.id \in DOMAIN rows \ newest
                  THEN {"edited above"} ELSE {})
            \cup (IF e.kind \in {"edit", "delete"}
                     /\ \E c \in calls : c.id = e.id /\ ~Echo(c, e)
                  THEN {"crossed"} ELSE {})
            \cup (IF e.kind # "edit" /\ e.mine # room[e.id].mine
                  THEN {"old tally"} ELSE {})
  /\ UNCHANGED <<client, serverVars, open, hears, loaded, floor, fetch, calls, unsent>>

----------------------------------------------------------------------------
(* The screen, the connection and the pages.                               *)

StartFetch(older) ==
  [phase |-> "sent", older |-> older, page |-> <<>>, base |-> rows, low |-> floor]

\* The screen mounts: it subscribes, and fetches what it does not hold.  The
\* web's query is never stale, so a transcript that is held is shown as it is.
Open ==
  /\ ~open /\ open' = TRUE
  /\ fetch' = IF loaded \/ fetch.phase # "none" THEN fetch ELSE StartFetch(FALSE)
  /\ UNCHANGED <<client, serverVars, hears, frames, loaded, rows, newest, floor, calls,
                 unsent, faults>>

\* The screen is left.  The web caches the transcript, and its calls write to that
\* when they settle.  The phone forgets it, and a call that settles sets the state
\* of no screen; what the server still does about one is not followed.
Leave ==
  /\ open /\ open' = FALSE /\ hears' = FALSE /\ frames' = <<>> /\ unsent' = FALSE
  /\ IF client = "web" THEN UNCHANGED <<loaded, rows, newest, floor, fetch, calls>>
     ELSE /\ loaded' = FALSE /\ rows' = <<>> /\ newest' = {} /\ calls' = {}
          /\ floor' = MaxMessages + 1 /\ fetch' = NoFetch
  /\ faults' = faults
       \cup (IF frames # <<>> /\ client = "web" THEN {"missed"} ELSE {})
       \cup (IF client = "mobile" /\ \E c \in calls : c.phase = "sent"
             THEN {"left behind"} ELSE {})
  /\ UNCHANGED <<client, serverVars>>

\* The subscription reaches the server, and the connection is lost.
Subscribed ==
  /\ open /\ ~hears /\ hears' = TRUE
  /\ UNCHANGED <<client, serverVars, open, frames, pageVars, rows, calls, unsent, faults>>

Lost ==
  /\ hears /\ hears' = FALSE /\ frames' = <<>>
  /\ faults' = IF frames # <<>> THEN faults \cup {"missed"} ELSE faults
  /\ UNCHANGED <<client, serverVars, open, pageVars, rows, calls, unsent>>

\* loadOlder, fetchNextPage: one at a time, and not past the beginning.
LoadOlder ==
  /\ open /\ loaded /\ fetch.phase = "none" /\ floor > 1
  /\ fetch' = StartFetch(TRUE)
  /\ UNCHANGED <<client, serverVars, screenVars, loaded, rows, newest, floor, calls,
                 unsent, faults>>

\* The server reads the newest PageSize messages before the cursor.
FetchRead ==
  /\ fetch.phase = "sent"
  /\ LET below == {i \in Alive : ~fetch.older \/ i < fetch.low}
         page == {i \in below : Cardinality({j \in below : j > i}) < PageSize}
         more == below # page
     IN  fetch' = [fetch EXCEPT !.phase = "read",
                     !.page = [i \in page |-> Row(room[i], room[i].mine)],
                     !.low = IF more THEN CHOOSE i \in page : \A j \in page : i <= j
                                     ELSE 1]
  /\ UNCHANGED <<client, serverVars, screenVars, loaded, rows, newest, floor, calls,
                 unsent, faults>>

\* The first page replaces what is held.  An older one is merged by the phone;
\* the web's query puts it under the pages that were held when it was asked for.
FetchDone ==
  /\ fetch.phase = "read"
  /\ rows' = CASE ~fetch.older -> fetch.page
               [] fetch.older /\ client = "mobile" -> Over(fetch.page, rows)
               [] OTHER -> Over(fetch.page, fetch.base)
  /\ newest' = IF fetch.older THEN newest \cap DOMAIN rows' ELSE DOMAIN fetch.page
  /\ loaded' = TRUE /\ floor' = fetch.low /\ fetch' = NoFetch
  /\ UNCHANGED <<client, serverVars, screenVars, calls, unsent, faults>>

\* A failed page is retried by scrolling again; a failed first page is not.
FetchFails ==
  /\ fetch.phase \in {"sent", "read"} /\ fetch.older
  /\ fetch' = NoFetch
  /\ UNCHANGED <<client, serverVars, screenVars, loaded, rows, newest, floor, calls,
                 unsent, faults>>

----------------------------------------------------------------------------
(* This account's own calls.                                               *)

NoRow == [v |-> 0, count |-> 0, me |-> FALSE]
Call(k, i, undo) == [kind |-> k, id |-> i, phase |-> "sent", undo |-> undo, row |-> NoRow]

CanCall == open /\ loaded /\ Cardinality(calls) < MaxCalls
Starts(c) ==
  /\ calls' = calls \cup {c}
  /\ faults' = faults \cup Overlap
       \cup (IF \E d \in calls : d.id = c.id THEN {"crossed"} ELSE {})

\* send, and retry: `again` is the failed message.
Send(again) ==
  /\ CanCall /\ \A c \in calls : c.kind # "post"
  /\ again => unsent
  /\ unsent' = IF again THEN FALSE ELSE unsent
  /\ Starts(Call("post", 0, NoRow))
  /\ UNCHANGED <<client, serverVars, screenVars, pageVars, rows>>

Discard ==
  /\ unsent /\ unsent' = FALSE
  /\ UNCHANGED <<client, serverVars, screenVars, pageVars, rows, calls, faults>>

Edit(i) ==
  /\ CanCall /\ i \in DOMAIN rows /\ rows[i].v = 0
  /\ Starts(Call("edit", i, NoRow))
  /\ UNCHANGED <<client, serverVars, screenVars, pageVars, rows, unsent>>

\* The web removes the row before the server has answered.
Delete(i) ==
  /\ CanCall /\ i \in DOMAIN rows
  /\ Starts(Call("delete", i, rows[i]))
  /\ IF client = "web" THEN Deleted(i) ELSE UNCHANGED <<rows, newest>>
  /\ UNCHANGED <<client, serverVars, screenVars, loaded, floor, fetch, unsent>>

Toggle(i) ==
  /\ CanCall /\ i \in DOMAIN rows
  /\ Starts(Call(IF rows[i].me THEN "unreact" ELSE "react", i, NoRow))
  /\ LocalReaction(i, ~rows[i].me)
  /\ UNCHANGED <<client, serverVars, screenVars, loaded, floor, fetch, unsent>>

\* The server does it, refuses it, or the request never arrives.
Serve(c) ==
  /\ c \in calls /\ c.phase = "sent"
  /\ LET i == IF c.kind = "post" THEN Len(room) + 1 ELSE c.id IN
       /\ Commit(c.kind, i, "me")
       /\ calls' = (calls \ {c}) \cup
            {[c EXCEPT !.id = i, !.phase = "answered", !.row = Row(room'[i], room'[i].mine)]}
  /\ UNCHANGED <<client, screenVars, pageVars, rows, unsent, faults>>

Refuse(c) ==
  /\ c \in calls /\ c.phase = "sent"
  /\ calls' = (calls \ {c}) \cup {[c EXCEPT !.phase = "failed"]}
  /\ UNCHANGED <<client, serverVars, screenVars, pageVars, rows, unsent, faults>>

\* The server did it and the client never learns.
AnswerLost(c) ==
  /\ c \in calls /\ c.phase = "answered"
  /\ calls' = (calls \ {c}) \cup {[c EXCEPT !.phase = "failed"]}
  /\ faults' = faults \cup {"answer lost"}
  /\ UNCHANGED <<client, serverVars, screenVars, pageVars, rows, unsent>>

\* The row an edit's answer leaves.  It has no reactions of its own: the phone
\* keeps those it holds, the default of applyMessageUpdated empties them.
Edited(i, r) ==
  IF client = "web" THEN Updated(i, [r EXCEPT !.count = 0, !.me = FALSE])
  ELSE /\ rows' = IF i \in DOMAIN rows THEN [rows EXCEPT ![i].v = r.v] ELSE rows
       /\ UNCHANGED newest

Succeed(c) ==
  /\ c \in calls /\ c.phase = "answered" /\ calls' = calls \ {c}
  /\ CASE c.kind = "post" -> IF client = "web" THEN Created(c.id, c.row)
                                              ELSE UNCHANGED <<rows, newest>>
       [] c.kind = "edit" -> Edited(c.id, c.row)
       [] c.kind = "delete" -> Deleted(c.id)
       [] OTHER -> /\ rows' = IF c.id \in DOMAIN rows
                              THEN [rows EXCEPT ![c.id] = [v |-> @.v, count |-> c.row.count,
                                                           me |-> c.row.me]]
                              ELSE rows
                   /\ UNCHANGED newest
  /\ faults' = faults \cup Overlap
       \cup (IF c.kind = "edit" /\ client = "web" /\ c.id \in DOMAIN rows \ newest
             THEN {"edited above"} ELSE {})
  /\ UNCHANGED <<client, serverVars, screenVars, loaded, floor, fetch, unsent>>

\* A failed message is kept by the screen that sent it, which may be another one.
Fail(c) ==
  /\ c \in calls /\ c.phase = "failed" /\ calls' = calls \ {c}
  /\ unsent' \in IF c.kind = "post" /\ client = "web" /\ open THEN {unsent, TRUE} ELSE {unsent}
  /\ CASE c.kind = "delete" /\ client = "web" -> Created(c.id, c.undo)
       [] c.kind \in {"react", "unreact"} -> LocalReaction(c.id, c.kind = "unreact")
       [] OTHER -> UNCHANGED <<rows, newest>>
  /\ faults' = faults \cup Overlap
  /\ UNCHANGED <<client, serverVars, screenVars, loaded, floor, fetch>>

Next ==
  \/ \E k \in {"post", "edit", "delete", "react", "unreact"}, i \in Ids : Other(k, i)
  \/ \E n \in 1..MaxOps : Publish(n)
  \/ Receive \/ Open \/ Leave \/ Subscribed \/ Lost
  \/ LoadOlder \/ FetchRead \/ FetchDone \/ FetchFails
  \/ \E again \in BOOLEAN : Send(again)
  \/ Discard
  \/ \E i \in Ids : Edit(i) \/ Delete(i) \/ Toggle(i)
  \/ \E c \in calls : Serve(c) \/ Refuse(c) \/ AnswerLost(c) \/ Succeed(c) \/ Fail(c)

Spec == Init /\ [][Next]_vars

----------------------------------------------------------------------------
(* Properties.                                                             *)

\* The types of the state.
TypeOK ==
  /\ client \in Clients /\ room \in Seq([v : 0..1, mine : BOOLEAN, theirs : BOOLEAN,
                                         gone : BOOLEAN])
  /\ Len(room) <= MaxMessages /\ ops \in 0..MaxOps
  /\ open \in BOOLEAN /\ hears \in BOOLEAN /\ loaded \in BOOLEAN /\ unsent \in BOOLEAN
  /\ DOMAIN rows \subseteq Ids /\ newest \subseteq DOMAIN rows
  /\ \A i \in DOMAIN rows : rows[i].v \in 0..1 /\ rows[i].count \in Nat
  /\ floor \in 1..(MaxMessages + 1) /\ Cardinality(calls) <= MaxCalls

\* For TLC: `faults` only grows and the properties speak of states without,
\* so what follows a fault need not be explored.
NoFaultYet == faults = {}

\* Nothing that would change the transcript is under way.
Settled ==
  /\ open /\ hears /\ loaded
  /\ outbox = <<>> /\ frames = <<>> /\ calls = {} /\ fetch.phase = "none"

\* The transcript shows what the room holds, from the oldest page read on:
\* no message is missing, none that was deleted is there, and each has its
\* last text.  Types come first.
Converges ==
  /\ TypeOK
  /\ Settled /\ NoFaultYet =>
       /\ {i \in Alive : i >= floor} \subseteq DOMAIN rows
       /\ DOMAIN rows \subseteq Alive
       /\ \A i \in DOMAIN rows : rows[i].v = room[i].v

\* Whether one's own reaction is lit is what the server holds, whoever else
\* reacted meanwhile and whatever the call's fate, on a message nobody edited.
OwnReactionShown ==
  Settled /\ NoFaultYet =>
    \A i \in DOMAIN rows : room[i].v = 0 => rows[i].me = room[i].mine
=============================================================================
