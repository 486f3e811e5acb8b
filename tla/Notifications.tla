---------------------------- MODULE Notifications ----------------------------
(***************************************************************************)
(* From something that happened to a row in the recipient's list: the      *)
(* fan-out of apps/api/src/notify.rs over the store of                     *)
(* crates/notification/src/repository.rs, in one room.                     *)
(*                                                                         *)
(* Events are numbered in the order they happen.  Each has a handler that  *)
(* awaits the lookups (who is reading the room, who muted it) and then     *)
(* records one notification after the other; recording is an INSERT and,   *)
(* when a unique index refuses it, an UPDATE.                              *)
(***************************************************************************)
EXTENDS Integers, FiniteSets

CONSTANTS
  Users,        \* accounts; all of them are in the room
  EveryoneCap,  \* EVERYONE_NOTIFICATION_CAP
  MaxEvents,    \* bound on the events that happen
  Nobody        \* actor_id IS NULL: the author is anonymous

ASSUME NotificationsAssumption ==
  /\ EveryoneCap \in Nat
  /\ MaxEvents \in Nat
  /\ Nobody \notin Users

VARIABLES
  direct,   \* Room::is_direct: the room is a conversation between two
  fanout,   \* fanout[e]: the handler of event e
  row,      \* row[e][u]: the notification inserted for u by the handler of e
  stands,   \* history: stands[e][u], the events row[e][u] stands for
  closed    \* history: the <<event, user>> whose open row was closed between
            \* the refused INSERT and the UPDATE

vars == <<direct, fanout, row, stands, closed>>

Events == 1..MaxEvents
Rank == [friend |-> 0, direct |-> 1, everyone |-> 2, mention |-> 3, none |-> 0]
Kinds == {"friend", "direct", "everyone", "mention"}
Folds(kind) == kind # "friend"

NoRow == [state |-> "none", kind |-> "none", actor |-> Nobody, about |-> 0, count |-> 0]
Quiet == [u \in Users |-> "none"]
Waiting == [pc |-> "idle", actor |-> Nobody, plan |-> Quiet, user |-> Nobody]

-----------------------------------------------------------------------------
(* notify_for_message: one reason per person, and the strongest of them.   *)

Reason(u, author, mentions, audience, everyone) ==
  LET fired == {k \in Kinds :
        \/ k = "mention" /\ u \in mentions
        \/ k = "direct" /\ direct /\ u \in audience
        \/ /\ k = "everyone" /\ everyone /\ ~direct
           /\ u \in audience /\ Cardinality(audience) <= EveryoneCap}
  IN  IF u = author \/ fired = {} THEN "none"
      ELSE CHOOSE k \in fired : \A l \in fired : Rank[k] >= Rank[l]

(* A message is posted.  Failing to resolve the handles, or to list the    *)
(* participants, leaves that reason out.                                   *)
Post(e, author, anonymous, mentions, everyone) ==
  /\ fanout[e].pc = "idle"
  /\ \A d \in Events : d < e => fanout[d].pc # "idle"
  /\ \E named \in {mentions, {}}, audience \in {Users \ {author}, {}} :
       fanout' = [fanout EXCEPT ![e] =
         [pc    |-> "watching",
          actor |-> IF anonymous THEN Nobody ELSE author,
          plan  |-> [u \in Users |-> Reason(u, author, named, audience, everyone)],
          user  |-> Nobody]]
  /\ UNCHANGED <<row, stands, closed>>

(* notify_friendship, from the friend routes.                              *)
Befriend(e, actor, u) ==
  /\ fanout[e].pc = "idle"
  /\ \A d \in Events : d < e => fanout[d].pc # "idle"
  /\ actor # u
  /\ fanout' = [fanout EXCEPT ![e] =
       [pc |-> "record", actor |-> actor, plan |-> [Quiet EXCEPT ![u] = "friend"],
        user |-> Nobody]]
  /\ UNCHANGED <<row, stands, closed>>

(* The two lookups.  Anybody may focus, leave, mute or unmute the room at  *)
(* any time, so each may name anyone; one that fails names nobody.         *)
Without(plan, dropped) == [u \in Users |-> IF u \in dropped THEN "none" ELSE plan[u]]

LookupReading(e) ==
  /\ fanout[e].pc = "watching"
  /\ \E reading \in SUBSET Users :
       fanout' = [fanout EXCEPT ![e].pc = "muting",
                                ![e].plan = Without(fanout[e].plan, reading)]
  /\ UNCHANGED <<row, stands, closed>>

LookupMuted(e) ==
  /\ fanout[e].pc = "muting"
  /\ \E muted \in SUBSET {u \in Users : fanout[e].plan[u] # "mention"} :
       fanout' = [fanout EXCEPT ![e].pc = "record",
                                ![e].plan = Without(fanout[e].plan, muted)]
  /\ UNCHANGED <<row, stands, closed>>

-----------------------------------------------------------------------------
(* NotificationRepository::record.  The unique indexes: one open row per   *)
(* person, room, actor and reason; one row per person, message and reason. *)

OpenRow(u, kind, actor) ==
  {d \in Events : /\ row[d][u].state = "open"
                  /\ row[d][u].kind = kind /\ row[d][u].actor = actor}

(* Mutant: any row of that reason is taken for one about this message.     *)
AboutRow_Any(e, u, kind) ==
  {d \in Events : row[d][u].state \in {"open", "read"} /\ row[d][u].kind = kind}

AboutRow(e, u, kind) ==
  {d \in Events : /\ row[d][u].state \in {"open", "read"}
                  /\ row[d][u].kind = kind /\ row[d][u].about = e}

(* Mutant: the index on open rows is missing.                              *)
Refused_Message(e, u, kind, actor) == Folds(kind) /\ AboutRow(e, u, kind) # {}

Refused(e, u, kind, actor) ==
  /\ Folds(kind)
  /\ OpenRow(u, kind, actor) # {} \/ AboutRow(e, u, kind) # {}

(* The next recipient's INSERT ... ON CONFLICT DO NOTHING.                 *)
Insert(e, u) ==
  /\ fanout[e].pc = "record"
  /\ fanout[e].plan[u] # "none"
  /\ LET kind == fanout[e].plan[u]
         actor == fanout[e].actor
     IN  IF Refused(e, u, kind, actor)
         THEN /\ fanout' = [fanout EXCEPT ![e].pc = "fold", ![e].user = u]
              /\ UNCHANGED <<row, stands>>
         ELSE /\ row' = [row EXCEPT ![e][u] =
                   [state |-> "open", kind |-> kind, actor |-> actor,
                    about |-> e, count |-> 1]]
              /\ stands' = [stands EXCEPT ![e][u] = {e}]
              /\ fanout' = [fanout EXCEPT ![e].plan[u] = "none"]
  /\ UNCHANGED closed

Recorded(e) == [fanout EXCEPT ![e].pc = "record", ![e].plan[fanout[e].user] = "none",
                              ![e].user = Nobody]

(* Mutant: the row stands for the new message only.                        *)
Grown_Replaced(r, e) == [r EXCEPT !.about = e]

Grown(r, e) == [r EXCEPT !.count = @ + 1, !.about = e]

(* The UPDATE that folds the event into the open row, if there still is    *)
(* one; Recorded::Known if not.                                            *)
Fold(e) ==
  /\ fanout[e].pc = "fold"
  /\ LET u == fanout[e].user
         kind == fanout[e].plan[u]
         into == IF AboutRow(e, u, kind) # {} THEN {} ELSE OpenRow(u, kind, fanout[e].actor)
     IN  /\ row' = [d \in Events |-> IF d \in into THEN [row[d] EXCEPT ![u] = Grown(@, e)]
                                     ELSE row[d]]
         /\ stands' = [d \in Events |->
              IF d \in into THEN [stands[d] EXCEPT ![u] = @ \union {e}] ELSE stands[d]]
  /\ fanout' = Recorded(e)
  /\ UNCHANGED closed

(* A statement failed: the rest of the batch goes on.  Or the handler is   *)
(* dropped with what it had left.                                          *)
Fail(e) ==
  /\ fanout[e].pc \in {"record", "fold"}
  /\ \/ fanout' = [fanout EXCEPT ![e].plan = Quiet, ![e].pc = "record", ![e].user = Nobody]
     \/ fanout[e].pc = "fold" /\ fanout' = Recorded(e)
     \/ \E u \in Users : /\ fanout[e].pc = "record"
                         /\ fanout' = [fanout EXCEPT ![e].plan[u] = "none"]
  /\ UNCHANGED <<row, stands, closed>>

-----------------------------------------------------------------------------
(* Rows leave the open state: read one by one or all at once by their      *)
(* owner, pruned by the job notifications.prune_old (read rows by read_at, *)
(* unread ones by created_at, however recently they grew).                 *)

(* The open rows the UPDATE of e would find.                               *)
Ahead(e) ==
  LET u == fanout[e].user
  IN  {<<d, u>> : d \in OpenRow(u, fanout[e].plan[u], fanout[e].actor)}

Close(rows, state) ==
  /\ row' = [d \in Events |-> [u \in Users |->
        IF <<d, u>> \in rows THEN [row[d][u] EXCEPT !.state = state] ELSE row[d][u]]]
  /\ closed' = closed \union
       {<<e, fanout[e].user>> :
          e \in {f \in Events : fanout[f].pc = "fold" /\ Ahead(f) \intersect rows # {}}}
  /\ UNCHANGED <<fanout, stands>>

MarkRead(d, u) == row[d][u].state = "open" /\ Close({<<d, u>>}, "read")

MarkAllRead(u) ==
  LET mine == {<<d, u>> : d \in {c \in Events : row[c][u].state = "open"}}
  IN  mine # {} /\ Close(mine, "read")

Prune(d, u) == row[d][u].state \in {"open", "read"} /\ Close({<<d, u>>}, "pruned")

-----------------------------------------------------------------------------
Init ==
  /\ direct \in BOOLEAN
  /\ fanout = [e \in Events |-> Waiting]
  /\ row = [e \in Events |-> [u \in Users |-> NoRow]]
  /\ stands = [e \in Events |-> [u \in Users |-> {}]]
  /\ closed = {}

Step ==
  \/ \E e \in Events :
       \/ LookupReading(e) \/ LookupMuted(e) \/ Fold(e) \/ Fail(e)
       \/ \E u \in Users : Insert(e, u) \/ MarkRead(e, u) \/ Prune(e, u)
       \/ \E u, v \in Users : Befriend(e, u, v)
       \/ \E author \in Users, anonymous, everyone \in BOOLEAN, mentions \in SUBSET Users :
            Post(e, author, anonymous, mentions, everyone)
  \/ \E u \in Users : MarkAllRead(u)

Next == Step /\ UNCHANGED direct

Spec == Init /\ [][Next]_vars

-----------------------------------------------------------------------------
TypeOK ==
  /\ direct \in BOOLEAN
  /\ fanout \in [Events -> [pc : {"idle", "watching", "muting", "record", "fold"},
                            actor : Users \union {Nobody},
                            plan : [Users -> Kinds \union {"none"}],
                            user : Users \union {Nobody}]]
  /\ row \in [Events -> [Users -> [state : {"none", "open", "read", "pruned"},
                                   kind : Kinds \union {"none"},
                                   actor : Users \union {Nobody},
                                   about : 0..MaxEvents, count : Nat]]]
  /\ stands \in [Events -> [Users -> SUBSET Events]]
  /\ closed \subseteq Events \X Users

(***************************************************************************)
(* "two messages arriving at once cannot open two rows for one             *)
(* conversation" (record): at most one open row per person, actor and      *)
(* reason, whatever the handlers, readers and the prune job interleave.    *)
(* The types come first.                                                   *)
(***************************************************************************)
OneOpenRow ==
  /\ TypeOK
  /\ \A u \in Users, kind \in Kinds, actor \in Users \union {Nobody} :
       Folds(kind) => Cardinality(OpenRow(u, kind, actor)) <= 1

(***************************************************************************)
(* A row's count is the number of events it stands for: none is counted    *)
(* twice, folding loses none, and "One message earns one notification per  *)
(* person" (notify.rs): no two rows of a person stand for the same event.  *)
(***************************************************************************)
CountIsHonest ==
  \A d \in Events, u \in Users :
    /\ row[d][u].count = Cardinality(stands[d][u])
    /\ \A c \in Events \ {d} : stands[c][u] \intersect stands[d][u] = {}

(***************************************************************************)
(* Recorded::Known, "Nothing was written, because this exact event was     *)
(* already recorded", where the code keeps it: an event is left unrecorded *)
(* by Fold only when its open row was read or pruned between the INSERT    *)
(* and the UPDATE.                                                         *)
(***************************************************************************)
LostOnlyToClosing ==
  [][\A e \in Events : Fold(e) =>
       \/ \E d \in Events : e \in stands'[d][fanout[e].user]
       \/ <<e, fanout[e].user>> \in closed]_vars

=============================================================================
