------------------------------- MODULE Gateway -------------------------------
(***************************************************************************)
(* The WebSocket gateway of apps/api/src/routes/ws: what one connection    *)
(* remembers (session.rs), what its commands do (commands.rs), and the two *)
(* stores all connections share, presence and attention                    *)
(* (crates/infrastructure).                                                *)
(*                                                                         *)
(* A connection is one task: it finishes a command before it reads the     *)
(* next frame.  Different connections run in parallel, and a store call    *)
(* and the broadcast after it are two steps.                               *)
(***************************************************************************)
EXTENDS Naturals, FiniteSets

CONSTANTS
  Users, Rooms, Conns,
  NoUser, NoRoom     \* None

ASSUME GatewayAssumption ==
  /\ NoUser \notin Users
  /\ NoRoom \notin Rooms
  /\ IsFiniteSet(Conns)

VARIABLES
  sess,       \* sess[c]: Session, and where its task is
  presence,   \* presence[u]: open connections counted for u
  announced,  \* announced[u]: the last PresenceChanged published about u
  attention,  \* attention[c]: the Watcher entry of c
  claim       \* history: the room the identity on c last said it was reading

vars == <<sess, presence, announced, attention, claim>>

NewSession == [pc |-> "ready", user |-> NoUser, counted |-> NoUser,
               subs |-> {}, focus |-> NoRoom, pending |-> NoRoom]
Gone == [NewSession EXCEPT !.pc = "gone"]
Unwatched == [user |-> NoUser, room |-> NoRoom, fresh |-> FALSE]

Ready(c) == sess[c].pc = "ready"
SignedIn(c) == Ready(c) /\ sess[c].user # NoUser

-----------------------------------------------------------------------------
(* Session::attend on session s: a room that is subscribed to is focused,  *)
(* any other is remembered as pending, NoRoom blurs.                       *)

(* Mutant: a focus that is early is dropped.                               *)
Attend_NoPending(s, r) ==
  [s EXCEPT !.focus = IF r \in s.subs THEN r ELSE NoRoom, !.pending = NoRoom]

Attend(s, r) ==
  [s EXCEPT !.focus = IF r \in s.subs THEN r ELSE NoRoom,
            !.pending = IF r \in s.subs THEN NoRoom ELSE r]

(* The store's side of attend: focus replaces, blur removes.               *)
Record(c, s) ==
  attention' = [attention EXCEPT ![c] =
    IF s.focus = NoRoom THEN Unwatched
    ELSE [user |-> s.user, room |-> s.focus, fresh |-> TRUE]]

-----------------------------------------------------------------------------
Open(c) ==
  /\ sess[c].pc = "gone"
  /\ sess' = [sess EXCEPT ![c] = NewSession]
  /\ UNCHANGED <<presence, announced, attention, claim>>

(* Mutant: every token counts the connection again.                        *)
Auth_Recount(c, u) ==
  /\ Ready(c)
  /\ sess' = [sess EXCEPT ![c].user = u, ![c].pc = "count"]
  /\ claim' = [claim EXCEPT ![c] = IF sess[c].user = u THEN @ ELSE NoRoom]
  /\ UNCHANGED <<presence, announced, attention>>

(* Session::authenticate: remember the identity, then move the count.      *)
Auth(c, u) ==
  /\ Ready(c)
  /\ sess' = [sess EXCEPT ![c].user = u,
                          ![c].pc = CASE sess[c].counted = u -> "ready"
                                      [] sess[c].counted = NoUser -> "count"
                                      [] OTHER -> "uncount"]
  /\ claim' = [claim EXCEPT ![c] = IF sess[c].user = u THEN @ ELSE NoRoom]
  /\ UNCHANGED <<presence, announced, attention>>

(* announce_presence(previous, Closed): the store, then the broadcast.     *)
Uncount(c) ==
  /\ sess[c].pc \in {"uncount", "closing"}
  /\ LET u == sess[c].counted IN
     /\ presence' = [presence EXCEPT ![u] = IF @ = 0 THEN 0 ELSE @ - 1]
     /\ sess' = [sess EXCEPT ![c].pc =
          CASE presence[u] = 1 /\ @ = "uncount" -> "announceOff"
            [] presence[u] = 1 /\ @ = "closing" -> "announceGone"
            [] @ = "uncount" -> "swap"
            [] OTHER -> "leave"]
  /\ UNCHANGED <<announced, attention, claim>>

AnnounceOff(c) ==
  /\ sess[c].pc \in {"announceOff", "announceGone"}
  /\ announced' = [announced EXCEPT ![sess[c].counted] = FALSE]
  /\ sess' = [sess EXCEPT ![c].pc = IF @ = "announceOff" THEN "swap" ELSE "leave"]
  /\ UNCHANGED <<presence, attention, claim>>

(* A change of identity blurs; pending_focus and the subscriptions stay.   *)
Swap(c) ==
  /\ sess[c].pc = "swap"
  /\ sess' = [sess EXCEPT ![c].pc = "count", ![c].focus = NoRoom,
                          ![c].counted = NoUser]
  /\ attention' = [attention EXCEPT ![c] = Unwatched]
  /\ UNCHANGED <<presence, announced, claim>>

CountIn(c) ==
  /\ sess[c].pc = "count"
  /\ LET u == sess[c].user IN
     /\ presence' = [presence EXCEPT ![u] = @ + 1]
     /\ sess' = [sess EXCEPT ![c].counted = u,
                             ![c].pc = IF presence[u] = 0 THEN "announceOn" ELSE "ready"]
  /\ UNCHANGED <<announced, attention, claim>>

AnnounceOn(c) ==
  /\ sess[c].pc = "announceOn"
  /\ announced' = [announced EXCEPT ![sess[c].counted] = TRUE]
  /\ sess' = [sess EXCEPT ![c].pc = "ready"]
  /\ UNCHANGED <<presence, attention, claim>>

(* The socket is gone: Session::release.                                   *)
(* Mutant: the attention entry outlives the socket.                        *)
Close_KeepsAttention(c) ==
  /\ Ready(c)
  /\ sess' = [sess EXCEPT ![c].focus = NoRoom,
                          ![c].pc = IF sess[c].counted = NoUser THEN "leave" ELSE "closing"]
  /\ UNCHANGED <<presence, announced, attention, claim>>

Close(c) ==
  /\ Ready(c)
  /\ sess' = [sess EXCEPT ![c].focus = NoRoom,
                          ![c].pc = IF sess[c].counted = NoUser THEN "leave" ELSE "closing"]
  /\ attention' = [attention EXCEPT ![c] = Unwatched]
  /\ UNCHANGED <<presence, announced, claim>>

Leave(c) ==
  /\ sess[c].pc = "leave"
  /\ sess' = [sess EXCEPT ![c] = Gone]
  /\ claim' = [claim EXCEPT ![c] = NoRoom]
  /\ UNCHANGED <<presence, announced, attention>>

-----------------------------------------------------------------------------
(* Commands.  Subscribing is refused without an identity, and silently     *)
(* does nothing for a room the caller may not see: only the case that does *)
(* something is a step.                                                    *)

Subscribe(c, r) ==
  /\ SignedIn(c)
  /\ LET s == [sess[c] EXCEPT !.subs = @ \union {r}]
         t == IF s.pending = r THEN Attend(s, r) ELSE s IN
     /\ sess' = [sess EXCEPT ![c] = t]
     /\ IF s.pending = r THEN Record(c, t) ELSE UNCHANGED attention
  /\ UNCHANGED <<presence, announced, claim>>

Unsubscribe(c, r) ==
  /\ Ready(c)
  /\ LET s == [sess[c] EXCEPT !.subs = @ \ {r}]
         t == IF s.user = NoUser THEN s ELSE Attend(s, NoRoom) IN
     /\ sess' = [sess EXCEPT ![c] = t]
     /\ IF s.user = NoUser THEN UNCHANGED attention ELSE Record(c, t)
  /\ claim' = [claim EXCEPT ![c] = NoRoom]
  /\ UNCHANGED <<presence, announced>>

Focus(c, r) ==
  /\ SignedIn(c)
  /\ LET t == Attend(sess[c], r) IN
     /\ sess' = [sess EXCEPT ![c] = t]
     /\ Record(c, t)
  /\ claim' = [claim EXCEPT ![c] = r]
  /\ UNCHANGED <<presence, announced>>

(* Typing and SendMessage: nothing without a subscription, and attention   *)
(* to the room before anything else.                                       *)
Speak(c, r) == r \in sess[c].subs /\ Focus(c, r)

(* Ping: Session::touch.  Seventy-five seconds without one: ATTENTION_TTL. *)
Touch(c) ==
  /\ Ready(c)
  /\ sess[c].focus # NoRoom
  /\ attention' = [attention EXCEPT ![c].fresh = (@ \/ attention[c].room # NoRoom)]
  /\ UNCHANGED <<sess, presence, announced, claim>>

Fade(c) ==
  /\ attention[c].fresh
  /\ attention' = [attention EXCEPT ![c].fresh = FALSE]
  /\ UNCHANGED <<sess, presence, announced, claim>>

(* AttentionStore::watching, for the notification fan-out.                 *)
Watching(r) ==
  {u \in Users : \E c \in Conns :
     attention[c].fresh /\ attention[c].room = r /\ attention[c].user = u}

-----------------------------------------------------------------------------
Init ==
  /\ sess = [c \in Conns |-> Gone]
  /\ presence = [u \in Users |-> 0]
  /\ announced = [u \in Users |-> FALSE]
  /\ attention = [c \in Conns |-> Unwatched]
  /\ claim = [c \in Conns |-> NoRoom]

Next ==
  \E c \in Conns :
    \/ Open(c) \/ Close(c) \/ Touch(c) \/ Fade(c)
    \/ Uncount(c) \/ AnnounceOff(c) \/ Swap(c) \/ CountIn(c) \/ AnnounceOn(c) \/ Leave(c)
    \/ \E u \in Users : Auth(c, u)
    \/ \E r \in Rooms : Subscribe(c, r) \/ Unsubscribe(c, r) \/ Speak(c, r)
    \/ \E r \in Rooms \union {NoRoom} : Focus(c, r)

Spec == Init /\ [][Next]_vars

-----------------------------------------------------------------------------
PCs == {"gone", "ready", "count", "uncount", "closing", "announceOff",
        "announceGone", "announceOn", "swap", "leave"}

TypeOK ==
  /\ sess \in [Conns -> [pc : PCs, user : Users \union {NoUser},
                         counted : Users \union {NoUser}, subs : SUBSET Rooms,
                         focus : Rooms \union {NoRoom},
                         pending : Rooms \union {NoRoom}]]
  /\ presence \in [Users -> Nat]
  /\ announced \in [Users -> BOOLEAN]
  /\ attention \in [Conns -> [user : Users \union {NoUser},
                              room : Rooms \union {NoRoom}, fresh : BOOLEAN]]
  /\ claim \in [Conns -> Rooms \union {NoRoom}]

(* The connections the store has counted for u and not yet taken off.      *)
CountedFor(u) ==
  {c \in Conns : sess[c].counted = u /\
                 sess[c].pc \in {"ready", "count", "uncount", "closing", "announceOn"}}

(***************************************************************************)
(* "a user is online exactly while at least one of their connections is    *)
(* open" (presence.rs): the store counts each connection once, through     *)
(* every sign-in, change of identity and close.  The types come first.     *)
(***************************************************************************)
PresenceCounts == TypeOK /\ \A u \in Users : presence[u] = Cardinality(CountedFor(u))

(***************************************************************************)
(* The shared store says of a connection what its session says: the same   *)
(* room, under the identity it has now, and nothing once it is closed (an  *)
(* entry left behind "would go on suppressing its owner's notifications"); *)
(* and "Only a room this connection is subscribed to counts" (attend): a   *)
(* user watches a room only through a connection that hears it.            *)
(***************************************************************************)
AttentionAgrees ==
  \A c \in Conns :
    /\ sess[c].pc = "ready" =>
         /\ attention[c].room = sess[c].focus
         /\ attention[c].room # NoRoom => attention[c].user = sess[c].user
    /\ sess[c].pc \in {"gone", "closing", "leave"} => attention[c] = Unwatched
    /\ \A r \in Rooms : \A u \in Watching(r) :
         \E w \in Conns : attention[w].user = u /\ r \in sess[w].subs

(***************************************************************************)
(* "A focus that arrives early is held here and applied the moment the     *)
(* subscription lands, so attention is never silently dropped": a          *)
(* connection that said it was reading a room, hears that room, and has    *)
(* not since focused or unsubscribed anything is recorded as reading it.   *)
(***************************************************************************)
AttentionNotDropped ==
  \A c \in Conns :
    Ready(c) /\ claim[c] \in sess[c].subs => sess[c].focus = claim[c]

=============================================================================
