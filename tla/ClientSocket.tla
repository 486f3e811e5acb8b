---------------------------- MODULE ClientSocket ----------------------------
(***************************************************************************)
(* The one WebSocket of a client (ChatSocket.ts, in the web app and in the *)
(* shared package the mobile app uses), the screens that tell it what they *)
(* want to hear and what is being read, and the connection's session on    *)
(* the server.  What a screen wants is said in frames; a connection can be *)
(* lost at any moment with the frames that were on it, and is opened again *)
(* by a timer.                                                             *)
(***************************************************************************)
EXTENDS Naturals, Sequences, SequencesExt

CONSTANTS Clients,      \* which of "web" and "mobile" to follow
          Rooms,        \* rooms a screen can be opened on
          None,         \* no room
          MaxStack,     \* bound: room screens on the phone's stack
          MaxFrames,    \* bound: no input while this many frames wait
          MaxExpiries   \* bound: access tokens that run out

ASSUME ClientsKnown == Clients \subseteq {"web", "mobile"}
ASSUME NoneIsNoRoom == None \notin Rooms
ASSUME BoundsAreNat == MaxStack \in Nat /\ MaxFrames \in Nat /\ MaxExpiries \in Nat

VARIABLES
  client,     \* which of the two classes runs
  signedIn,   \* somebody is signed in
  fresh,      \* the token the socket was given is still accepted
  expiries,   \* how many tokens have run out
  screens,    \* the rooms of the mounted room screens, the front one last
  covered,    \* another screen is in front of the room (phone)
  visible,    \* the tab is visible, the app is active
  chat,       \* the ChatSocket object, with the frames on its connection
  stops,      \* the rooms whose composer has a timer that will say typing stopped (web)
  session,    \* the server's session of the open connection
  late,       \* history: the rooms that was said of while they were not read
  faults      \* history: which of the two known faults have happened

socketVars == <<client, signedIn, fresh, expiries, screens, covered, visible, chat,
          stops, session, late, faults>>

Frame == [type : {"subscribe", "unsubscribe", "typing"}, room : Rooms]
           \cup [type : {"focus"}, room : Rooms \cup {None}]

Frm(t, r) == [type |-> t, room |-> r]

----------------------------------------------------------------------------
(* The class: every method is a function from the object to the object, so *)
(* that what one callback calls in a row is one step.  `wire` holds the    *)
(* frames sent and not yet read by the server.                             *)

Live(c) == c.socket \in {"open", "connecting"}

\* A closed web socket drops what it is given, the shared class queues it.
SendAll(s, fs) ==
  IF s.socket = "open" THEN [s EXCEPT !.wire = @ \o fs]
  ELSE IF client = "mobile" \/ s.socket = "connecting"
       THEN [s EXCEPT !.queue = @ \o fs]
       ELSE s

Send(s, f) == SendAll(s, <<f>>)

Subscribe(s, r) ==
  Send([s EXCEPT !.subscribed = @ \cup {r}], Frm("subscribe", r))

Unsubscribe(s, r) ==
  Send([s EXCEPT !.subscribed = @ \ {r},
                 !.focused = IF @ = r THEN None ELSE @], Frm("unsubscribe", r))

Focus(s, r) ==
  IF s.focused = r THEN s ELSE Send([s EXCEPT !.focused = r], Frm("focus", r))

Blur(s, r) == IF s.focused # r THEN s ELSE Focus(s, None)

Disconnect(s) ==
  [s EXCEPT !.explicit = TRUE, !.timer = FALSE, !.socket = "null", !.wire = <<>>]

Connect(s) ==
  IF Live(s) THEN s ELSE [s EXCEPT !.explicit = FALSE, !.socket = "connecting"]

\* `other`: the token is not the one the socket already has.
SetToken(s, other) ==
  IF ~other /\ Live(s) THEN s
  ELSE Connect(IF s.socket # "null" THEN Disconnect(s) ELSE s)

\* Mutant: a new connection says nothing but what was queued.
HandleOpen_QueueOnly(s) ==
  [s EXCEPT !.socket = "open", !.wire = s.queue, !.queue = <<>>]

\* Mutant: the room being read is not said again.
HandleOpen_NoClaim(s) ==
  [s EXCEPT !.socket = "open", !.queue = <<>>,
            !.wire = SetToSeq({Frm("subscribe", r) : r \in s.subscribed}) \o s.queue]

HandleOpen(s) ==
  LET again == SetToSeq({Frm("subscribe", r) : r \in s.subscribed})
      claim == IF s.focused = None THEN <<>> ELSE <<Frm("focus", s.focused)>>
  IN  [s EXCEPT !.socket = "open", !.wire = again \o claim \o s.queue,
                !.queue = <<>>]

\* Mutant: only a connection that had opened is tried again.
HandleClose_OpenOnly(s) ==
  [s EXCEPT !.socket = "closed", !.wire = <<>>,
            !.timer = IF s.explicit \/ s.socket # "open" THEN @ ELSE TRUE]

HandleClose(s) ==
  [s EXCEPT !.socket = "closed", !.wire = <<>>,
            !.timer = IF s.explicit THEN @ ELSE TRUE]

----------------------------------------------------------------------------
(* The server's session of a connection.                                   *)

NoSession == [known |-> FALSE, subs |-> {}, focus |-> None, pending |-> None]

Attend(n, r) ==
  IF ~n.known THEN n
  ELSE IF r = None \/ r \in n.subs
       THEN [n EXCEPT !.focus = r, !.pending = None]
       ELSE [n EXCEPT !.focus = None, !.pending = r]

Handle(n, f) ==
  CASE f.type = "subscribe" ->
         IF ~n.known THEN n
         ELSE LET m == [n EXCEPT !.subs = @ \cup {f.room}]
              IN  IF m.pending = f.room THEN Attend(m, f.room) ELSE m
    [] f.type = "unsubscribe" -> Attend([n EXCEPT !.subs = @ \ {f.room}], None)
    [] f.type = "focus" -> Attend(n, f.room)
    [] f.type = "typing" ->
         IF n.known /\ f.room \in n.subs THEN Attend(n, f.room) ELSE n

----------------------------------------------------------------------------
SocketInit ==
  /\ client \in Clients
  /\ signedIn = FALSE /\ fresh = FALSE /\ expiries = 0
  /\ screens = <<>> /\ covered = FALSE /\ visible = TRUE
  /\ chat = [socket |-> "null", explicit |-> FALSE, timer |-> FALSE,
             subscribed |-> {}, focused |-> None, queue |-> <<>>, wire |-> <<>>]
  /\ stops = {} /\ session = NoSession /\ late = {} /\ faults = {}

Top == IF screens = <<>> THEN None ELSE Last(screens)

\* What is in front of somebody.
Reading == IF covered \/ ~visible THEN None ELSE Top

\* What counts of the stops `said` once the object is s: a claim and the end of
\* a subscription overrule them, a connection takes them along.
Standing(s, said) ==
  IF \/ s.focused # chat.focused \/ ~(chat.subscribed \subseteq s.subscribed)
     \/ s.socket # "open" /\ s.queue = <<>>
  THEN {} ELSE said

\* Install what the calls of one callback made of the object.  A web socket
\* that is given up keeps the queue of the attempt it belonged to, and two
\* screens of one room share a single entry of `subscribed`.
Installs(s, said) ==
  /\ chat' = s
  /\ session' = IF s.socket = "open" THEN session ELSE NoSession
  /\ late' = Standing(s, said)
  /\ faults' = faults
       \cup (IF client = "web" /\ ~Live(s) /\ s.queue # <<>> THEN {"stale queue"} ELSE {})
       \cup (IF IsInjective(screens') THEN {} ELSE {"opened twice"})

Becomes(s) == Installs(s, late)

Claim(r) == IF visible THEN r ELSE None

\* What mounting and unmounting a room screen calls.  The web hook subscribes
\* before it reports what is read, the phone's screen after.
Mount(s, r) ==
  IF client = "web" THEN Focus(Subscribe(s, r), Claim(r))
                    ELSE Subscribe(Focus(s, Claim(r)), r)

Unmount(s, r) ==
  IF client = "web" THEN Blur(Unsubscribe(s, r), r)
                    ELSE Unsubscribe(Blur(s, r), r)

\* Every screen goes, the lowest first: each ends its subscription, the phone's
\* giving up what is being read before, on the first screen that shows it.
UnmountAll(s) ==
  LET ends == [i \in DOMAIN screens |-> Frm("unsubscribe", screens[i])]
      read == {i \in DOMAIN screens : screens[i] = s.focused}
  IN  SendAll([s EXCEPT !.subscribed = @ \ Range(screens),
                        !.focused = IF read = {} THEN @ ELSE None],
              IF client = "web" \/ read = {} THEN ends
              ELSE InsertAt(ends, Min(read), Frm("focus", None)))

\* The reader does something; bounded by the frames that wait.
Acts == signedIn /\ Len(chat.wire) + Len(chat.queue) < MaxFrames

\* A session begins: the socket is given its token.
SignIn ==
  /\ ~signedIn
  /\ signedIn' = TRUE /\ fresh' = TRUE
  /\ UNCHANGED <<client, expiries, screens, covered, visible, stops>>
  /\ Becomes(SetToken(chat, TRUE))

\* The session ends: the phone disconnects and then the screens go, on the
\* web the effects of the screens are cleaned up before the provider's run.
SignOut ==
  /\ signedIn
  /\ signedIn' = FALSE /\ fresh' = FALSE
  /\ screens' = <<>> /\ covered' = FALSE
  /\ Becomes(IF client = "web" THEN Disconnect(UnmountAll(chat))
                               ELSE UnmountAll(Disconnect(chat)))
  /\ UNCHANGED <<client, expiries, visible, stops>>

\* The access token runs out.  An open connection does not notice.
Expire ==
  /\ signedIn /\ fresh /\ expiries < MaxExpiries
  /\ fresh' = FALSE /\ expiries' = expiries + 1
  /\ UNCHANGED <<client, signedIn, screens, covered, visible, stops, chat, session, late, faults>>

\* A request found the token expired and refreshed it.  The phone hands the
\* new one to the socket; on the web nobody tells the socket.
Refresh ==
  /\ signedIn /\ ~fresh /\ client = "mobile"
  /\ fresh' = TRUE
  /\ UNCHANGED <<client, signedIn, expiries, screens, covered, visible, stops>>
  /\ Becomes(SetToken(chat, TRUE))

\* A room is opened in the room screen that is in front (the web's only one;
\* the phone navigates from a room to a room by giving its screen the other
\* room), or in a new one where none is in front.
Open(r) ==
  /\ Acts /\ ~covered /\ r # Top
  /\ screens' = IF screens = <<>> THEN <<r>> ELSE Append(Front(screens), r)
  /\ Becomes(Mount(IF screens = <<>> THEN chat ELSE Unmount(chat, Top), r))
  /\ UNCHANGED <<client, signedIn, fresh, expiries, covered, visible, stops>>

\* The phone opens a room from a screen that covers another room.
Push(r) ==
  /\ Acts /\ covered /\ Len(screens) < MaxStack
  /\ screens' = Append(screens, r) /\ covered' = FALSE
  /\ Becomes(Mount(chat, r))
  /\ UNCHANGED <<client, signedIn, fresh, expiries, visible, stops>>

\* The front room screen is left.  On the phone, the screen that was in
\* front of the room below it is in front again.
Leave ==
  /\ Acts /\ screens # <<>> /\ ~covered
  /\ screens' = Front(screens) /\ covered' = (Len(screens) > 1)
  /\ Becomes(Unmount(chat, Top))
  /\ UNCHANGED <<client, signedIn, fresh, expiries, visible, stops>>

\* The phone puts another screen in front of the room, and goes back to it.
Cover ==
  /\ Acts /\ client = "mobile" /\ screens # <<>> /\ ~covered
  /\ covered' = TRUE
  /\ UNCHANGED <<client, signedIn, fresh, expiries, screens, visible, stops>>
  /\ Becomes(Blur(chat, Top))

Uncover ==
  /\ Acts /\ covered
  /\ covered' = FALSE
  /\ UNCHANGED <<client, signedIn, fresh, expiries, screens, visible, stops>>
  /\ Becomes(Focus(chat, Claim(Top)))

\* The tab is hidden or shown, the app leaves the foreground or comes back.
Turn ==
  /\ Acts
  /\ visible' = ~visible
  /\ UNCHANGED <<client, signedIn, fresh, expiries, screens, covered, stops>>
  /\ IF screens = <<>> \/ covered THEN UNCHANGED <<chat, session, late, faults>>
     ELSE Becomes(Focus(chat, IF visible THEN None ELSE Top))

\* A key is pressed.  That somebody types is said once a second; the web puts
\* off the timer of the composer, which may have been that of another room.
Typing ==
  /\ Acts /\ Reading # None
  /\ UNCHANGED <<client, signedIn, fresh, expiries, screens, covered, visible>>
  /\ \/ Becomes(Send(chat, Frm("typing", Top)))
     \/ client = "web" /\ Becomes(chat)
  /\ stops' \in IF client = "web" THEN {t \cup {Top} : t \in SUBSET stops} ELSE {stops}

\* A message is sent: the web says that typing stopped and clears its timer.
Submit ==
  /\ Acts /\ client = "web" /\ Reading # None
  /\ UNCHANGED <<client, signedIn, fresh, expiries, screens, covered, visible>>
  /\ Becomes(Send(chat, Frm("typing", Top)))
  /\ stops' \in SUBSET stops

\* The timer of a composer of r, which neither a hidden tab nor an unmounted
\* room clears, says that typing stopped.  A room left and opened again within
\* the timer's time may have two.
StopTyping(r) ==
  /\ r \in stops /\ Len(chat.wire) + Len(chat.queue) < MaxFrames
  /\ stops' \in {stops, stops \ {r}}
  /\ UNCHANGED <<client, signedIn, fresh, expiries, screens, covered, visible>>
  /\ Installs(Send(chat, Frm("typing", r)), late \cup ({r} \ {Reading}))

\* The handshake succeeds: the server makes a session, the client says what
\* it wants.  A token that is not accepted still gets a connection.
Opened ==
  /\ chat.socket = "connecting"
  /\ chat' = HandleOpen(chat)
  /\ session' = [NoSession EXCEPT !.known = fresh]
  /\ UNCHANGED <<client, signedIn, fresh, expiries, screens, covered, visible, stops, late, faults>>

\* The handshake fails, or the connection is lost with what was on it.
Lost ==
  /\ Live(chat)
  /\ UNCHANGED <<client, signedIn, fresh, expiries, screens, covered, visible, stops>>
  /\ Becomes(HandleClose(chat))

\* The reconnect timer.
Retry ==
  /\ chat.timer
  /\ UNCHANGED <<client, signedIn, fresh, expiries, screens, covered, visible, stops>>
  /\ Becomes(Connect([chat EXCEPT !.timer = FALSE]))

\* The server reads the next frame of the connection.
Serve ==
  /\ chat.wire # <<>>
  /\ session' = Handle(session, Head(chat.wire))
  /\ chat' = [chat EXCEPT !.wire = Tail(@)]
  /\ UNCHANGED <<client, signedIn, fresh, expiries, screens, covered, visible, stops, late, faults>>

SocketNext ==
  \/ SignIn \/ SignOut \/ Expire \/ Refresh
  \/ \E r \in Rooms : Open(r) \/ Push(r) \/ StopTyping(r)
  \/ Leave \/ Cover \/ Uncover \/ Turn \/ Typing \/ Submit
  \/ Opened \/ Lost \/ Retry \/ Serve

\* A timer that is set fires, the server reads what is sent, and a client that
\* keeps trying gets a connection.  Nothing makes the socket's token be renewed.
Fairness ==
  /\ WF_socketVars(Retry) /\ WF_socketVars(Serve) /\ SF_socketVars(Opened)

SocketSpec == SocketInit /\ [][SocketNext]_socketVars /\ Fairness

----------------------------------------------------------------------------
(* Properties.                                                             *)

\* The types of the state.
SocketTypeOK ==
  /\ client \in Clients /\ signedIn \in BOOLEAN /\ fresh \in BOOLEAN
  /\ expiries \in 0..MaxExpiries /\ visible \in BOOLEAN /\ covered \in BOOLEAN
  /\ screens \in Seq(Rooms) /\ Len(screens) <= MaxStack + 1
  /\ chat.socket \in {"null", "connecting", "open", "closed"}
  /\ chat.explicit \in BOOLEAN /\ chat.timer \in BOOLEAN
  /\ chat.subscribed \subseteq Rooms /\ chat.focused \in Rooms \cup {None}
  /\ chat.queue \in Seq(Frame) /\ chat.wire \in Seq(Frame)
  /\ session.known \in BOOLEAN /\ session.subs \subseteq Rooms
  /\ session.focus \in Rooms \cup {None} /\ session.pending \in Rooms \cup {None}
  /\ stops \subseteq Rooms /\ late \subseteq Rooms
  /\ faults \subseteq {"stale queue", "opened twice"}

\* The server knows the connection and has read everything sent on it.
Settled == chat.socket = "open" /\ chat.wire = <<>> /\ session.known

\* Whatever was lost with a connection, once the next one has settled the
\* server sends the client the traffic of exactly the rooms its screens show.
\* Types come first.
ScreensAreHeard ==
  /\ SocketTypeOK
  /\ Settled /\ faults = {} => session.subs = Range(screens)

\* Whatever was lost, the room the server keeps quiet about is the one in
\* front of the reader, and none when the reader looked away; unless the web's
\* timer has, since the last claim, said of a room nobody looks at any more
\* that typing in it stopped, which the server takes for reading it.
QuietAboutWhatIsRead ==
  Settled /\ faults = {} => session.focus \in {Reading} \cup late

\* A client that is signed in and loses its connection, however often, comes to
\* have one on which the server knows it, unless the token it was given runs
\* out first: then the web's socket stays a stranger until the next sign-in.
Reconnects ==
  (signedIn /\ fresh) ~> (session.known \/ ~signedIn \/ ~fresh)
=============================================================================
