------------------------------- MODULE Calls --------------------------------
(***************************************************************************)
(* Calls on the clients.  A device holds one media session: VoiceProvider  *)
(* of the web app (useVoiceRoom.tsx), or useCallVM over LiveKitVoiceClient *)
(* in the mobile app.  Joining is a chain of awaits, and leaving, joining  *)
(* elsewhere, a reload or a closed connection can come between any two of  *)
(* them.  Above it the web app rings (CallProvider, useCall.tsx): the      *)
(* caller joins the direct room and then rings, the callee joins it to     *)
(* accept, and either side's ring ends by an answer, a frame or a clock.   *)
(* LiveKit is external: it keeps one connection per person and room, and   *)
(* may close one at any time.                                              *)
(***************************************************************************)
EXTENDS Naturals, SequencesExt

CONSTANTS People,      \* two people who share a direct room
          Rooms,       \* rooms that carry media
          Dm,          \* their direct room
          None,        \* no room
          Apps,        \* the choices of a client for each: "web", "mobile" or "none"
          Reach,       \* per client, the rooms it shows a Join button for
          Speaking,    \* bound: the choices with which the mute button is used
          MaxTries,    \* bound: attempts to join: per choice, who may make how many
          MaxReloads   \* bound: reloads, or kills of the app

ASSUME PeopleKnown == \E a, b \in People : a # b /\ People = {a, b}
ASSUME RoomsKnown == Dm \in Rooms /\ None \notin Rooms
ASSUME AppsKnown == Apps \subseteq [People -> {"web", "mobile", "none"}]
ASSUME ReachKnown == Reach \in [{"web", "mobile", "none"} -> SUBSET Rooms]
ASSUME BoundsKnown ==
  /\ Speaking \subseteq Apps /\ MaxReloads \in Nat
  /\ DOMAIN MaxTries = Apps /\ \A a \in Apps : MaxTries[a] \subseteq [People -> Nat]

VARIABLES
  app,       \* the client each person runs
  dev,       \* each person's device
  frames,    \* ring frames on their way to each person
  reloads,   \* how many reloads there were
  fault      \* history: what has gone wrong for whom, "call" or "session"

vars == <<app, dev, frames, reloads, fault>>

Try == [to : Rooms \cup {None}, next : {"stay", "ring", "video", "rejoin"}, mic : BOOLEAN,
        phase : {"prompt", "session", "connect", "joined", "cut", "failing", "camera", "up",
                 "closed", "dead", "gone"}]

\* An attempt's `next` is what its caller does once join has returned.  `shown` is activeSession / activeRoomId, `room` roomRef / client.room (an
\* index into `tries`, or 0), `wanted` the phone's roomIdRef, `sees` that the
\* participants are not empty.  `leaving` holds what the leaves under way do
\* next, `out` the requests under way, `mic` the microphone change under way.
Off == [shown |-> None, room |-> 0, status |-> "idle", wanted |-> None, muted |-> TRUE,
        sees |-> FALSE, leaving |-> {}, out |-> {}, mic |-> [of |-> 0, on |-> FALSE],
        incoming |-> FALSE, outgoing |-> FALSE, tries |-> <<>>]

Init ==
  /\ app \in Apps
  /\ dev = [p \in People |-> Off] /\ frames = [p \in People |-> <<>>]
  /\ reloads = 0 /\ fault = [p \in People |-> "none"]

Live(t) == t.phase \in {"joined", "camera", "up"}
Going(t) == t.phase \in {"prompt", "session", "connect", "joined", "cut", "failing"}
In(p, r) == \E i \in DOMAIN dev[p].tries : Live(dev[p].tries[i]) /\ dev[p].tries[i].to = r
Others(p, r) == \E q \in People \ {p} : In(q, r)
Peer(p) == CHOOSE q \in People : q # p
MayTry(p) ==
  \E most \in MaxTries[app] :
    \A q \in People : Len(dev[q].tries) + (IF q = p THEN 1 ELSE 0) <= most[q]

----------------------------------------------------------------------------
(* The effects CallProvider runs after a render: anyone else in the room   *)
(* is the answer, and leaving the room by any route stops the ringing.     *)

\* Mutant: the last effect is missing.
RenderedAnsweredOnly(old, d) == IF d.sees /\ ~old.sees THEN [d EXCEPT !.outgoing = FALSE] ELSE d

Rendered(old, d) ==
  LET answered == IF d.sees /\ ~old.sees THEN [d EXCEPT !.outgoing = FALSE] ELSE d
  IN  IF answered.outgoing /\ answered.shown # old.shown /\ answered.shown # Dm
      THEN [answered EXCEPT !.outgoing = FALSE, !.out = @ \cup {"end"}]
      ELSE answered

Becomes(p, d) == dev' = [dev EXCEPT ![p] = Rendered(dev[p], d)]

\* A fault of the session (it joined while it still had a room, or left before
\* a join returned) outlasts one of the call (a frame lost or overtaken, a
\* connection dropped, a page reloaded, an answer that was none or came too early).
Fault(p, f) ==
  fault' = [fault EXCEPT ![p] = IF f = "none" \/ @ = "session" THEN @ ELSE f]
Noted(f, happened) == IF happened THEN f ELSE "none"

\* A ring of theirs is under way, or rings.
StillRings(p) ==
  "ring" \in dev[p].out \/ dev[Peer(p)].incoming \/ Contains(frames[Peer(p)], "ring")

With(d, i, t) == [d EXCEPT !.tries = [d.tries EXCEPT ![i] = t]]
At(d, i, phase) == With(d, i, [d.tries[i] EXCEPT !.phase = phase])

----------------------------------------------------------------------------
(* The media session.                                                      *)

\* join of VoiceProvider: nothing leaves the room it is in.
JoinWeb(d, r, next) ==
  [d EXCEPT !.status = "connecting", !.shown = r,
            !.tries = Append(@, [to |-> r, next |-> next, mic |-> FALSE, phase |-> "session"])]

\* join of useCallVM: the room is shown, then the microphone is asked for.
JoinMobile(d, r) ==
  [d EXCEPT !.shown = r, !.wanted = r,
            !.tries = Append(@, [to |-> None, next |-> "stay", mic |-> FALSE, phase |-> "prompt"])]

Crowded(d) == \E i \in DOMAIN d.tries : d.tries[i].phase # "gone"
Moved(d) == Noted("session", Crowded(d) \/ d.leaving # {})

\* The Join button of a room, drawn where the room is not the one shown; and
\* that of a call which failed (`inCall` of RoomRoute.tsx).
Offered(p) ==
  Reach[app[p]] \cup (IF app[p] = "web" /\ dev[p].shown = Dm /\ dev[p].status = "failed"
                      THEN {Dm} ELSE {})

Join(p, r) ==
  /\ r \in Offered(p) /\ MayTry(p)
  /\ IF app[p] = "web" THEN dev[p].shown = r => dev[p].status \in {"idle", "failed"}
                       ELSE dev[p].shown # r
  /\ Becomes(p, IF app[p] = "web" THEN JoinWeb(dev[p], r, "stay") ELSE JoinMobile(dev[p], r))
  /\ Fault(p, Moved(dev[p])) /\ UNCHANGED <<app, frames, reloads>>

\* LiveKitVoiceClient.join, after the prompt: only from rest, and for the room
\* that is wanted by now.
Prompted(p, i) ==
  /\ i \in DOMAIN dev[p].tries /\ dev[p].tries[i].phase = "prompt"
  /\ LET d == dev[p] IN
       Becomes(p, IF d.status \notin {"idle", "failed"} THEN At(d, i, "gone")
                  ELSE IF d.wanted = None THEN [At(d, i, "gone") EXCEPT !.status = "failed"]
                  ELSE [With(d, i, [d.tries[i] EXCEPT !.to = d.wanted, !.phase = "session"])
                          EXCEPT !.status = "connecting"])
  /\ UNCHANGED <<app, frames, reloads, fault>>

\* The session is there: a Room is made and told to connect.
SessionOpened(p, i) ==
  /\ i \in DOMAIN dev[p].tries /\ dev[p].tries[i].phase = "session"
  /\ Becomes(p, At(dev[p], i, "connect"))
  /\ UNCHANGED <<app, frames, reloads, fault>>

\* LiveKit lets the connection in and closes another of this person there.
\* The phone's listener sets the status before join returns.
Connected(p, i) ==
  /\ i \in DOMAIN dev[p].tries /\ dev[p].tries[i].phase = "connect"
  /\ LET d == dev[p]
         Kicked(t) == IF t.to # d.tries[i].to THEN t
                      ELSE IF t.phase = "joined" THEN [t EXCEPT !.phase = "cut"]
                      ELSE IF Live(t) THEN [t EXCEPT !.phase = "closed"] ELSE t
     IN  Becomes(p, [d EXCEPT
           !.status = IF app[p] = "mobile" THEN "connected" ELSE @,
           !.tries = [j \in DOMAIN d.tries |->
                        IF j = i THEN [d.tries[i] EXCEPT !.phase = "joined"]
                                 ELSE Kicked(d.tries[j])]])
  /\ UNCHANGED <<app, frames, reloads, fault>>

\* join returns: this is the room now, muted, also if its connection was closed
\* after it was let in.  `start` goes on in the same turn to show the call and
\* ring, unless it waits for the camera first.
Adopted(p, i) ==
  /\ i \in DOMAIN dev[p].tries /\ dev[p].tries[i].phase \in {"joined", "cut", "failing"}
  /\ LET t == dev[p].tries[i]
         held == CASE t.phase = "joined" -> IF t.next = "video" THEN "camera" ELSE "up"
                   [] t.phase = "cut" -> "closed"
                   [] OTHER -> "dead"
         d == [At(dev[p], i, held) EXCEPT
                 !.room = i, !.status = "connected", !.muted = TRUE,
                 !.sees = t.phase # "failing" /\ Others(p, t.to)]
     IN  /\ Becomes(p, IF t.next = "ring" THEN [d EXCEPT !.outgoing = TRUE, !.out = @ \cup {"ring"}]
                                           ELSE d)
         /\ Fault(p, Noted("call", t.next = "ring" /\ d.sees))
  /\ UNCHANGED <<app, frames, reloads>>

\* The camera is on, or was refused: the call is shown and rung, also if the room
\* was left while the camera opened.  Somebody who came meanwhile is not noticed
\* any more.
Started(p, i) ==
  /\ i \in DOMAIN dev[p].tries /\ dev[p].tries[i].next = "video" /\ ~Going(dev[p].tries[i])
  /\ LET t == dev[p].tries[i]
         d == With(dev[p], i, [t EXCEPT !.next = "stay",
                                 !.phase = IF @ = "camera" THEN "up" ELSE @])
     IN  /\ Becomes(p, [d EXCEPT !.outgoing = TRUE, !.out = @ \cup {"ring"}])
         /\ Fault(p, Noted("call", dev[p].sees \/ t.phase # "camera"))
  /\ UNCHANGED <<app, frames, reloads>>

\* A step of joining throws, and nothing follows; an automatic rejoin forgets the
\* session.
JoinFailed(p, i) ==
  /\ i \in DOMAIN dev[p].tries /\ dev[p].tries[i].phase \in {"session", "connect", "failing"}
  /\ LET d == [With(dev[p], i, [dev[p].tries[i] EXCEPT !.next = "stay", !.phase = "gone"])
                  EXCEPT !.status = "failed"]
     IN  Becomes(p, CASE app[p] = "mobile" /\ dev[p].tries[i].phase # "session" ->
                           [d EXCEPT !.room = 0]
                      [] dev[p].tries[i].next = "rejoin" -> [d EXCEPT !.shown = None]
                      [] OTHER -> d)
  /\ UNCHANGED <<app, frames, reloads, fault>>

\* What is reset once the connection is closed.  The phone stopped showing the
\* room when it was told to leave.
Left(d, web, next) ==
  [d EXCEPT !.shown = IF web THEN None ELSE @, !.status = "idle", !.wanted = None, !.muted = TRUE,
            !.sees = FALSE, !.leaving = @ \ {next},
            !.out = IF next = "end" THEN @ \cup {"end"} ELSE @]

\* Mutant: the room is let go of, and stays connected.
LeaveConnected(d, web, next) ==
  IF web /\ d.room = 0 THEN Left(d, web, next)
  ELSE [d EXCEPT !.room = 0, !.leaving = @ \cup {next}]

\* leave: the room that is held is disconnected, and then the rest is reset.
\* Without one the web has nothing to wait for.  Disconnecting runs the web's
\* own handler of Disconnected.
Leave(d, web, next) ==
  LET held == IF d.room = 0 THEN d ELSE [At(d, d.room, "gone") EXCEPT !.room = 0]
  IN  IF web /\ d.room = 0 THEN Left(d, web, next)
      ELSE [held EXCEPT !.leaving = @ \cup {next},
                        !.status = IF web THEN "idle" ELSE @,
                        !.sees = IF web THEN FALSE ELSE @,
                        !.shown = IF web THEN @ ELSE None]

MidJoin(d) == Noted("session", \E i \in DOMAIN d.tries : Going(d.tries[i]))

\* The hang-up buttons that only leave.
HangUp(p) ==
  /\ dev[p].shown # None /\ dev[p].leaving = {}
  /\ Becomes(p, Leave(dev[p], app[p] = "web", "stay"))
  /\ Fault(p, MidJoin(dev[p])) /\ UNCHANGED <<app, frames, reloads>>

LeaveDone(p, next) ==
  /\ next \in dev[p].leaving
  /\ Becomes(p, Left(dev[p], app[p] = "web", next))
  /\ UNCHANGED <<app, frames, reloads, fault>>

\* LiveKit closes a connection for good, ...
Closed(p, i) ==
  /\ i \in DOMAIN dev[p].tries /\ Live(dev[p].tries[i])
  /\ Becomes(p, At(dev[p], i, IF dev[p].tries[i].phase = "joined" THEN "cut" ELSE "closed"))
  /\ Fault(p, "call") /\ UNCHANGED <<app, frames, reloads>>

\* ... and its handler runs: the phone's asks whether it is the room held.  A join
\* that has not returned goes on.
Disconnected(p, i) ==
  /\ i \in DOMAIN dev[p].tries /\ dev[p].tries[i].phase \in {"closed", "cut"}
  /\ LET d == At(dev[p], i, IF dev[p].tries[i].phase = "cut" THEN "failing" ELSE "gone") IN
       Becomes(p, IF app[p] = "mobile" /\ d.room # i THEN d
                  ELSE [d EXCEPT !.room = 0, !.status = "idle", !.sees = FALSE])
  /\ UNCHANGED <<app, frames, reloads, fault>>

\* refreshParticipants, whenever somebody comes or goes.  Whoever comes is taken
\* for the answer, by a join made for an earlier ring too.
Refreshed(p) ==
  /\ dev[p].room # 0 /\ Live(dev[p].tries[dev[p].room])
  /\ LET now == Others(p, dev[p].tries[dev[p].room].to) IN
       /\ dev[p].sees # now /\ Becomes(p, [dev[p] EXCEPT !.sees = now])
       /\ Fault(p, Noted("call", dev[p].outgoing /\ now /\ StillRings(p)))
  /\ UNCHANGED <<app, frames, reloads>>

\* toggleMute, and what the microphone answers; without a room only the flag
\* is set.  One change at a time.
ToggleMute(p) ==
  /\ dev[p].shown # None /\ dev[p].mic.of = 0 /\ app \in Speaking
  /\ Becomes(p, IF dev[p].room = 0 THEN [dev[p] EXCEPT !.muted = ~@]
                ELSE [dev[p] EXCEPT !.mic = [of |-> dev[p].room, on |-> dev[p].muted]])
  /\ UNCHANGED <<app, frames, reloads, fault>>

MicChanged(p) ==
  /\ dev[p].mic.of # 0
  /\ LET d == [dev[p] EXCEPT !.mic = [of |-> 0, on |-> FALSE]]
         i == dev[p].mic.of
         on == dev[p].mic.on
         set == [d EXCEPT !.muted = ~on]
     IN  \/ Becomes(p, d)
         \/ Becomes(p, IF Live(d.tries[i])
                       THEN With(set, i, [d.tries[i] EXCEPT !.mic = on]) ELSE set)
  /\ UNCHANGED <<app, frames, reloads, fault>>

\* The page is reloaded, the app killed.  The web joins again what it stored.
Reload(p) ==
  /\ reloads < MaxReloads /\ reloads' = reloads + 1
  /\ app[p] # "none" /\ dev[p].shown # None
  /\ LET d == [Off EXCEPT !.out = dev[p].out,
                 !.tries = [i \in DOMAIN dev[p].tries |->
                              [dev[p].tries[i] EXCEPT !.next = "stay", !.phase = "gone",
                                                      !.mic = FALSE]]]
     IN  /\ app[p] = "web" => MayTry(p)
         /\ dev' = [dev EXCEPT ![p] = IF app[p] = "web" THEN JoinWeb(d, dev[p].shown, "rejoin")
                                                        ELSE d]
  /\ frames' = [frames EXCEPT ![p] = <<>>]
  /\ Fault(p, "call") /\ UNCHANGED app

----------------------------------------------------------------------------
(* Ringing, on the web.                                                    *)

\* start: the profile card and the friend list offer it at any time.
Start(p, video) ==
  /\ app[p] = "web" /\ MayTry(p)
  /\ Becomes(p, JoinWeb(dev[p], Dm, IF video THEN "video" ELSE "ring"))
  /\ Fault(p, Moved(dev[p])) /\ UNCHANGED <<app, frames, reloads>>

Accept(p) ==
  /\ dev[p].incoming /\ MayTry(p)
  /\ Becomes(p, JoinWeb([dev[p] EXCEPT !.incoming = FALSE], Dm, "stay"))
  /\ Fault(p, Moved(dev[p])) /\ UNCHANGED <<app, frames, reloads>>

Decline(p) ==
  /\ dev[p].incoming
  /\ Becomes(p, [dev[p] EXCEPT !.incoming = FALSE, !.out = @ \cup {"end"}])
  /\ UNCHANGED <<app, frames, reloads, fault>>

\* Mutant: the call is taken down and the room is not left.
CancelStaying(p) ==
  /\ dev[p].outgoing
  /\ Becomes(p, [dev[p] EXCEPT !.outgoing = FALSE, !.out = @ \cup {"end"}])
  /\ UNCHANGED <<app, frames, reloads, fault>>

\* cancel: the button, or the caller's clock.
Cancel(p) ==
  /\ dev[p].outgoing
  /\ Becomes(p, Leave([dev[p] EXCEPT !.outgoing = FALSE], TRUE, "end"))
  /\ Fault(p, MidJoin(dev[p])) /\ UNCHANGED <<app, frames, reloads>>

\* The callee's clock.
Missed(p) ==
  /\ dev[p].incoming
  /\ Becomes(p, [dev[p] EXCEPT !.incoming = FALSE])
  /\ UNCHANGED <<app, frames, reloads, fault>>

\* The server passes a request on to the other person's sockets; nothing keeps
\* it for somebody who has none.
Passed(p, kind) ==
  /\ kind \in dev[p].out
  /\ dev' = [dev EXCEPT ![p] = [dev[p] EXCEPT !.out = @ \ {kind}]]
  /\ LET q == Peer(p) IN
       \/ app[q] = "web" /\ frames' = [frames EXCEPT ![q] = Append(@, kind)]
          /\ Fault(p, Noted("call", kind = "end" /\ "ring" \in dev[p].out))
       \/ UNCHANGED frames /\ Fault(p, "call")
  /\ UNCHANGED <<app, reloads>>

\* A ring that is refused backs the call out; a refused end is let go.
Refused(p, kind) ==
  /\ kind \in dev[p].out
  /\ LET d == [dev[p] EXCEPT !.out = @ \ {kind}] IN
       Becomes(p, IF kind = "ring" THEN Leave([d EXCEPT !.outgoing = FALSE], TRUE, "stay")
                                   ELSE d)
  /\ Fault(p, IF kind = "ring" THEN MidJoin(dev[p]) ELSE "call")
  /\ UNCHANGED <<app, frames, reloads>>

\* call_ringing: the first ring stands.  call_ended: stop ringing, stop calling.
Heard(p) ==
  /\ frames[p] # <<>> /\ frames' = [frames EXCEPT ![p] = Tail(@)]
  /\ LET d == dev[p]
         quiet == [d EXCEPT !.incoming = FALSE]
     IN  Becomes(p, IF Head(frames[p]) = "ring" THEN [d EXCEPT !.incoming = TRUE]
                    ELSE IF d.outgoing THEN Leave([quiet EXCEPT !.outgoing = FALSE], TRUE, "stay")
                    ELSE quiet)
  /\ Fault(p, IF Head(frames[p]) = "ring" \/ ~dev[p].outgoing THEN "none"
              ELSE IF MidJoin(dev[p]) = "none" /\ StillRings(p) THEN "call" ELSE MidJoin(dev[p]))
  /\ UNCHANGED <<app, reloads>>

----------------------------------------------------------------------------
Attempt(p, i) ==
  \/ Prompted(p, i) \/ SessionOpened(p, i) \/ Connected(p, i) \/ Adopted(p, i)
  \/ Started(p, i) \/ JoinFailed(p, i) \/ Closed(p, i) \/ Disconnected(p, i)

Ringing(p) ==
  \/ \E video \in BOOLEAN : Start(p, video)
  \/ Accept(p) \/ Decline(p) \/ Cancel(p) \/ Missed(p) \/ Heard(p)
  \/ \E kind \in {"ring", "end"} : Passed(p, kind) \/ Refused(p, kind)

Next ==
  \E p \in People :
    \/ \E r \in Rooms : Join(p, r)
    \/ \E i \in DOMAIN dev[p].tries : Attempt(p, i)
    \/ \E next \in {"stay", "end"} : LeaveDone(p, next)
    \/ HangUp(p) \/ Refreshed(p) \/ ToggleMute(p) \/ MicChanged(p) \/ Reload(p)
    \/ Ringing(p)

\* What goes on by itself: promises settle, requests and frames arrive, clocks
\* run out.  Every attempt to join leads to finitely many such steps and there
\* are finitely many attempts, so each is fair when together they are.
Settles(p) ==
  \/ \E i \in DOMAIN dev[p].tries :
       \/ Prompted(p, i) \/ SessionOpened(p, i) \/ Connected(p, i) \/ Adopted(p, i)
       \/ Started(p, i) \/ JoinFailed(p, i) \/ Disconnected(p, i)
  \/ \E next \in {"stay", "end"} : LeaveDone(p, next)
  \/ \E kind \in {"ring", "end"} : Passed(p, kind) \/ Refused(p, kind)
  \/ Heard(p) \/ Cancel(p) \/ Missed(p)

Fairness == WF_vars(\E p \in People : Settles(p))

Spec == Init /\ [][Next]_vars /\ Fairness

----------------------------------------------------------------------------
(* Properties.                                                             *)

\* The types of the state.
TypeOK ==
  \A p \in People :
    LET d == dev[p] IN
      /\ d.shown \in Rooms \cup {None} /\ d.wanted \in Rooms \cup {None}
      /\ d.tries \in Seq(Try) /\ d.room \in 0..Len(d.tries)
      /\ d.status \in {"idle", "connecting", "connected", "failed"}
      /\ d.muted \in BOOLEAN /\ d.sees \in BOOLEAN
      /\ d.incoming \in BOOLEAN /\ d.outgoing \in BOOLEAN
      /\ d.leaving \subseteq {"stay", "end"} /\ d.out \subseteq {"ring", "end"}
      /\ d.mic \in [of : 0..Len(d.tries), on : BOOLEAN]
      /\ frames[p] \in Seq({"ring", "end"})

AtRest(p) ==
  /\ dev[p].leaving = {}
  /\ \A i \in DOMAIN dev[p].tries : dev[p].tries[i].phase \in {"up", "dead", "gone"}

\* Nobody is heard while their device says they are muted, on any connection.
MutedIsSilent(p) ==
  dev[p].muted /\ dev[p].mic.of = 0 =>
    \A i \in DOMAIN dev[p].tries : Live(dev[p].tries[i]) => ~dev[p].tries[i].mic

\* Whatever was awaited, refused or closed meanwhile: a device at rest is
\* connected to the room it shows and to no other, or to none, and one that
\* shows a crossed microphone is silent; unless it was told to join while it
\* still had a room, or left before a join returned.  The types come first.
DeviceIsHonest ==
  /\ TypeOK
  /\ \A p \in People : fault[p] # "session" =>
       /\ MutedIsSilent(p)
       /\ AtRest(p) => \A r \in Rooms : In(p, r) =>
                         r = dev[p].shown /\ dev[p].tries[dev[p].room].to = r

\* "arriving in an empty room would be a race the caller could lose" (start):
\* once nothing is under way, a ring still standing is one whose caller is in
\* the room; unless a frame was lost or overtaken, or the caller's connection,
\* or somebody who had not answered this ring was taken for the answer: then
\* the caller who hangs up tells nobody.
RingLeadsToCaller ==
  \A p \in People :
    LET q == Peer(p) IN
      /\ dev[p].incoming /\ frames[p] = <<>> /\ dev[q].out = {} /\ AtRest(q)
      /\ fault[p] = "none" /\ fault[q] = "none"
      => In(q, Dm)

\* "Declined or hung up: stop calling, and stop sitting alone in the room"
\* (call_ended), and the caller's clock: somebody who calls comes to have
\* company there, or comes out again.
NobodyWaitsAlone ==
  \A p \in People :
    dev[p].outgoing ~> (dev[p].shown # Dm \/ Others(p, Dm) \/ fault[p] # "none")
=============================================================================
