----------------------------- MODULE CallsProofs -----------------------------
(* Machine-checked facts about Calls, for any people, rooms and numbers of *)
(* attempts.                                                               *)
EXTENDS Calls, TLAPS

\* A device, and one whose session was never joined or left half-way.
Device ==
  [shown : Rooms \cup {None}, room : Nat,
   status : {"idle", "connecting", "connected", "failed"},
   wanted : Rooms \cup {None}, muted : BOOLEAN, sees : BOOLEAN,
   leaving : SUBSET {"stay", "end"}, out : SUBSET {"ring", "end"},
   mic : [of : Nat, on : BOOLEAN],
   incoming : BOOLEAN, outgoing : BOOLEAN, tries : Seq(Try)]

Typed(d) == d \in Device /\ d.room <= Len(d.tries) /\ d.mic.of <= Len(d.tries)

Joining == {"prompt", "session", "connect", "joined", "cut", "failing"}
Arrived == {"camera", "up", "closed", "dead"}

\* At most one attempt is not over; while there is one the device is leaving
\* nothing, and shows the room the attempt is for; it is the room held once
\* join has returned.
OneSession(d) ==
  \A i \in DOMAIN d.tries : d.tries[i].phase # "gone" =>
    /\ \A j \in DOMAIN d.tries : d.tries[j].phase # "gone" => i = j
    /\ d.leaving = {}
    /\ d.shown = IF d.tries[i].phase = "prompt" THEN d.wanted ELSE d.tries[i].to
    /\ d.tries[i].phase \in Arrived <=> d.room = i

HeldIsArrived(d) ==
  /\ d.room # 0 => d.tries[d.room].phase \in Arrived
  /\ d.mic.of # 0 => d.tries[d.mic.of].phase \in Arrived \cup {"gone"}

\* Nothing is heard before join has returned, and what is heard after is shown.
MicIsShown(d) ==
  \A i \in DOMAIN d.tries : d.tries[i].mic /\ d.tries[i].phase \notin {"closed", "dead", "gone"} =>
    /\ d.tries[i].phase \in Arrived
    /\ ~d.muted
    /\ d.mic.of \in {0, i}

Honest(d) == OneSession(d) /\ HeldIsArrived(d) /\ MicIsShown(d)

DevInv ==
  /\ app \in Apps
  /\ dev \in [People -> Device]
  /\ frames \in [People -> Seq({"ring", "end"})]
  /\ fault \in [People -> {"none", "call", "session"}]
  /\ \A p \in People : Typed(dev[p]) /\ (fault[p] # "session" => Honest(dev[p]))

----------------------------------------------------------------------------
(* What is done to a device.                                               *)

LEMMA TriesAreTyped ==
  ASSUME NEW d, Typed(d)
  PROVE  /\ d \in Device /\ d.tries \in Seq(Try) /\ Len(d.tries) \in Nat
         /\ DOMAIN d.tries = 1..Len(d.tries)
         /\ \A i \in DOMAIN d.tries : d.tries[i] \in Try
         /\ d.room \in 0..Len(d.tries) /\ d.mic.of \in 0..Len(d.tries)
<1>1. d \in Device /\ d.tries \in Seq(Try) /\ d.room \in Nat /\ d.mic.of \in Nat
  BY DEF Typed, Device
<1>2. Len(d.tries) \in Nat /\ DOMAIN d.tries = 1..Len(d.tries)
  BY <1>1
<1>3. \A i \in DOMAIN d.tries : d.tries[i] \in Try
  BY <1>1, <1>2
<1> HIDE DEF Try
<1> QED
  BY <1>1, <1>2, <1>3 DEF Typed

\* Fields nothing here reads may change.
LEMMA AlikeIsHonest ==
  ASSUME NEW d, NEW e, Typed(d), e \in Device,
         e.tries = d.tries, e.room = d.room, e.mic = d.mic, e.shown = d.shown,
         e.wanted = d.wanted, e.leaving = d.leaving, e.muted = d.muted
  PROVE  Typed(e) /\ (Honest(d) => Honest(e))
BY DEF Typed, Honest, OneSession, HeldIsArrived, MicIsShown

LEMMA RenderedIsHonest ==
  ASSUME NEW d, NEW old, Typed(d)
  PROVE  Typed(Rendered(old, d)) /\ (Honest(d) => Honest(Rendered(old, d)))
<1> DEFINE answered == IF d.sees /\ ~old.sees THEN [d EXCEPT !.outgoing = FALSE] ELSE d
           ended == [answered EXCEPT !.outgoing = FALSE, !.out = answered.out \cup {"end"}]
<1>0. d \in Device
  BY DEF Typed
<1>1. /\ answered \in Device
      /\ answered.tries = d.tries /\ answered.room = d.room /\ answered.mic = d.mic
      /\ answered.shown = d.shown /\ answered.wanted = d.wanted
      /\ answered.leaving = d.leaving /\ answered.muted = d.muted
  BY <1>0 DEF Device
<1>2. Rendered(old, d) \in {answered, ended}
  BY DEF Rendered
<1>3. Typed(answered) /\ (Honest(d) => Honest(answered))
  <2> HIDE DEF answered
  <2> QED
    BY <1>1, AlikeIsHonest
<1> HIDE DEF answered
<1>4. /\ ended \in Device
      /\ ended.tries = answered.tries /\ ended.room = answered.room /\ ended.mic = answered.mic
      /\ ended.shown = answered.shown /\ ended.wanted = answered.wanted
      /\ ended.leaving = answered.leaving /\ ended.muted = answered.muted
  BY <1>1 DEF Device
<1> HIDE DEF ended
<1>5. Typed(ended) /\ (Honest(answered) => Honest(ended))
  BY <1>3, <1>4, AlikeIsHonest
<1> QED
  BY <1>2, <1>3, <1>5

LEMMA WithIsTyped ==
  ASSUME NEW d, Typed(d), NEW i \in DOMAIN d.tries, NEW t \in Try
  PROVE  LET e == With(d, i, t) IN
         /\ Typed(e) /\ DOMAIN e.tries = DOMAIN d.tries
         /\ e.tries[i] = t
         /\ \A j \in DOMAIN d.tries : j # i => e.tries[j] = d.tries[j]
         /\ e.room = d.room /\ e.mic = d.mic /\ e.shown = d.shown
         /\ e.wanted = d.wanted /\ e.leaving = d.leaving /\ e.muted = d.muted
         /\ e.status = d.status /\ e.sees = d.sees
         /\ e.incoming = d.incoming /\ e.outgoing = d.outgoing /\ e.out = d.out
<1> DEFINE s == [d.tries EXCEPT ![i] = t]
<1>1. /\ d \in Device /\ d.tries \in Seq(Try) /\ DOMAIN d.tries = 1..Len(d.tries)
      /\ d.room <= Len(d.tries) /\ d.mic.of <= Len(d.tries)
  BY TriesAreTyped DEF Typed
<1>2. s \in Seq(Try) /\ Len(s) = Len(d.tries) /\ DOMAIN s = DOMAIN d.tries
  BY <1>1
<1>3. s[i] = t /\ \A j \in DOMAIN d.tries : j # i => s[j] = d.tries[j]
  BY <1>1
<1>4. With(d, i, t) = [d EXCEPT !.tries = s]
  BY DEF With
<1> HIDE DEF s
<1>5. /\ With(d, i, t) \in Device /\ With(d, i, t).tries = s
      /\ LET e == With(d, i, t) IN
           /\ e.room = d.room /\ e.mic = d.mic /\ e.shown = d.shown
           /\ e.wanted = d.wanted /\ e.leaving = d.leaving /\ e.muted = d.muted
           /\ e.status = d.status /\ e.sees = d.sees
         /\ e.incoming = d.incoming /\ e.outgoing = d.outgoing /\ e.out = d.out
  BY <1>1, <1>2, <1>4 DEF Device
<1> QED
  BY <1>1, <1>2, <1>3, <1>5 DEF s, Typed

\* An attempt that begins.
LEMMA AppendedIsHonest ==
  ASSUME NEW d, Typed(d), NEW t \in Try, t.phase \in {"prompt", "session"}, ~t.mic,
         NEW e \in Device, e.tries = Append(d.tries, t),
         e.room = d.room, e.mic = d.mic, e.leaving = d.leaving, e.muted = d.muted,
         e.shown = IF t.phase = "prompt" THEN e.wanted ELSE t.to
  PROVE  /\ Typed(e)
         /\ Honest(d) /\ Moved(d) # "session" => Honest(e)
<1>1. /\ d \in Device /\ d.tries \in Seq(Try) /\ Len(d.tries) \in Nat
      /\ DOMAIN d.tries = 1..Len(d.tries)
      /\ d.room \in 0..Len(d.tries) /\ d.mic.of \in 0..Len(d.tries)
  BY TriesAreTyped
<1>2. /\ Len(e.tries) = Len(d.tries) + 1 /\ DOMAIN e.tries = 1..(Len(d.tries) + 1)
      /\ e.tries[Len(d.tries) + 1] = t
      /\ \A i \in DOMAIN d.tries : e.tries[i] = d.tries[i]
  BY <1>1
<1>3. Typed(e)
  BY <1>1, <1>2 DEF Typed
<1>4. ASSUME Honest(d), Moved(d) # "session" PROVE Honest(e)
  <2>1. d.leaving = {} /\ \A i \in DOMAIN d.tries : d.tries[i].phase = "gone"
    BY <1>4 DEF Moved, Noted, Crowded
  <2>2. d.room = 0
    BY <1>1, <1>4, <2>1 DEF Honest, HeldIsArrived, Arrived
  <2>3. \A i \in DOMAIN e.tries : i # Len(d.tries) + 1 =>
          i \in DOMAIN d.tries /\ e.tries[i].phase = "gone"
    BY <1>1, <1>2, <2>1
  <2>4. OneSession(e)
    BY <1>1, <1>2, <2>1, <2>2, <2>3 DEF OneSession, Arrived
  <2>5. HeldIsArrived(e)
    BY <1>1, <1>2, <1>4, <2>2 DEF Honest, HeldIsArrived
  <2>6. MicIsShown(e)
    BY <1>2, <2>3 DEF MicIsShown
  <2> QED
    BY <2>4, <2>5, <2>6 DEF Honest
<1> QED
  BY <1>3, <1>4

LEMMA AtIsTyped ==
  ASSUME NEW d, Typed(d), NEW i \in DOMAIN d.tries,
         NEW ph \in {"prompt", "session", "connect", "joined", "cut", "failing", "camera", "up",
                     "closed", "dead", "gone"}
  PROVE  LET e == At(d, i, ph) IN
         /\ Typed(e) /\ DOMAIN e.tries = DOMAIN d.tries
         /\ e.tries[i].phase = ph /\ e.tries[i].to = d.tries[i].to
         /\ e.tries[i].mic = d.tries[i].mic /\ e.tries[i].next = d.tries[i].next
         /\ \A j \in DOMAIN d.tries : j # i => e.tries[j] = d.tries[j]
         /\ e.room = d.room /\ e.mic = d.mic /\ e.shown = d.shown
         /\ e.wanted = d.wanted /\ e.leaving = d.leaving /\ e.muted = d.muted
         /\ e.status = d.status /\ e.sees = d.sees
         /\ e.incoming = d.incoming /\ e.outgoing = d.outgoing /\ e.out = d.out
<1> DEFINE t == [d.tries[i] EXCEPT !.phase = ph]
<1>1. d.tries[i] \in Try
  BY TriesAreTyped
<1>2. t \in Try /\ t.phase = ph /\ t.to = d.tries[i].to /\ t.mic = d.tries[i].mic
      /\ t.next = d.tries[i].next
  BY <1>1 DEF Try
<1>3. At(d, i, ph) = With(d, i, t)
  BY DEF At
<1> DEFINE g == With(d, i, t)
<1> HIDE DEF t
<1>4. /\ Typed(g) /\ DOMAIN g.tries = DOMAIN d.tries /\ g.tries[i] = t
      /\ \A j \in DOMAIN d.tries : j # i => g.tries[j] = d.tries[j]
      /\ g.room = d.room /\ g.mic = d.mic /\ g.shown = d.shown
      /\ g.wanted = d.wanted /\ g.leaving = d.leaving /\ g.muted = d.muted
      /\ g.status = d.status /\ g.sees = d.sees
      /\ g.incoming = d.incoming /\ g.outgoing = d.outgoing /\ g.out = d.out
  BY <1>2, WithIsTyped
<1> HIDE DEF g
<1>5. At(d, i, ph) = g
  BY <1>3 DEF g
<1> QED
  BY <1>2, <1>4, <1>5, Zenon

AllOver(d) == \A i \in DOMAIN d.tries : d.tries[i].phase = "gone"

LEMMA OverIsHonest ==
  ASSUME NEW d, AllOver(d), HeldIsArrived(d)
  PROVE  Honest(d)
BY DEF AllOver, Honest, OneSession, MicIsShown

\* No room is held when no attempt has one.
LEMMA OverHoldsNone ==
  ASSUME NEW d, Typed(d), Honest(d), AllOver(d)
  PROVE  d.room = 0
BY TriesAreTyped DEF AllOver, Honest, HeldIsArrived, Arrived

LEMMA LeftIsHonest ==
  ASSUME NEW d, Typed(d), NEW web \in BOOLEAN, NEW next \in {"stay", "end"}
  PROVE  LET e == Left(d, web, next) IN
         Typed(e) /\ (HeldIsArrived(d) /\ AllOver(d) => Honest(e))
<1> DEFINE e == Left(d, web, next)
<1>1. e \in Device /\ e.tries = d.tries /\ e.room = d.room /\ e.mic = d.mic
  BY DEF Typed, Left, Device
<1> HIDE DEF e
<1>2. Typed(e)
  BY <1>1 DEF Typed
<1>3. HeldIsArrived(d) /\ AllOver(d) => HeldIsArrived(e) /\ AllOver(e)
  BY <1>1 DEF HeldIsArrived, AllOver
<1>4. Typed(e) /\ (HeldIsArrived(d) /\ AllOver(d) => Honest(e))
  BY <1>2, <1>3, OverIsHonest
<1> QED
  BY <1>4 DEF e

\* A room that is held is let go of; without one the device waits for nothing
\* but a join that returns, and that is a fault.
LEMMA LeaveIsHonest ==
  ASSUME NEW d, Typed(d), NEW web \in BOOLEAN, NEW next \in {"stay", "end"}
  PROVE  LET e == Leave(d, web, next) IN
         Typed(e) /\ (Honest(d) /\ MidJoin(d) # "session" => Honest(e))
<1>0. /\ d \in Device /\ DOMAIN d.tries = 1..Len(d.tries) /\ Len(d.tries) \in Nat
      /\ d.room \in 0..Len(d.tries) /\ d.mic.of \in 0..Len(d.tries)
      /\ \A i \in DOMAIN d.tries : d.tries[i] \in Try
  BY TriesAreTyped
<1>1. Honest(d) /\ MidJoin(d) # "session" =>
        \A i \in DOMAIN d.tries : d.tries[i].phase # "gone" => i = d.room
  BY <1>0 DEF MidJoin, Noted, Going, Honest, OneSession, Arrived, Try
<1> DEFINE held == IF d.room = 0 THEN d ELSE [At(d, d.room, "gone") EXCEPT !.room = 0]
<1>2. /\ Typed(held) /\ held.room = 0
      /\ Honest(d) /\ MidJoin(d) # "session" => HeldIsArrived(held) /\ AllOver(held)
  <2>1. CASE d.room = 0
    BY <1>0, <1>1, <2>1 DEF AllOver, Honest
  <2>2. CASE d.room # 0
    <3> DEFINE g == At(d, d.room, "gone")
    <3>1. d.room \in DOMAIN d.tries
      BY <1>0, <2>2
    <3>2. /\ Typed(g) /\ DOMAIN g.tries = DOMAIN d.tries
          /\ g.tries[d.room].phase = "gone" /\ g.mic = d.mic
          /\ \A j \in DOMAIN d.tries : j # d.room => g.tries[j] = d.tries[j]
      BY <3>1, AtIsTyped
    <3> HIDE DEF g
    <3>3. [g EXCEPT !.room = 0] \in Device
      BY <3>2 DEF Typed, Device
    <3>4. /\ held = [g EXCEPT !.room = 0]
      BY <2>2 DEF g
    <3> HIDE DEF held
    <3>5. held.tries = g.tries /\ held.mic = g.mic /\ held.room = 0
      BY <3>2, <3>4 DEF Typed, Device
    <3>6. Typed(held)
      BY <3>2, <3>3, <3>4, <3>5, TriesAreTyped DEF Typed
    <3>7. ASSUME Honest(d), MidJoin(d) # "session" PROVE HeldIsArrived(held) /\ AllOver(held)
      <4>1. d.mic.of # 0 => d.mic.of \in DOMAIN d.tries
        BY <1>0
      <4>2. AllOver(held)
        BY <1>1, <3>2, <3>5, <3>7 DEF AllOver
      <4>3. \A j \in DOMAIN d.tries : held.tries[j].phase = "gone"
        BY <3>2, <3>5, <4>2 DEF AllOver
      <4> QED
        BY <3>2, <3>5, <4>1, <4>2, <4>3 DEF HeldIsArrived
    <3> QED
      BY <3>5, <3>6, <3>7
  <2> QED
    BY <2>1, <2>2
<1>3. CASE web /\ d.room = 0
  <2>1. Leave(d, web, next) = Left(d, web, next)
    BY <1>3 DEF Leave
  <2>2. held = d
    BY <1>3
  <2> HIDE DEF held
  <2> QED
    BY <1>2, <2>1, <2>2, LeftIsHonest
<1>4. CASE ~(web /\ d.room = 0)
  <2> DEFINE e == Leave(d, web, next)
  <2>1. e = [held EXCEPT !.leaving = held.leaving \cup {next},
                         !.status = IF web THEN "idle" ELSE held.status,
                         !.sees = IF web THEN FALSE ELSE held.sees,
                         !.shown = IF web THEN held.shown ELSE None]
    BY <1>4 DEF Leave
  <2> HIDE DEF held, e
  <2>2. e \in Device /\ e.tries = held.tries /\ e.room = held.room /\ e.mic = held.mic
    BY <1>2, <2>1 DEF Typed, Device
  <2>3. Typed(e)
    BY <1>2, <2>2 DEF Typed
  <2>4. Honest(d) /\ MidJoin(d) # "session" => HeldIsArrived(e) /\ AllOver(e)
    BY <1>2, <2>2 DEF HeldIsArrived, AllOver
  <2>5. Typed(e) /\ (Honest(d) /\ MidJoin(d) # "session" => Honest(e))
    BY <2>3, <2>4, OverIsHonest
  <2> QED
    BY <2>5 DEF e
<1> QED
  BY <1>3, <1>4

----------------------------------------------------------------------------
(* What a step of one person keeps.                                        *)

LEMMA StoredStep ==
  ASSUME DevInv, NEW p \in People, NEW d, Typed(d), dev' = [dev EXCEPT ![p] = d],
         app' = app, frames' \in [People -> Seq({"ring", "end"})],
         NEW f \in {"none", "call", "session"}, Fault(p, f),
         fault[p] # "session" /\ f # "session" => Honest(d)
  PROVE  DevInv'
<1>1. d \in Device
  BY DEF Typed
<1>2. /\ dev \in [People -> Device] /\ dev' \in [People -> Device] /\ dev'[p] = d
      /\ \A q \in People : q # p => dev'[q] = dev[q]
  BY <1>1 DEF DevInv
<1>3. /\ fault \in [People -> {"none", "call", "session"}]
      /\ fault' \in [People -> {"none", "call", "session"}]
      /\ fault'[p] # "session" => fault[p] # "session" /\ f # "session"
      /\ \A q \in People : q # p => fault'[q] = fault[q]
  BY DEF Fault, DevInv
<1>4. \A q \in People : Typed(dev'[q]) /\ (fault'[q] # "session" => Honest(dev'[q]))
  BY <1>2, <1>3 DEF DevInv
<1> HIDE DEF Typed, Honest
<1> QED
  BY <1>2, <1>3, <1>4 DEF DevInv

LEMMA DeviceStep ==
  ASSUME DevInv, NEW p \in People, NEW d, Typed(d), Becomes(p, d),
         app' = app, frames' \in [People -> Seq({"ring", "end"})],
         NEW f \in {"none", "call", "session"}, Fault(p, f),
         fault[p] # "session" /\ f # "session" => Honest(d)
  PROVE  DevInv'
<1> DEFINE e == Rendered(dev[p], d)
<1>1. Typed(e) /\ (Honest(d) => Honest(e))
  BY RenderedIsHonest
<1>2. dev' = [dev EXCEPT ![p] = e]
  BY DEF Becomes
<1> HIDE DEF e
<1> QED
  BY <1>1, <1>2, StoredStep

LEMMA QuietStep ==
  ASSUME DevInv, NEW p \in People, NEW d, Typed(d), Becomes(p, d),
         UNCHANGED <<app, fault>>, frames' \in [People -> Seq({"ring", "end"})],
         fault[p] # "session" => Honest(d)
  PROVE  DevInv'
<1>1. Fault(p, "none")
  BY DEF Fault, DevInv
<1> QED
  BY <1>1, DeviceStep

\* e is d with attempt i gone on, or ended.
Moves(d, i, e) ==
  /\ DOMAIN e.tries = DOMAIN d.tries
  /\ \A j \in DOMAIN d.tries : j # i => e.tries[j] = d.tries[j]
  /\ e.mic = d.mic /\ e.leaving = d.leaving /\ e.room \in {0, i}
  /\ e.tries[i].phase # "gone" =>
       e.shown = IF e.tries[i].phase = "prompt" THEN e.wanted ELSE e.tries[i].to
  /\ e.tries[i].phase \in Arrived <=> e.room = i
  /\ d.tries[i].phase \in Arrived => e.tries[i].phase \in Arrived \cup {"gone"}
  /\ e.tries[i].mic /\ e.tries[i].phase \notin {"closed", "dead", "gone"} =>
       e.tries[i].phase \in Arrived /\ ~e.muted /\ d.mic.of \in {0, i}

LEMMA MovesOn ==
  ASSUME NEW d, Typed(d), Honest(d), NEW i \in DOMAIN d.tries, d.tries[i].phase # "gone",
         NEW e, Moves(d, i, e)
  PROVE  Honest(e)
<1>0. /\ DOMAIN d.tries = 1..Len(d.tries) /\ Len(d.tries) \in Nat
      /\ d.mic.of \in 0..Len(d.tries)
  BY TriesAreTyped
<1>1. d.leaving = {} /\ \A j \in DOMAIN d.tries : j # i => d.tries[j].phase = "gone"
  BY DEF Honest, OneSession
<1>2. \A j \in DOMAIN e.tries : j # i => e.tries[j].phase = "gone"
  BY <1>1 DEF Moves
<1>3. OneSession(e)
  BY <1>1, <1>2 DEF OneSession, Moves
<1>4. HeldIsArrived(e)
  <2>1. d.mic.of # 0 => e.tries[d.mic.of].phase \in Arrived \cup {"gone"}
    BY <1>0, <1>2 DEF Honest, HeldIsArrived, Moves
  <2> QED
    BY <1>0, <2>1 DEF HeldIsArrived, Moves
<1>5. MicIsShown(e)
  BY <1>2 DEF MicIsShown, Moves
<1> QED
  BY <1>3, <1>4, <1>5 DEF Honest

\* What an attempt that is not over says of its device.
LEMMA OneSessionSays ==
  ASSUME NEW d, Typed(d), Honest(d), NEW i \in DOMAIN d.tries, d.tries[i].phase # "gone"
  PROVE  /\ d.tries[i].phase \in Arrived => d.room = i
         /\ d.tries[i].phase \notin Arrived => d.room = 0 /\ ~d.tries[i].mic
         /\ d.tries[i].phase # "prompt" => d.shown = d.tries[i].to
         /\ d.tries[i].phase = "prompt" => d.shown = d.wanted
         /\ d.leaving = {}
         /\ \A j \in DOMAIN d.tries : j # i => d.tries[j].phase = "gone"
         /\ d.tries[i].mic /\ d.tries[i].phase \notin {"closed", "dead"} =>
              ~d.muted /\ d.mic.of \in {0, i}
<1>1. DOMAIN d.tries = 1..Len(d.tries) /\ Len(d.tries) \in Nat /\ d.room \in 0..Len(d.tries)
  BY TriesAreTyped
<1>2. /\ d.tries[i].phase \in Arrived <=> d.room = i
      /\ \A j \in DOMAIN d.tries : d.tries[j].phase # "gone" => i = j
      /\ d.leaving = {}
      /\ d.shown = IF d.tries[i].phase = "prompt" THEN d.wanted ELSE d.tries[i].to
  BY DEF Honest, OneSession
<1>3. d.room # 0 => d.room = i
  BY <1>1, <1>2 DEF Honest, HeldIsArrived, Arrived
<1>4. d.tries[i].phase \notin Arrived => ~d.tries[i].mic
  BY DEF Honest, MicIsShown, Arrived
<1> QED
  BY <1>2, <1>3, <1>4 DEF Honest, MicIsShown

LEMMA PersonIsTyped ==
  ASSUME DevInv, NEW p \in People
  PROVE  /\ Typed(dev[p]) /\ dev[p] \in Device
         /\ fault[p] # "session" => Honest(dev[p])
         /\ app[p] \in {"web", "mobile", "none"}
         /\ fault[p] \in {"none", "call", "session"}
         /\ frames \in [People -> Seq({"ring", "end"})]
BY AppsKnown DEF DevInv

LEMMA JoinWebIsHonest ==
  ASSUME NEW d, Typed(d), NEW r \in Rooms, NEW next \in {"stay", "ring", "video", "rejoin"}
  PROVE  LET e == JoinWeb(d, r, next) IN
         Typed(e) /\ (Honest(d) /\ Moved(d) # "session" => Honest(e))
<1> DEFINE t == [to |-> r, next |-> next, mic |-> FALSE, phase |-> "session"]
           g == JoinWeb(d, r, next)
<1>1. t \in Try /\ t.phase = "session" /\ ~t.mic /\ t.to = r
  BY DEF Try
<1>2. g = [d EXCEPT !.status = "connecting", !.shown = r, !.tries = Append(d.tries, t)]
  BY DEF JoinWeb
<1> HIDE DEF t, g
<1>3. d \in Device /\ Append(d.tries, t) \in Seq(Try)
  BY <1>1 DEF Typed, Device
<1>4. /\ g \in Device /\ g.tries = Append(d.tries, t) /\ g.shown = r
      /\ g.room = d.room /\ g.mic = d.mic /\ g.leaving = d.leaving /\ g.muted = d.muted
  BY <1>2, <1>3 DEF Device
<1>5. Typed(g) /\ (Honest(d) /\ Moved(d) # "session" => Honest(g))
  BY <1>1, <1>4, AppendedIsHonest
<1> QED
  BY <1>5 DEF g

LEMMA JoinMobileIsHonest ==
  ASSUME NEW d, Typed(d), NEW r \in Rooms
  PROVE  LET e == JoinMobile(d, r) IN
         Typed(e) /\ (Honest(d) /\ Moved(d) # "session" => Honest(e))
<1> DEFINE t == [to |-> None, next |-> "stay", mic |-> FALSE, phase |-> "prompt"]
           g == JoinMobile(d, r)
<1>1. t \in Try /\ t.phase = "prompt" /\ ~t.mic
  BY DEF Try
<1>2. g = [d EXCEPT !.shown = r, !.wanted = r, !.tries = Append(d.tries, t)]
  BY DEF JoinMobile
<1> HIDE DEF t, g
<1>3. d \in Device /\ Append(d.tries, t) \in Seq(Try)
  BY <1>1 DEF Typed, Device
<1>4. /\ g \in Device /\ g.tries = Append(d.tries, t) /\ g.shown = r /\ g.wanted = r
      /\ g.room = d.room /\ g.mic = d.mic /\ g.leaving = d.leaving /\ g.muted = d.muted
  BY <1>2, <1>3 DEF Device
<1>5. Typed(g) /\ (Honest(d) /\ Moved(d) # "session" => Honest(g))
  BY <1>1, <1>4, AppendedIsHonest
<1> QED
  BY <1>5 DEF g

LEMMA MovedIsAFault == \A d : Moved(d) \in {"none", "session"} /\ MidJoin(d) \in {"none", "session"}
BY DEF Moved, MidJoin, Noted

----------------------------------------------------------------------------
(* The attempts.                                                           *)

LEMMA JoinStep ==
  ASSUME DevInv, NEW p \in People, NEW r \in Rooms, Join(p, r)
  PROVE  DevInv'
<1>0. Typed(dev[p]) /\ (fault[p] # "session" => Honest(dev[p]))
  BY PersonIsTyped
<1>1. /\ UNCHANGED <<app, frames>> /\ Fault(p, Moved(dev[p]))
      /\ frames' \in [People -> Seq({"ring", "end"})]
      /\ Moved(dev[p]) \in {"none", "call", "session"}
  BY MovedIsAFault DEF Join, DevInv
<1>2. CASE app[p] = "web"
  <2>1. Becomes(p, JoinWeb(dev[p], r, "stay"))
    BY <1>2 DEF Join
  <2> QED
    BY <1>0, <1>1, <2>1, JoinWebIsHonest, DeviceStep
<1>3. CASE app[p] # "web"
  <2>1. Becomes(p, JoinMobile(dev[p], r))
    BY <1>3 DEF Join
  <2> QED
    BY <1>0, <1>1, <2>1, JoinMobileIsHonest, DeviceStep
<1> QED
  BY <1>2, <1>3

LEMMA PromptedStep ==
  ASSUME DevInv, NEW p \in People, NEW i \in DOMAIN dev[p].tries, Prompted(p, i)
  PROVE  DevInv'
<1> DEFINE d == dev[p]
<1>0. /\ Typed(d) /\ (fault[p] # "session" => Honest(d)) /\ d \in Device
      /\ UNCHANGED <<app, fault>> /\ frames' \in [People -> Seq({"ring", "end"})]
      /\ i \in DOMAIN d.tries /\ d.tries[i] \in Try /\ d.tries[i].phase = "prompt"
  BY PersonIsTyped, TriesAreTyped DEF Prompted
<1> DEFINE over == At(d, i, "gone")
           refused == [over EXCEPT !.status = "failed"]
           asked == [d.tries[i] EXCEPT !.to = d.wanted, !.phase = "session"]
           named == With(d, i, asked)
           begun == [named EXCEPT !.status = "connecting"]
<1>1. \/ Becomes(p, over)
      \/ Becomes(p, refused)
      \/ d.wanted # None /\ Becomes(p, begun)
  BY DEF Prompted
<1> HIDE DEF d
<1>2. Typed(over) /\ (Honest(d) => Honest(over))
  <2> HIDE DEF over
  <2>1. /\ Typed(over) /\ DOMAIN over.tries = DOMAIN d.tries
        /\ over.tries[i].phase = "gone"
        /\ \A j \in DOMAIN d.tries : j # i => over.tries[j] = d.tries[j]
        /\ over.room = d.room /\ over.mic = d.mic /\ over.leaving = d.leaving
    BY <1>0, AtIsTyped DEF over
  <2>2. ASSUME Honest(d) PROVE Honest(over)
    <3>1. d.room = 0
      BY <1>0, <2>2, OneSessionSays DEF Arrived
    <3>2. Moves(d, i, over)
      BY <1>0, <2>1, <3>1, TriesAreTyped DEF Moves, Arrived
    <3> QED
      BY <1>0, <2>2, <3>2, MovesOn
  <2> QED
    BY <2>1, <2>2
<1>3. Typed(refused) /\ (Honest(d) => Honest(refused))
  <2> HIDE DEF over
  <2>1. refused \in Device /\ over \in Device
    BY <1>2 DEF Typed, Device
  <2>2. /\ refused.tries = over.tries /\ refused.room = over.room /\ refused.mic = over.mic
        /\ refused.shown = over.shown /\ refused.wanted = over.wanted
        /\ refused.leaving = over.leaving /\ refused.muted = over.muted
    BY <2>1 DEF Device
  <2> HIDE DEF refused
  <2> QED
    BY <1>2, <2>1, <2>2, AlikeIsHonest
<1>4. Typed(begun) /\ (Honest(d) => Honest(begun))
  <2>1. /\ asked \in Try /\ asked.phase = "session" /\ asked.to = d.wanted
        /\ asked.mic = d.tries[i].mic
    BY <1>0 DEF Try, Device
  <2> HIDE DEF asked, named
  <2>2. /\ Typed(named) /\ DOMAIN named.tries = DOMAIN d.tries /\ named.tries[i] = asked
        /\ \A j \in DOMAIN d.tries : j # i => named.tries[j] = d.tries[j]
        /\ named.room = d.room /\ named.mic = d.mic /\ named.leaving = d.leaving
        /\ named.shown = d.shown /\ named.muted = d.muted
    BY <1>0, <2>1, WithIsTyped DEF named
  <2>3. /\ begun \in Device /\ begun.tries = named.tries /\ begun.room = named.room
        /\ begun.mic = named.mic /\ begun.leaving = named.leaving
        /\ begun.shown = named.shown /\ begun.muted = named.muted
        /\ begun.wanted = named.wanted
    BY <2>2 DEF Typed, Device
  <2> HIDE DEF begun
  <2>4. Typed(begun)
    BY <2>2, <2>3, AlikeIsHonest
  <2>5. ASSUME Honest(d) PROVE Honest(begun)
    <3>1. d.room = 0 /\ d.shown = d.wanted /\ ~d.tries[i].mic
      BY <1>0, <2>5, OneSessionSays DEF Arrived
    <3>2. Moves(d, i, begun)
      BY <1>0, <2>1, <2>2, <2>3, <3>1, TriesAreTyped DEF Moves, Arrived
    <3> QED
      BY <1>0, <2>5, <3>2, MovesOn
  <2> QED
    BY <2>4, <2>5
<1> HIDE DEF over, refused, begun
<1> QED
  BY <1>0, <1>1, <1>2, <1>3, <1>4, QuietStep DEF d

\* A join that goes on, and one that is over.
LEMMA JoiningIsHonest ==
  ASSUME NEW d, Typed(d), NEW i \in DOMAIN d.tries,
         d.tries[i].phase \in {"session", "connect", "joined", "cut", "failing"},
         NEW ph \in {"connect", "cut", "failing", "gone"}
  PROVE  Typed(At(d, i, ph)) /\ (Honest(d) => Honest(At(d, i, ph)))
<1> DEFINE e == At(d, i, ph)
<1>1. /\ Typed(e) /\ DOMAIN e.tries = DOMAIN d.tries
      /\ e.tries[i].phase = ph /\ e.tries[i].to = d.tries[i].to
      /\ e.tries[i].mic = d.tries[i].mic
      /\ \A j \in DOMAIN d.tries : j # i => e.tries[j] = d.tries[j]
      /\ e.room = d.room /\ e.mic = d.mic /\ e.leaving = d.leaving /\ e.shown = d.shown
  BY AtIsTyped, SMTT(60)
<1> HIDE DEF e
<1>2. ASSUME Honest(d) PROVE Honest(e)
  <2>1. d.room = 0 /\ ~d.tries[i].mic /\ d.shown = d.tries[i].to
    BY <1>2, OneSessionSays DEF Arrived
  <2>2. Moves(d, i, e)
    BY <1>1, <2>1, TriesAreTyped DEF Moves, Arrived
  <2> QED
    BY <1>2, <2>2, MovesOn
<1>3. Typed(e) /\ (Honest(d) => Honest(e))
  BY <1>1, <1>2
<1> QED
  BY <1>3 DEF e

LEMMA OpenedStep ==
  ASSUME DevInv, NEW p \in People, NEW i \in DOMAIN dev[p].tries, SessionOpened(p, i)
  PROVE  DevInv'
<1>1. /\ Typed(dev[p]) /\ (fault[p] # "session" => Honest(dev[p]))
      /\ dev[p].tries[i].phase = "session" /\ Becomes(p, At(dev[p], i, "connect"))
      /\ UNCHANGED <<app, fault>> /\ frames' \in [People -> Seq({"ring", "end"})]
  BY PersonIsTyped DEF SessionOpened
<1>2. /\ Typed(At(dev[p], i, "connect"))
      /\ Honest(dev[p]) => Honest(At(dev[p], i, "connect"))
  BY <1>1, JoiningIsHonest
<1> QED
  BY <1>1, <1>2, QuietStep

LEMMA ConnectedStep ==
  ASSUME DevInv, NEW p \in People, NEW i \in DOMAIN dev[p].tries, Connected(p, i)
  PROVE  DevInv'
<1> DEFINE d == dev[p]
           Kicked(t) == IF t.to # d.tries[i].to THEN t
                        ELSE IF t.phase = "joined" THEN [t EXCEPT !.phase = "cut"]
                        ELSE IF Live(t) THEN [t EXCEPT !.phase = "closed"] ELSE t
           mine == [d.tries[i] EXCEPT !.phase = "joined"]
           s == [j \in DOMAIN d.tries |-> IF j = i THEN mine ELSE Kicked(d.tries[j])]
           e == [d EXCEPT !.status = IF app[p] = "mobile" THEN "connected" ELSE d.status,
                          !.tries = s]
<1>0. /\ Typed(d) /\ (fault[p] # "session" => Honest(d)) /\ d \in Device
      /\ UNCHANGED <<app, fault>> /\ frames' \in [People -> Seq({"ring", "end"})]
      /\ i \in DOMAIN d.tries /\ d.tries[i].phase = "connect"
      /\ DOMAIN d.tries = 1..Len(d.tries) /\ Len(d.tries) \in Nat
      /\ \A j \in DOMAIN d.tries : d.tries[j] \in Try
  BY PersonIsTyped, TriesAreTyped DEF Connected
<1>1. Becomes(p, e)
  BY DEF Connected
<1> HIDE DEF d
<1>2. mine \in Try /\ mine.phase = "joined" /\ mine.to = d.tries[i].to /\ mine.mic = d.tries[i].mic
  BY <1>0 DEF Try
<1>3. \A t \in Try : Kicked(t) \in Try /\ (t.phase = "gone" => Kicked(t) = t)
  BY DEF Try, Live
<1> HIDE DEF mine, Kicked
<1>4. s \in Seq(Try) /\ DOMAIN s = DOMAIN d.tries /\ Len(s) = Len(d.tries)
  <2>1. \A j \in 1..Len(d.tries) : s[j] \in Try
    BY <1>0, <1>2, <1>3
  <2>2. s \in [1..Len(d.tries) -> Try]
    BY <1>0, <2>1
  <2> QED
    BY <1>0, <2>2
<1>5. s[i] = mine /\ \A j \in DOMAIN d.tries : j # i => s[j] = Kicked(d.tries[j])
  BY <1>0
<1> HIDE DEF s
<1>6. /\ e \in Device /\ e.tries = s /\ e.room = d.room /\ e.mic = d.mic
      /\ e.leaving = d.leaving /\ e.shown = d.shown
  BY <1>0, <1>4 DEF Device
<1> HIDE DEF e
<1>7. Typed(e)
  BY <1>0, <1>4, <1>6 DEF Typed
<1>8. ASSUME Honest(d) PROVE Honest(e)
  <2>1. /\ d.room = 0 /\ ~d.tries[i].mic /\ d.shown = d.tries[i].to
        /\ \A j \in DOMAIN d.tries : j # i => d.tries[j].phase = "gone"
    BY <1>0, <1>8, OneSessionSays DEF Arrived
  <2>2. \A j \in DOMAIN d.tries : j # i => s[j] = d.tries[j]
    BY <1>0, <1>3, <1>5, <2>1
  <2>3. Moves(d, i, e)
    BY <1>0, <1>2, <1>4, <1>5, <1>6, <2>1, <2>2 DEF Moves, Arrived
  <2> QED
    BY <1>0, <1>8, <2>3, MovesOn
<1> QED
  BY <1>0, <1>1, <1>7, <1>8, QuietStep DEF d

\* join returned, or its camera is on: fields that only the ring reads.
LEMMA ToldIsHonest ==
  ASSUME NEW d, Typed(d), NEW b \in BOOLEAN, NEW x \in SUBSET {"ring", "end"}
  PROVE  LET e == [d EXCEPT !.outgoing = b, !.out = x] IN
         /\ Typed(e) /\ (Honest(d) => Honest(e))
         /\ e.tries = d.tries /\ e.leaving = d.leaving
<1> DEFINE g == [d EXCEPT !.outgoing = b, !.out = x]
<1>1. /\ g \in Device /\ g.tries = d.tries /\ g.room = d.room /\ g.mic = d.mic
      /\ g.shown = d.shown /\ g.wanted = d.wanted
      /\ g.leaving = d.leaving /\ g.muted = d.muted
  BY DEF Typed, Device
<1> HIDE DEF g
<1>2. Typed(g) /\ (Honest(d) => Honest(g)) /\ g.tries = d.tries /\ g.leaving = d.leaving
  BY <1>1, AlikeIsHonest
<1> QED
  BY <1>2 DEF g

LEMMA AdoptedStep ==
  ASSUME DevInv, NEW p \in People, NEW i \in DOMAIN dev[p].tries, Adopted(p, i)
  PROVE  DevInv'
<1> DEFINE d == dev[p]
           ph == CASE d.tries[i].phase = "joined" ->
                        IF d.tries[i].next = "video" THEN "camera" ELSE "up"
                   [] d.tries[i].phase = "cut" -> "closed"
                   [] OTHER -> "dead"
           at == At(d, i, ph)
           came == d.tries[i].phase # "failing" /\ Others(p, d.tries[i].to)
           e == [at EXCEPT !.room = i, !.status = "connected", !.muted = TRUE, !.sees = came]
           told == [e EXCEPT !.outgoing = TRUE, !.out = e.out \cup {"ring"}]
<1>0. /\ Typed(d) /\ (fault[p] # "session" => Honest(d)) /\ d \in Device
      /\ app' = app /\ frames' \in [People -> Seq({"ring", "end"})]
      /\ i \in DOMAIN d.tries /\ d.tries[i].phase \in {"joined", "cut", "failing"}
      /\ DOMAIN d.tries = 1..Len(d.tries) /\ Len(d.tries) \in Nat
  BY PersonIsTyped, TriesAreTyped DEF Adopted
<1>1. /\ Becomes(p, e) \/ Becomes(p, told)
      /\ \E f \in {"none", "call"} : Fault(p, f)
  BY DEF Adopted, Noted
<1> HIDE DEF d
<1>2. ph \in {"camera", "up", "closed", "dead"} /\ came \in BOOLEAN
  BY DEF Others
<1> HIDE DEF ph, came
<1>3. /\ Typed(at) /\ at \in Device /\ DOMAIN at.tries = DOMAIN d.tries
      /\ at.tries[i].phase = ph /\ at.tries[i].to = d.tries[i].to
      /\ at.tries[i].mic = d.tries[i].mic
      /\ \A j \in DOMAIN d.tries : j # i => at.tries[j] = d.tries[j]
      /\ at.mic = d.mic /\ at.leaving = d.leaving /\ at.shown = d.shown
  <2>1. Typed(d) /\ i \in DOMAIN d.tries
    BY <1>0
  <2>2. Typed(at) => at \in Device
    BY DEF Typed
  <2> QED
    BY <1>2, <2>1, <2>2, AtIsTyped, SMTT(60)
<1> HIDE DEF at
<1>4. /\ e \in Device /\ e.tries = at.tries /\ e.room = i /\ e.mic = at.mic
      /\ e.leaving = at.leaving /\ e.shown = at.shown
  <2>1. at \in Device /\ i \in Nat /\ came \in BOOLEAN
    BY <1>0, <1>2, <1>3
  <2>2. e \in Device
    BY <2>1 DEF Device
  <2> QED
    BY <2>1, <2>2 DEF Device
<1> HIDE DEF e
<1>5. Typed(e)
  <2>1. Typed(at) /\ i \in DOMAIN at.tries /\ DOMAIN at.tries = 1..Len(at.tries)
    BY <1>0, <1>3, TriesAreTyped
  <2>2. i <= Len(at.tries)
    BY <2>1, <1>0, TriesAreTyped
  <2> QED
    BY <1>4, <2>1, <2>2 DEF Typed
<1>6. ASSUME Honest(d) PROVE Honest(e)
  <2>1. ~d.tries[i].mic /\ d.shown = d.tries[i].to
    BY <1>0, <1>6, OneSessionSays DEF Arrived
  <2>2. Moves(d, i, e)
    BY <1>0, <1>2, <1>3, <1>4, <2>1 DEF Moves, Arrived
  <2> QED
    BY <1>0, <1>6, <2>2, MovesOn
<1>7. Typed(told) /\ (Honest(e) => Honest(told))
  BY <1>4, <1>5, ToldIsHonest DEF Device
<1> HIDE DEF told
<1> QED
  BY <1>0, <1>1, <1>5, <1>6, <1>7, DeviceStep DEF d

\* An attempt that arrived goes on.
LEMMA ArrivedIsHonest ==
  ASSUME NEW d, Typed(d), NEW i \in DOMAIN d.tries, d.tries[i].phase \in {"camera", "up"},
         NEW t \in Try, t.phase \in {"up", "closed"}, t.to = d.tries[i].to,
         t.mic = d.tries[i].mic
  PROVE  Typed(With(d, i, t)) /\ (Honest(d) => Honest(With(d, i, t)))
<1> DEFINE e == With(d, i, t)
<1>1. /\ Typed(e) /\ DOMAIN e.tries = DOMAIN d.tries /\ e.tries[i] = t
      /\ \A j \in DOMAIN d.tries : j # i => e.tries[j] = d.tries[j]
      /\ e.room = d.room /\ e.mic = d.mic /\ e.leaving = d.leaving /\ e.shown = d.shown
      /\ e.muted = d.muted
  BY WithIsTyped
<1> HIDE DEF e
<1>2. ASSUME Honest(d) PROVE Honest(e)
  <2>1. /\ d.room = i /\ d.shown = d.tries[i].to
        /\ d.tries[i].mic => ~d.muted /\ d.mic.of \in {0, i}
    BY <1>2, OneSessionSays DEF Arrived
  <2>2. Moves(d, i, e)
    BY <1>1, <2>1 DEF Moves, Arrived
  <2> QED
    BY <1>2, <2>2, MovesOn
<1>3. Typed(e) /\ (Honest(d) => Honest(e))
  BY <1>1, <1>2
<1> QED
  BY <1>3 DEF e

\* What the caller of an attempt does next is no part of the session.
LEMMA NextIsFree ==
  ASSUME NEW d, Typed(d), NEW i \in DOMAIN d.tries, NEW t \in Try,
         t.phase = d.tries[i].phase, t.to = d.tries[i].to, t.mic = d.tries[i].mic
  PROVE  Typed(With(d, i, t)) /\ (Honest(d) => Honest(With(d, i, t)))
<1> DEFINE e == With(d, i, t)
<1>0. /\ DOMAIN d.tries = 1..Len(d.tries) /\ Len(d.tries) \in Nat
      /\ d.room \in 0..Len(d.tries) /\ d.mic.of \in 0..Len(d.tries)
  BY TriesAreTyped
<1>1. /\ Typed(e) /\ DOMAIN e.tries = DOMAIN d.tries /\ e.tries[i] = t
      /\ \A j \in DOMAIN d.tries : j # i => e.tries[j] = d.tries[j]
      /\ e.room = d.room /\ e.mic = d.mic /\ e.leaving = d.leaving /\ e.shown = d.shown
      /\ e.wanted = d.wanted /\ e.muted = d.muted
  BY WithIsTyped
<1> HIDE DEF e
<1>2. \A j \in DOMAIN d.tries : /\ e.tries[j].phase = d.tries[j].phase
                                /\ e.tries[j].to = d.tries[j].to
                                /\ e.tries[j].mic = d.tries[j].mic
  BY <1>1
<1>3. ASSUME Honest(d) PROVE Honest(e)
  <2>1. OneSession(e)
    BY <1>1, <1>2, <1>3 DEF Honest, OneSession
  <2>2. HeldIsArrived(e)
    BY <1>0, <1>1, <1>2, <1>3 DEF Honest, HeldIsArrived
  <2>3. MicIsShown(e)
    BY <1>1, <1>2, <1>3 DEF Honest, MicIsShown
  <2> QED
    BY <2>1, <2>2, <2>3 DEF Honest
<1>4. Typed(e) /\ (Honest(d) => Honest(e))
  BY <1>1, <1>3
<1> QED
  BY <1>4 DEF e

LEMMA StartedStep ==
  ASSUME DevInv, NEW p \in People, NEW i \in DOMAIN dev[p].tries, Started(p, i)
  PROVE  DevInv'
<1> DEFINE d == dev[p]
           t == [d.tries[i] EXCEPT !.next = "stay",
                                   !.phase = IF d.tries[i].phase = "camera" THEN "up"
                                             ELSE d.tries[i].phase]
           at == With(d, i, t)
           e == [at EXCEPT !.outgoing = TRUE, !.out = at.out \cup {"ring"}]
           f == Noted("call", d.sees \/ d.tries[i].phase # "camera")
<1>1. /\ Typed(d) /\ (fault[p] # "session" => Honest(d)) /\ i \in DOMAIN d.tries
      /\ app' = app /\ frames' \in [People -> Seq({"ring", "end"})]
      /\ d.tries[i] \in Try
  BY PersonIsTyped, TriesAreTyped DEF Started
<1>2. Becomes(p, e) /\ Fault(p, f)
  BY DEF Started
<1> HIDE DEF d
<1>3. /\ t \in Try /\ t.to = d.tries[i].to /\ t.mic = d.tries[i].mic
      /\ t.phase = IF d.tries[i].phase = "camera" THEN "up" ELSE d.tries[i].phase
  BY <1>1 DEF Try
<1>4. f \in {"none", "call"}
  BY DEF Noted
<1> HIDE DEF t, f
<1>5. Typed(at) /\ (Honest(d) => Honest(at))
  <2>1. CASE d.tries[i].phase = "camera"
    BY <1>1, <1>3, <2>1, ArrivedIsHonest
  <2>2. CASE d.tries[i].phase # "camera"
    BY <1>1, <1>3, <2>2, NextIsFree
  <2> QED
    BY <2>1, <2>2
<1> HIDE DEF at
<1>6. at.out \cup {"ring"} \in SUBSET {"ring", "end"}
  BY <1>5 DEF Typed, Device
<1>7. Typed(e) /\ (Honest(at) => Honest(e))
  BY <1>5, <1>6, ToldIsHonest
<1> HIDE DEF e
<1> QED
  BY <1>1, <1>2, <1>4, <1>5, <1>7, DeviceStep DEF d

LEMMA ClosedStep ==
  ASSUME DevInv, NEW p \in People, NEW i \in DOMAIN dev[p].tries, Closed(p, i)
  PROVE  DevInv'
<1> DEFINE d == dev[p]
           ph == IF d.tries[i].phase = "joined" THEN "cut" ELSE "closed"
           t == [d.tries[i] EXCEPT !.phase = ph]
<1>1. /\ Typed(d) /\ (fault[p] # "session" => Honest(d)) /\ i \in DOMAIN d.tries
      /\ d.tries[i] \in Try /\ Live(d.tries[i]) /\ Becomes(p, At(d, i, ph))
      /\ Fault(p, "call") /\ app' = app /\ frames' \in [People -> Seq({"ring", "end"})]
  BY PersonIsTyped, TriesAreTyped DEF Closed
<1> HIDE DEF d
<1>2. Typed(At(d, i, ph)) /\ (Honest(d) => Honest(At(d, i, ph)))
  <2>1. CASE d.tries[i].phase = "joined"
    BY <1>1, <2>1, JoiningIsHonest
  <2>2. CASE d.tries[i].phase # "joined"
    <3>1. /\ t \in Try /\ t.phase = "closed" /\ t.to = d.tries[i].to
          /\ t.mic = d.tries[i].mic /\ d.tries[i].phase \in {"camera", "up"}
      BY <1>1, <2>2 DEF Try, Live
    <3>2. At(d, i, ph) = With(d, i, t)
      BY DEF At
    <3> HIDE DEF t
    <3>3. Typed(With(d, i, t)) /\ (Honest(d) => Honest(With(d, i, t)))
      BY <1>1, <3>1, ArrivedIsHonest
    <3> QED
      BY <3>2, <3>3
  <2> QED
    BY <2>1, <2>2
<1> QED
  BY <1>1, <1>2, DeviceStep DEF d

\* The attempt that was not over is, and nothing is held.
LEMMA EndedIsHonest ==
  ASSUME NEW d, Typed(d), NEW i \in DOMAIN d.tries, d.tries[i].phase # "gone",
         NEW t \in Try, t.phase = "gone",
         NEW e \in Device, e.tries = With(d, i, t).tries, e.mic = d.mic,
         e.room \in {0, d.room}
  PROVE  Typed(e) /\ (Honest(d) /\ e.room # i => Honest(e))
<1> DEFINE g == With(d, i, t)
<1>0. /\ DOMAIN d.tries = 1..Len(d.tries) /\ Len(d.tries) \in Nat
      /\ d.room \in 0..Len(d.tries) /\ d.mic.of \in 0..Len(d.tries)
  BY TriesAreTyped
<1>1. /\ Typed(g) /\ DOMAIN g.tries = DOMAIN d.tries /\ g.tries[i].phase = "gone"
      /\ \A j \in DOMAIN d.tries : j # i => g.tries[j] = d.tries[j]
      /\ g.room = d.room /\ g.mic = d.mic
  BY WithIsTyped
<1>2. e.tries = g.tries
  OBVIOUS
<1> HIDE DEF g
<1>3. Typed(e)
  BY <1>1, <1>2, TriesAreTyped DEF Typed
<1>4. ASSUME Honest(d), e.room # i PROVE Honest(e)
  <2>1. d.room \in {0, i} /\ \A j \in DOMAIN d.tries : j # i => d.tries[j].phase = "gone"
    BY <1>4, OneSessionSays
  <2>2. e.room = 0
    BY <1>4, <2>1
  <2>3. \A j \in DOMAIN d.tries : e.tries[j].phase = "gone"
    BY <1>1, <1>2, <2>1
  <2>4. AllOver(e)
    BY <1>1, <1>2, <2>3 DEF AllOver
  <2>5. HeldIsArrived(e)
    BY <1>0, <2>2, <2>3 DEF HeldIsArrived
  <2> QED
    BY <2>4, <2>5, OverIsHonest
<1> QED
  BY <1>3, <1>4

LEMMA JoinFailedStep ==
  ASSUME DevInv, NEW p \in People, NEW i \in DOMAIN dev[p].tries, JoinFailed(p, i)
  PROVE  DevInv'
<1> DEFINE d == dev[p]
           t == [d.tries[i] EXCEPT !.next = "stay", !.phase = "gone"]
           at == With(d, i, t)
           e == [at EXCEPT !.status = "failed"]
           loose == [e EXCEPT !.room = 0]
           blank == [e EXCEPT !.shown = None]
<1>0. /\ Typed(d) /\ (fault[p] # "session" => Honest(d))
      /\ UNCHANGED <<app, fault>> /\ frames' \in [People -> Seq({"ring", "end"})]
      /\ i \in DOMAIN d.tries /\ d.tries[i].phase \in {"session", "connect", "failing"}
      /\ DOMAIN d.tries = 1..Len(d.tries) /\ Len(d.tries) \in Nat /\ d.room \in Nat
      /\ d.tries[i] \in Try
  BY PersonIsTyped, TriesAreTyped DEF JoinFailed
<1>1. Becomes(p, e) \/ Becomes(p, loose) \/ Becomes(p, blank)
  BY DEF JoinFailed
<1> HIDE DEF d
<1>7. t \in Try /\ t.phase = "gone"
  BY <1>0 DEF Try
<1> HIDE DEF t
<1>2. at \in Device /\ at.room = d.room /\ at.mic = d.mic
  BY <1>0, <1>7, WithIsTyped DEF Typed
<1>3. at.tries = With(d, i, t).tries
  OBVIOUS
<1> HIDE DEF at
<1>4. /\ e \in Device /\ e.tries = at.tries /\ e.mic = d.mic /\ e.room = d.room
      /\ loose \in Device /\ loose.tries = at.tries /\ loose.mic = d.mic /\ loose.room = 0
      /\ blank \in Device /\ blank.tries = at.tries /\ blank.mic = d.mic
      /\ blank.room = d.room
  BY <1>2 DEF Device
<1> HIDE DEF e, loose, blank
<1>5. Honest(d) => d.room # i
  BY <1>0, OneSessionSays DEF Arrived
<1>6. /\ Typed(e) /\ (Honest(d) => Honest(e))
      /\ Typed(loose) /\ (Honest(d) => Honest(loose))
      /\ Typed(blank) /\ (Honest(d) => Honest(blank))
  <2>1. Typed(e) /\ (Honest(d) => Honest(e))
    BY <1>0, <1>3, <1>4, <1>5, <1>7, EndedIsHonest, SMTT(60)
  <2>2. Typed(loose) /\ (Honest(d) => Honest(loose))
    BY <1>0, <1>3, <1>4, <1>7, EndedIsHonest, SMTT(60)
  <2>3. Typed(blank) /\ (Honest(d) => Honest(blank))
    BY <1>0, <1>3, <1>4, <1>5, <1>7, EndedIsHonest, SMTT(60)
  <2> QED
    BY <2>1, <2>2, <2>3
<1> QED
  BY <1>0, <1>1, <1>6, QuietStep DEF d

LEMMA DisconnectedStep ==
  ASSUME DevInv, NEW p \in People, NEW i \in DOMAIN dev[p].tries, Disconnected(p, i)
  PROVE  DevInv'
<1> DEFINE d == dev[p]
           ph == IF d.tries[i].phase = "cut" THEN "failing" ELSE "gone"
           t == [d.tries[i] EXCEPT !.phase = ph]
           at == At(d, i, ph)
           e == [at EXCEPT !.room = 0, !.status = "idle", !.sees = FALSE]
<1>0. /\ Typed(d) /\ (fault[p] # "session" => Honest(d))
      /\ UNCHANGED <<app, fault>> /\ frames' \in [People -> Seq({"ring", "end"})]
      /\ i \in DOMAIN d.tries /\ d.tries[i].phase \in {"closed", "cut"}
      /\ d.tries[i] \in Try
      /\ DOMAIN d.tries = 1..Len(d.tries) /\ Len(d.tries) \in Nat
  BY PersonIsTyped, TriesAreTyped DEF Disconnected
<1>1. Becomes(p, e) \/ (at.room # i /\ Becomes(p, at))
  BY DEF Disconnected
<1> HIDE DEF d
<1>2. /\ Typed(at) /\ at \in Device /\ at.room = d.room /\ at.mic = d.mic
      /\ at.shown = d.shown /\ at.wanted = d.wanted /\ at.leaving = d.leaving
      /\ at.muted = d.muted
  BY <1>0, AtIsTyped DEF Typed
<1>3. at.tries = With(d, i, t).tries /\ t \in Try /\ t.phase = ph
  BY <1>0 DEF At, Try
<1>4. at = At(d, i, ph)
  OBVIOUS
<1> HIDE DEF at, t
<1>5. /\ e \in Device /\ e.tries = at.tries /\ e.mic = d.mic /\ e.room = 0
      /\ e.shown = d.shown /\ e.wanted = d.wanted /\ e.leaving = d.leaving
      /\ e.muted = d.muted
  BY <1>2 DEF Device
<1> HIDE DEF e
<1>6. CASE d.tries[i].phase = "closed"
  <2>1. Typed(e) /\ (Honest(d) => Honest(e))
    BY <1>0, <1>3, <1>5, <1>6, EndedIsHonest, SMTT(60)
  <2>2. Honest(d) => at.room = i
    BY <1>0, <1>2, <1>6, OneSessionSays DEF Arrived
  <2> QED
    BY <1>0, <1>1, <1>2, <2>1, <2>2, QuietStep DEF d
<1>7. CASE d.tries[i].phase = "cut"
  <2>1. Honest(d) => Honest(at)
    BY <1>0, <1>4, <1>7, JoiningIsHonest
  <2>2. Honest(d) => d.room = 0
    BY <1>0, <1>7, OneSessionSays DEF Arrived
  <2>3. Typed(e)
    BY <1>2, <1>5 DEF Typed
  <2>4. Honest(d) => Honest(e)
    BY <1>2, <1>5, <2>1, <2>2, AlikeIsHonest
  <2> QED
    BY <1>0, <1>1, <1>2, <2>1, <2>3, <2>4, QuietStep DEF d
<1> QED
  BY <1>0, <1>6, <1>7

\* A leave that is told to do something next.
LEMMA LeaveStep ==
  ASSUME DevInv, NEW p \in People, NEW d \in Device,
         d.tries = dev[p].tries, d.room = dev[p].room, d.mic = dev[p].mic,
         d.shown = dev[p].shown, d.wanted = dev[p].wanted,
         d.leaving = dev[p].leaving, d.muted = dev[p].muted,
         NEW web \in BOOLEAN, NEW next \in {"stay", "end"}, Becomes(p, Leave(d, web, next)),
         app' = app, frames' \in [People -> Seq({"ring", "end"})],
         NEW f \in {"none", "call", "session"}, Fault(p, f),
         MidJoin(dev[p]) = "session" => f = "session"
  PROVE  DevInv'
<1>1. Typed(dev[p]) /\ (fault[p] # "session" => Honest(dev[p]))
  BY PersonIsTyped
<1>2. Typed(d) /\ (Honest(dev[p]) => Honest(d))
  BY <1>1, AlikeIsHonest
<1>3. MidJoin(d) = MidJoin(dev[p])
  BY DEF MidJoin
<1>4. /\ Typed(Leave(d, web, next))
      /\ Honest(d) /\ MidJoin(d) # "session" => Honest(Leave(d, web, next))
  BY <1>2, LeaveIsHonest
<1> QED
  BY <1>1, <1>2, <1>3, <1>4, DeviceStep

LEMMA HangUpStep ==
  ASSUME DevInv, NEW p \in People, HangUp(p)
  PROVE  DevInv'
<1>1. /\ Becomes(p, Leave(dev[p], app[p] = "web", "stay")) /\ Fault(p, MidJoin(dev[p]))
      /\ app' = app /\ frames' \in [People -> Seq({"ring", "end"})]
      /\ dev[p] \in Device /\ (app[p] = "web") \in BOOLEAN
  BY PersonIsTyped DEF HangUp
<1>2. MidJoin(dev[p]) \in {"none", "call", "session"}
  BY MovedIsAFault
<1> QED
  BY <1>1, <1>2, LeaveStep

LEMMA LeaveDoneStep ==
  ASSUME DevInv, NEW p \in People, NEW next \in {"stay", "end"}, LeaveDone(p, next)
  PROVE  DevInv'
<1> DEFINE web == app[p] = "web"
<1>1. /\ Typed(dev[p]) /\ (fault[p] # "session" => Honest(dev[p]))
      /\ next \in dev[p].leaving /\ Becomes(p, Left(dev[p], web, next))
      /\ UNCHANGED <<app, fault>> /\ frames' \in [People -> Seq({"ring", "end"})]
      /\ web \in BOOLEAN
  BY PersonIsTyped DEF LeaveDone
<1> HIDE DEF web
<1>2. Honest(dev[p]) => HeldIsArrived(dev[p]) /\ AllOver(dev[p])
  BY <1>1 DEF Honest, OneSession, AllOver
<1>3. /\ Typed(Left(dev[p], web, next))
      /\ Honest(dev[p]) => Honest(Left(dev[p], web, next))
  BY <1>1, <1>2, LeftIsHonest
<1> QED
  BY <1>1, <1>3, QuietStep

LEMMA RefreshedStep ==
  ASSUME DevInv, NEW p \in People, Refreshed(p)
  PROVE  DevInv'
<1> DEFINE now == Others(p, dev[p].tries[dev[p].room].to)
           e == [dev[p] EXCEPT !.sees = now]
<1>1. /\ Typed(dev[p]) /\ (fault[p] # "session" => Honest(dev[p])) /\ dev[p] \in Device
      /\ Becomes(p, e) /\ \E f \in {"none", "call"} : Fault(p, f)
      /\ app' = app /\ frames' \in [People -> Seq({"ring", "end"})]
  BY PersonIsTyped DEF Refreshed, Noted
<1>2. now \in BOOLEAN
  BY DEF Others
<1> HIDE DEF now
<1>3. /\ e \in Device /\ e.tries = dev[p].tries /\ e.room = dev[p].room
      /\ e.mic = dev[p].mic /\ e.shown = dev[p].shown /\ e.wanted = dev[p].wanted
      /\ e.leaving = dev[p].leaving /\ e.muted = dev[p].muted
  BY <1>1, <1>2 DEF Device
<1> HIDE DEF e
<1>4. Typed(e) /\ (Honest(dev[p]) => Honest(e))
  BY <1>1, <1>3, AlikeIsHonest
<1> QED
  BY <1>1, <1>4, DeviceStep

\* The flag changes where nothing is heard, or the change of the room held begins.
LEMMA ToggleMuteStep ==
  ASSUME DevInv, NEW p \in People, ToggleMute(p)
  PROVE  DevInv'
<1> DEFINE d == dev[p]
           flipped == [d EXCEPT !.muted = ~d.muted]
           change == [of |-> d.room, on |-> d.muted]
           asked == [d EXCEPT !.mic = change]
<1>0. /\ Typed(d) /\ (fault[p] # "session" => Honest(d)) /\ d \in Device
      /\ UNCHANGED <<app, fault>> /\ frames' \in [People -> Seq({"ring", "end"})]
      /\ DOMAIN d.tries = 1..Len(d.tries) /\ Len(d.tries) \in Nat
      /\ d.room \in 0..Len(d.tries) /\ d.mic.of \in 0..Len(d.tries)
  BY PersonIsTyped, TriesAreTyped DEF ToggleMute
<1>1. (d.room = 0 /\ Becomes(p, flipped)) \/ (d.room # 0 /\ Becomes(p, asked))
  BY DEF ToggleMute
<1> HIDE DEF d
<1>2. CASE d.room = 0 /\ Becomes(p, flipped)
  <2>1. /\ flipped \in Device /\ flipped.tries = d.tries /\ flipped.room = d.room
        /\ flipped.mic = d.mic /\ flipped.shown = d.shown /\ flipped.wanted = d.wanted
        /\ flipped.leaving = d.leaving
    BY <1>0 DEF Device
  <2> HIDE DEF flipped
  <2>2. Typed(flipped)
    BY <1>0, <2>1 DEF Typed
  <2>3. ASSUME Honest(d) PROVE Honest(flipped)
    <3>1. \A j \in DOMAIN d.tries : d.tries[j].phase \notin Arrived
      BY <1>0, <1>2, <2>3 DEF Honest, OneSession, Arrived
    <3>2. MicIsShown(flipped)
      BY <2>1, <2>3, <3>1 DEF Honest, MicIsShown
    <3>3. OneSession(flipped) /\ HeldIsArrived(flipped)
      BY <2>1, <2>3 DEF Honest, OneSession, HeldIsArrived
    <3> QED
      BY <3>2, <3>3 DEF Honest
  <2> QED
    BY <1>0, <1>2, <2>2, <2>3, QuietStep DEF d
<1>3. CASE d.room # 0 /\ Becomes(p, asked)
  <2>1. change \in [of : Nat, on : BOOLEAN] /\ change.of = d.room
    BY <1>0 DEF Device
  <2> HIDE DEF change
  <2>2. /\ asked \in Device /\ asked.tries = d.tries /\ asked.room = d.room
        /\ asked.mic = change /\ asked.shown = d.shown /\ asked.wanted = d.wanted
        /\ asked.leaving = d.leaving /\ asked.muted = d.muted
    BY <1>0, <2>1 DEF Device
  <2> HIDE DEF asked
  <2>3. Typed(asked)
    BY <1>0, <2>1, <2>2 DEF Typed
  <2>4. ASSUME Honest(d) PROVE Honest(asked)
    <3>1. HeldIsArrived(asked)
      BY <2>1, <2>2, <2>4 DEF Honest, HeldIsArrived
    <3>2. MicIsShown(asked)
      BY <2>1, <2>2, <2>4 DEF Honest, MicIsShown, OneSession, Arrived
    <3>3. OneSession(asked)
      BY <2>2, <2>4 DEF Honest, OneSession
    <3> QED
      BY <3>1, <3>2, <3>3 DEF Honest
  <2> QED
    BY <1>0, <1>3, <2>3, <2>4, QuietStep DEF d
<1> QED
  BY <1>1, <1>2, <1>3

\* What the microphone answers is heard on the room that is held, or nowhere.
LEMMA MicChangedStep ==
  ASSUME DevInv, NEW p \in People, MicChanged(p)
  PROVE  DevInv'
<1> DEFINE d == dev[p]
           rest == [of |-> 0, on |-> FALSE]
           i == d.mic.of
           on == d.mic.on
           kept == [d EXCEPT !.mic = rest]
           set == [d EXCEPT !.mic = rest, !.muted = ~on]
           heard == [d.tries[i] EXCEPT !.mic = on]
           e == With(set, i, heard)
<1>0. /\ Typed(d) /\ (fault[p] # "session" => Honest(d)) /\ d \in Device
      /\ UNCHANGED <<app, fault>> /\ frames' \in [People -> Seq({"ring", "end"})]
      /\ DOMAIN d.tries = 1..Len(d.tries) /\ Len(d.tries) \in Nat
      /\ d.room \in 0..Len(d.tries) /\ i \in 0..Len(d.tries) /\ i # 0 /\ on \in BOOLEAN
  BY PersonIsTyped, TriesAreTyped DEF MicChanged, Device
<1>1. \/ Becomes(p, kept)
      \/ Live(d.tries[i]) /\ Becomes(p, e)
      \/ ~Live(d.tries[i]) /\ Becomes(p, set)
  <2>1. [kept EXCEPT !.muted = ~on] = set
    BY <1>0 DEF Device
  <2>2. kept.tries = d.tries
    BY <1>0 DEF Device
  <2> QED
    BY <2>1, <2>2 DEF MicChanged
<1>2. i \in DOMAIN d.tries /\ d.tries[i] \in Try
  BY <1>0, TriesAreTyped
<1>3. Honest(d) => d.tries[i].phase \in Arrived \cup {"gone"}
  BY <1>0 DEF Honest, HeldIsArrived
<1>4. heard \in Try /\ heard.phase = d.tries[i].phase /\ heard.to = d.tries[i].to /\ heard.mic = on
  BY <1>0, <1>2 DEF Try
<1> HIDE DEF d
<1>5. rest \in [of : Nat, on : BOOLEAN] /\ rest.of = 0
  OBVIOUS
<1> HIDE DEF rest, on, i, heard
<1>6. /\ kept \in Device /\ kept.tries = d.tries /\ kept.room = d.room /\ kept.mic = rest
      /\ kept.shown = d.shown /\ kept.wanted = d.wanted
      /\ kept.leaving = d.leaving /\ kept.muted = d.muted
  BY <1>0, <1>5 DEF Device
<1>7. /\ set \in Device /\ set.tries = d.tries /\ set.room = d.room /\ set.mic = rest
      /\ set.shown = d.shown /\ set.wanted = d.wanted
      /\ set.leaving = d.leaving /\ set.muted = ~on
  BY <1>0, <1>5 DEF Device
<1> HIDE DEF kept, set
<1>8. Typed(kept) /\ Typed(set)
  BY <1>0, <1>5, <1>6, <1>7 DEF Typed
<1>9. Honest(d) => Honest(kept)
  BY <1>5, <1>6 DEF Honest, OneSession, HeldIsArrived, MicIsShown
<1>10. ASSUME Honest(d), ~Live(d.tries[i]) PROVE Honest(set)
  <2>1. d.tries[i].phase \in {"closed", "dead", "gone"}
    BY <1>3, <1>10 DEF Live, Arrived
  <2>2. MicIsShown(set)
    BY <1>0, <1>7, <1>10, <2>1 DEF Honest, MicIsShown, i
  <2> QED
    BY <1>5, <1>7, <1>10, <2>2 DEF Honest, OneSession, HeldIsArrived
<1>11. /\ Typed(e) /\ DOMAIN e.tries = DOMAIN d.tries /\ e.tries[i] = heard
       /\ \A j \in DOMAIN d.tries : j # i => e.tries[j] = d.tries[j]
       /\ e.room = d.room /\ e.mic = rest /\ e.shown = d.shown /\ e.wanted = d.wanted
       /\ e.leaving = d.leaving /\ e.muted = ~on
  BY <1>2, <1>4, <1>7, <1>8, WithIsTyped
<1> HIDE DEF e
<1>12. ASSUME Honest(d), Live(d.tries[i]) PROVE Honest(e)
  <2>1. d.tries[i].phase \in Arrived /\ d.tries[i].phase # "gone"
    BY <1>3, <1>12 DEF Live, Arrived
  <2>2. d.room = i /\ \A j \in DOMAIN d.tries : j # i => d.tries[j].phase = "gone"
    BY <1>0, <1>2, <1>12, <2>1, OneSessionSays
  <2>3. \A j \in DOMAIN e.tries : j # i => e.tries[j].phase = "gone"
    BY <1>11, <2>2
  <2>4. OneSession(e)
    BY <1>2, <1>4, <1>11, <1>12, <2>1, <2>2, <2>3 DEF Honest, OneSession
  <2>5. HeldIsArrived(e)
    BY <1>4, <1>5, <1>11, <2>1, <2>2 DEF HeldIsArrived
  <2>6. MicIsShown(e)
    BY <1>4, <1>5, <1>11, <2>1, <2>3 DEF MicIsShown
  <2> QED
    BY <2>4, <2>5, <2>6 DEF Honest
<1> QED
  BY <1>0, <1>1, <1>8, <1>9, <1>10, <1>11, <1>12, QuietStep DEF d

LEMMA ReloadStep ==
  ASSUME DevInv, NEW p \in People, Reload(p)
  PROVE  DevInv'
<1> DEFINE d == dev[p]
           s == [i \in DOMAIN d.tries |->
                   [d.tries[i] EXCEPT !.next = "stay", !.phase = "gone", !.mic = FALSE]]
           blank == [Off EXCEPT !.out = d.out, !.tries = s]
           e == IF app[p] = "web" THEN JoinWeb(blank, d.shown, "rejoin") ELSE blank
<1>0. /\ Typed(d) /\ (fault[p] # "session" => Honest(d)) /\ d \in Device
      /\ app' = app /\ Fault(p, "call")
      /\ DOMAIN d.tries = 1..Len(d.tries) /\ Len(d.tries) \in Nat
      /\ \A i \in DOMAIN d.tries : d.tries[i] \in Try
      /\ d.shown # None
  BY PersonIsTyped, TriesAreTyped DEF Reload
<1>1. frames' \in [People -> Seq({"ring", "end"})]
  <2>1. frames' = [frames EXCEPT ![p] = <<>>] /\ frames \in [People -> Seq({"ring", "end"})]
    BY PersonIsTyped DEF Reload
  <2> QED
    BY <2>1
<1>2. dev' = [dev EXCEPT ![p] = e]
  BY DEF Reload
<1> HIDE DEF d
<1>3. d.shown \in Rooms /\ d.out \in SUBSET {"ring", "end"}
  BY <1>0 DEF Device
<1>4. /\ s \in Seq(Try) /\ Len(s) = Len(d.tries) /\ DOMAIN s = DOMAIN d.tries
      /\ \A i \in DOMAIN s : s[i].phase = "gone"
  <2>1. \A t \in Try :
          /\ [t EXCEPT !.next = "stay", !.phase = "gone", !.mic = FALSE] \in Try
          /\ [t EXCEPT !.next = "stay", !.phase = "gone", !.mic = FALSE].phase = "gone"
    BY DEF Try
  <2>2. \A i \in 1..Len(d.tries) : s[i] \in Try /\ s[i].phase = "gone"
    BY <1>0, <2>1
  <2>3. s \in [1..Len(d.tries) -> Try]
    BY <1>0, <2>2
  <2> HIDE DEF s
  <2>4. s \in Seq(Try) /\ Len(s) = Len(d.tries) /\ DOMAIN s = DOMAIN d.tries
    BY <1>0, <2>3
  <2> QED
    BY <1>0, <2>2, <2>4
<1> HIDE DEF s
<1>5. /\ blank \in Device /\ blank.tries = s /\ blank.room = 0 /\ blank.mic.of = 0
      /\ blank.leaving = {}
  BY <1>3, <1>4 DEF Off, Device
<1> HIDE DEF blank
<1>6. Typed(blank) /\ Honest(blank) /\ Moved(blank) = "none"
  <2>1. Typed(blank) /\ AllOver(blank) /\ HeldIsArrived(blank)
    BY <1>4, <1>5 DEF Typed, AllOver, HeldIsArrived
  <2>2. Moved(blank) = "none"
    BY <1>4, <1>5 DEF Moved, Noted, Crowded
  <2> QED
    BY <2>1, <2>2, OverIsHonest
<1>7. Typed(e) /\ Honest(e)
  <2>1. CASE app[p] = "web"
    BY <1>3, <1>6, <2>1, JoinWebIsHonest
  <2>2. CASE app[p] # "web"
    BY <1>6, <2>2
  <2> QED
    BY <2>1, <2>2
<1> HIDE DEF e
<1> QED
  BY <1>0, <1>1, <1>2, <1>7, StoredStep

----------------------------------------------------------------------------
(* Ringing.                                                                *)

\* Whatever only the ring reads may have changed before a join begins.
LEMMA JoinAfterStep ==
  ASSUME DevInv, NEW p \in People, NEW d \in Device,
         d.tries = dev[p].tries, d.room = dev[p].room, d.mic = dev[p].mic,
         d.shown = dev[p].shown, d.wanted = dev[p].wanted,
         d.leaving = dev[p].leaving, d.muted = dev[p].muted,
         NEW next \in {"stay", "ring", "video", "rejoin"}, Becomes(p, JoinWeb(d, Dm, next)),
         Fault(p, Moved(dev[p])), UNCHANGED <<app, frames>>
  PROVE  DevInv'
<1>1. /\ Typed(dev[p]) /\ (fault[p] # "session" => Honest(dev[p]))
      /\ frames' \in [People -> Seq({"ring", "end"})]
  BY PersonIsTyped
<1>2. Typed(d) /\ (Honest(dev[p]) => Honest(d))
  BY <1>1, AlikeIsHonest
<1>3. Moved(d) = Moved(dev[p]) /\ Moved(d) \in {"none", "call", "session"}
  BY MovedIsAFault DEF Moved, Crowded
<1>4. /\ Typed(JoinWeb(d, Dm, next))
      /\ Honest(d) /\ Moved(d) # "session" => Honest(JoinWeb(d, Dm, next))
  BY <1>2, RoomsKnown, JoinWebIsHonest
<1> QED
  BY <1>1, <1>2, <1>3, <1>4, DeviceStep

LEMMA StartStep ==
  ASSUME DevInv, NEW p \in People, NEW video \in BOOLEAN, Start(p, video)
  PROVE  DevInv'
<1> DEFINE next == IF video THEN "video" ELSE "ring"
<1>1. /\ Becomes(p, JoinWeb(dev[p], Dm, next)) /\ Fault(p, Moved(dev[p]))
      /\ UNCHANGED <<app, frames>>
  BY DEF Start
<1>2. next \in {"stay", "ring", "video", "rejoin"} /\ dev[p] \in Device
  BY PersonIsTyped
<1> HIDE DEF next
<1> QED
  BY <1>1, <1>2, JoinAfterStep

\* A device whose ring flags or requests are not the ones it had.
Flagged(d, e) ==
  /\ e \in Device
  /\ e.tries = d.tries /\ e.room = d.room /\ e.mic = d.mic /\ e.shown = d.shown
  /\ e.wanted = d.wanted /\ e.leaving = d.leaving /\ e.muted = d.muted

LEMMA FlagsOfDevice ==
  ASSUME NEW d \in Device
  PROVE  /\ d.incoming \in BOOLEAN /\ d.outgoing \in BOOLEAN
         /\ d.out \in SUBSET {"ring", "end"}
         /\ \A b \in BOOLEAN : /\ Flagged(d, [d EXCEPT !.incoming = b])
                               /\ Flagged(d, [d EXCEPT !.outgoing = b])
         /\ \A x \in SUBSET {"ring", "end"} : Flagged(d, [d EXCEPT !.out = x])
BY DEF Flagged, Device

LEMMA FlaggedStep ==
  ASSUME DevInv, NEW p \in People, NEW e, Flagged(dev[p], e),
         Becomes(p, e) \/ dev' = [dev EXCEPT ![p] = e],
         app' = app, frames' \in [People -> Seq({"ring", "end"})],
         NEW f \in {"none", "call", "session"}, Fault(p, f)
  PROVE  DevInv'
<1>1. /\ Typed(dev[p]) /\ (fault[p] # "session" => Honest(dev[p]))
      /\ frames \in [People -> Seq({"ring", "end"})]
  BY PersonIsTyped
<1>2. Typed(e) /\ (Honest(dev[p]) => Honest(e))
  BY <1>1, AlikeIsHonest DEF Flagged
<1> QED
  BY <1>1, <1>2, StoredStep, DeviceStep

LEMMA AcceptStep ==
  ASSUME DevInv, NEW p \in People, Accept(p)
  PROVE  DevInv'
<1> DEFINE d == [dev[p] EXCEPT !.incoming = FALSE]
<1>1. /\ Becomes(p, JoinWeb(d, Dm, "stay")) /\ Fault(p, Moved(dev[p]))
      /\ UNCHANGED <<app, frames>>
  BY DEF Accept
<1>2. Flagged(dev[p], d)
  BY PersonIsTyped, FlagsOfDevice
<1> HIDE DEF d
<1> QED
  BY <1>1, <1>2, JoinAfterStep DEF Flagged

LEMMA DeclineStep ==
  ASSUME DevInv, NEW p \in People, Decline(p)
  PROVE  DevInv'
<1> DEFINE g == [dev[p] EXCEPT !.incoming = FALSE]
           e == [g EXCEPT !.out = g.out \cup {"end"}]
<1>1. dev[p] \in Device /\ frames' \in [People -> Seq({"ring", "end"})]
  BY PersonIsTyped DEF Decline
<1>2. Flagged(dev[p], g)
  BY <1>1, FlagsOfDevice
<1>3. Becomes(p, e) /\ UNCHANGED <<app, fault>>
  <2>1. e = [dev[p] EXCEPT !.incoming = FALSE, !.out = dev[p].out \cup {"end"}]
    BY <1>1 DEF Device
  <2> QED
    BY <2>1 DEF Decline
<1>4. Fault(p, "none")
  BY <1>3 DEF Fault, DevInv
<1> HIDE DEF g
<1>5. Flagged(g, e)
  <2>1. g \in Device
    BY <1>2 DEF Flagged
  <2>2. g.out \cup {"end"} \in SUBSET {"ring", "end"}
    BY <2>1, FlagsOfDevice
  <2> QED
    BY <2>1, <2>2, FlagsOfDevice
<1> HIDE DEF e
<1>6. Flagged(dev[p], e)
  BY <1>2, <1>5 DEF Flagged
<1> QED
  BY <1>1, <1>3, <1>4, <1>6, FlaggedStep

LEMMA CancelStep ==
  ASSUME DevInv, NEW p \in People, Cancel(p)
  PROVE  DevInv'
<1> DEFINE d == [dev[p] EXCEPT !.outgoing = FALSE]
<1>1. /\ Becomes(p, Leave(d, TRUE, "end")) /\ Fault(p, MidJoin(dev[p]))
      /\ app' = app /\ frames' \in [People -> Seq({"ring", "end"})]
  BY PersonIsTyped DEF Cancel
<1>2. Flagged(dev[p], d) /\ MidJoin(dev[p]) \in {"none", "call", "session"}
  BY PersonIsTyped, FlagsOfDevice, MovedIsAFault
<1> HIDE DEF d
<1> QED
  BY <1>1, <1>2, LeaveStep DEF Flagged

LEMMA MissedStep ==
  ASSUME DevInv, NEW p \in People, Missed(p)
  PROVE  DevInv'
<1> DEFINE e == [dev[p] EXCEPT !.incoming = FALSE]
<1>1. /\ Becomes(p, e) /\ UNCHANGED <<app, fault>>
      /\ frames' \in [People -> Seq({"ring", "end"})]
  BY PersonIsTyped DEF Missed
<1>2. Flagged(dev[p], e)
  BY PersonIsTyped, FlagsOfDevice
<1>3. Fault(p, "none")
  BY <1>1 DEF Fault, DevInv
<1> HIDE DEF e
<1> QED
  BY <1>1, <1>2, <1>3, FlaggedStep

LEMMA PassedStep ==
  ASSUME DevInv, NEW p \in People, NEW kind \in {"ring", "end"}, Passed(p, kind)
  PROVE  DevInv'
<1> DEFINE q == Peer(p)
           f == Noted("call", kind = "end" /\ "ring" \in dev[p].out)
           e == [dev[p] EXCEPT !.out = dev[p].out \ {kind}]
<1>1. dev[p] \in Device /\ frames \in [People -> Seq({"ring", "end"})]
  BY PersonIsTyped
<1>2. app' = app /\ dev' = [dev EXCEPT ![p] = e]
  BY DEF Passed
<1>3. \/ frames' = [frames EXCEPT ![q] = Append(frames[q], kind)] /\ Fault(p, f)
      \/ frames' = frames /\ Fault(p, "call")
  BY DEF Passed
<1>4. f \in {"none", "call"}
  BY DEF Noted
<1> HIDE DEF q, f
<1>5. frames' \in [People -> Seq({"ring", "end"})]
  <2>1. CASE frames' = frames
    BY <1>1, <2>1
  <2>2. CASE frames' = [frames EXCEPT ![q] = Append(frames[q], kind)]
    <3>1. q \in People => Append(frames[q], kind) \in Seq({"ring", "end"})
      BY <1>1
    <3> QED
      BY <1>1, <2>2, <3>1
  <2> QED
    BY <1>3, <2>1, <2>2
<1>6. Flagged(dev[p], e)
  <2>1. dev[p].out \ {kind} \in SUBSET {"ring", "end"}
    BY <1>1, FlagsOfDevice
  <2> QED
    BY <1>1, <2>1, FlagsOfDevice
<1> HIDE DEF e
<1> QED
  BY <1>2, <1>3, <1>4, <1>5, <1>6, FlaggedStep

LEMMA RefusedStep ==
  ASSUME DevInv, NEW p \in People, NEW kind \in {"ring", "end"}, Refused(p, kind)
  PROVE  DevInv'
<1> DEFINE d == [dev[p] EXCEPT !.out = dev[p].out \ {kind}]
           g == [d EXCEPT !.outgoing = FALSE]
<1>1. dev[p] \in Device /\ app' = app /\ frames' \in [People -> Seq({"ring", "end"})]
  BY PersonIsTyped DEF Refused
<1>2. \/ Becomes(p, Leave(g, TRUE, "stay")) /\ Fault(p, MidJoin(dev[p]))
      \/ Becomes(p, d) /\ Fault(p, "call")
  BY DEF Refused
<1>3. Flagged(dev[p], d)
  <2>1. dev[p].out \ {kind} \in SUBSET {"ring", "end"}
    BY <1>1, FlagsOfDevice
  <2> QED
    BY <1>1, <2>1, FlagsOfDevice
<1> HIDE DEF d
<1>4. Flagged(d, g)
  BY <1>3, FlagsOfDevice DEF Flagged
<1> HIDE DEF g
<1>5. Flagged(dev[p], g) /\ MidJoin(dev[p]) \in {"none", "call", "session"}
  BY <1>3, <1>4, MovedIsAFault DEF Flagged
<1>6. CASE Becomes(p, Leave(g, TRUE, "stay")) /\ Fault(p, MidJoin(dev[p]))
  BY <1>1, <1>5, <1>6, LeaveStep DEF Flagged
<1>7. CASE Becomes(p, d) /\ Fault(p, "call")
  BY <1>1, <1>3, <1>7, FlaggedStep
<1> QED
  BY <1>2, <1>6, <1>7

LEMMA HeardStep ==
  ASSUME DevInv, NEW p \in People, Heard(p)
  PROVE  DevInv'
<1> DEFINE mid == MidJoin(dev[p])
           late == IF mid = "none" /\ StillRings(p) THEN "call" ELSE mid
           rung == [dev[p] EXCEPT !.incoming = TRUE]
           quiet == [dev[p] EXCEPT !.incoming = FALSE]
           g == [quiet EXCEPT !.outgoing = FALSE]
<1>1. dev[p] \in Device /\ app' = app /\ frames' \in [People -> Seq({"ring", "end"})]
  <2>1. /\ frames \in [People -> Seq({"ring", "end"})] /\ frames[p] # <<>>
        /\ frames' = [frames EXCEPT ![p] = Tail(frames[p])]
    BY PersonIsTyped DEF Heard
  <2>2. Tail(frames[p]) \in Seq({"ring", "end"})
    BY <2>1
  <2> QED
    BY <2>1, <2>2, PersonIsTyped DEF Heard
<1>2. \/ Becomes(p, rung) /\ Fault(p, "none")
      \/ Becomes(p, quiet) /\ Fault(p, "none")
      \/ Becomes(p, Leave(g, TRUE, "stay")) /\ Fault(p, late)
  <2>1. CASE Head(frames[p]) = "ring"
    BY <2>1 DEF Heard
  <2>2. CASE Head(frames[p]) # "ring" /\ ~dev[p].outgoing
    BY <2>2 DEF Heard
  <2>3. CASE Head(frames[p]) # "ring" /\ dev[p].outgoing
    BY <2>3 DEF Heard
  <2> QED
    BY <2>1, <2>2, <2>3
<1>3. /\ mid \in {"none", "session"} /\ late \in {"none", "call", "session"}
      /\ mid = "session" => late = "session"
  BY MovedIsAFault
<1>4. Flagged(dev[p], rung) /\ Flagged(dev[p], quiet)
  BY <1>1, FlagsOfDevice
<1> HIDE DEF mid, late, rung, quiet
<1>5. Flagged(quiet, g)
  BY <1>4, FlagsOfDevice DEF Flagged
<1> HIDE DEF g
<1>6. Flagged(dev[p], g)
  BY <1>4, <1>5 DEF Flagged
<1>7. CASE Becomes(p, Leave(g, TRUE, "stay")) /\ Fault(p, late)
  BY <1>1, <1>3, <1>6, <1>7, LeaveStep DEF Flagged, mid
<1> QED
  BY <1>1, <1>2, <1>4, <1>7, FlaggedStep

----------------------------------------------------------------------------
(* The devices.                                                            *)

LEMMA InitHolds == Init => DevInv
<1> SUFFICES ASSUME Init PROVE DevInv
  OBVIOUS
<1>1. /\ Off \in Device /\ Off.tries = <<>> /\ Off.room = 0 /\ Off.mic.of = 0
  <2>1. <<>> \in Seq(Try)
    OBVIOUS
  <2> QED
    BY <2>1 DEF Off, Device
<1>2. Typed(Off) /\ Honest(Off)
  BY <1>1 DEF Typed, Honest, OneSession, HeldIsArrived, MicIsShown
<1>3. /\ dev = [p \in People |-> Off] /\ frames = [p \in People |-> <<>>]
      /\ fault = [p \in People |-> "none"] /\ app \in Apps
  BY DEF Init
<1>4. frames \in [People -> Seq({"ring", "end"})]
  BY <1>3
<1> QED
  BY <1>1, <1>2, <1>3, <1>4 DEF DevInv

LEMMA StepHolds == DevInv /\ [Next]_vars => DevInv'
<1> SUFFICES ASSUME DevInv, [Next]_vars PROVE DevInv'
  OBVIOUS
<1>1. CASE UNCHANGED vars
  BY <1>1 DEF vars, DevInv
<1>2. ASSUME NEW p \in People, NEW i \in DOMAIN dev[p].tries, Attempt(p, i) PROVE DevInv'
  BY <1>2, PromptedStep, OpenedStep, ConnectedStep, AdoptedStep, StartedStep,
     JoinFailedStep, ClosedStep, DisconnectedStep DEF Attempt
<1>3. ASSUME NEW p \in People, Ringing(p) PROVE DevInv'
  BY <1>3, StartStep, AcceptStep, DeclineStep, CancelStep, MissedStep, HeardStep,
     PassedStep, RefusedStep DEF Ringing
<1> QED
  BY <1>1, <1>2, <1>3, JoinStep, LeaveDoneStep, HangUpStep, RefreshedStep,
     ToggleMuteStep, MicChangedStep, ReloadStep DEF Next

LEMMA HonestIsSilent ==
  ASSUME NEW p \in People, Typed(dev[p]), Honest(dev[p])
  PROVE  /\ MutedIsSilent(p)
         /\ AtRest(p) => \A r \in Rooms : In(p, r) =>
                           r = dev[p].shown /\ dev[p].tries[dev[p].room].to = r
<1>1. MutedIsSilent(p)
  BY DEF MutedIsSilent, Live, Honest, MicIsShown
<1>2. ASSUME AtRest(p), NEW r \in Rooms, In(p, r)
      PROVE  r = dev[p].shown /\ dev[p].tries[dev[p].room].to = r
  <2>1. PICK i \in DOMAIN dev[p].tries : Live(dev[p].tries[i]) /\ dev[p].tries[i].to = r
    BY <1>2 DEF In
  <2>2. dev[p].tries[i].phase = "up"
    BY <1>2, <2>1 DEF AtRest, Live
  <2> QED
    BY <2>1, <2>2, OneSessionSays DEF Arrived
<1> QED
  BY <1>1, <1>2

\* A device whose session was neither joined over nor left half-way is connected
\* to the room it shows and to no other once nothing is under way, and silent when
\* it shows that it is (useVoiceRoom.tsx, useCallVM.ts, LiveKitVoiceClient.ts).
THEOREM DevicesAreHonest == Spec => []DeviceIsHonest
<1>1. DevInv => DeviceIsHonest
  <2> SUFFICES ASSUME DevInv PROVE DeviceIsHonest
    OBVIOUS
  <2>1. TypeOK
    <3> SUFFICES ASSUME NEW p \in People
                 PROVE LET d == dev[p] IN
      /\ d.shown \in Rooms \cup {None} /\ d.wanted \in Rooms \cup {None}
      /\ d.tries \in Seq(Try) /\ d.room \in 0..Len(d.tries)
      /\ d.status \in {"idle", "connecting", "connected", "failed"}
      /\ d.muted \in BOOLEAN /\ d.sees \in BOOLEAN
      /\ d.incoming \in BOOLEAN /\ d.outgoing \in BOOLEAN
      /\ d.leaving \subseteq {"stay", "end"} /\ d.out \subseteq {"ring", "end"}
      /\ d.mic \in [of : 0..Len(d.tries), on : BOOLEAN]
      /\ frames[p] \in Seq({"ring", "end"})
      BY DEF TypeOK
    <3> DEFINE d == dev[p]
    <3>1. /\ Typed(d) /\ d \in Device /\ frames[p] \in Seq({"ring", "end"})
          /\ d.room \in 0..Len(d.tries) /\ d.mic.of \in 0..Len(d.tries)
      BY PersonIsTyped, TriesAreTyped
    <3> HIDE DEF d
    <3>2. d.mic \in [of : Nat, on : BOOLEAN]
      BY <3>1 DEF Device
    <3>3. d.mic \in [of : 0..Len(d.tries), on : BOOLEAN]
      BY <3>1, <3>2
    <3> QED
      BY <3>1, <3>3 DEF Device, d
  <2> QED
    BY <2>1, PersonIsTyped, HonestIsSilent DEF DeviceIsHonest
<1> QED
  BY <1>1, InitHolds, StepHolds, PTL DEF Spec

----------------------------------------------------------------------------
(* The rings.                                                              *)

\* An end is to be sent, or is on its way out.
Due(d) == "end" \in d.leaving \cup d.out

\* The device is in the direct room, or is leaving something.
There(d) ==
  d.leaving # {} \/ \E i \in DOMAIN d.tries : d.tries[i].phase = "up" /\ d.tries[i].to = Dm

\* Only the web rings, and only for the direct room; no connection was lost.
Sound(a, d) ==
  \A i \in DOMAIN d.tries :
    /\ d.tries[i].phase \notin {"closed", "cut", "failing", "dead"}
    /\ d.tries[i].phase = "camera" => d.tries[i].next = "video"
    /\ d.tries[i].next \in {"ring", "video"} =>
         a = "web" /\ d.tries[i].to = Dm /\ d.tries[i].phase # "prompt"

\* Who calls is there, and a ring not sent yet is that of the call, or its end is due.
Meant(a, d) ==
  /\ Sound(a, d)
  /\ d.outgoing => a = "web" /\ d.shown = Dm /\ There(d)
  /\ "ring" \in d.out => d.outgoing \/ Due(d)

\* The other person rings, or is about to; and the end comes after it.
Rung(c) == dev[Peer(c)].incoming \/ Contains(frames[Peer(c)], "ring")
EndComing(c) ==
  Due(dev[c]) \/ (frames[Peer(c)] # <<>> /\ Last(frames[Peer(c)]) = "end")

\* What rings is the call that is on, whose ring has been sent, or is ended.
Between(c) == Rung(c) => EndComing(c) \/ (dev[c].outgoing /\ "ring" \notin dev[c].out)

RingInv ==
  /\ \A p \in People : fault[p] = "none" => Meant(app[p], dev[p])
  /\ \A c \in People : fault[c] = "none" /\ fault[Peer(c)] = "none" => Between(c)

\* What a step does to a device before the effects run: they take the call down
\* where its room is not shown any more.
Goes(a, old, d) ==
  /\ Sound(a, d)
  /\ d.outgoing => /\ a = "web"
                   /\ \/ d.shown = Dm /\ There(d)
                      \/ d.shown # Dm /\ d.shown # old.shown
  /\ "ring" \in d.out => Due(d) \/ (d.outgoing /\ (d.sees => old.sees))

\* What rings stays accounted for.
Kept(old, d) ==
  /\ Due(old) => Due(d)
  /\ old.outgoing /\ "ring" \notin old.out =>
       Due(d) \/ (d.outgoing /\ "ring" \notin d.out /\ (d.sees => old.sees))

LEMMA PeerIsTheOther ==
  ASSUME NEW p \in People
  PROVE  /\ Peer(p) \in People /\ Peer(p) # p /\ Peer(Peer(p)) = p
         /\ \A q \in People : q = p \/ q = Peer(p)
<1>1. PICK a \in People, b \in People : a # b /\ People = {a, b}
  BY PeopleKnown
<1>2. \A q \in People : Peer(q) \in People /\ Peer(q) # q
  BY <1>1 DEF Peer
<1> QED
  BY <1>1, <1>2

LEMMA RenderedIsMeant ==
  ASSUME NEW a, NEW old, NEW d \in Device
  PROVE  LET e == Rendered(old, d) IN
         /\ Goes(a, old, d) => Meant(a, e)
         /\ Kept(old, d) => Kept(old, e)
         /\ e.incoming = d.incoming
<1> DEFINE quiet == [d EXCEPT !.outgoing = FALSE]
           ended == [d EXCEPT !.outgoing = FALSE, !.out = d.out \cup {"end"}]
           e == Rendered(old, d)
<1>1. \/ e = d /\ ~(d.sees /\ ~old.sees) /\ (d.outgoing => d.shown = old.shown \/ d.shown = Dm)
      \/ e = quiet /\ d.sees /\ ~old.sees
      \/ e = ended
  BY DEF Rendered, Device
<1>2. /\ quiet.tries = d.tries /\ quiet.leaving = d.leaving /\ quiet.out = d.out
      /\ ~quiet.outgoing /\ quiet.incoming = d.incoming
      /\ ended.tries = d.tries /\ ended.leaving = d.leaving /\ ended.out = d.out \cup {"end"}
      /\ ~ended.outgoing /\ ended.incoming = d.incoming
  BY DEF Device
<1> HIDE DEF quiet, ended, e
<1>3. CASE e = d /\ ~(d.sees /\ ~old.sees) /\ (d.outgoing => d.shown = old.shown \/ d.shown = Dm)
  BY <1>3 DEF Goes, Meant, Kept, e
<1>4. CASE e = quiet /\ d.sees /\ ~old.sees
  BY <1>2, <1>4 DEF Goes, Meant, Kept, Sound, Due, e
<1>5. CASE e = ended
  BY <1>2, <1>5 DEF Goes, Meant, Kept, Sound, Due, e
<1> QED
  BY <1>1, <1>3, <1>4, <1>5

LEMMA FaultStays ==
  ASSUME DevInv, NEW p \in People, NEW f, Fault(p, f)
  PROVE  /\ fault'[p] = "none" => fault[p] = "none" /\ f = "none"
         /\ \A q \in People : fault'[q] = "none" => fault[q] = "none"
BY DEF DevInv, Fault

LEMMA StoredRing ==
  ASSUME DevInv, RingInv, NEW p \in People, NEW e, dev' = [dev EXCEPT ![p] = e],
         app' = app, NEW f, Fault(p, f),
         fault[p] = "none" /\ f = "none" => Meant(app[p], e),
         fault[p] = "none" /\ f = "none" /\ Between(p) => Between(p)',
         fault[p] = "none" /\ f = "none" /\ Between(Peer(p)) => Between(Peer(p))'
  PROVE  RingInv'
<1>1. /\ dev'[p] = e /\ \A q \in People : q # p => dev'[q] = dev[q]
  BY DEF DevInv
<1>2. \A q \in People : fault'[q] = "none" => Meant(app'[q], dev'[q])
  BY <1>1, FaultStays DEF RingInv
<1>3. ASSUME NEW c \in People, fault'[c] = "none", fault'[Peer(c)] = "none" PROVE Between(c)'
  <2>1. Peer(c) \in People /\ Peer(p) \in People /\ (c = p \/ c = Peer(p)) /\ Peer(Peer(p)) = p
    BY PeerIsTheOther
  <2>2. fault[c] = "none" /\ fault[Peer(c)] = "none" /\ fault[p] = "none" /\ f = "none"
    BY <1>3, <2>1, FaultStays
  <2>3. Between(c)
    BY <2>2 DEF RingInv
  <2>4. CASE c = p
    BY <2>2, <2>3, <2>4
  <2>5. CASE c = Peer(p)
    BY <2>2, <2>3, <2>5
  <2> QED
    BY <2>1, <2>4, <2>5
<1> QED
  BY <1>2, <1>3 DEF RingInv
\* Nothing calls a device whose attempt is still on its way in.
LEMMA JoiningIsQuiet ==
  ASSUME NEW a, NEW d, Typed(d), Honest(d), Meant(a, d), NEW i \in DOMAIN d.tries,
         d.tries[i].phase \notin {"up", "gone"}
  PROVE  d.leaving = {} /\ ~d.outgoing
<1>1. d.leaving = {} /\ \A j \in DOMAIN d.tries : j # i => d.tries[j].phase = "gone"
  BY OneSessionSays
<1> QED
  BY <1>1 DEF Meant, There

LEMMA IdleGoes ==
  ASSUME NEW a, NEW d, NEW e, Meant(a, d), Sound(a, e), ~d.outgoing, ~e.outgoing,
         e.out = d.out, e.leaving = d.leaving
  PROVE  Goes(a, d, e) /\ Kept(d, e)
BY DEF Meant, Goes, Kept, Due

\* Two devices that differ in nothing a ring reads.
LEMMA AlikeGoes ==
  ASSUME NEW a, NEW d, NEW e, Meant(a, d), DOMAIN e.tries = DOMAIN d.tries,
         \A i \in DOMAIN d.tries : /\ e.tries[i].phase = d.tries[i].phase
                                   /\ e.tries[i].next = d.tries[i].next
                                   /\ e.tries[i].to = d.tries[i].to,
         e.outgoing = d.outgoing, e.out = d.out, e.leaving = d.leaving, e.shown = d.shown
  PROVE  /\ Sound(a, e)
         /\ (e.sees => d.sees) => Goes(a, d, e) /\ Kept(d, e)
         /\ ~d.outgoing => Goes(a, d, e) /\ Kept(d, e)
         /\ "ring" \notin d.out => Goes(a, d, e)
<1>1. Sound(a, e) /\ (There(d) => There(e))
  BY DEF Meant, Sound, There
<1> QED
  BY <1>1 DEF Meant, Goes, Kept, Due

\* What a step of p does to the rings, when it was not a fault.
Rings(p, d) ==
  fault[p] = "none" => /\ Goes(app[p], dev[p], d)
                       /\ Rung(p) => Kept(dev[p], d)

LEMMA PersonMeans ==
  ASSUME DevInv, RingInv, NEW p \in People, fault[p] = "none"
  PROVE  Honest(dev[p]) /\ Meant(app[p], dev[p]) /\ Sound(app[p], dev[p])
BY PersonIsTyped DEF RingInv, Meant

LEMMA OtherKeeps ==
  ASSUME NEW p \in People, UNCHANGED dev[Peer(p)], UNCHANGED frames[p],
         dev'[p].incoming => dev[p].incoming, Between(Peer(p))
  PROVE  Between(Peer(p))'
<1>1. Peer(Peer(p)) = p
  BY PeerIsTheOther
<1> QED
  BY <1>1 DEF Between, Rung, EndComing, Due

LEMMA RingStep ==
  ASSUME DevInv, RingInv, NEW p \in People, NEW d \in Device, Becomes(p, d), app' = app,
         UNCHANGED frames[Peer(p)], NEW f, Fault(p, f), f = "none" => Rings(p, d),
         f = "none" /\ fault[p] = "none" /\ Between(Peer(p)) => Between(Peer(p))'
  PROVE  RingInv'
<1> DEFINE e == Rendered(dev[p], d)
<1>1. dev' = [dev EXCEPT ![p] = e]
  BY DEF Becomes
<1>2. /\ Goes(app[p], dev[p], d) => Meant(app[p], e)
      /\ Kept(dev[p], d) => Kept(dev[p], e)
  BY RenderedIsMeant
<1> HIDE DEF e
<1>3. dev'[p] = e /\ \A q \in People : q # p => dev'[q] = dev[q]
  BY <1>1 DEF DevInv
<1>4. ASSUME fault[p] = "none", f = "none", Between(p) PROVE Between(p)'
  <2>1. UNCHANGED dev[Peer(p)]
    BY <1>3, PeerIsTheOther
  <2>2. Rung(p)' => Rung(p)
    BY <2>1 DEF Rung
  <2>3. Rung(p) => Kept(dev[p], e)
    BY <1>2, <1>4 DEF Rings
  <2> QED
    BY <1>3, <1>4, <2>2, <2>3 DEF Between, EndComing, Kept
<1>5. fault[p] = "none" /\ f = "none" => Meant(app[p], e)
  BY <1>2 DEF Rings
<1> QED
  BY <1>1, <1>4, <1>5, StoredRing

LEMMA CalmStep ==
  ASSUME DevInv, RingInv, NEW p \in People, NEW d \in Device, Becomes(p, d),
         UNCHANGED <<app, frames>>, NEW f, Fault(p, f), f = "none" => Rings(p, d),
         d.incoming => dev[p].incoming
  PROVE  RingInv'
<1> DEFINE e == Rendered(dev[p], d)
<1>1. dev' = [dev EXCEPT ![p] = e] /\ e.incoming = d.incoming
  BY RenderedIsMeant DEF Becomes
<1> HIDE DEF e
<1>2. dev'[p] = e /\ \A q \in People : q # p => dev'[q] = dev[q]
  BY <1>1 DEF DevInv
<1>3. UNCHANGED dev[Peer(p)] /\ UNCHANGED frames[p] /\ UNCHANGED frames[Peer(p)]
  BY <1>2, PeerIsTheOther
<1>4. Between(Peer(p)) => Between(Peer(p))'
  BY <1>1, <1>2, <1>3, OtherKeeps
<1> QED
  BY <1>3, <1>4, RingStep

LEMMA NoFault == ASSUME DevInv, NEW p \in People, UNCHANGED fault PROVE Fault(p, "none")
BY DEF Fault, DevInv

\* An attempt that begins: nothing was under way, so nobody was called.
LEMMA BeginningGoes ==
  ASSUME NEW a, NEW d, Typed(d), Meant(a, d), Moved(d) # "session",
         NEW t \in Try, t.phase \in {"prompt", "session"},
         t.next \in {"ring", "video"} => a = "web" /\ t.to = Dm /\ t.phase = "session",
         NEW e, e.tries = Append(d.tries, t), e.outgoing = d.outgoing, e.out = d.out,
         e.leaving = d.leaving
  PROVE  Goes(a, d, e) /\ Kept(d, e)
<1>1. d.leaving = {} /\ \A i \in DOMAIN d.tries : d.tries[i].phase = "gone"
  BY DEF Moved, Noted, Crowded
<1>2. ~d.outgoing
  BY <1>1 DEF Meant, There
<1>3. \A i \in DOMAIN e.tries : e.tries[i] = t \/ (i \in DOMAIN d.tries /\ e.tries[i] = d.tries[i])
  BY TriesAreTyped
<1>4. Sound(a, e)
  BY <1>3 DEF Sound, Meant
<1> QED
  BY <1>2, <1>4, IdleGoes

LEMMA JoinWebGoes ==
  ASSUME NEW a, NEW d, Typed(d), Meant(a, d), Moved(d) # "session",
         NEW g \in Device, g.tries = d.tries, g.outgoing = d.outgoing, g.out = d.out,
         g.leaving = d.leaving,
         NEW r \in Rooms, NEW next \in {"stay", "ring", "video"},
         next \in {"ring", "video"} => a = "web" /\ r = Dm
  PROVE  LET e == JoinWeb(g, r, next) IN Goes(a, d, e) /\ Kept(d, e)
<1> DEFINE t == [to |-> r, next |-> next, mic |-> FALSE, phase |-> "session"]
           e == JoinWeb(g, r, next)
<1>1. t \in Try /\ t.phase = "session" /\ t.to = r /\ t.next = next
  BY DEF Try
<1>2. e = [g EXCEPT !.status = "connecting", !.shown = r, !.tries = Append(g.tries, t)]
  BY DEF JoinWeb
<1> HIDE DEF t, e
<1>3. /\ e.tries = Append(d.tries, t) /\ e.outgoing = d.outgoing /\ e.out = d.out
      /\ e.leaving = d.leaving
  BY <1>2 DEF Device
<1>4. Goes(a, d, e) /\ Kept(d, e)
  BY <1>1, <1>3, BeginningGoes
<1> QED
  BY <1>4 DEF e

LEMMA JoinMobileGoes ==
  ASSUME NEW a, NEW d, Typed(d), Meant(a, d), Moved(d) # "session", NEW r \in Rooms
  PROVE  LET e == JoinMobile(d, r) IN Goes(a, d, e) /\ Kept(d, e)
<1> DEFINE t == [to |-> None, next |-> "stay", mic |-> FALSE, phase |-> "prompt"]
           e == JoinMobile(d, r)
<1>1. t \in Try /\ t.phase = "prompt" /\ t.next = "stay"
  BY DEF Try
<1>2. e = [d EXCEPT !.shown = r, !.wanted = r, !.tries = Append(d.tries, t)]
  BY DEF JoinMobile
<1> HIDE DEF t, e
<1>3. /\ e.tries = Append(d.tries, t) /\ e.outgoing = d.outgoing /\ e.out = d.out
      /\ e.leaving = d.leaving
  BY <1>2 DEF Typed, Device
<1>4. Goes(a, d, e) /\ Kept(d, e)
  BY <1>1, <1>3, BeginningGoes
<1> QED
  BY <1>4 DEF e

\* The flags of a device that goes on are in its type.
LEMMA JoinedFlags ==
  ASSUME NEW d, Typed(d), NEW r \in Rooms
  PROVE  /\ JoinMobile(d, r).incoming = d.incoming
         /\ \A next : JoinWeb(d, r, next).incoming = d.incoming
BY DEF JoinMobile, JoinWeb, Typed, Device

LEMMA JoinRing ==
  ASSUME DevInv, RingInv, NEW p \in People, NEW r \in Rooms, Join(p, r)
  PROVE  RingInv'
<1>0. Typed(dev[p]) /\ dev[p] \in Device
  BY PersonIsTyped
<1>1. UNCHANGED <<app, frames>> /\ Fault(p, Moved(dev[p]))
  BY DEF Join
<1>2. CASE app[p] = "web"
  <2> DEFINE e == JoinWeb(dev[p], r, "stay")
  <2>1. Becomes(p, e)
    BY <1>2 DEF Join
  <2>2. e \in Device /\ e.incoming = dev[p].incoming
    BY <1>0, JoinWebIsHonest, JoinedFlags DEF Typed
  <2>3. ASSUME Moved(dev[p]) = "none" PROVE Rings(p, e)
    BY <1>0, <1>2, <2>3, PersonMeans, JoinWebGoes DEF Rings
  <2> HIDE DEF e
  <2> QED
    BY <1>1, <2>1, <2>2, <2>3, CalmStep
<1>3. CASE app[p] # "web"
  <2> DEFINE e == JoinMobile(dev[p], r)
  <2>1. Becomes(p, e)
    BY <1>3 DEF Join
  <2>2. e \in Device /\ e.incoming = dev[p].incoming
    BY <1>0, JoinMobileIsHonest, JoinedFlags DEF Typed
  <2>3. ASSUME Moved(dev[p]) = "none" PROVE Rings(p, e)
    BY <1>0, <2>3, PersonMeans, JoinMobileGoes DEF Rings
  <2> HIDE DEF e
  <2> QED
    BY <1>1, <2>1, <2>2, <2>3, CalmStep
<1> QED
  BY <1>2, <1>3

LEMMA StartRing ==
  ASSUME DevInv, RingInv, NEW p \in People, NEW video \in BOOLEAN, Start(p, video)
  PROVE  RingInv'
<1> DEFINE next == IF video THEN "video" ELSE "ring"
           e == JoinWeb(dev[p], Dm, next)
<1>1. /\ Typed(dev[p]) /\ dev[p] \in Device /\ next \in {"ring", "video"} /\ Dm \in Rooms
      /\ UNCHANGED <<app, frames>> /\ Fault(p, Moved(dev[p])) /\ Becomes(p, e) /\ app[p] = "web"
  BY PersonIsTyped, RoomsKnown DEF Start
<1> HIDE DEF next
<1>2. e \in Device /\ e.incoming = dev[p].incoming
  BY <1>1, JoinWebIsHonest, JoinedFlags DEF Typed
<1>3. ASSUME Moved(dev[p]) = "none" PROVE Rings(p, e)
  BY <1>1, <1>3, PersonMeans, JoinWebGoes DEF Rings
<1> HIDE DEF e
<1> QED
  BY <1>1, <1>2, <1>3, CalmStep

LEMMA AcceptRing ==
  ASSUME DevInv, RingInv, NEW p \in People, Accept(p)
  PROVE  RingInv'
<1> DEFINE g == [dev[p] EXCEPT !.incoming = FALSE]
           e == JoinWeb(g, Dm, "stay")
<1>1. /\ Typed(dev[p]) /\ dev[p] \in Device /\ Dm \in Rooms /\ dev[p].incoming
      /\ UNCHANGED <<app, frames>> /\ Fault(p, Moved(dev[p])) /\ Becomes(p, e)
  BY PersonIsTyped, RoomsKnown DEF Accept
<1>2. /\ g \in Device /\ g.tries = dev[p].tries /\ g.outgoing = dev[p].outgoing
      /\ g.out = dev[p].out /\ g.leaving = dev[p].leaving /\ g.room = dev[p].room
      /\ g.mic = dev[p].mic
  BY <1>1 DEF Device
<1> HIDE DEF g
<1>3. Typed(g)
  BY <1>1, <1>2 DEF Typed
<1>4. e \in Device
  BY <1>1, <1>3, JoinWebIsHonest DEF Typed
<1>5. ASSUME Moved(dev[p]) = "none" PROVE Rings(p, e)
  BY <1>1, <1>2, <1>5, PersonMeans, JoinWebGoes DEF Rings
<1> HIDE DEF e
<1> QED
  BY <1>1, <1>4, <1>5, CalmStep

\* An attempt goes on; it may be given a new room as long as it does not ring.
LEMMA AttemptGoes ==
  ASSUME NEW a, NEW d, Typed(d), Honest(d), Meant(a, d), NEW i \in DOMAIN d.tries,
         d.tries[i].phase \notin {"up", "gone"},
         NEW e, DOMAIN e.tries = DOMAIN d.tries,
         \A j \in DOMAIN d.tries : j # i => e.tries[j] = d.tries[j],
         e.tries[i].phase \in {"session", "connect", "joined", "camera", "up", "gone"},
         e.tries[i].phase = "camera" => e.tries[i].next = "video",
         e.tries[i].next \in {d.tries[i].next, "stay"},
         d.tries[i].phase = "prompt" \/ e.tries[i].to = d.tries[i].to,
         e.outgoing = d.outgoing, e.out = d.out, e.leaving = d.leaving
  PROVE  Goes(a, d, e) /\ Kept(d, e)
<1>1. Sound(a, e)
  BY DEF Meant, Sound
<1> QED
  BY <1>1, JoiningIsQuiet, IdleGoes

LEMMA AtGoes ==
  ASSUME NEW a, NEW d, Typed(d), Honest(d), Meant(a, d), NEW i \in DOMAIN d.tries,
         d.tries[i].phase \notin {"up", "gone"},
         NEW ph \in {"connect", "camera", "up", "gone"},
         ph = "camera" => d.tries[i].next = "video",
         NEW e, e.tries = At(d, i, ph).tries,
         e.outgoing = d.outgoing, e.out = d.out, e.leaving = d.leaving
  PROVE  Goes(a, d, e) /\ Kept(d, e)
<1> DEFINE g == At(d, i, ph)
<1>1. /\ DOMAIN g.tries = DOMAIN d.tries /\ g.tries[i].phase = ph
      /\ g.tries[i].to = d.tries[i].to /\ g.tries[i].next = d.tries[i].next
      /\ \A j \in DOMAIN d.tries : j # i => g.tries[j] = d.tries[j]
  BY AtIsTyped, SMTT(60)
<1>2. e.tries = g.tries
  OBVIOUS
<1> HIDE DEF g
<1> QED
  BY <1>1, <1>2, AttemptGoes

LEMMA PromptedRing ==
  ASSUME DevInv, RingInv, NEW p \in People, NEW i \in DOMAIN dev[p].tries, Prompted(p, i)
  PROVE  RingInv'
<1> DEFINE d == dev[p]
           over == At(d, i, "gone")
           refused == [over EXCEPT !.status = "failed"]
           asked == [d.tries[i] EXCEPT !.to = d.wanted, !.phase = "session"]
           named == With(d, i, asked)
           begun == [named EXCEPT !.status = "connecting"]
<1>0. /\ Typed(d) /\ d \in Device /\ UNCHANGED <<app, frames, fault>>
      /\ i \in DOMAIN d.tries /\ d.tries[i] \in Try /\ d.tries[i].phase = "prompt"
      /\ Fault(p, "none")
  BY PersonIsTyped, TriesAreTyped, NoFault DEF Prompted
<1>1. \/ Becomes(p, over)
      \/ Becomes(p, refused)
      \/ d.wanted # None /\ Becomes(p, begun)
  BY DEF Prompted
<1>2. fault[p] = "none" => Honest(d) /\ Meant(app[p], d)
  BY PersonMeans
<1> HIDE DEF d
<1>3. /\ Typed(over) /\ over.outgoing = d.outgoing /\ over.out = d.out
      /\ over.leaving = d.leaving /\ over.incoming = d.incoming
  BY <1>0, AtIsTyped
<1>4. over.tries = At(d, i, "gone").tries
  OBVIOUS
<1> HIDE DEF over
<1>5. /\ over \in Device /\ refused \in Device /\ refused.tries = over.tries
      /\ refused.outgoing = d.outgoing /\ refused.out = d.out
      /\ refused.leaving = d.leaving /\ refused.incoming = d.incoming
  BY <1>3 DEF Typed, Device
<1> HIDE DEF refused
<1>6. fault[p] = "none" => /\ Goes(app[p], d, over) /\ Kept(d, over)
                           /\ Goes(app[p], d, refused) /\ Kept(d, refused)
  BY <1>0, <1>2, <1>3, <1>4, <1>5, AtGoes
<1>7. d.wanted # None => /\ asked \in Try /\ asked.phase = "session" /\ asked.to = d.wanted
                         /\ asked.next = d.tries[i].next
  BY <1>0 DEF Try, Device
<1> HIDE DEF asked
<1>8. asked \in Try =>
        /\ Typed(named) /\ DOMAIN named.tries = DOMAIN d.tries /\ named.tries[i] = asked
        /\ \A j \in DOMAIN d.tries : j # i => named.tries[j] = d.tries[j]
        /\ named.outgoing = d.outgoing /\ named.out = d.out
        /\ named.leaving = d.leaving /\ named.incoming = d.incoming
  BY <1>0, WithIsTyped
<1> HIDE DEF named
<1>9. asked \in Try => /\ begun \in Device /\ begun.tries = named.tries
                       /\ begun.outgoing = d.outgoing /\ begun.out = d.out
                       /\ begun.leaving = d.leaving /\ begun.incoming = d.incoming
  BY <1>8 DEF Typed, Device
<1> HIDE DEF begun
<1>10. fault[p] = "none" /\ d.wanted # None => Goes(app[p], d, begun) /\ Kept(d, begun)
  BY <1>0, <1>2, <1>7, <1>8, <1>9, AttemptGoes
<1> QED
  BY <1>0, <1>1, <1>3, <1>5, <1>6, <1>7, <1>9, <1>10, CalmStep DEF Rings, d

LEMMA OpenedRing ==
  ASSUME DevInv, RingInv, NEW p \in People, NEW i \in DOMAIN dev[p].tries, SessionOpened(p, i)
  PROVE  RingInv'
<1> DEFINE e == At(dev[p], i, "connect")
<1>1. /\ Typed(dev[p]) /\ dev[p].tries[i].phase = "session" /\ Becomes(p, e)
      /\ UNCHANGED <<app, frames>> /\ Fault(p, "none")
      /\ fault[p] = "none" => Honest(dev[p]) /\ Meant(app[p], dev[p])
  BY PersonIsTyped, PersonMeans, NoFault DEF SessionOpened
<1>2. /\ e \in Device /\ e.incoming = dev[p].incoming /\ e.outgoing = dev[p].outgoing
      /\ e.out = dev[p].out /\ e.leaving = dev[p].leaving
  BY <1>1, AtIsTyped DEF Typed
<1>3. Rings(p, e)
  BY <1>1, <1>2, AtGoes DEF Rings
<1> HIDE DEF e
<1> QED
  BY <1>1, <1>2, <1>3, CalmStep

\* Nobody's other connection was there to be closed.
LEMMA ConnectedRing ==
  ASSUME DevInv, RingInv, NEW p \in People, NEW i \in DOMAIN dev[p].tries, Connected(p, i)
  PROVE  RingInv'
<1> DEFINE d == dev[p]
           Kicked(t) == IF t.to # d.tries[i].to THEN t
                        ELSE IF t.phase = "joined" THEN [t EXCEPT !.phase = "cut"]
                        ELSE IF Live(t) THEN [t EXCEPT !.phase = "closed"] ELSE t
           mine == [d.tries[i] EXCEPT !.phase = "joined"]
           s == [j \in DOMAIN d.tries |-> IF j = i THEN mine ELSE Kicked(d.tries[j])]
           e == [d EXCEPT !.status = IF app[p] = "mobile" THEN "connected" ELSE d.status,
                          !.tries = s]
<1>0. /\ Typed(d) /\ d \in Device /\ UNCHANGED <<app, frames>> /\ Fault(p, "none")
      /\ i \in DOMAIN d.tries /\ d.tries[i].phase = "connect"
      /\ DOMAIN d.tries = 1..Len(d.tries) /\ Len(d.tries) \in Nat
      /\ \A j \in DOMAIN d.tries : d.tries[j] \in Try
      /\ fault[p] = "none" => Honest(d) /\ Meant(app[p], d)
  BY PersonIsTyped, TriesAreTyped, PersonMeans, NoFault DEF Connected
<1>1. Becomes(p, e)
  BY DEF Connected
<1> HIDE DEF d
<1>2. /\ mine \in Try /\ mine.phase = "joined" /\ mine.to = d.tries[i].to
      /\ mine.next = d.tries[i].next
  BY <1>0 DEF Try
<1>3. \A t \in Try : Kicked(t) \in Try /\ (t.phase = "gone" => Kicked(t) = t)
  BY DEF Try, Live
<1> HIDE DEF mine, Kicked
<1>4. s \in Seq(Try) /\ DOMAIN s = DOMAIN d.tries
  <2>1. \A j \in 1..Len(d.tries) : s[j] \in Try
    BY <1>0, <1>2, <1>3
  <2>2. s \in [1..Len(d.tries) -> Try]
    BY <1>0, <2>1
  <2> QED
    BY <1>0, <2>2
<1>5. s[i] = mine /\ \A j \in DOMAIN d.tries : j # i => s[j] = Kicked(d.tries[j])
  BY <1>0
<1> HIDE DEF s
<1>6. /\ e \in Device /\ e.tries = s /\ e.outgoing = d.outgoing /\ e.out = d.out
      /\ e.leaving = d.leaving /\ e.incoming = d.incoming
  BY <1>0, <1>4 DEF Device
<1> HIDE DEF e
<1>7. ASSUME fault[p] = "none" PROVE Goes(app[p], d, e) /\ Kept(d, e)
  <2>1. \A j \in DOMAIN d.tries : j # i => s[j] = d.tries[j]
    BY <1>0, <1>3, <1>5, <1>7, OneSessionSays
  <2> QED
    BY <1>0, <1>2, <1>4, <1>5, <1>6, <1>7, <2>1, AttemptGoes
<1> QED
  BY <1>0, <1>1, <1>6, <1>7, CalmStep DEF Rings, d

LEMMA JoinFailedRing ==
  ASSUME DevInv, RingInv, NEW p \in People, NEW i \in DOMAIN dev[p].tries, JoinFailed(p, i)
  PROVE  RingInv'
<1> DEFINE d == dev[p]
           t == [d.tries[i] EXCEPT !.next = "stay", !.phase = "gone"]
           at == With(d, i, t)
           e == [at EXCEPT !.status = "failed"]
           loose == [e EXCEPT !.room = 0]
           blank == [e EXCEPT !.shown = None]
<1>0. /\ Typed(d) /\ UNCHANGED <<app, frames>> /\ Fault(p, "none")
      /\ i \in DOMAIN d.tries /\ d.tries[i].phase \in {"session", "connect", "failing"}
      /\ d.tries[i] \in Try
      /\ fault[p] = "none" => Honest(d) /\ Meant(app[p], d)
  BY PersonIsTyped, TriesAreTyped, PersonMeans, NoFault DEF JoinFailed
<1>1. Becomes(p, e) \/ Becomes(p, loose) \/ Becomes(p, blank)
  BY DEF JoinFailed
<1> HIDE DEF d
<1>2. t \in Try /\ t.phase = "gone" /\ t.next = "stay" /\ t.to = d.tries[i].to
  BY <1>0 DEF Try
<1> HIDE DEF t
<1>3. /\ at \in Device /\ at.outgoing = d.outgoing /\ at.out = d.out
      /\ at.leaving = d.leaving /\ at.incoming = d.incoming
      /\ DOMAIN at.tries = DOMAIN d.tries /\ at.tries[i] = t
      /\ \A j \in DOMAIN d.tries : j # i => at.tries[j] = d.tries[j]
  BY <1>0, <1>2, WithIsTyped DEF Typed
<1> HIDE DEF at
<1> DEFINE Stays(g) ==
             /\ g \in Device /\ g.tries = at.tries /\ g.outgoing = d.outgoing
             /\ g.out = d.out /\ g.leaving = d.leaving /\ g.incoming = d.incoming
<1>4. \A g \in {e, loose, blank} : Stays(g)
  <2>1. Stays(e)
    BY <1>3 DEF Device
  <2> HIDE DEF e
  <2>2. Stays(loose)
    BY <2>1 DEF Device
  <2>3. Stays(blank)
    BY <2>1 DEF Device
  <2> QED
    BY <2>1, <2>2, <2>3
<1> HIDE DEF e, loose, blank
<1>5. PICK g \in {e, loose, blank} : Becomes(p, g)
  BY <1>1
<1>6. fault[p] = "none" => Goes(app[p], d, g) /\ Kept(d, g)
  BY <1>0, <1>2, <1>3, <1>4, AttemptGoes
<1> QED
  BY <1>0, <1>4, <1>5, <1>6, CalmStep DEF Rings, d

\* A connection that closes is a fault, so its handler never runs without one.
LEMMA ClosedRing ==
  ASSUME DevInv, RingInv, NEW p \in People, NEW i \in DOMAIN dev[p].tries,
         Closed(p, i) \/ Disconnected(p, i)
  PROVE  RingInv'
<1>1. CASE Closed(p, i)
  <2> DEFINE ph == IF dev[p].tries[i].phase = "joined" THEN "cut" ELSE "closed"
             at == At(dev[p], i, ph)
  <2>1. /\ Typed(dev[p]) /\ Becomes(p, at) /\ Fault(p, "call")
        /\ UNCHANGED <<app, frames>> /\ ph \in {"cut", "closed"}
    BY <1>1, PersonIsTyped DEF Closed
  <2> HIDE DEF ph
  <2>2. at \in Device /\ at.incoming = dev[p].incoming
    BY <2>1, AtIsTyped DEF Typed
  <2> HIDE DEF at
  <2> QED
    BY <2>1, <2>2, CalmStep
<1>2. CASE Disconnected(p, i)
  <2> DEFINE ph == IF dev[p].tries[i].phase = "cut" THEN "failing" ELSE "gone"
             at == At(dev[p], i, ph)
             e == [at EXCEPT !.room = 0, !.status = "idle", !.sees = FALSE]
  <2>1. /\ Typed(dev[p]) /\ (Becomes(p, at) \/ Becomes(p, e)) /\ Fault(p, "none")
        /\ UNCHANGED <<app, frames>> /\ dev[p].tries[i].phase \in {"closed", "cut"}
        /\ ph \in {"failing", "gone"}
    BY <1>2, PersonIsTyped, NoFault DEF Disconnected
  <2> HIDE DEF ph
  <2>2. at \in Device /\ at.incoming = dev[p].incoming
    BY <2>1, AtIsTyped DEF Typed
  <2> HIDE DEF at
  <2>3. e \in Device /\ e.incoming = dev[p].incoming
    BY <2>2 DEF Device
  <2>4. fault[p] # "none"
    BY <2>1, PersonMeans DEF Sound
  <2> HIDE DEF e
  <2> QED
    BY <2>1, <2>2, <2>3, <2>4, CalmStep DEF Rings
<1> QED
  BY <1>1, <1>2

\* join returned.  A ring begins here where no camera is waited for, and it was
\* a fault if somebody was in the room: they would be taken for the answer.
LEMMA AdoptedRing ==
  ASSUME DevInv, RingInv, NEW p \in People, NEW i \in DOMAIN dev[p].tries, Adopted(p, i)
  PROVE  RingInv'
<1> DEFINE d == dev[p]
           rings == d.tries[i].next = "ring"
           ph == CASE d.tries[i].phase = "joined" ->
                        IF d.tries[i].next = "video" THEN "camera" ELSE "up"
                   [] d.tries[i].phase = "cut" -> "closed"
                   [] OTHER -> "dead"
           at == At(d, i, ph)
           came == d.tries[i].phase # "failing" /\ Others(p, d.tries[i].to)
           e == [at EXCEPT !.room = i, !.status = "connected", !.muted = TRUE, !.sees = came]
           told == [e EXCEPT !.outgoing = TRUE, !.out = e.out \cup {"ring"}]
<1>0. /\ Typed(d) /\ UNCHANGED <<app, frames>> /\ i \in DOMAIN d.tries
      /\ d.tries[i].phase \in {"joined", "cut", "failing"} /\ i \in Nat
      /\ fault[p] = "none" => Honest(d) /\ Meant(app[p], d) /\ Sound(app[p], d)
  BY PersonIsTyped, PersonMeans, TriesAreTyped DEF Adopted
<1>1. Becomes(p, IF rings THEN told ELSE e) /\ Fault(p, Noted("call", rings /\ e.sees))
  BY DEF Adopted
<1> HIDE DEF d
<1>2. /\ ph \in {"camera", "up", "closed", "dead"}
      /\ ph = "camera" => d.tries[i].next = "video"
      /\ d.tries[i].phase = "joined" => ph \in {"camera", "up"} /\ (rings => ph = "up")
  OBVIOUS
<1>3. /\ came \in BOOLEAN
      /\ fault[p] = "none" => d.tries[i].phase = "joined"
  BY <1>0 DEF Others, Sound
<1> HIDE DEF ph, came
<1>4. /\ Typed(at) /\ at.outgoing = d.outgoing /\ at.out = d.out /\ at.leaving = d.leaving
      /\ at.incoming = d.incoming /\ at.shown = d.shown
      /\ DOMAIN at.tries = DOMAIN d.tries
      /\ at.tries[i].phase = ph /\ at.tries[i].to = d.tries[i].to
  BY <1>0, <1>2, AtIsTyped
<1>5. at.tries = At(d, i, ph).tries
  OBVIOUS
<1> HIDE DEF at
<1>6. /\ e \in Device /\ e.tries = at.tries /\ e.outgoing = d.outgoing /\ e.out = d.out
      /\ e.leaving = d.leaving /\ e.incoming = d.incoming /\ e.shown = d.shown
      /\ e.sees = came
  BY <1>0, <1>3, <1>4 DEF Typed, Device
<1> HIDE DEF e
<1>7. fault[p] = "none" => Goes(app[p], d, e) /\ Kept(d, e)
  BY <1>0, <1>2, <1>3, <1>5, <1>6, AtGoes
<1>8. /\ told \in Device /\ told.tries = e.tries /\ told.outgoing
      /\ told.out = e.out \cup {"ring"} /\ told.leaving = e.leaving
      /\ told.incoming = e.incoming /\ told.shown = e.shown /\ told.sees = e.sees
  BY <1>6 DEF Device
<1> HIDE DEF told
<1>9. ASSUME fault[p] = "none", rings, ~e.sees PROVE Goes(app[p], d, told) /\ Kept(d, told)
  <2>1. d.tries[i].to = Dm /\ app[p] = "web" /\ d.shown = Dm
    BY <1>0, <1>3, <1>9, OneSessionSays DEF Sound
  <2>2. There(told)
    BY <1>0, <1>2, <1>3, <1>4, <1>6, <1>8, <1>9, <2>1 DEF There
  <2>3. ~d.outgoing
    BY <1>0, <1>3, <1>9, JoiningIsQuiet
  <2> QED
    BY <1>6, <1>7, <1>8, <1>9, <2>1, <2>2, <2>3 DEF Goes, Kept, Sound, Due
<1> HIDE DEF rings
<1>10. CASE rings
  <2>1. Becomes(p, told) /\ Fault(p, Noted("call", e.sees))
    BY <1>1, <1>10 DEF Noted
  <2>2. Noted("call", e.sees) = "none" => Rings(p, told)
    BY <1>9, <1>10 DEF Noted, Rings, d
  <2>3. told.incoming => dev[p].incoming
    BY <1>6, <1>8 DEF d
  <2> QED
    BY <1>0, <1>8, <2>1, <2>2, <2>3, CalmStep
<1>11. CASE ~rings
  <2>1. Becomes(p, e) /\ Fault(p, "none")
    BY <1>1, <1>11 DEF Noted
  <2> QED
    BY <1>0, <1>6, <1>7, <2>1, CalmStep DEF Rings, d
<1> QED
  BY <1>10, <1>11

LEMMA StartedRing ==
  ASSUME DevInv, RingInv, NEW p \in People, NEW i \in DOMAIN dev[p].tries, Started(p, i)
  PROVE  RingInv'
<1> DEFINE d == dev[p]
           waited == d.tries[i].phase = "camera"
           t == [d.tries[i] EXCEPT !.next = "stay",
                                   !.phase = IF waited THEN "up" ELSE d.tries[i].phase]
           at == With(d, i, t)
           told == [at EXCEPT !.outgoing = TRUE, !.out = at.out \cup {"ring"}]
           f == Noted("call", d.sees \/ ~waited)
<1>0. /\ Typed(d) /\ UNCHANGED <<app, frames>> /\ i \in DOMAIN d.tries
      /\ d.tries[i] \in Try /\ d.tries[i].next = "video"
      /\ fault[p] = "none" => Honest(d) /\ Meant(app[p], d) /\ Sound(app[p], d)
  BY PersonIsTyped, TriesAreTyped, PersonMeans DEF Started
<1>1. Becomes(p, told) /\ Fault(p, f)
  BY DEF Started
<1> HIDE DEF d
<1>2. /\ t \in Try /\ t.to = d.tries[i].to /\ t.next = "stay"
      /\ waited => t.phase = "up"
  BY <1>0 DEF Try
<1>3. f = "none" => waited /\ ~d.sees
  BY DEF Noted
<1> HIDE DEF t, f
<1>4. /\ Typed(at) /\ at.outgoing = d.outgoing /\ at.out = d.out /\ at.leaving = d.leaving
      /\ at.incoming = d.incoming /\ at.shown = d.shown /\ at.sees = d.sees
      /\ DOMAIN at.tries = DOMAIN d.tries /\ at.tries[i] = t
      /\ \A j \in DOMAIN d.tries : j # i => at.tries[j] = d.tries[j]
  BY <1>0, <1>2, WithIsTyped
<1> HIDE DEF at
<1>5. fault[p] = "none" /\ waited => Goes(app[p], d, at) /\ Kept(d, at)
  BY <1>0, <1>2, <1>4, AttemptGoes
<1>6. /\ told \in Device /\ told.tries = at.tries /\ told.outgoing
      /\ told.out = at.out \cup {"ring"} /\ told.leaving = at.leaving
      /\ told.incoming = at.incoming /\ told.shown = at.shown /\ told.sees = at.sees
  BY <1>4 DEF Typed, Device
<1> HIDE DEF told
<1>7. ASSUME fault[p] = "none", waited, ~d.sees PROVE Goes(app[p], d, told) /\ Kept(d, told)
  <2>1. d.tries[i].to = Dm /\ app[p] = "web" /\ d.shown = Dm
    BY <1>0, <1>7, OneSessionSays DEF Sound
  <2>2. There(told)
    BY <1>0, <1>2, <1>4, <1>6, <1>7, <2>1 DEF There
  <2>3. ~d.outgoing
    BY <1>0, <1>7, JoiningIsQuiet
  <2> QED
    BY <1>4, <1>5, <1>6, <1>7, <2>1, <2>2, <2>3 DEF Goes, Kept, Sound, Due
<1>8. f = "none" => Rings(p, told)
  BY <1>3, <1>7 DEF Rings, d
<1>9. told.incoming => dev[p].incoming
  BY <1>4, <1>6 DEF d
<1> QED
  BY <1>0, <1>1, <1>6, <1>8, <1>9, CalmStep

\* Leaving shows no room, or stays one thing to be waited for; the end that it
\* is told to send is due from then on.
LEMMA LeftGives ==
  ASSUME NEW d, Typed(d), NEW web \in BOOLEAN, NEW next \in {"stay", "end"}
  PROVE  LET e == Left(d, web, next) IN
         /\ e \in Device /\ e.tries = d.tries /\ e.incoming = d.incoming
         /\ e.outgoing = d.outgoing /\ ~e.sees
         /\ "ring" \in e.out <=> "ring" \in d.out
         /\ Due(d) => Due(e)
         /\ next = "end" => Due(e)
         /\ web => e.shown = None
<1> DEFINE e == Left(d, web, next)
<1>1. /\ e \in Device /\ e.tries = d.tries /\ e.incoming = d.incoming
      /\ e.outgoing = d.outgoing /\ e.sees = FALSE /\ (web => e.shown = None)
      /\ e.leaving = d.leaving \ {next}
      /\ e.out = IF next = "end" THEN d.out \cup {"end"} ELSE d.out
  BY DEF Typed, Left, Device
<1> HIDE DEF e
<1>2. /\ "ring" \in e.out <=> "ring" \in d.out
      /\ Due(d) => Due(e)
      /\ next = "end" => Due(e)
  BY <1>1 DEF Due
<1> QED
  BY <1>1, <1>2 DEF e

LEMMA LeaveGives ==
  ASSUME NEW a, NEW d, Typed(d), NEW web \in BOOLEAN, NEW next \in {"stay", "end"}
  PROVE  LET e == Leave(d, web, next) IN
         /\ e \in Device /\ e.incoming = d.incoming
         /\ e.outgoing = d.outgoing /\ (e.sees => d.sees)
         /\ Sound(a, d) => Sound(a, e)
         /\ "ring" \in e.out <=> "ring" \in d.out
         /\ Due(d) => Due(e)
         /\ next = "end" => Due(e)
         /\ web => e.shown = None \/ (e.shown = d.shown /\ There(e))
<1> DEFINE e == Leave(d, web, next)
<1>1. CASE web /\ d.room = 0
  <2>1. e = Left(d, web, next)
    BY <1>1 DEF Leave
  <2> HIDE DEF e
  <2>2. /\ e \in Device /\ e.tries = d.tries /\ e.incoming = d.incoming
        /\ e.outgoing = d.outgoing /\ ~e.sees
        /\ "ring" \in e.out <=> "ring" \in d.out
        /\ Due(d) => Due(e)
        /\ next = "end" => Due(e)
        /\ web => e.shown = None
    BY <2>1, LeftGives
  <2>3. Sound(a, d) => Sound(a, e)
    BY <2>2 DEF Sound
  <2> QED
    BY <2>2, <2>3 DEF e
<1>2. CASE ~(web /\ d.room = 0)
  <2> DEFINE g == At(d, d.room, "gone")
             held == IF d.room = 0 THEN d ELSE [g EXCEPT !.room = 0]
  <2>1. e = [held EXCEPT !.leaving = held.leaving \cup {next},
                         !.status = IF web THEN "idle" ELSE held.status,
                         !.sees = IF web THEN FALSE ELSE held.sees,
                         !.shown = IF web THEN held.shown ELSE None]
    BY <1>2 DEF Leave
  <2> HIDE DEF e
  <2> DEFINE Stays(h) ==
               /\ h \in Device /\ h.incoming = d.incoming /\ h.outgoing = d.outgoing
               /\ h.out = d.out /\ h.leaving = d.leaving /\ h.sees = d.sees
               /\ h.shown = d.shown /\ (Sound(a, d) => Sound(a, h))
  <2>2. Stays(held)
    <3>1. CASE d.room = 0
      BY <3>1 DEF Typed
    <3>2. CASE d.room # 0
      <4>1. d.room \in DOMAIN d.tries
        BY <3>2, TriesAreTyped
      <4>2. /\ Typed(g) /\ DOMAIN g.tries = DOMAIN d.tries
            /\ g.tries[d.room].phase = "gone" /\ g.tries[d.room].to = d.tries[d.room].to
            /\ g.tries[d.room].next = d.tries[d.room].next
            /\ \A j \in DOMAIN d.tries : j # d.room => g.tries[j] = d.tries[j]
            /\ g.incoming = d.incoming /\ g.outgoing = d.outgoing /\ g.out = d.out
            /\ g.leaving = d.leaving /\ g.sees = d.sees /\ g.shown = d.shown
        BY <4>1, AtIsTyped
      <4> HIDE DEF g
      <4> DEFINE h == [g EXCEPT !.room = 0]
      <4>3. /\ h \in Device /\ h.tries = g.tries /\ h.incoming = g.incoming
            /\ h.outgoing = g.outgoing /\ h.out = g.out /\ h.leaving = g.leaving
            /\ h.sees = g.sees /\ h.shown = g.shown
        BY <4>2 DEF Typed, Device
      <4>4. held = h
        BY <3>2
      <4> HIDE DEF h, held
      <4>5. Sound(a, d) => Sound(a, h)
        BY <4>2, <4>3 DEF Sound
      <4> QED
        BY <4>2, <4>3, <4>4, <4>5
    <3> QED
      BY <3>1, <3>2
  <2> HIDE DEF held
  <2>3. /\ e \in Device /\ e.tries = held.tries /\ e.incoming = d.incoming
        /\ e.outgoing = d.outgoing /\ (e.sees => d.sees) /\ e.out = d.out
        /\ e.leaving = d.leaving \cup {next} /\ (web => e.shown = d.shown)
    BY <2>1, <2>2 DEF Device
  <2>4. Sound(a, d) => Sound(a, e)
    BY <2>2, <2>3 DEF Sound
  <2>5. (Due(d) => Due(e)) /\ (next = "end" => Due(e)) /\ There(e)
    BY <2>3 DEF Due, There
  <2> QED
    BY <2>3, <2>4, <2>5 DEF e
<1> QED
  BY <1>1, <1>2

LEMMA HangUpRing ==
  ASSUME DevInv, RingInv, NEW p \in People, HangUp(p)
  PROVE  RingInv'
<1> DEFINE d == dev[p]
           web == app[p] = "web"
           e == Leave(d, web, "stay")
<1>1. /\ Typed(d) /\ UNCHANGED <<app, frames>> /\ Becomes(p, e) /\ Fault(p, MidJoin(d))
      /\ fault[p] = "none" => Meant(app[p], d)
  BY PersonIsTyped, PersonMeans DEF HangUp
<1>2. /\ e \in Device /\ e.incoming = d.incoming
      /\ e.outgoing = d.outgoing /\ (e.sees => d.sees)
      /\ Sound(app[p], d) => Sound(app[p], e)
      /\ "ring" \in e.out <=> "ring" \in d.out
      /\ Due(d) => Due(e)
      /\ web => e.shown = None \/ (e.shown = d.shown /\ There(e))
  BY <1>1, LeaveGives
<1> HIDE DEF e, d
<1>3. fault[p] = "none" => Goes(app[p], d, e) /\ Kept(d, e)
  BY <1>1, <1>2, RoomsKnown DEF Goes, Kept, Meant
<1> QED
  BY <1>1, <1>2, <1>3, CalmStep DEF Rings, d

LEMMA LeaveDoneRing ==
  ASSUME DevInv, RingInv, NEW p \in People, NEW next \in {"stay", "end"}, LeaveDone(p, next)
  PROVE  RingInv'
<1> DEFINE d == dev[p]
           web == app[p] = "web"
           e == Left(d, web, next)
<1>1. /\ Typed(d) /\ UNCHANGED <<app, frames>> /\ Becomes(p, e) /\ Fault(p, "none")
      /\ fault[p] = "none" => Meant(app[p], d)
  BY PersonIsTyped, PersonMeans, NoFault DEF LeaveDone
<1>2. /\ e \in Device /\ e.tries = d.tries /\ e.incoming = d.incoming
      /\ e.outgoing = d.outgoing /\ ~e.sees
      /\ "ring" \in e.out <=> "ring" \in d.out
      /\ Due(d) => Due(e)
      /\ web => e.shown = None
  BY <1>1, LeftGives
<1> HIDE DEF e, d
<1>3. fault[p] = "none" => Goes(app[p], d, e) /\ Kept(d, e)
  BY <1>1, <1>2, RoomsKnown DEF Goes, Kept, Meant, Sound
<1> QED
  BY <1>1, <1>2, <1>3, CalmStep DEF Rings, d

\* Whoever leaves an outgoing call behind has nobody who rings, or owes the end.
LEMMA LetGoGoes ==
  ASSUME NEW a, NEW d, Meant(a, d), NEW g \in Device, Typed(g), g.tries = d.tries,
         g.leaving = d.leaving, ~g.outgoing, "end" \in d.out => "end" \in g.out,
         "ring" \in g.out => "ring" \in d.out,
         NEW next \in {"stay", "end"}
  PROVE  LET e == Leave(g, TRUE, next) IN
         /\ e \in Device /\ e.incoming = g.incoming
         /\ next = "end" \/ "ring" \notin g.out => Goes(a, d, e)
         /\ next = "end" \/ "ring" \in d.out => Kept(d, e)
<1> DEFINE e == Leave(g, TRUE, next)
<1>1. /\ e \in Device /\ e.incoming = g.incoming
      /\ e.outgoing = g.outgoing
      /\ Sound(a, g) => Sound(a, e)
      /\ "ring" \in e.out <=> "ring" \in g.out
      /\ Due(g) => Due(e)
      /\ next = "end" => Due(e)
  BY LeaveGives
<1> HIDE DEF e
<1>2. Sound(a, g) /\ (Due(d) => Due(g))
  BY DEF Meant, Sound, Due
<1>3. /\ e \in Device /\ e.incoming = g.incoming
      /\ next = "end" \/ "ring" \notin g.out => Goes(a, d, e)
      /\ next = "end" \/ "ring" \in d.out => Kept(d, e)
  BY <1>1, <1>2 DEF Goes, Kept
<1> QED
  BY <1>3 DEF e

\* A call whose flags or requests changed.
LEMMA FlagsGive ==
  ASSUME NEW d, Typed(d)
  PROVE  /\ LET e == [d EXCEPT !.outgoing = FALSE] IN
              /\ Typed(e) /\ e \in Device /\ e.tries = d.tries /\ e.leaving = d.leaving
              /\ ~e.outgoing /\ e.out = d.out /\ e.incoming = d.incoming
              /\ e.shown = d.shown /\ e.sees = d.sees
         /\ \A b \in BOOLEAN :
              LET e == [d EXCEPT !.incoming = b] IN
              /\ Typed(e) /\ e \in Device /\ e.tries = d.tries /\ e.leaving = d.leaving
              /\ e.outgoing = d.outgoing /\ e.out = d.out /\ e.incoming = b
              /\ e.shown = d.shown /\ e.sees = d.sees
BY DEF Typed, Device

LEMMA RequestsGive ==
  ASSUME NEW d, Typed(d), NEW x \in SUBSET {"ring", "end"}
  PROVE  LET e == [d EXCEPT !.out = x] IN
         /\ Typed(e) /\ e \in Device /\ e.tries = d.tries /\ e.leaving = d.leaving
         /\ e.outgoing = d.outgoing /\ e.out = x /\ e.incoming = d.incoming
         /\ e.shown = d.shown /\ e.sees = d.sees
BY DEF Typed, Device

LEMMA CancelRing ==
  ASSUME DevInv, RingInv, NEW p \in People, Cancel(p)
  PROVE  RingInv'
<1> DEFINE d == dev[p]
           g == [d EXCEPT !.outgoing = FALSE]
           e == Leave(g, TRUE, "end")
<1>1. /\ Typed(d) /\ UNCHANGED <<app, frames>> /\ Becomes(p, e) /\ Fault(p, MidJoin(d))
      /\ fault[p] = "none" => Meant(app[p], d)
  BY PersonIsTyped, PersonMeans DEF Cancel
<1> HIDE DEF d
<1>2. /\ Typed(g) /\ g \in Device /\ g.tries = d.tries /\ g.leaving = d.leaving
      /\ ~g.outgoing /\ g.out = d.out /\ g.incoming = d.incoming
  BY <1>1, FlagsGive
<1> HIDE DEF g
<1>3. e \in Device /\ e.incoming = g.incoming
  BY <1>2, LeaveGives
<1>4. fault[p] = "none" => Goes(app[p], d, e) /\ Kept(d, e)
  BY <1>1, <1>2, LetGoGoes
<1> HIDE DEF e
<1> QED
  BY <1>1, <1>2, <1>3, <1>4, CalmStep DEF Rings, d

LEMMA RefusedRing ==
  ASSUME DevInv, RingInv, NEW p \in People, NEW kind \in {"ring", "end"}, Refused(p, kind)
  PROVE  RingInv'
<1> DEFINE d == dev[p]
           rest == d.out \ {kind}
           h == [d EXCEPT !.out = rest]
           g == [h EXCEPT !.outgoing = FALSE]
           e == Leave(g, TRUE, "stay")
<1>1. /\ Typed(d) /\ UNCHANGED <<app, frames>> /\ kind \in d.out
      /\ \/ kind = "ring" /\ Becomes(p, e) /\ Fault(p, MidJoin(d))
         \/ Becomes(p, h) /\ Fault(p, "call")
      /\ fault[p] = "none" => Meant(app[p], d)
  BY PersonIsTyped, PersonMeans DEF Refused
<1> HIDE DEF d
<1>2. rest \in SUBSET {"ring", "end"} /\ (kind = "ring" => "ring" \notin rest)
      /\ ("ring" \in rest => "ring" \in d.out)
      /\ (kind = "ring" /\ "end" \in d.out => "end" \in rest)
  BY <1>1 DEF Typed, Device
<1> HIDE DEF rest
<1>3. /\ Typed(h) /\ h \in Device /\ h.tries = d.tries /\ h.leaving = d.leaving
      /\ h.out = rest /\ h.incoming = d.incoming
  BY <1>1, <1>2, RequestsGive
<1> HIDE DEF h
<1>4. /\ Typed(g) /\ g \in Device /\ g.tries = h.tries /\ g.leaving = h.leaving
      /\ ~g.outgoing /\ g.out = h.out /\ g.incoming = h.incoming
  BY <1>3, FlagsGive
<1> HIDE DEF g
<1>5. e \in Device /\ e.incoming = g.incoming
  BY <1>4, LeaveGives
<1>6. fault[p] = "none" /\ kind = "ring" => Goes(app[p], d, e) /\ Kept(d, e)
  BY <1>1, <1>2, <1>3, <1>4, LetGoGoes
<1> HIDE DEF e
<1>7. CASE kind = "ring" /\ Becomes(p, e) /\ Fault(p, MidJoin(d))
  BY <1>1, <1>3, <1>4, <1>5, <1>6, <1>7, CalmStep DEF Rings, d
<1>8. CASE Becomes(p, h) /\ Fault(p, "call")
  BY <1>1, <1>3, <1>8, CalmStep DEF d
<1> QED
  BY <1>1, <1>7, <1>8

LEMMA DeclineRing ==
  ASSUME DevInv, RingInv, NEW p \in People, Decline(p) \/ Missed(p)
  PROVE  RingInv'
<1> DEFINE d == dev[p]
           g == [d EXCEPT !.incoming = FALSE]
           more == g.out \cup {"end"}
           e == [g EXCEPT !.out = more]
<1>0. Typed(d) /\ d \in Device
  BY PersonIsTyped
<1>1. /\ UNCHANGED <<app, frames>> /\ (Becomes(p, e) \/ Becomes(p, g)) /\ Fault(p, "none")
      /\ fault[p] = "none" => Meant(app[p], d)
  <2>1. e = [d EXCEPT !.incoming = FALSE, !.out = d.out \cup {"end"}]
    BY <1>0 DEF Device
  <2> QED
    BY <2>1, PersonMeans, NoFault DEF Decline, Missed
<1> HIDE DEF d
<1>2. /\ Typed(g) /\ g \in Device /\ g.tries = d.tries /\ g.leaving = d.leaving
      /\ g.outgoing = d.outgoing /\ g.out = d.out /\ g.incoming = FALSE
      /\ g.shown = d.shown /\ g.sees = d.sees
  BY <1>0, FlagsGive
<1> HIDE DEF g
<1>3. more \in SUBSET {"ring", "end"} /\ "end" \in more /\ ("ring" \in more => "ring" \in g.out)
  BY <1>2 DEF Device
<1> HIDE DEF more
<1>4. /\ Typed(e) /\ e \in Device /\ e.tries = g.tries /\ e.leaving = g.leaving
      /\ e.outgoing = g.outgoing /\ e.out = more /\ e.incoming = g.incoming
      /\ e.shown = g.shown /\ e.sees = g.sees
  BY <1>2, <1>3, RequestsGive
<1> HIDE DEF e
<1>5. fault[p] = "none" => Goes(app[p], d, g) /\ Kept(d, g)
  BY <1>1, <1>2, AlikeGoes
<1>6. fault[p] = "none" => Goes(app[p], d, e) /\ Kept(d, e)
  BY <1>2, <1>3, <1>4, <1>5 DEF Goes, Kept, Sound, There, Due
<1> QED
  BY <1>1, <1>2, <1>4, <1>5, <1>6, CalmStep DEF Rings, d

\* Who comes is the answer; while the ring is still theirs, that was a fault.
LEMMA RefreshedRing ==
  ASSUME DevInv, RingInv, NEW p \in People, Refreshed(p)
  PROVE  RingInv'
<1> DEFINE d == dev[p]
           now == Others(p, d.tries[d.room].to)
           e == [d EXCEPT !.sees = now]
           f == Noted("call", d.outgoing /\ now /\ StillRings(p))
<1>1. /\ Typed(d) /\ UNCHANGED <<app, frames>> /\ Becomes(p, e) /\ Fault(p, f)
      /\ fault[p] = "none" => Meant(app[p], d)
  BY PersonIsTyped, PersonMeans DEF Refreshed
<1>2. now \in BOOLEAN
  BY DEF Others
<1>3. f = "none" => ~d.outgoing \/ ~now \/ ~StillRings(p)
  BY DEF Noted
<1>4. ~StillRings(p) => ~Rung(p) /\ "ring" \notin d.out
  BY DEF StillRings, Rung
<1> HIDE DEF d, now, f
<1>5. /\ e \in Device /\ e.tries = d.tries /\ e.leaving = d.leaving
      /\ e.outgoing = d.outgoing /\ e.out = d.out /\ e.incoming = d.incoming
      /\ e.shown = d.shown /\ e.sees = now
  BY <1>1, <1>2 DEF Typed, Device
<1> HIDE DEF e
<1>6. ASSUME fault[p] = "none", f = "none"
      PROVE  Goes(app[p], d, e) /\ (Rung(p) => Kept(d, e))
  BY <1>1, <1>3, <1>4, <1>5, <1>6, AlikeGoes
<1> QED
  BY <1>1, <1>5, <1>6, CalmStep DEF Rings, d

LEMMA ToggleMuteRing ==
  ASSUME DevInv, RingInv, NEW p \in People, ToggleMute(p)
  PROVE  RingInv'
<1> DEFINE d == dev[p]
           flipped == [d EXCEPT !.muted = ~d.muted]
           change == [of |-> d.room, on |-> d.muted]
           asked == [d EXCEPT !.mic = change]
           Stays(g) == /\ g \in Device /\ g.tries = d.tries /\ g.leaving = d.leaving
                       /\ g.outgoing = d.outgoing /\ g.out = d.out
                       /\ g.incoming = d.incoming /\ g.shown = d.shown /\ g.sees = d.sees
<1>1. /\ Typed(d) /\ UNCHANGED <<app, frames>> /\ Fault(p, "none")
      /\ Becomes(p, flipped) \/ Becomes(p, asked)
      /\ fault[p] = "none" => Meant(app[p], d)
  BY PersonIsTyped, PersonMeans, NoFault DEF ToggleMute
<1> HIDE DEF d
<1>2. change \in [of : Nat, on : BOOLEAN]
  BY <1>1 DEF Typed, Device
<1> HIDE DEF change
<1>3. Stays(flipped) /\ Stays(asked)
  BY <1>1, <1>2 DEF Typed, Device
<1> HIDE DEF flipped, asked
<1>4. PICK g \in {flipped, asked} : Becomes(p, g)
  BY <1>1
<1>5. fault[p] = "none" => Goes(app[p], d, g) /\ Kept(d, g)
  BY <1>1, <1>3, AlikeGoes
<1> QED
  BY <1>1, <1>3, <1>4, <1>5, CalmStep DEF Rings, d

LEMMA MicChangedRing ==
  ASSUME DevInv, RingInv, NEW p \in People, MicChanged(p)
  PROVE  RingInv'
<1> DEFINE d == dev[p]
           rest == [of |-> 0, on |-> FALSE]
           i == d.mic.of
           on == d.mic.on
           kept == [d EXCEPT !.mic = rest]
           set == [d EXCEPT !.mic = rest, !.muted = ~on]
           heard == [d.tries[i] EXCEPT !.mic = on]
           e == With(set, i, heard)
           Stays(g) == /\ g \in Device /\ g.leaving = d.leaving
                       /\ g.outgoing = d.outgoing /\ g.out = d.out
                       /\ g.incoming = d.incoming /\ g.shown = d.shown /\ g.sees = d.sees
           Same(g) == /\ DOMAIN g.tries = DOMAIN d.tries
                      /\ \A j \in DOMAIN d.tries : /\ g.tries[j].phase = d.tries[j].phase
                                                   /\ g.tries[j].next = d.tries[j].next
                                                   /\ g.tries[j].to = d.tries[j].to
<1>0. /\ Typed(d) /\ d \in Device /\ UNCHANGED <<app, frames>> /\ Fault(p, "none")
      /\ i \in DOMAIN d.tries /\ d.tries[i] \in Try /\ on \in BOOLEAN
      /\ fault[p] = "none" => Meant(app[p], d)
  <2>1. i \in 1..Len(d.tries) /\ DOMAIN d.tries = 1..Len(d.tries)
    BY PersonIsTyped, TriesAreTyped DEF MicChanged
  <2> QED
    BY <2>1, PersonIsTyped, PersonMeans, TriesAreTyped, NoFault DEF MicChanged, Device
<1>1. Becomes(p, kept) \/ Becomes(p, e) \/ Becomes(p, set)
  <2>1. [kept EXCEPT !.muted = ~on] = set
    BY <1>0 DEF Device
  <2>2. kept.tries = d.tries
    BY <1>0 DEF Device
  <2> QED
    BY <2>1, <2>2 DEF MicChanged
<1> HIDE DEF d
<1>2. rest \in [of : Nat, on : BOOLEAN] /\ rest.of = 0
  OBVIOUS
<1>3. /\ heard \in Try /\ heard.phase = d.tries[i].phase /\ heard.to = d.tries[i].to
      /\ heard.next = d.tries[i].next
  BY <1>0 DEF Try
<1> HIDE DEF rest, on, i, heard
<1>4. Stays(kept) /\ kept.tries = d.tries
  BY <1>0, <1>2 DEF Device
<1>5. Stays(set) /\ set.tries = d.tries /\ set.room = d.room /\ set.mic = rest
  BY <1>0, <1>2 DEF Device
<1> HIDE DEF kept, set
<1>6. Typed(set)
  BY <1>0, <1>2, <1>5 DEF Typed
<1>7. Stays(e) /\ Same(e)
  <2>1. /\ Typed(e) /\ DOMAIN e.tries = DOMAIN d.tries /\ e.tries[i] = heard
        /\ \A j \in DOMAIN d.tries : j # i => e.tries[j] = d.tries[j]
        /\ e.shown = set.shown /\ e.leaving = set.leaving /\ e.sees = set.sees
        /\ e.incoming = set.incoming /\ e.outgoing = set.outgoing /\ e.out = set.out
    BY <1>0, <1>3, <1>5, <1>6, WithIsTyped
  <2> HIDE DEF e
  <2> QED
    BY <1>3, <1>5, <2>1 DEF Typed
<1> HIDE DEF e
<1>8. \A g \in {kept, e, set} : Stays(g) /\ Same(g)
  BY <1>4, <1>5, <1>7
<1>9. PICK g \in {kept, e, set} : Becomes(p, g)
  BY <1>1
<1>10. fault[p] = "none" => Goes(app[p], d, g) /\ Kept(d, g)
  BY <1>0, <1>8, AlikeGoes
<1> QED
  BY <1>0, <1>8, <1>9, <1>10, CalmStep DEF Rings, d

LEMMA ReloadRing ==
  ASSUME DevInv, RingInv, NEW p \in People, Reload(p)
  PROVE  RingInv'
<1> DEFINE d == dev[p]
           blank == [Off EXCEPT !.out = d.out,
                       !.tries = [i \in DOMAIN d.tries |->
                                    [d.tries[i] EXCEPT !.next = "stay", !.phase = "gone",
                                                       !.mic = FALSE]]]
           e == IF app[p] = "web" THEN JoinWeb(blank, d.shown, "rejoin") ELSE blank
           f == "call"
<1>1. dev' = [dev EXCEPT ![p] = e] /\ app' = app /\ Fault(p, f)
  BY DEF Reload
<1>2. f # "none"
  OBVIOUS
<1> HIDE DEF e, f
<1> QED
  BY <1>1, <1>2, StoredRing

LEMMA Appending ==
  ASSUME NEW s \in Seq({"ring", "end"}), NEW x \in {"ring", "end"}
  PROVE  Append(s, x) # <<>> /\ Last(Append(s, x)) = x
BY DEF Last

\* A ring goes out while its call is on, or before its end; an end goes last.
LEMMA PassedRing ==
  ASSUME DevInv, RingInv, NEW p \in People, NEW kind \in {"ring", "end"}, Passed(p, kind)
  PROVE  RingInv'
<1> DEFINE d == dev[p]
           q == Peer(p)
           rest == d.out \ {kind}
           e == [d EXCEPT !.out = rest]
           f == Noted("call", kind = "end" /\ "ring" \in d.out)
           g == "call"
<1>1. /\ Typed(d) /\ app' = app /\ dev' = [dev EXCEPT ![p] = e] /\ kind \in d.out
      /\ \/ frames' = [frames EXCEPT ![q] = Append(frames[q], kind)] /\ Fault(p, f)
         \/ frames' = frames /\ Fault(p, g)
      /\ fault[p] = "none" => Meant(app[p], d)
  BY PersonIsTyped, PersonMeans DEF Passed
<1>2. /\ q \in People /\ q # p /\ Peer(q) = p
      /\ frames \in [People -> Seq({"ring", "end"})]
  BY PeerIsTheOther, PersonIsTyped
<1>3. f = "none" => kind = "ring" \/ "ring" \notin d.out
  BY DEF Noted
<1>4. dev \in [People -> Device]
  BY DEF DevInv
<1>5. d = dev[p] /\ q = Peer(p)
  OBVIOUS
<1>6. g # "none"
  OBVIOUS
<1> HIDE DEF d, q, f, g
<1>7. rest \in SUBSET {"ring", "end"}
  BY <1>1 DEF Typed, Device
<1>8. /\ e.tries = d.tries /\ e.leaving = d.leaving /\ e.outgoing = d.outgoing
      /\ e.out = rest /\ e.incoming = d.incoming /\ e.shown = d.shown
  BY <1>1, <1>7, RequestsGive
<1> HIDE DEF e
<1>9. dev'[p] = e /\ dev'[q] = dev[q]
  BY <1>1, <1>2, <1>4
<1>10. CASE frames' = [frames EXCEPT ![q] = Append(frames[q], kind)] /\ Fault(p, f)
  <2>1. frames'[p] = frames[p] /\ frames'[q] = Append(frames[q], kind)
    BY <1>2, <1>10
  <2>2. frames'[q] # <<>> /\ Last(frames'[q]) = kind
    BY <1>2, <2>1, Appending
  <2>3. fault[p] = "none" /\ f = "none" => Meant(app[p], e)
    BY <1>1, <1>3, <1>8 DEF Meant, Sound, There
  <2>4. ASSUME fault[p] = "none", f = "none" PROVE Between(p)'
    <3>1. CASE kind = "end"
      BY <1>5, <2>2, <3>1 DEF Between, EndComing
    <3>2. CASE kind = "ring"
      <4>1. d.outgoing \/ Due(d)
        BY <1>1, <2>4, <3>2 DEF Meant
      <4>2. Due(d) => Due(e)
        BY <1>8, <3>2 DEF Due
      <4>3. "ring" \notin e.out
        BY <1>8, <3>2
      <4> QED
        BY <1>8, <1>9, <4>1, <4>2, <4>3 DEF Between, EndComing
    <3> QED
      BY <3>1, <3>2
  <2>5. Between(q) => Between(q)'
    BY <1>5, <1>8, <1>9, <2>1, OtherKeeps
  <2> QED
    BY <1>1, <1>5, <1>10, <2>3, <2>4, <2>5, StoredRing
<1>11. CASE frames' = frames /\ Fault(p, g)
  BY <1>1, <1>6, <1>11, StoredRing
<1> QED
  BY <1>1, <1>10, <1>11

\* What is heard was the first frame, so the last one is still to come or was it.
LEMMA HearingFirst ==
  ASSUME NEW s \in Seq({"ring", "end"}), s # <<>>
  PROVE  /\ Contains(Tail(s), "ring") => Contains(s, "ring")
         /\ Head(s) = "ring" => Contains(s, "ring")
         /\ Head(s) \in {"ring", "end"}
         /\ Last(s) = "end" /\ (Head(s) = "ring" \/ Contains(Tail(s), "ring")) =>
              Tail(s) # <<>> /\ Last(Tail(s)) = "end"
<1>1. /\ Len(s) \in Nat /\ Len(s) >= 1 /\ Tail(s) \in Seq({"ring", "end"})
      /\ Len(Tail(s)) = Len(s) - 1
      /\ \A i \in 1..Len(s) - 1 : Tail(s)[i] = s[i + 1]
      /\ Head(s) = s[1] /\ s[1] \in {"ring", "end"}
  OBVIOUS
<1>2. Contains(Tail(s), "ring") => Contains(s, "ring") /\ Len(s) # 1
  BY <1>1 DEF Contains
<1>3. Head(s) = "ring" => Contains(s, "ring")
  BY <1>1 DEF Contains
<1>4. Last(s) = "end" /\ Head(s) = "ring" => Len(s) # 1
  BY <1>1 DEF Last
<1>5. Len(s) # 1 => Tail(s) # <<>> /\ Last(Tail(s)) = Last(s)
  BY <1>1 DEF Last
<1> QED
  BY <1>1, <1>2, <1>3, <1>4, <1>5

LEMMA HeardRing ==
  ASSUME DevInv, RingInv, NEW p \in People, Heard(p)
  PROVE  RingInv'
<1> DEFINE d == dev[p]
           q == Peer(p)
           ring == Head(frames[p]) = "ring"
           mid == MidJoin(d)
           late == IF mid = "none" /\ StillRings(p) THEN "call" ELSE mid
           rung == [d EXCEPT !.incoming = TRUE]
           quiet == [d EXCEPT !.incoming = FALSE]
           g == [quiet EXCEPT !.outgoing = FALSE]
           gone == Leave(g, TRUE, "stay")
           e == IF ring THEN rung ELSE IF d.outgoing THEN gone ELSE quiet
           f == IF ring \/ ~d.outgoing THEN "none" ELSE late
<1>1. /\ Typed(d) /\ app' = app /\ Becomes(p, e) /\ Fault(p, f)
      /\ frames' = [frames EXCEPT ![p] = Tail(frames[p])] /\ frames[p] # <<>>
      /\ frames \in [People -> Seq({"ring", "end"})]
      /\ fault[p] = "none" => Meant(app[p], d)
  BY PersonIsTyped, PersonMeans DEF Heard
<1>2. q \in People /\ q # p /\ Peer(q) = p
  BY PeerIsTheOther
<1>3. late = "none" => ~Rung(p) /\ "ring" \notin d.out
  BY DEF StillRings, Rung
<1>4. dev \in [People -> Device] /\ d = dev[p] /\ q = Peer(p)
  BY DEF DevInv
<1> HIDE DEF d, q, late
<1>5. /\ Typed(quiet) /\ quiet \in Device /\ quiet.tries = d.tries
      /\ quiet.leaving = d.leaving /\ quiet.outgoing = d.outgoing /\ quiet.out = d.out
      /\ quiet.incoming = FALSE /\ quiet.shown = d.shown /\ quiet.sees = d.sees
      /\ rung \in Device /\ rung.tries = d.tries
      /\ rung.leaving = d.leaving /\ rung.outgoing = d.outgoing /\ rung.out = d.out
      /\ rung.incoming = TRUE /\ rung.shown = d.shown /\ rung.sees = d.sees
  BY <1>1, FlagsGive
<1> HIDE DEF quiet, rung
<1>6. /\ Typed(g) /\ g \in Device /\ g.tries = quiet.tries /\ g.leaving = quiet.leaving
      /\ ~g.outgoing /\ g.out = quiet.out /\ g.incoming = quiet.incoming
  BY <1>5, FlagsGive
<1> HIDE DEF g
<1>7. gone \in Device /\ gone.incoming = g.incoming
  BY <1>6, LeaveGives
<1>8. fault[p] = "none" /\ "ring" \notin d.out => Goes(app[p], d, gone)
  BY <1>1, <1>5, <1>6, LetGoGoes
<1> HIDE DEF gone
<1>9. fault[p] = "none" => /\ Goes(app[p], d, quiet) /\ Kept(d, quiet)
                           /\ Goes(app[p], d, rung) /\ Kept(d, rung)
  BY <1>1, <1>5, AlikeGoes
<1>10. e \in Device /\ e.incoming = ring
  BY <1>5, <1>6, <1>7
<1>11. f = "none" => Rings(p, e)
  BY <1>3, <1>4, <1>8, <1>9 DEF Rings
<1> HIDE DEF e, f, ring
<1>12. dev'[q] = dev[q] /\ dev'[p].incoming = ring
  <2>1. dev' = [dev EXCEPT ![p] = Rendered(dev[p], e)]
    BY <1>1 DEF Becomes
  <2>2. Rendered(dev[p], e).incoming = e.incoming
    BY <1>10, RenderedIsMeant
  <2> HIDE DEF Rendered
  <2> QED
    BY <1>2, <1>4, <1>10, <2>1, <2>2
<1>13. frames'[q] = frames[q] /\ frames'[p] = Tail(frames[p])
  BY <1>1, <1>2
<1>14. /\ Contains(Tail(frames[p]), "ring") => Contains(frames[p], "ring")
       /\ ring => Contains(frames[p], "ring")
       /\ Last(frames[p]) = "end" /\ (ring \/ Contains(Tail(frames[p]), "ring")) =>
            Tail(frames[p]) # <<>> /\ Last(Tail(frames[p])) = "end"
  BY <1>1, HearingFirst DEF ring
<1>15. ASSUME Between(q) PROVE Between(q)'
  <2>1. Rung(q)' => Rung(q) /\ (ring \/ Contains(Tail(frames[p]), "ring"))
    BY <1>2, <1>12, <1>13, <1>14 DEF Rung
  <2>2. Rung(q)' /\ EndComing(q) => EndComing(q)'
    BY <1>2, <1>12, <1>13, <1>14, <2>1 DEF EndComing
  <2> QED
    BY <1>12, <1>15, <2>1, <2>2 DEF Between
<1> QED
  BY <1>1, <1>4, <1>10, <1>11, <1>13, <1>15, RingStep

LEMMA InitRings == Init => RingInv
<1> SUFFICES ASSUME Init PROVE RingInv
  OBVIOUS
<1>1. /\ Off.tries = <<>> /\ Off.outgoing = FALSE /\ Off.incoming = FALSE /\ Off.out = {}
  BY DEF Off
<1>2. \A a : Meant(a, Off)
  BY <1>1 DEF Meant, Sound
<1>3. \A p \in People : dev[p] = Off /\ frames[p] = <<>>
  BY DEF Init
<1>4. \A p \in People : ~Rung(p)
  BY <1>1, <1>3, PeerIsTheOther DEF Rung, Contains
<1> QED
  BY <1>2, <1>3, <1>4 DEF RingInv, Between

LEMMA StepRings == DevInv /\ RingInv /\ [Next]_vars => RingInv'
<1> SUFFICES ASSUME DevInv, RingInv, [Next]_vars PROVE RingInv'
  OBVIOUS
<1>1. CASE UNCHANGED vars
  BY <1>1 DEF vars, RingInv, Between, Rung, EndComing, Due
<1>2. ASSUME NEW p \in People, NEW i \in DOMAIN dev[p].tries, Attempt(p, i) PROVE RingInv'
  BY <1>2, PromptedRing, OpenedRing, ConnectedRing, AdoptedRing, StartedRing,
     JoinFailedRing, ClosedRing DEF Attempt
<1>3. ASSUME NEW p \in People, Ringing(p) PROVE RingInv'
  BY <1>3, StartRing, AcceptRing, DeclineRing, CancelRing, HeardRing,
     PassedRing, RefusedRing DEF Ringing
<1> QED
  BY <1>1, <1>2, <1>3, JoinRing, LeaveDoneRing, HangUpRing, RefreshedRing,
     ToggleMuteRing, MicChangedRing, ReloadRing DEF Next

\* A ring that stands once nothing is under way is that of a call whose caller is
\* in the direct room, so whoever accepts it has company; unless a frame, a
\* connection or an answer was lost or mistaken (useCall.tsx).
THEOREM RingsLeadToCallers == Spec => []RingLeadsToCaller
<1>1. DevInv /\ RingInv => RingLeadsToCaller
  <2> SUFFICES ASSUME DevInv, RingInv, NEW p \in People,
                      dev[p].incoming, frames[p] = <<>>, dev[Peer(p)].out = {},
                      AtRest(Peer(p)), fault[p] = "none", fault[Peer(p)] = "none"
               PROVE  In(Peer(p), Dm)
    BY DEF RingLeadsToCaller
  <2> DEFINE q == Peer(p)
  <2>1. q \in People /\ Peer(q) = p
    BY PeerIsTheOther
  <2>2. Between(q) /\ Meant(app[q], dev[q])
    BY <2>1 DEF RingInv
  <2>3. ~EndComing(q)
    BY <2>1 DEF EndComing, Due, AtRest
  <2>4. dev[q].outgoing
    BY <2>1, <2>2, <2>3 DEF Between, Rung
  <2> QED
    BY <2>2, <2>4 DEF Meant, There, AtRest, In, Live
<1>2. Init => DevInv /\ RingInv
  BY InitHolds, InitRings
<1>3. DevInv /\ RingInv /\ [Next]_vars => (DevInv /\ RingInv)'
  BY StepHolds, StepRings
<1> QED
  BY <1>1, <1>2, <1>3, PTL DEF Spec

==============================================================================
