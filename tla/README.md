# genzh: TLA+ models of the API and its clients

genzh is a chat and voice-room service: a Rust API (`crates/*`, `apps/api`) over
PostgreSQL and LiveKit, and TypeScript clients (`packages/shared`, `apps/web`,
`apps/mobile`). This directory holds TLA+ models of the parts of it whose
correctness depends on the order in which concurrent requests, jobs, sockets and
callbacks take their steps, the TLC runs that check them on small instances, and
TLAPS proofs of the properties that matter most.

## 1. Inventory

Every HTTP handler, socket command and scheduled job is an async function that
awaits one SQL statement (or one transaction) at a time. The API takes no locks of
its own around them, so **the unit of atomicity is the statement or the
transaction**, and any two handlers may interleave between two of them.

| component | state | operations | what is hard | what makes it correct |
|---|---|---|---|---|
| `crates/auth` sessions | `sessions`, `users.is_active` | start, refresh, end, prune | read, await, revoke; reuse detection racing a rotation | a token is exchanged once; a replaced session is spent first |
| `crates/auth` jwt, password, handle, oauth | signed access tokens, `oauth_accounts` | issue, verify, link | access tokens outlive suspension | a token names one session and expires |
| `crates/room` lifecycle | `rooms`, `room_participants` | create, join, leave, persona, update, delete, expire, reap | derived columns recomputed from a statement snapshot; reaper racing a join | derived columns agree with the rows; no occupied room is ended |
| `crates/room` directs | `rooms` of category dm | open | find, then create | one conversation per pair |
| `crates/room` media | LiveKit rooms | join token, mute, kick | remote side effects after the commit | a removed participant loses their token |
| `crates/room` read state | `room_read_state` | mark read | late or repeated marks | the mark never moves back |
| `crates/messaging` | `messages`, `reactions` | post, edit, delete, react | check, then write; slow mode | only the author (or a moderator) changes a message |
| `crates/notification`, `apps/api/src/notify.rs` | `notifications` | record, mark read, prune | folding into an open row racing mark-read; re-delivery | one open row per subject; no event counted twice or lost |
| `crates/social` | `friendships`, `blocks` | request, respond, remove, block, unblock | check, then write across two tables | a block leaves no friendship |
| `crates/community` | communities, members, roles, invites, overrides | create, join, assign, redeem | stale permission contexts; the last use of an invite | nobody grants what they lack; an invite is used at most `max_uses` times |
| `crates/admin` | platform roles, audit, tickets, automod | suspend, promote, revoke, broadcast | check, then write on roles | an admin always remains |
| `crates/cron` | in-flight counter, shutdown flag | register, run, run now, drain | shutdown racing a tick | once drained nothing runs or starts |
| `crates/infrastructure` presence, attention, bus, flood, rate limit | in-process maps behind mutexes, broadcast channels | connect, focus, publish, check, sweep | several sockets per user; change and announcement are two steps | counts match sockets; attention is not dropped |
| `apps/api` gateway (`routes/ws`) | per-socket session | auth, subscribe, focus, typing, post | commands out of order, identity swap, lagging channel | an event reaches exactly the sockets entitled to it |
| `apps/api` economy (`routes/gamification.rs`) | balances, ledger, inventory, stock, streaks | check in, refer, purchase, equip, grant | check, then write; lock order; first row of a key | balance = sum of the ledger; stock never oversold |
| client socket: `ChatSocket` (two classes), `SocketProvider`, `useRoomAttention`, the phone's `ChatContext` | the socket, queue, subscriptions, focused room, timer | set token, subscribe, focus, reconnect | frames lost with a connection, screens coming and going, tokens running out | what the screens show is subscribed, what is read is claimed, a lost connection comes back |
| client session: `AuthProvider`, `AuthContext`, API client | session in memory and in storage, the refresh under way | sign in, out, refresh, restore | concurrent 401s; sign-out, reload or kill around an exchange | no token presented twice; screens, memory and storage agree; restoring ends |
| client data: `endpoints.ts`, the two clients' React Query hooks | query cache | query, mutate, invalidate, patch | fetches overtaken by mutations; keys a mutation forgets | what the user changed is shown |
| transcript: `Chat.tsx`, `cache.ts`, `RoomChatScreen`, `useMessageHistory` | rows, pages, calls under way | page, frame, post, edit, delete, react | pages, frames and answers in any order | at rest the rows are the room's |
| calls: `useVoiceRoom`, `useCall`, `useCallVM`, `LiveKitVoiceClient`, `routes/media.rs` | the media session, incoming and outgoing rings | join, leave, mute, ring, accept, decline, cancel | chains of awaits with leaves, reloads and rings in between | a device shows the room it is in; a ring leads to its caller; nobody waits alone |
| screens: `apps/web/src/routes`, `features`, `apps/mobile/src/screens` | forms, dialogs, pending flags | one call per control | several screens over one cache | every control refreshes what is drawn beside it |
| seed, config, BFF | - | - | - | not modelled |
| `crates/recommend` | score cache | score, cache | stale entries | - |

How they meet: a posted message passes the block check of the social component
(`RoomService::visible_access`), is inserted by messaging, published on the bus to
the gateway's sockets, and fanned out by `notify.rs`, which asks the attention store
who is reading the room. The scheduler runs the jobs that prune sessions and
notifications and end rooms, and is drained when the process stops. Staff actions
write the same tables as the users' handlers.

On a client, callbacks run to completion, so **the unit of atomicity is what runs
between two awaits**. Screens read the cache and call mutations; the client session
gives every request its token; the one socket carries frames into the cache, the
transcript and the ringing, and tells the gateway what is on screen.

## 2. Modules

### The API

| module | models | state | actions |
|---|---|---|---|
| `Sessions` | `crates/auth/src/sessions.rs`, the session half of its `repository.rs`, the staff actions that touch sessions, `jobs/sessions.rs` | `row`, `owner`, `expires` are the table; `account` is `users.is_active`; `req` holds what a handler read before its last await; histories `parent`, `burned`, `contended`, `overtaken` | one per statement: `Register`, `Login`, `Start`, `RefreshFind`, `RefreshReuse`, `RefreshUser`, `RefreshRevoke`, `EndFind`, `EndRevoke`, `ForceFind`, `ForceDelete`, `Suspend`, `Reinstate`, `PruneExpired`, `Drop` |
| `Rooms` | `crates/room` service and repository, the two room jobs | `room`, `people` (committed participant rows), `req` | `Create` with its chain of joins, `Join`, `Leave`, `Count` (the recount's snapshot), `Commit`, `Abort`, `Update`, `Delete`, `ExpireEphemeral`, `ReapEmpty` |
| `Gateway` | `routes/ws` session, commands and presence; the presence and attention stores | `sess` per connection, `presence`, `attention`, `announced` | `Auth`, `Swap`, `CountIn`, `Uncount`, `AnnounceOn`, `AnnounceOff`, `Subscribe`, `Unsubscribe`, `Focus`, `Speak`, `Touch`, `Fade`, `Close`, `Leave` |
| `Cron` | `crates/cron/src/scheduler.rs`, `main.rs` | the two atomics `stopped`, `inFlight`; `run` | every load and store: `Dispatch`, `RunNow`, `Check`, `Claim`, `Recheck`, `RunRecorded`, `Exit`, `SetStopped`, `Drained`, `DrainTimeout` |
| `Notifications` | `notify.rs`, `crates/notification`, the prune job | `fanout` (one handler per event), `row` | `Post`, `Befriend`, the two lookups, `Insert`, `Fold`, reading, pruning |
| `Economy` | `routes/gamification.rs` over migration 0014 | `bal`, `ledger`, `referrer`, `item`, `own`, `worn`; `tx` with the row locks it holds | one per lock taken: `CheckInRead/Write`, `ReferralInsert/Caller/Referrer`, `GrantPoints`, `BuyLock/BuyPay`, `GrantItem`, `CreateItem`, `UpdateRead/Write`, `DeleteRead/Write`, `EquipRead/Write`, `Unequip`, `Rollback` |
| `Purse` | what the points system promises an account, without any of its mechanism | `points`, `earned` | `Earn`, `Spend` |
| `Social` | `crates/social`, `room/src/directs.rs`, `visible_access`, and of `POST` and `PATCH /rooms` what makes a room direct | `friendship`, `blocks`, `room` (rooms for two: whom they are for, who is in them, whether their category is dm, and as history whether they are still as open made them), `req` | `Request` to `InsertRequest`, `Respond` to `SetStatus`, `Remove`, `Block`, `Unfriend`, `Unblock`, `Open` to `CreateRoom`, `PostRoom`, `JoinNext`, `Enter`, `PostMessage`, `Join`, `Leave`, `Recategorize` |

`Economy` implements `Purse` (`INSTANCE Purse WITH points <- ..., earned <- ...`): TLC
checks it as a property and `EconomyImplementsPurse` proves it.

### The clients

| module | models | state | actions |
|---|---|---|---|
| `ClientAuth` | the session of both clients, against the single-use exchange of `Sessions` | `held`, `stored`, `user`, `refresh`, `cache` | `SignIn`, `Adopt`, `Logout`, `LogoutSettles`, `GetToken`, `RefreshServed`, `RefreshRefused`, `RefreshLost`, `RefreshSaved`, `RefreshDone`, `RefreshFailed`, `Load`, `Restored`, `NotRestored`, `Kill` |
| `ClientSocket` | both `ChatSocket` classes, the screens that use them, and the gateway's session of the connection | `chat` (the object, its queue and its wire), `session` (the server's), `screens`, `stops` (the composers' timers); history `late` | `SignIn`, `SignOut`, `Expire`, `Refresh`, `Open`, `Push`, `Leave`, `Cover`, `Uncover`, `Turn`, `Typing`, `Submit`, `StopTyping`, `Opened`, `Lost`, `Retry`, `Serve`. A method is a function from the object to the object, so what one callback calls in a row is one step |
| `Api`, `Hooks`, `SharedHooks`, `WebHooks` | `endpoints.ts` and every React Query hook of the two clients: the tables an endpoint reads and writes, a hook's key, and what a success invalidates, removes, overwrites or patches | none: records | none |
| `Acts`, `WebScreens`, `MobileScreens` | every screen that reads or writes the server: the queries it draws and its controls, each with the mutation it calls, what disables it, whether it asks first, whether success leaves the view | none: records | none |
| `QueryCache` | one cache entry while its user acts, with React Query's rules as an external component | `entry`, `calls`, `applied`, `mounted` | `Press`, `Confirm`, `Dismiss`, `Serve`, `Refuse`, `Succeed`, `Fail`, `FetchRead`, `FetchDone`, `FetchFail`, `Poll`, `Leave`, `Return` |
| `ClientCases` | the pairs of a drawn query and an act which the tables give rise to, on a screen and whatever is mounted beside it | none | none |
| `Transcript` | a room's messages on one client | `room` (the server's), `rows`, `newest`, `frames`, `fetch`, `calls` | `Open`, `LoadOlder`, `FetchRead`, `FetchDone`, `Receive`, `Send`, `Edit`, `Delete`, `Toggle`, `Serve`, `Succeed`, `Fail`, `AnswerLost`, `Lost`, `Other`, `Publish` |
| `Calls` | media sessions and ringing, LiveKit as an external component | `dev` per person (session, attempts to join, rings), `frames` | `Join`, `Prompted`, `SessionOpened`, `Connected`, `Adopted`, `Started`, `JoinFailed`, `HangUp`, `LeaveDone`, `Closed`, `Disconnected`, `ToggleMute`, `Reload`, `Start`, `Accept`, `Decline`, `Cancel`, `Missed`, `Passed`, `Refused`, `Heard` |

How the tables and the cache compose: a screen's act names a mutation hook, the hook an
endpoint, the endpoint the tables it writes; a drawn query names the tables it reads.
Where they meet, the act changes what that query would answer, and `RulesOf` says what
the hook does about the entry. `MCQueryCache` runs `QueryCache` once for each distinct
set of rules among all those pairs of both clients.

`MC*` modules give constants and symmetry sets. `*Proofs` modules hold the theorems:
`ProcessProofs` those of `Gateway` and `Cron`, which are what one API process keeps in
memory, `AccountProofs` those of `Sessions` and of the client's side of an account,
`ClientAuth` and `QueryCache`, `DeliveryProofs` those of `Notifications` and
`ClientSocket`, the two ways word reaches a person, and the others those of the module
they are named after. So that they can be extended together, `Cron`, `ClientAuth`,
`QueryCache` and `ClientSocket` prefix the names every module has (`CronInit`,
`AuthSpec`, `CacheSpec`, `SocketNext`, ...).
Modules have history variables (marked so in `VARIABLES`): they are written and never
read by a guard of the code's, and let a property name the overlap the code does not
exclude. Operators named `X_Something`, or marked `Mutant:`, in front of `X` are variants
of `X` with one bug planted; every property of a run fails when one of them takes `X`'s
place.

Atomicity. Where a handler is a chain of statements (`Sessions`, `Social`,
`Notifications`), each statement is an action. Where it is a transaction (`Rooms`,
`Economy`), uncommitted writes are invisible, so only the points at which it reads
what others may change, or waits for a lock, are actions. PostgreSQL runs at its
default READ COMMITTED; nothing in the repository asks for another level.

## 3. Runs

All are exhaustive within their bounds. Types are the first conjunct of an invariant of
each module, or a theorem.

| run | asks | answer |
|---|---|---|
| `sessions` | do rotation, reuse detection and pruning survive two handlers interleaved at every await? | yes: a replaced session is spent first (`ParentSpent`), a token is exchanged twice only by overlapping uses (`SpentOnce`), reuse ends the whole family but for a rotation in flight across the sweep (`TheftEndsFamily`), and while an account is suspended a session is started only by a handler that had read it as active, one each (`SuspendedStayOut`) |
| `rooms` | do the derived columns agree with the participant rows, and do rooms end? | yes, whenever the last recount ran alone (`DerivedAgree`); at their deadline, whatever the owner changes (`DeadlineEnds`), and once abandoned (`AbandonedEnds`) |
| `gateway` | do sessions, presence and attention agree under any order of frames on two sockets? | yes (`PresenceCounts`, `AttentionAgrees`, `AttentionNotDropped`) |
| `cron` | is shutdown a barrier, and does it return? | yes (`SlotsCounted`, `NothingRunsAfterDrain`), also when a job hangs (`ShutdownReturns`) |
| `notifications` | is every event in exactly one row? | one open row per subject (`OneOpenRow`), counts honest (`CountIsHonest`), lost only to a read or prune between the two statements (`LostOnlyToClosing`) |
| `economy` | do points add up, and does what a purchase saw hold until it pays? | balances are their ledger's sum (`LedgerExplains`), a rung is paid once (`RungPaidOnce`), check-ins of an account with a row are a cooldown apart (`ClaimsSpaced`), a purchase's item stays as it was seen (`LockedForTheDuration`), what is worn is owned (`WornIsOwned`), and all of it is a purse (`ImplementsPurse`) |
| `social` | does a block end a friendship and silence a conversation? | yes, but for handlers that had passed their check (`BlockEndsFriendship`, `NoMessageAcross`); one row per pair (`OneRowPerPair`), one conversation among the rooms open made, unless opens overlap or one of the two is missing (`OneConversation`), only the addressee answers (`AddresseeAnswers`) |
| `auth` | does a client ever present a refresh token twice, or show somebody it does not hold? | no, but for a sign-out or a kill with an exchange under way (`TokenSpentOnce`, `ShownIsHeld`); restoring ends (`SessionSettles`) |
| `socket` | does a client that lost its connection, at any moment, hear again what its screens show? | yes (`ScreensAreHeard`), and it keeps quiet about what is read (`QuietAboutWhatIsRead`), but for the web's stale queue, a room opened twice on the phone, and, of the second, a typing-stop that the web says of a room nobody reads any more; it reconnects unless the token it was given runs out first (`Reconnects`) |
| `cache` | is what the user changed shown, wherever it is drawn? | yes, at rest exactly (`OwnWritesShow`) and in the end always (`AppliedComesToShow`), for every pair but sixteen (`KnownGaps` in `MCQueryCache`, see 5) |
| `transcript` | does a transcript converge to the room? | yes (`Converges`, `OwnReactionShown`) up to the first of eight named faults (see 5) |
| `calls` | does a device show the room it is in, and does a call end where it should? | yes (`DeviceIsHonest`, `RingLeadsToCaller`, `NobodyWaitsAlone`) but for the faults `Fault` records (see 5) |

Deadlock checking is off, except in `socket`: every clock, id set and number of calls is
bounded, so the models stop when the bound is used up, and a server with nothing to do is
not stuck. A client's socket always has a next step.

### Bounds

- Two handlers in flight (`Requests`) everywhere on the server: every race in these
  components is between two statements of one handler and one statement (or two) of
  another. Where a third party matters it is not a handler: jobs, staff and readers are
  atomic statements of their own in each module. `Cron` has three runs, so that two can
  hold a slot while a third is refused.
- `Sessions`: three sessions make a chain of two rotations, or one token exchanged
  twice, and `MaxTime` 3 = TTL + grace + 1 lets a row expire, be kept for the grace, and
  be pruned.
- `Rooms`: one room, since no statement looks at two; two people, so that one can
  leave while the other joins. `MaxTime` 2 reaches the default deadline with the grace
  passed; owners turn rooms into conversations and back, end and reopen them.
- `Gateway`: two sockets, two accounts, two rooms: two sockets of one account, a swap of
  identity, and a focus on one room around an unsubscribe of the other.
- `Notifications`: three events, so that two can fold into a row opened by the first. Of
  two people at most one is told of a message, so an `@everyone` is never above the cap of
  one: above it nobody is told for that reason, which is what a message without one, or
  whose participants could not be listed, does in the run. The proofs have no such bound.
- `Economy`: three accounts are two claimants of one referrer; a rung at two invites.
  Rewards, prices and grants are one point: the properties compare sums, and no guard
  depends on their size beyond having too few. `OneHalf` in `MCEconomy` keeps a behaviour
  from having both check-ins or referrals and a store: the halves meet in the balances
  only, through operations that each half runs against the other's grants. The proofs
  have no such bound.
- `Social`: two people and two room ids: the properties are about one pair, and two
  rooms are enough to have one too many. Nobody makes a room for themselves (`Alone`):
  with it the run takes too long, and no property speaks of such a room except through
  `find_direct_room`, for which the two have to be in it. The proofs allow it.
- `ClientAuth`: two accounts, so that one can sign in after the other; three tokens, so
  that a session is exchanged and another begun; one reload or kill.
- `ClientSocket`: two rooms; two screens stacked on the phone; no input, and no
  typing-stop, while three frames wait, which is one more than opening a room sends; one
  expiry. A timer may be set in each room at once, so that a stop said of a room left
  behind meets the claim of the next.
- `QueryCache`: two calls, so that one's answer, failure or invalidation can meet the
  other's at every stage.
- `Transcript`: a room of two messages, pages of one, one more posted, so that a message
  is on page 0 or above it; two changes, two calls of one's own at a time; the screen
  may be left at any moment, whatever is under way. `NoFaultYet` is a state constraint:
  faults only accumulate and the properties speak of states without, so nothing is lost
  behind it.
- `Calls`: one person on the web or on the phone alone with two attempts to join, or two
  on the web with two attempts of one or one of each: a second join meets the first at
  every await, a connection is closed at every moment after it was let in, and a call
  meets a call. The mute button is used by somebody alone. One
  reload.

### Fairness

- `Rooms`: the clock advances (WF). The jobs run every 30 and 60 seconds for as long
  as the process lives: WF for `ReapEmpty`, and SF for `ExpireEphemeral`, because its
  UPDATE waits for a row lock that joins and leaves keep taking and releasing, and
  PostgreSQL grants row locks in the order they were asked for. A handler's next
  statement runs (WF).
- `Cron`: only the loop in `drain`, which polls a deadline, is fair. No job is assumed
  to end.
- `ClientAuth`: promises settle, requests are answered or fail (WF), and restoring asks
  for a token itself. That an expired token is asked for is fair on the web only, where
  the inbox polls; nothing obliges the phone's screens to call.
- `ClientSocket`: a timer that is set fires and the server reads what is sent (WF); a
  client that tries for ever gets a connection (SF: each failed attempt disables it).
  Nothing renews the web socket's token, and no fairness says so.
- `QueryCache`: calls and fetches are answered one way or the other, polls fire (WF).
- `Calls`: one WF for everything that goes on by itself. A device makes finitely many
  attempts, each leads to finitely many such steps, and clocks run out, so this is the
  fairness of each.

No user is fair anywhere.

## 4. Proofs

| theorem | says, for every value of the constants | inductive invariant |
|---|---|---|
| `SessionsTypeCorrect`, `RotationSpendsParent` | `[]TypeOK`, `[]ParentSpent` | `Inv`: types, plus `HeldTokens` (a handler past the revoke holds a token that is no longer live) and `ParentSpent` |
| `TheftEndsTheFamily` | `[]TheftEndsFamily` | `TheftInv`: `Inv`, plus `Swept` (what burned is not live), `CarriedIsContended` (a burned token still carried by a handler is contended) and `Family` |
| `RefreshTokenSpentOnce` | `[]SpentOnce` | `SpentInv`: `Inv`, plus `CarriedOnce` (two handlers past the revoke with one token make it contended; so do a handler and a session already made of it) |
| `SuspensionHolds` | `SuspendedStayOut` | `GateInv`: types, plus `AdmittedOrOvertaken` (a handler past its reading of `is_active` is about an account that is active still, or that was suspended over its head). `OnlyStartInserts`: nothing else makes a session |
| `CountIsExact`, `ShutdownBarrier` | `[]SlotsCounted`, `[]NothingRunsAfterDrain` | types, `SlotsCounted` and `FlagUp` (the flag stays up from the store on): the barrier needs the exact count, because drain looks at nothing else |
| `EconomyTypeCorrect`, `LedgerBalances` | `[]TypeOK` (no balance below zero), `[]LedgerExplains` | `LedgerInv`: types, `LedgerExplains`, and `Parties` (what a transaction carries between its steps: a referral has two different accounts, a check-in a streak that has begun) |
| `EconomyImplementsPurse` | `ImplementsPurse`: the economy implements the purse | types and `Parties`; each step is shown to earn, to spend what is there, or to leave the purses alone |
| `LockHolds`, `WardrobeIsOwned` | `[]LockedForTheDuration`, `[]WornIsOwned` | `StoreInv`, on top of `LedgerInv`: what each transaction on the store knows of the row it locked (`Buys`, `Edits`), what an equip under way found (`Dresses`), `OwnedIsListed` and `WornIsOwned` |
| `RungIsPaidOnce` | `[]RungPaidOnce` | `RungInv`, on top of `LedgerInv`: `ClaimsAlone` (an account with a claim under way has no referrer yet, and no second claim) and `RungPaidOnce` |
| `CheckInsAreSpaced` | `[]ClaimsSpaced` | `SpacedInv`, on top of `LedgerInv`: a check-in that found a row read the last claim of it, and holds its lock until it writes. `LastMoves`: nothing else moves the last claim |
| `OneRowIsOpen`, `CountsAreTrue`, `NothingElseIsLost` | `[]OneOpenRow` (with the types), `[]CountIsHonest`, `LostOnlyToClosing` | `RecordInv`: types; an event not yet recorded for somebody is in no row of theirs (`Unrecorded`); only what a unique index can refuse is folded (`Folding`); a row stands for the event that made it and the one it is about (`OwnEvents`); `OpenUnique`; `Counted`; no event is in two rows (`Apart`); the open row a refused INSERT met is there unless somebody closed it (`Awaited`) |
| `ExactRoomsAgree` | `[]DerivedAgree` (with the types) | `RoomInv`: types; a create that goes on has a join left (`Going`); a transaction that nothing overlapped is on a room that exists (`OnStanding`), is the only one on its room (`AloneIsAlone`), and what its recount read has not changed since (`TallyStands`); `ExactAgree` |
| `PresenceIsExact`, `AttentionIsTrue`, `FocusIsKept` | `[]PresenceCounts` (with `TypeOK`), `[]AttentionAgrees`, `[]AttentionNotDropped` | `IInv`: types, `Counts`, and three facts about each connection alone: `Control` (its program counter and its identity), `Attended` (session and store agree), `Claimed` (an early focus is pending or applied) |
| `RowsAreUnique`, `BlockedAreApart`, `OnlyAddresseesAnswer` | `[]OneRowPerPair` (with `TypeOK`), `[]BlockEndsFriendship`, `AddresseeAnswers` | `FInv`, in `IInv` of `SocialProofs`: what a handler of friendships knows (`FReq`: who has passed a block check, and has not been overtaken, is not blocked; the row it found pending still is), `OneWay`, `BlockedApart` |
| `ConversationIsOne`, `MessagesDoNotCross` | `[]OneConversation`, `NoMessageAcross` | `RInv`: `RReq` (a room is for the two its handler is about; who may post and was not overtaken is across no block), and `RoomsInv`, about the rooms that are as open made them: they are direct (`OpenedIsDirect`), and for a pair that is not split there is one opener (`OneOpener`), no room before it is created (`FirstRoom`), one room (`OneRoom`), and everybody in it or still to join (`AllJoin`) |
| `ClientTypeCorrect`, `ShownAccountIsHeld` | `[]AuthTypeOK`, `[]ShownIsHeld` of `ClientAuth` | types and `Consistent`: what memory, screens, storage, a sign-in half done and a refresh under way say about one another |
| `SingleFlight` | `[]TokenSpentOnce` of `ClientAuth` | `AuthInv`: the above, plus `Unspent` (what the client has to present is valid and no sign-out is about to end it) |
| `OwnWritesAreShown` | `[]OwnWritesShow` of `QueryCache` | `CacheInv`: types; `Books` (what is applied and drawn is what was sent); an answer under way is right about every call that has ended, or was overtaken (`AnswerAgrees`); so is the entry, or what would set it right is coming: a fetch, a failed one, a call that marks the entry however it ends, or the next mount (`EntryAgrees`) |
| `LostFramesAreResaid`, `AttentionIsResaid` | `[]ScreensAreHeard` (with the types), `[]QuietAboutWhatIsRead` | `SocketInv`: types, and until a fault happens `Agreed`: no room is on two screens, the object holds the rooms of the screens and what is read, and what is still to be said is enough for the server to agree: what is queued (`Queued`, `NoneKept`), and the frames of the wire on top of the session (`Wired`: the last word about each room is the screens', the last firm word (`Firm`: a claim, or the end of a subscription) is what is read, and after it somebody types only there or in a room of `late`; a claim finds its room subscribed) |
| `DevicesAreHonest` | `[]DeviceIsHonest` (with `TypeOK`) | `DevInv`: types, and for every device without a fault of the session `OneSession` (at most one attempt is not over; while there is one nothing is being left, it is for the room shown, and it is the room held once join has returned), `HeldIsArrived`, `MicIsShown` (nothing is heard before join returned, and what is heard is shown or being changed) |
| `RingsLeadToCallers` | `[]RingLeadsToCaller` | `RingInv`, on top of `DevInv`: a device that calls is in the direct room or leaving it, and a ring not sent yet is that of the call or has an end behind it (`Meant`); what rings, or is about to, is the call of somebody who still calls and has sent it, or its end is due, on its way out, or the last frame under way (`Between`) |
| `TranscriptConverges`, `OwnReactionIsShown` | `[]Converges` (with `TypeOK`), `[]OwnReactionShown` | `TranscriptInv`: types, and with them that a row is of a message that is posted, not ahead of it, and counts whoever it lights; `Scene` (what is mounted, connected and under way at one time); and until a fault happens `Agreed`: events of one message are due in the order of its changes (`InOrder`), no two calls are about one message and each agrees with the room (`CallsAgree`), a page under way is for the rows there are (`PagesAgree`), and of every message `Shows` |

The assumptions are the named `ASSUME`s of the component modules: the null values are
not members of the sets, durations and prices are naturals, grants positive, a rung at
one invite or more; `Runs`, the economy's and the rooms' `Users` are finite; there is a
room. What `QueryCache` assumes of its cases (`CasesAssumption`: their rules are some a
mutation hook can have, `Reached`, unless the case is one of `KnownGaps`) is where the
theorem meets the screens: TLC evaluates it on the cases the clients' tables really give
rise to. `Calls` assumes that two people share the direct room, that it is a room and
that everybody runs one of the two clients or none. The proofs split `Next` by action
and cite, for the variables an action leaves alone, its `UNCHANGED`. `Sessions` first
shows which steps touch a token a handler carries (`NextCarries`) and that the others
are quiet (`QuietStep`). `Economy` goes through two lemmas about the operators every
movement of points uses (`CreditedIsEntered`, `DebitedIsEntered`). `ClientAuth` meets
`Sessions` here: the client never causes the overlap `SpentOnce` excepts.

In `Social` the properties except overlaps, and the history variables that name the
overlap are set far from where it bites: `stale` by whoever overtakes a handler, `split`
by a second open. So the invariant says what each handler may still believe as long as
it is not stale, and the lemmas are about groups of steps: those that write neither
friendships nor blocks (`FriendsQuiet`), those that write neither rooms nor blocks
(`RoomsQuiet`), those that open nothing (`OpeningsKept`), and what a handler keeps when
somebody comes in or goes (`KnowsRoom`). `OneConversation` needs all of `RoomsInv`: that
`find_direct_room` sees the room a finished open made depends on everybody being in it,
which depends on no other open being under way. Rooms that `POST /rooms` or a change of
category made direct are found as well, so they can only keep open from making another;
the invariant says nothing of them.

In `ClientSocket` the invariant is about sequences of frames: what one says does not
depend on how long it is or how much of it is lost. The lemmas are about the methods of
the object: a frame put at the end keeps what the queue or the wire says; what a new
connection says again (`HandleOpen`) stands for everything said before, whatever was
lost, with the queue behind it repeating part of it; and serving the head moves what it
said into the session. A typing frame moves the server's attention too, and the web's
typing-stop may come when nobody reads the room: such frames are soft, the invariant
bounds where they may point by `late`, and what is firm empties `late` again
(`Standing`). Two definitions changed so that this could be written down. The screens'
cleanup at a sign-out was a fold over the screens and is given by what it amounts to
(`UnmountAll`; TLC found the two equal in every state of the run); and only `focus` can
be about no room (`Frame`).

In `Calls` every step changes one device, so `StoredStep` and `DeviceStep` reduce the
invariant to what that device is afterwards, and the lemmas are about the operators:
what beginning an attempt (`AppendedIsHonest`), moving one on (`MovesOn`), ending one
(`EndedIsHonest`) and leaving (`LeaveIsHonest`) keep; what the ring alone reads may
change at will (`AlikeIsHonest`). The proof corrected the model: with a third attempt to
join, an end of a call that met a join under way counted as a fault of the call and not
of the session (`Heard`), and then the device was not honest.

The rings are proved on top of that, with the effects CallProvider runs after a render
taken out once (`RenderedIsMeant`): an action owes what its device is before them
(`Goes`) and that what rings stays accounted for (`Kept`). `RingInv` was not inductive
at first, and the step that broke it was one the code can take: with three attempts
between the two, one more than the run allows, a callee who is still in the direct room
from an earlier call, or whose join for an earlier ring arrives now, is taken for the
answer. `Adopted` and `Refreshed` record that as a fault now (section 5), which replaced
the wider exception the property had for two people who call each other.

In `Transcript` three writers that nothing orders reach one row, and the invariant does
not order them either: it says of each message alone that the rows and a page already
read are right about it, or that what will set them right is coming. `Shows` has four
parts, because what is still owed differs: an edit (`EditShows`) owes its event, and the
row a failed deletion would put back has to carry it too; a deletion (`DeleteShows`) owes
its event wherever a row or a page holds the message, and only the call that made it may
be left; a post (`PostShows`) owes its event down to where the pages reach, unless the web
took the row out and the call may still put it back (`Undoable`); one's own reaction
(`FlagShows`) owes the call that toggles it. A step writes one message's row, so every
proof goes through `ApartShows` for the others and one lemma about the operator for the
one (`CreatedIs`, `UpdatedIs`, `DeletedIs`, `ReactionsAre`, `LocalIs`, `EditedIs`). The
queues have lemmas of their own: what a committed change, a broadcast and a frame taken
leave of `InOrder` and of what is coming (`CommitNews`, `PublishNews`, `ReceiveNews`). TLC
checked the invariant on the run's instance first. Two things about the model changed.
That a tally is at most 3 held on that instance and not in general, so `TypeOK` says it
is a natural. And tables are laid over each other by `Over` instead of the library's
operator, which the provers cannot expand.

Only model-checked: the liveness properties and everything under fairness
(`DeadlineEnds`, `AbandonedEnds`, `ShutdownReturns`, `SessionSettles`, `Reconnects`,
`AppliedComesToShow`, `NobodyWaitsAlone`), which the prover cannot do. Every invariant
and every action property a run checks is a theorem.

## 5. Where code and documentation part

The models do what the code does. Where a comment promises more, the property is stated
up to exactly that overlap, and the overlap is listed here.

On the server:

- "a stolen refresh token is usable at most once" (`sessions.rs:79`): two concurrent
  refreshes both read it live and both rotate. `SpentOnce` excepts overlapping uses.
- "this reads a settled fact rather than racing the count" (`room/src/repository.rs:878`):
  a leave whose recount snapshot predates a join's commit (line 89) stamps `emptied_at`
  on an occupied room, and the reaper ends it.
- "a user is online exactly while at least one of their connections is open"
  (`infrastructure/src/presence.rs:3`): the count and the broadcast
  (`routes/ws/presence.rs:50`) are two steps, and two sockets may publish in the other
  order, so the last announcement about somebody may be false.
- Reuse detection misses a rotation in flight across its sweep: the session inserted
  afterwards is live (`sessions.rs` refresh). `TheftEndsFamily` excepts exactly it.
- The staff action that ends all sessions deletes from `refresh_tokens`, a table no
  migration creates (`admin/src/staff.rs:498`).
- A room that expires has its participant rows deleted without a recount; a join in
  flight commits its own tally afterwards.
- PATCH of a room's category leaves its deadline as it was.
- Unsubscribing from one room blurs the focus on another; a pending focus survives a
  swap of identity on the same socket.
- `shutdown` returns after its timeout with jobs still running, which "Once this
  returns, no scheduled job is running or will start" does not allow for.
- `Recorded::Known` is also returned when the open row was closed between the two
  statements and the event is in no row; two folds may leave the older message as the
  newest.
- Two first check-ins of an account without a balance row are both paid; an item may be
  bought between the owner count and the delete, and is gone with its purchase.
- "Find or create" (`room/src/directs.rs`): `POST /rooms` with the category dm and a
  participant looks for nothing (`routes/rooms.rs:182-207`), and `PATCH` sets the category
  as it is told (`room/src/repository.rs:577-605`), so two people may share any number of
  direct rooms. `OneConversation` is about the rooms open made.
- Suspending an account ends no session and stops none from being started by a handler
  that read `is_active` before (`sessions.rs` refresh, `service.rs` login), against "the
  account stops working everywhere at once" (`admin/src/staff.rs:216`).
- A declined request can be removed by the requester and made again, against
  "Declined; kept so the request cannot be spammed" (`domain/src/social.rs:18`);
  `respond_to_request` never looks at blocks; two overlapping opens make two
  conversations; opening a conversation with oneself finds any direct room of the caller.
- Two admins may demote each other; an invite's use is spent though the membership
  failed; a post refused by the flood guard still counts.

In the session and the socket of a client:

- A refresh that is answered after a sign-out stores its session over what is held
  (`AuthProvider.tsx:53`, `AuthContext.tsx:161`). `ShownIsHeld` and `TokenSpentOnce`
  except it; a kill between exchange and save leaves a spent token to restore.
- "Dropping the cache here is what stops the next account seeing their rooms for a frame"
  (`AuthContext.tsx:274`): the sign-out a failed refresh causes does not drop it.
- `ChatSocket.focus` has to go quiet, "otherwise a chat left open behind another window
  silences itself" (web `ChatSocket.ts:296`); the web class keeps the queue of an
  attempt that failed and sends it, stale, on the next connection, behind what it then
  says by itself: a room left meanwhile is claimed or subscribed again (`stale queue`).
- The web's composer says that typing stopped two and a half seconds after the last key,
  by a timer that neither a hidden tab nor an unmounted room clears
  (`Chat.tsx:396-400`), and the server takes any typing frame of a subscribed room for
  reading it, before it looks at `is_typing` (`ws/commands.rs:110`). So a tab hidden
  within that time silences the room that `ChatSocket.ts:293-297` says must go quiet
  only while it is read, until the next claim, unsubscription or connection (`late`).
- The web's provider gives the socket a token at sign-in and never again
  (`SocketProvider.tsx:52`): once it has run out, each reconnect is a stranger's.
- On the phone a room opened twice shares one entry of `subscribedRooms`, and leaving one
  of the two unsubscribes the other (`opened twice`).

Between the screens and the cache:

- Sixteen acts leave a query that is drawn beside them as it was (`KnownGaps`). Among
  them: editing, deleting or reacting to a pinned message does not touch the list of pins;
  a purchase on the phone leaves the store's own list; "this hands them over rather than
  making every screen refetch" (`useProfiles.ts:37`) reaches one key, and profiles are
  drawn from batches under others.

In a transcript (`faults`):

- `overlap`: a page under way replaces rows written since it was asked for.
- `missed`: an event published while nobody listens is not fetched again, since the web's
  query is never stale.
- `reordered`, `old tally`: events of two handlers are published in the other order; a
  tally read earlier arrives later.
- `edited above`: `applyMessageUpdated` looks at page 0 only.
- `crossed`, `answer lost`: a change by somebody else between a call and its answer is
  overwritten by it; a change whose answer is lost is undone on the screen.
- `left behind`: a phone's screen that is left with a call under way forgets it, and
  opened again before the server acts it draws the room without the call; no answer sets
  it right, and an event does not light one's own reaction.
- "the cache write keeps the ones already on screen" (`Chat.tsx:489`): an edit's answer
  empties the reactions, until the event that follows brings them back.

In calls (`fault`):

- `session`: "Move me here" joins without leaving (`VoicePanel.tsx:185`), leaving does not
  stop a join under way (`useVoiceRoom.tsx:306`), and `Disconnected` of the former
  connection clears the reference to the present one (line 261).
- `call`: a callee who comes while the caller's camera opens is not noticed, and the
  caller's clock hangs up on them (`useCall.tsx:213`); `start` goes on to ring when the
  camera settles, also if the room was left or lost meanwhile (lines 113-130), so a ring
  stands that leads nowhere; a connection that is closed after it was let in and before
  `join` returns is adopted all the same, and shown as connected although nobody is
  heard (`useVoiceRoom.tsx:261-295`); frames name a room and not a call, so the end of
  one call takes down the next; nothing keeps a ring for somebody who has no socket; a
  reload forgets an outgoing call without ending it. Whoever is in the room, or comes,
  is the answer (lines 210-216), also to a ring they have not answered: somebody still
  there from an earlier call, a join made for an earlier ring, or each of two who call
  each other. The call counts as taken then, so the caller who hangs up tells nobody,
  and the ring stands until its clock runs out.

Elsewhere on the clients, read and not modelled: an experience on the web posts its
result over REST and then over the socket (`GameExperience.tsx:253`), though "posting once
is enough" (mobile `experiences/shared.ts:13`).

## 6. Not modelled

Besides the components listed as such in `PROJECT.json`: in `Sessions` the staff flag
carried in tokens; in `Rooms` personas, permission overrides, discovery and
`prune_stale_participants`, which no job registers; in `Gateway` the typing throttle,
posting over the socket and what a lagging receiver of the bus loses; that a
subscription outlives the access it was checked against, of which no line promises
anything; in `Notifications` the broadcast of the row and the client's badge; in
`Economy` the different slots of the wardrobe and the validation of texts. In `Social`
rooms for more than two people (there `direct_peer` takes the earliest joiner for the
peer, and blocks of the others are not looked at), and the deletion of a direct room,
which is `Rooms`' matter; in `Notifications` an event delivered again to a row it is in
already (`notification/src/repository.rs:108`), since every event here is handled once.
In `ClientAuth` several tabs over one `localStorage`, each with a refresh of its own:
the single flight is one page's; the tokens an OAuth redirect leaves in the address, and
the order in which the phone's storage carries out overlapping writes and removals; in
`ClientSocket` the ping, posting over the socket, and a subscribe the server refuses
without a word (`visible_access`: what a screen shows is a room its user may see); in
`Transcript` one phone screen that goes from a room to another, the same account on a
second device, and what the server does with a call the phone's screen left behind; in
`Calls` camera and screen share beyond the wait for the camera, device pickers, the
stage's raised hands and a moderator's mute. In the screens: forms, layout, wording,
navigation other than whether a success leaves the view, and the local state of the
experiences (games, polls, debates). Seed data, configuration, wiring, hashing, signing
and calls to LiveKit and to external APIs have no protocol of their own.

A join and the expiry of the same room lock the room's row and its participants' rows in
opposite orders (`room/src/repository.rs:843` and `:683`); PostgreSQL aborts one of
them, which `Rooms` does as `Abort` at any time, without following the lock queue; so it
does for a leave that meets a DELETE. The deadlock of two referrals, each waiting for
the other's balance (`gamification.rs:284`), is `Rollback` in `Economy`: what is shown
is that the ledger is whole after it, not that it is avoided.

## 7. Plan

1. `Community`: role hierarchy, stale `MemberContext`, invites (`invites.rs` redeem
   claims a use, then adds the member).
2. `Staff`: platform roles, suspension against `middleware/auth.rs`, composed with
   `Sessions`.
3. `Messaging` with the flood guard and read state, composed with `Transcript`.
4. The event bus as an abstract specification (every subscriber gets a subsequence of
   what was published) that the lossy channel implements.
5. `Experiences`: turns and results carried by messages.
