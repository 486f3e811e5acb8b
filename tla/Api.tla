-------------------------------- MODULE Api --------------------------------
(***************************************************************************)
(* The REST surface both clients call (packages/shared/src/api/endpoints.ts)*)
(* as data: for every endpoint the server-side tables its answer is built   *)
(* from and the tables it changes.  Paths, bodies and verbs are left out;    *)
(* what is kept is what decides whether a cached answer is still true.       *)
(***************************************************************************)

Reads(t) == [reads |-> t, writes |-> {}]
Writes(t) == [reads |-> {}, writes |-> t]
\* An endpoint that joins the caller to a room and answers with the room.
Enters(t, w) == [reads |-> t, writes |-> w]

(***************************************************************************)
(* Signing in, the account, the boot payload.                               *)
(***************************************************************************)
auth ==
  [config |-> Reads({"config"}), register |-> Writes({"me", "session"}),
   login |-> Writes({"session"}), refresh |-> Writes({"session"}), logout |-> Writes({"session"}),
   me |-> Reads({"me"}), updateProfile |-> Writes({"me", "profile"}),
   overview |-> Reads({"me", "community", "membership", "room", "joined", "friend",
                       "online", "notification", "config"})]

users == [get |-> Reads({"profile"})]

\* "membership" is which communities the caller is in, "member" who is in one of them.
communities ==
  [list |-> Reads({"community", "membership"}), get |-> Reads({"community", "membership", "role"}),
   templates |-> Reads({"template"}), create |-> Writes({"membership"}),
   join |-> Writes({"membership", "member"}), members |-> Reads({"member", "role"}),
   update |-> Writes({"community"}), leave |-> Writes({"membership", "member"}),
   delete |-> Writes({"community", "membership"}),
   roles |-> Reads({"role"}), createRole |-> Writes({"role"}), updateRole |-> Writes({"role"}),
   removeRole |-> Writes({"member"}), assignRole |-> Writes({"member"}),
   overview |-> Reads({"community", "member", "role", "room", "channel"}),
   createInvite |-> Writes({"invite"}), listInvites |-> Reads({"invite"}),
   previewInvite |-> Reads({"invite", "community"}),
   redeemInvite |-> Writes({"invite", "membership", "member"}), revokeInvite |-> Writes({"invite"})]

\* "room" is a room's own row, "moment" which standalone rooms there are, "channel" which
\* rooms a community has, "joined" the rooms the caller is in, "participant" who is in a
\* room.  The head count on a list's rows is left out: everybody else changes it too.
Moments == {"room", "moment"}
RoomRows == {"room", "participant"}

rooms ==
  [discovery |-> Reads(Moments), feed |-> Reads(Moments), trending |-> Reads(Moments),
   live |-> Reads(Moments), random |-> Reads(Moments), list |-> Reads({"room", "channel"}),
   get |-> Reads(RoomRows), mine |-> Reads({"room", "joined"}),
   createStandalone |-> Writes({"moment", "joined"}), create |-> Writes({"channel"}),
   join |-> Enters(RoomRows, {"participant", "joined"}), leave |-> Writes({"participant", "joined"}),
   participants |-> Reads({"participant"}), setPersona |-> Writes({"participant"}),
   update |-> Writes({"room"}), delete |-> Writes({"room", "moment", "channel", "joined"}),
   openDM |-> Writes({"joined"}),
   session |-> Enters(RoomRows \cup {"message"}, {"participant", "joined"})]

messages ==
  [history |-> Reads({"message", "reaction"}), post |-> Writes({"message"}),
   edit |-> Writes({"message"}), remove |-> Writes({"message"}),
   react |-> Writes({"reaction"}), unreact |-> Writes({"reaction"}),
   pins |-> Reads({"pin", "message", "reaction"}), pin |-> Writes({"pin"}), unpin |-> Writes({"pin"}),
   search |-> Reads({"message"}), unread |-> Reads({"readstate"}),
   markRead |-> Writes({"readstate"}), setMuted |-> Writes({"readstate"})]

friends ==
  [list |-> Reads({"friend"}), pending |-> Reads({"friend"}), sent |-> Reads({"friend"}),
   request |-> Writes({"friend"}), respond |-> Writes({"friend"}), remove |-> Writes({"friend"})]

notifications ==
  [list |-> Reads({"notification"}), markRead |-> Writes({"notification"}),
   markAllRead |-> Writes({"notification"})]

presence == [online |-> Reads({"online"})]

social == [overview |-> Reads({"friend", "online", "block"})]

\* A block ends the friendship in the same call, so it writes both tables.
blocks ==
  [list |-> Reads({"block"}), block |-> Writes({"block", "friend"}), unblock |-> Writes({"block"})]

media == [join |-> Writes({"live"}), leave |-> Writes({"live"}),
          ring |-> Writes({}), endCall |-> Writes({})]

support == [open |-> Writes({"ticket"}), mine |-> Reads({"ticket"}),
            get |-> Reads({"ticket"}), reply |-> Writes({"ticket"})]

recommendations == [rooms |-> Reads({"rank"}), people |-> Reads({"rank"}),
                    communities |-> Reads({"rank"})]

(***************************************************************************)
(* The platform console.  Every change it makes is also an audit entry.     *)
(***************************************************************************)
Staff(t) == Writes(t \cup {"audit"})

adminAccounts ==
  [stats |-> Reads({"standing", "ticket", "audit"}),
   audit |-> Reads({"audit"}), auditActions |-> Reads({"audit"}),
   searchUsers |-> Reads({"standing"}), getUser |-> Reads({"standing"}),
   listStaff |-> Reads({"standing"}),
   bulkSuspendUsers |-> Staff({"standing", "session"}), bulkReinstateUsers |-> Staff({"standing"}),
   suspendUser |-> Staff({"standing", "session"}), reinstateUser |-> Staff({"standing"}),
   setPlatformRole |-> Staff({"standing"})]

adminQueue ==
  [tickets |-> Reads({"ticket"}), ticket |-> Reads({"ticket"}),
   replyToTicket |-> Staff({"ticket"}), updateTicket |-> Staff({"ticket"}),
   assignTicket |-> Staff({"ticket"}),
   communities |-> Reads({"community", "quarantine"}),
   quarantineCommunity |-> Staff({"quarantine"}), unquarantineCommunity |-> Staff({"quarantine"}),
   deleteCommunity |-> Staff({"community"}),
   liveMedia |-> Reads({"live"}), terminateLiveMedia |-> Staff({"live"})]

adminPlatform ==
  [broadcasts |-> Reads({"broadcast"}), createBroadcast |-> Staff({"broadcast"}),
   deleteBroadcast |-> Staff({"broadcast"}),
   settings |-> Reads({"setting"}), updateSetting |-> Staff({"setting"}),
   ipBans |-> Reads({"ipban"}), banIp |-> Staff({"ipban"}), unbanIp |-> Staff({"ipban"}),
   emailDomains |-> Reads({"domain"}), blockEmailDomain |-> Staff({"domain"}),
   unblockEmailDomain |-> Staff({"domain"}),
   automodRules |-> Reads({"automod"}), createAutomodRule |-> Staff({"automod"}),
   deleteAutomodRule |-> Staff({"automod"}),
   recommendationCoverage |-> Reads({"rank"}), explainRecommendations |-> Reads({"rank"}),
   telemetry |-> Reads({"health"}), jobs |-> Reads({"job"}), runJob |-> Staff({"job"}),
   revokeUserSessions |-> Staff({"session"}), staffUpdateUserProfile |-> Staff({"standing", "profile"})]

broadcasts == [active |-> Reads({"broadcast"})]

(***************************************************************************)
(* Points, the store and what an account wears.                             *)
(***************************************************************************)
referrals == [overview |-> Reads({"referral"}), claim |-> Writes({"referral", "wallet"})]

economy == [balance |-> Reads({"wallet"}), dailyCheckin |-> Writes({"wallet"})]

\* A listing carries whether the viewer owns and wears the item.
store == [items |-> Reads({"item", "owned", "worn"}), purchase |-> Writes({"wallet", "owned", "item"})]

inventory == [mine |-> Reads({"owned", "worn", "item"}), equipped |-> Reads({"worn", "item"}),
              equip |-> Writes({"worn"})]

cosmetics == [forUsers |-> Reads({"worn", "item"})]

storeAdmin ==
  [items |-> Reads({"item", "owned"}), create |-> Staff({"item"}), update |-> Staff({"item"}),
   remove |-> Staff({"item"}), grantItem |-> Staff({"owned", "item"}),
   grantPoints |-> Staff({"wallet"})]

emojis == [forRoom |-> Reads({"emoji"}), list |-> Reads({"emoji"}), create |-> Writes({"emoji"}),
           rename |-> Writes({"emoji"}), remove |-> Writes({"emoji"})]

gifs == [trending |-> Reads({"gif"}), search |-> Reads({"gif"})]
=============================================================================
