------------------------------ MODULE WebHooks ------------------------------
(***************************************************************************)
(* The web app's data hooks (apps/web/src/features/*/api).  Each feature    *)
(* has a key factory of its own.                                            *)
(***************************************************************************)
EXTENDS Hooks

roomKeys ==
  [all |-> <<"rooms">>, discovery |-> <<"rooms", "discovery", "f">>, feed |-> <<"rooms", "feed", "f">>,
   trending |-> <<"rooms", "trending">>, live |-> <<"rooms", "live">>, mine |-> <<"rooms", "mine">>,
   community |-> <<"rooms", "community", "c">>, detail |-> <<"rooms", "detail", "r">>,
   participants |-> <<"rooms", "detail", "r", "participants">>]

communityKeys ==
  [all |-> <<"communities">>, list |-> <<"communities", "list">>,
   templates |-> <<"communities", "templates">>, detail |-> <<"communities", "detail", "c">>,
   members |-> <<"communities", "detail", "c", "members">>,
   roles |-> <<"communities", "detail", "c", "roles">>,
   invites |-> <<"communities", "detail", "c", "invites">>,
   invitePreview |-> <<"communities", "invitePreview", "code">>]

friendKeys ==
  [list |-> <<"friends", "list">>, pending |-> <<"friends", "pending">>, sent |-> <<"friends", "sent">>,
   blocked |-> <<"blocks", "list">>, presence |-> <<"presence", "online">>]

socialGraphKeys == {friendKeys.list, friendKeys.pending, friendKeys.sent, friendKeys.blocked}

bffKeys ==
  [meOverview |-> <<"bff", "me", "overview">>, communityOverview |-> <<"bff", "community", "c", "overview">>,
   roomSession |-> <<"bff", "room", "r", "session">>, socialOverview |-> <<"bff", "me", "social">>]

publicProfileKey == <<"users", "detail", "u">>

recommendationKeys ==
  [rooms |-> <<"recommendations", "rooms", "f">>, people |-> <<"recommendations", "people">>,
   communities |-> <<"recommendations", "communities">>]

rewardKeys ==
  [all |-> <<"rewards">>, balance |-> <<"rewards", "balance">>, referrals |-> <<"rewards", "referrals">>,
   store |-> <<"rewards", "store", "f">>, inventory |-> <<"rewards", "inventory">>,
   equipped |-> <<"rewards", "equipped">>, cosmetics |-> <<"rewards", "cosmetics", "u">>,
   adminCatalog |-> <<"rewards", "admin", "catalog">>]

notificationFeedKey == <<"notifications", "feed">>

authKeys == [config |-> <<"auth", "config">>, me |-> <<"auth", "me">>]

chatKeys ==
  [all |-> <<"chat">>, messages |-> <<"chat", "room", "r", "messages">>, pins |-> <<"chat", "room", "r", "pins">>,
   search |-> <<"chat", "search", "f">>, unread |-> <<"chat", "unread">>]

adminKeys ==
  [all |-> <<"admin">>, stats |-> <<"admin", "stats">>, audit |-> <<"admin", "audit", "f">>,
   auditActions |-> <<"admin", "audit", "actions">>, users |-> <<"admin", "users", "f">>,
   staff |-> <<"admin", "staff">>, tickets |-> <<"admin", "tickets", "f">>,
   ticket |-> <<"admin", "ticket", "t">>, communities |-> <<"admin", "communities", "f">>,
   liveMedia |-> <<"admin", "live-media">>, broadcasts |-> <<"admin", "broadcasts">>,
   settings |-> <<"admin", "settings">>, ipBans |-> <<"admin", "ip-bans">>,
   emailDomains |-> <<"admin", "email-domains">>, automod |-> <<"admin", "automod">>,
   telemetry |-> <<"admin", "telemetry">>, jobs |-> <<"admin", "jobs">>,
   coverage |-> <<"admin", "recommendations", "coverage">>,
   explain |-> <<"admin", "recommendations", "explain", "u", "f">>]

broadcastActiveKey == <<"broadcasts", "active">>

supportKeys == [mine |-> <<"support", "mine">>, ticket |-> <<"support", "ticket", "t">>]

(***************************************************************************)
(* The hooks, one record per section of a file.                             *)
(***************************************************************************)
roomQueries ==
  [useDiscoveryRooms |-> Query(roomKeys.discovery, rooms.discovery),
   usePlaygroundFeed |-> Query(roomKeys.feed, rooms.feed),
   useTrendingRooms |-> Query(roomKeys.trending, rooms.trending),
   useLiveRooms |-> Query(roomKeys.live, rooms.live),
   useCommunityRoomsQuery |-> Query(roomKeys.community, rooms.list),
   useMyRoomsQuery |-> Query(roomKeys.mine, rooms.mine),
   useRoomDetailQuery |-> Query(roomKeys.detail, rooms.get),
   useJoinedRoomQuery |-> Pinned(Query(roomKeys.detail, rooms.join)),
   useRoomParticipantsQuery |-> Query(roomKeys.participants, rooms.participants)]

roomMutations ==
  LET k == roomKeys IN
  [useCreateStandaloneRoomMutation |-> Mutation(rooms.createStandalone, {k.all}),
   useCreateCommunityRoomMutation |-> Mutation(rooms.create, {k.community}),
   useUpdateRoomMutation |-> Mutation(rooms.update, {k.detail, k.all}),
   useDeleteRoomMutation |-> Removing(Mutation(rooms.delete, {k.all}), {k.detail}),
   useJoinRoomMutation |-> Setting(Mutation(rooms.join, {k.participants, k.mine}), {k.detail}),
   useLeaveRoomMutation |-> Mutation(rooms.leave, {k.detail, k.participants, k.mine}),
   useSetPersonaMutation |-> Mutation(rooms.setPersona, {k.detail, k.participants}),
   useOpenDMMutation |-> Mutation(rooms.openDM, {k.mine}),
   useRandomRoomMutation |-> Mutation(rooms.random, {}),
   useJoinMediaSessionMutation |-> Mutation(media.join, {}),
   useRingMutation |-> Mutation(media.ring, {}),
   useEndCallMutation |-> Mutation(media.endCall, {})]

communityQueries ==
  LET k == communityKeys IN
  [useCommunitiesList |-> Query(k.list, communities.list),
   useCommunityTemplates |-> Pinned(Query(k.templates, communities.templates)),
   useCommunityDetail |-> Query(k.detail, communities.get),
   useCommunityMembers |-> Query(k.members, communities.members),
   useCommunityRoles |-> Query(k.roles, communities.roles)]

communityMutations ==
  LET k == communityKeys IN
  [useCreateCommunityMutation |-> Mutation(communities.create, {k.list}),
   useUpdateCommunityMutation |-> Mutation(communities.update, {k.detail, k.list}),
   useDeleteCommunityMutation |-> Removing(Mutation(communities.delete, {k.list}), {k.detail}),
   useJoinCommunityMutation |-> Mutation(communities.join, {k.list, k.members}),
   useLeaveCommunityMutation |-> Mutation(communities.leave, {k.list, k.members})]

roleMutations ==
  LET k == communityKeys IN
  [useCreateRoleMutation |-> Mutation(communities.createRole, {k.roles}),
   useUpdateRoleMutation |-> Mutation(communities.updateRole, {k.roles}),
   useAssignRoleMutation |-> Mutation(communities.assignRole, {k.members}),
   useRemoveRoleMutation |-> Mutation(communities.removeRole, {k.members})]

inviteHooks ==
  LET k == communityKeys IN
  [useCommunityInvites |-> Query(k.invites, communities.listInvites),
   useCreateInviteMutation |-> Mutation(communities.createInvite, {k.invites}),
   useRevokeInviteMutation |-> Mutation(communities.revokeInvite, {k.invites}),
   useInvitePreview |-> Query(k.invitePreview, communities.previewInvite),
   useRedeemInviteMutation |-> Mutation(communities.redeemInvite, {k.list, k.detail})]

friendQueries ==
  [useFriendsList |-> Query(friendKeys.list, friends.list),
   usePendingFriendRequests |-> Query(friendKeys.pending, friends.pending),
   useSentFriendRequests |-> Query(friendKeys.sent, friends.sent),
   useBlockedUsers |-> Query(friendKeys.blocked, blocks.list),
   useOnlineUsers |-> Query(friendKeys.presence, presence.online)]

friendMutations ==
  [useSendFriendRequestMutation |-> Mutation(friends.request, socialGraphKeys),
   useRespondFriendRequestMutation |-> Mutation(friends.respond, socialGraphKeys),
   useRemoveFriendMutation |-> Mutation(friends.remove, socialGraphKeys),
   useBlockUserMutation |-> Mutation(blocks.block, socialGraphKeys),
   useUnblockUserMutation |-> Mutation(blocks.unblock, socialGraphKeys)]

bffHooks ==
  [useMeOverviewQuery |-> Query(bffKeys.meOverview, auth.overview),
   useCommunityOverviewQuery |-> Query(bffKeys.communityOverview, communities.overview),
   useRoomSessionQuery |-> Pinned(Query(bffKeys.roomSession, rooms.session)),
   useSocialOverviewQuery |-> Query(bffKeys.socialOverview, social.overview)]

profileHooks ==
  [usePublicProfileQuery |-> Query(publicProfileKey, users.get),
   usePublicProfiles |-> Seeding(Query(<<"users", "batch", "u">>, users.get), {publicProfileKey})]

\* An experience's move is an ordinary message; nothing is invalidated.
experienceHooks ==
  [useVotePollMutation |-> Mutation(messages.post, {}),
   useCreatePollMutation |-> Mutation(messages.post, {}),
   useSubmitConfessionMutation |-> Mutation(messages.post, {}),
   useSubmitDebateArgumentMutation |-> Mutation(messages.post, {})]

recommendationHooks ==
  [useRecommendedRooms |-> Query(recommendationKeys.rooms, recommendations.rooms),
   useRecommendedPeople |-> Query(recommendationKeys.people, recommendations.people),
   useRecommendedCommunities |-> Query(recommendationKeys.communities, recommendations.communities)]

\* Everything under "rewards" is invalidated together.
Rewarding(endpoint) == Mutation(endpoint, {rewardKeys.all})

walletHooks ==
  [useBalanceQuery |-> Query(rewardKeys.balance, economy.balance),
   useDailyCheckinMutation |-> Patching(Rewarding(economy.dailyCheckin), {rewardKeys.balance}),
   useReferralOverviewQuery |-> Query(rewardKeys.referrals, referrals.overview),
   useClaimReferralMutation |-> Rewarding(referrals.claim)]

storeHooks ==
  [useStoreItemsQuery |-> Query(rewardKeys.store, store.items),
   useInventoryQuery |-> Query(rewardKeys.inventory, inventory.mine),
   useEquippedQuery |-> Query(rewardKeys.equipped, inventory.equipped),
   usePurchaseMutation |-> Rewarding(store.purchase),
   useEquipMutation |-> Setting(Rewarding(inventory.equip), {rewardKeys.equipped, rewardKeys.cosmetics}),
   useCosmeticsFor |-> Query(rewardKeys.cosmetics, cosmetics.forUsers)]

catalogHooks ==
  [useAdminCatalogQuery |-> Query(rewardKeys.adminCatalog, storeAdmin.items),
   useCreateStoreItemMutation |-> Rewarding(storeAdmin.create),
   useUpdateStoreItemMutation |-> Rewarding(storeAdmin.update),
   useDeleteStoreItemMutation |-> Rewarding(storeAdmin.remove),
   useGrantItemMutation |-> Rewarding(storeAdmin.grantItem),
   useGrantPointsMutation |-> Rewarding(storeAdmin.grantPoints)]

notificationHooks ==
  LET k == notificationFeedKey IN
  [useNotificationsInfinite |-> Query(k, notifications.list),
   useMarkNotificationReadMutation |-> Optimistic(Mutation(notifications.markRead, {}), k, {}),
   useMarkAllNotificationsReadMutation |-> Optimistic(Mutation(notifications.markAllRead, {}), k, {k})]

authHooks ==
  [useAuthConfig |-> Pinned(Query(authKeys.config, auth.config)),
   useCurrentUser |-> Query(authKeys.me, auth.me),
   useUpdateProfileMutation |-> Patching(Mutation(auth.updateProfile, {authKeys.me}), {authKeys.me}),
   useLoginMutation |-> Mutation(auth.login, {}), useRegisterMutation |-> Mutation(auth.register, {})]

\* The transcript is kept current by the socket.  The reaction call answers with the
\* whole tally, written over every cached copy of the message, transcript and pins alike.
transcriptHooks ==
  [useRoomMessagesInfinite |-> Pinned(Query(chatKeys.messages, messages.history)),
   useSendMessageMutation |-> Mutation(messages.post, {}),
   useEditMessageMutation |-> Mutation(messages.edit, {}),
   useDeleteMessageMutation |-> Mutation(messages.remove, {}),
   useReactionMutation |-> Patching(Mutation(messages.react, {}), {chatKeys.messages, chatKeys.pins})]

pinAndReadHooks ==
  [useRoomPinsQuery |-> Query(chatKeys.pins, messages.pins),
   usePinMessageMutation |-> Mutation(messages.pin, {chatKeys.pins}),
   useUnpinMessageMutation |-> Mutation(messages.unpin, {chatKeys.pins}),
   useSearchMessagesQuery |-> Query(chatKeys.search, messages.search),
   useUnreadOverviewQuery |-> Polled(Query(chatKeys.unread, messages.unread)),
   useMarkRoomReadMutation |-> Patching(Mutation(messages.markRead, {}), {chatKeys.unread}),
   useMuteRoomMutation |-> Patching(Mutation(messages.setMuted, {}), {chatKeys.unread})]

\* The console invalidates everything it shows after every change it makes.
Console(endpoint) == Mutation(endpoint, {adminKeys.all})

auditHooks ==
  [useAdminStats |-> Polled(Query(adminKeys.stats, adminAccounts.stats)),
   useAuditLog |-> Query(adminKeys.audit, adminAccounts.audit),
   useAuditActions |-> Pinned(Query(adminKeys.auditActions, adminAccounts.auditActions)),
   useUserSearch |-> Query(adminKeys.users, adminAccounts.searchUsers),
   useStaffList |-> Query(adminKeys.staff, adminAccounts.listStaff)]

queueHooks ==
  [useSupportQueue |-> Query(adminKeys.tickets, adminQueue.tickets),
   useSupportTicket |-> Query(adminKeys.ticket, adminQueue.ticket)]

enforcementHooks ==
  [useSuspendUserMutation |-> Console(adminAccounts.suspendUser),
   useReinstateUserMutation |-> Console(adminAccounts.reinstateUser),
   useSetPlatformRoleMutation |-> Console(adminAccounts.setPlatformRole),
   useStaffReplyMutation |-> Console(adminQueue.replyToTicket),
   useUpdateTicketMutation |-> Console(adminQueue.updateTicket),
   useAssignTicketMutation |-> Console(adminQueue.assignTicket)]

communityConsoleHooks ==
  [useAdminCommunities |-> Query(adminKeys.communities, adminQueue.communities),
   useQuarantineCommunityMutation |-> Console(adminQueue.quarantineCommunity),
   useUnquarantineCommunityMutation |-> Console(adminQueue.unquarantineCommunity),
   useDeleteAdminCommunityMutation |-> Console(adminQueue.deleteCommunity),
   useLiveMediaSessions |-> Polled(Query(adminKeys.liveMedia, adminQueue.liveMedia)),
   useTerminateLiveMediaMutation |-> Console(adminQueue.terminateLiveMedia)]

broadcastHooks ==
  LET shown == {adminKeys.all, broadcastActiveKey} IN
  [useActiveBroadcasts |-> Polled(Query(broadcastActiveKey, broadcasts.active)),
   useAdminBroadcasts |-> Query(adminKeys.broadcasts, adminPlatform.broadcasts),
   useCreateBroadcastMutation |-> Mutation(adminPlatform.createBroadcast, shown),
   useDeleteBroadcastMutation |-> Mutation(adminPlatform.deleteBroadcast, shown)]

securityHooks ==
  [useAdminSettings |-> Query(adminKeys.settings, adminPlatform.settings),
   useUpdateSettingMutation |-> Console(adminPlatform.updateSetting),
   useIpBans |-> Query(adminKeys.ipBans, adminPlatform.ipBans),
   useBanIpMutation |-> Console(adminPlatform.banIp),
   useUnbanIpMutation |-> Console(adminPlatform.unbanIp),
   useBlockedEmailDomains |-> Query(adminKeys.emailDomains, adminPlatform.emailDomains),
   useBlockEmailDomainMutation |-> Console(adminPlatform.blockEmailDomain),
   useUnblockEmailDomainMutation |-> Console(adminPlatform.unblockEmailDomain),
   useAutomodRules |-> Query(adminKeys.automod, adminPlatform.automodRules),
   useCreateAutomodRuleMutation |-> Console(adminPlatform.createAutomodRule),
   useDeleteAutomodRuleMutation |-> Console(adminPlatform.deleteAutomodRule)]

jobHooks ==
  [useBackgroundJobs |-> Polled(Query(adminKeys.jobs, adminPlatform.jobs)),
   useRunJobMutation |-> Console(adminPlatform.runJob),
   useBulkSuspendMutation |-> Console(adminAccounts.bulkSuspendUsers),
   useBulkReinstateMutation |-> Console(adminAccounts.bulkReinstateUsers),
   useRecommendationCoverage |-> Polled(Query(adminKeys.coverage, adminPlatform.recommendationCoverage)),
   useRecommendationExplain |-> Query(adminKeys.explain, adminPlatform.explainRecommendations)]

telemetryHooks ==
  [useSystemTelemetry |-> Polled(Query(adminKeys.telemetry, adminPlatform.telemetry)),
   useRevokeUserSessionsMutation |-> Console(adminPlatform.revokeUserSessions),
   useStaffUpdateUserProfileMutation |-> Console(adminPlatform.staffUpdateUserProfile),
   useMyTickets |-> Query(supportKeys.mine, support.mine),
   useMyTicket |-> Query(supportKeys.ticket, support.get),
   useOpenTicketMutation |-> Mutation(support.open, {supportKeys.mine}),
   useReplyToMyTicketMutation |-> Mutation(support.reply, {supportKeys.ticket, supportKeys.mine})]

WebHookTable ==
  roomQueries @@ roomMutations @@ communityQueries @@ communityMutations @@ roleMutations @@ inviteHooks
  @@ friendQueries @@ friendMutations @@ bffHooks @@ profileHooks @@ experienceHooks @@ recommendationHooks
  @@ walletHooks @@ storeHooks @@ catalogHooks @@ notificationHooks @@ authHooks @@ transcriptHooks
  @@ pinAndReadHooks @@ auditHooks @@ queueHooks @@ enforcementHooks @@ communityConsoleHooks
  @@ broadcastHooks @@ securityHooks @@ jobHooks @@ telemetryHooks

(***************************************************************************)
(* Frames of the gateway that reach the cache: what each is about, the      *)
(* entries it is written into, and the ones it marks out of date.           *)
(***************************************************************************)
Frame(about, sets, drops) == [about |-> about, sets |-> sets, drops |-> drops]

useQueryCacheSync ==
  [message_created |-> Frame({"message"}, {chatKeys.messages}, {}),
   message_updated |-> Frame({"message"}, {chatKeys.messages}, {}),
   message_deleted |-> Frame({"message"}, {chatKeys.messages}, {}),
   reactions_updated |-> Frame({"reaction"}, {chatKeys.messages}, {}),
   presence_changed |-> Frame({"online"}, {friendKeys.presence}, {}),
   notification_created |-> Frame({"notification"}, {notificationFeedKey}, {}),
   friend_notified |-> Frame({"notification", "friend"}, {notificationFeedKey}, socialGraphKeys),
   direct_room_opened |-> Frame({"joined"}, {}, {roomKeys.mine})]

\* A console topic says only that something moved; the lists are fetched again.
TOPIC_KEYS ==
  [support_queue |-> Frame({"ticket"}, {}, {<<"admin", "tickets">>, adminKeys.stats}),
   live_media |-> Frame({"live"}, {}, {adminKeys.liveMedia}),
   broadcasts |-> Frame({"broadcast"}, {}, {adminKeys.broadcasts, broadcastActiveKey}),
   users |-> Frame({"standing"}, {}, {<<"admin", "users">>, adminKeys.staff, adminKeys.stats}),
   audit_log |-> Frame({"audit"}, {}, {<<"admin", "audit">>})]
=============================================================================
