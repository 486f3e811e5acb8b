----------------------------- MODULE SharedHooks ----------------------------
(***************************************************************************)
(* The mobile app's data hooks (packages/shared/src/queries) and the key    *)
(* factory they share (keys.ts).                                            *)
(***************************************************************************)
EXTENDS Hooks

queryKeys ==
  [auth |-> [all |-> <<"auth">>, config |-> <<"auth", "config">>, me |-> <<"auth", "me">>],
   users |-> [all |-> <<"users">>, detail |-> <<"users", "detail", "u">>,
              blocked |-> <<"users", "blocked">>, batch |-> <<"users", "batch", "u">>],
   communities |->
     [all |-> <<"communities">>, lists |-> <<"communities", "list">>,
      templates |-> <<"communities", "templates">>, detail |-> <<"communities", "detail", "c">>,
      members |-> <<"communities", "detail", "c", "members">>,
      roles |-> <<"communities", "detail", "c", "roles">>,
      invites |-> <<"communities", "detail", "c", "invites">>,
      invitePreview |-> <<"communities", "invitePreview", "code">>],
   rooms |->
     [all |-> <<"rooms">>, lists |-> <<"rooms", "list", "-">>, inCommunity |-> <<"rooms", "list", "c">>,
      detail |-> <<"rooms", "detail", "r">>, participants |-> <<"rooms", "detail", "r", "participants">>,
      discovery |-> <<"rooms", "discovery", "f">>, feed |-> <<"rooms", "feed", "f">>,
      mine |-> <<"rooms", "mine">>],
   emojis |-> [all |-> <<"emojis">>, forCommunity |-> <<"emojis", "community", "c">>,
               forRoom |-> <<"emojis", "room", "r">>],
   gifs |-> [all |-> <<"gifs">>, trending |-> <<"gifs", "trending">>, search |-> <<"gifs", "search", "f">>],
   messages |-> [all |-> <<"messages">>, list |-> <<"messages", "room", "r">>,
                 page |-> <<"messages", "room", "r", "page">>, pins |-> <<"messages", "room", "r", "pins">>,
                 search |-> <<"messages", "search", "f">>, unread |-> <<"messages", "unread">>],
   friends |-> [all |-> <<"friends">>, list |-> <<"friends", "list">>,
                pending |-> <<"friends", "pending">>, sent |-> <<"friends", "sent">>],
   notifications |-> [all |-> <<"notifications">>, list |-> <<"notifications", "list">>,
                      page |-> <<"notifications", "list", "page">>],
   economy |-> [all |-> <<"economy">>, balance |-> <<"economy", "balance">>],
   recommendations |-> [rooms |-> <<"recommendations", "rooms", "f">>,
                        people |-> <<"recommendations", "people">>,
                        communities |-> <<"recommendations", "communities">>],
   broadcasts |-> [active |-> <<"broadcasts", "active">>],
   store |-> [all |-> <<"store">>, items |-> <<"store", "items">>,
              inventory |-> <<"store", "inventory">>, equipped |-> <<"store", "equipped">>],
   bff |-> [roomSession |-> <<"bff", "room", "r", "session">>, meOverview |-> <<"bff", "me", "overview">>,
            communityOverview |-> <<"communities", "detail", "c", "overview">>,
            socialOverview |-> <<"friends", "overview">>]]

(***************************************************************************)
(* The hooks, one record per section of a file.                             *)
(***************************************************************************)
authHooks ==
  LET k == queryKeys.auth IN
  [useAuthConfigQuery |-> Pinned(Query(k.config, auth.config)),
   useCurrentUserQuery |-> Query(k.me, auth.me),
   useLoginMutation |-> Mutation(auth.login, {k.all}),
   useRegisterMutation |-> Mutation(auth.register, {k.all}),
   useUpdateProfileMutation |-> Patching(Mutation(auth.updateProfile, {k.me}), {k.me})]

communityQueries ==
  LET k == queryKeys.communities IN
  [useCommunitiesQuery |-> Query(k.lists, communities.list),
   useCommunityQuery |-> Query(k.detail, communities.get),
   useCommunityMembersQuery |-> Query(k.members, communities.members),
   useCommunityRolesQuery |-> Query(k.roles, communities.roles)]

communityMutations ==
  LET k == queryKeys.communities IN
  [useCreateCommunityMutation |-> Mutation(communities.create, {k.lists}),
   useJoinCommunityMutation |-> Mutation(communities.join, {k.lists, k.detail}),
   useLeaveCommunityMutation |-> Mutation(communities.leave, {k.lists, k.detail}),
   useUpdateCommunityMutation |-> Mutation(communities.update, {k.lists, k.detail}),
   useDeleteCommunityMutation |-> Mutation(communities.delete, {k.all})]

roleMutations ==
  LET k == queryKeys.communities IN
  [useCreateRoleMutation |-> Mutation(communities.createRole, {k.roles, k.detail}),
   useUpdateRoleMutation |-> Mutation(communities.updateRole, {k.roles, k.detail}),
   useAssignRoleMutation |-> Mutation(communities.assignRole, {k.members, k.detail}),
   useRemoveRoleMutation |-> Mutation(communities.removeRole, {k.members, k.detail})]

inviteHooks ==
  LET k == queryKeys.communities IN
  [useCommunityInvitesQuery |-> Query(k.invites, communities.listInvites),
   useCreateInviteMutation |-> Mutation(communities.createInvite, {k.invites}),
   useRevokeInviteMutation |-> Mutation(communities.revokeInvite, {k.invites, k.all}),
   useInvitePreviewQuery |-> Query(k.invitePreview, communities.previewInvite),
   useRedeemInviteMutation |->
     Mutation(communities.redeemInvite, {k.lists, k.detail, queryKeys.bff.meOverview})]

roomQueries ==
  LET k == queryKeys.rooms IN
  [useRoomsQuery |-> Query(k.lists, rooms.mine),
   useRoomQuery |-> Query(k.detail, rooms.get),
   useDiscoveryQuery |-> Query(k.discovery, rooms.discovery),
   useFeedQuery |-> Query(k.feed, rooms.feed),
   useMyRoomsQuery |-> Query(k.mine, rooms.mine),
   useRoomParticipantsQuery |-> Query(k.participants, rooms.participants)]

roomMutations ==
  LET k == queryKeys.rooms  c == queryKeys.communities IN
  [useCreateStandaloneRoomMutation |-> Mutation(rooms.createStandalone, {k.lists}),
   useCreateCommunityRoomMutation |-> Mutation(rooms.create, {k.inCommunity, c.detail}),
   useDeleteRoomMutation |-> Mutation(rooms.delete, {k.all, c.all}),
   useOpenDMMutation |-> Mutation(rooms.openDM, {k.mine}),
   useUpdateRoomMutation |-> Mutation(rooms.update, {k.detail, k.all, c.all})]

\* A room session's answer is spread over the room's own entries.
sessionHooks ==
  LET k == queryKeys.rooms IN
  [useRoomSessionQuery |->
     Seeding(Pinned(Query(queryKeys.bff.roomSession, rooms.session)), {k.detail, k.participants}),
   useOpenRoomSessionMutation |->
     Setting(Mutation(rooms.session, {k.mine}), {queryKeys.bff.roomSession, k.detail, k.participants})]

\* The boot payload is fetched once, by the sign-in code, and spread over these keys.
useSeedMeOverview ==
  {queryKeys.auth.me, queryKeys.auth.config, queryKeys.communities.lists, queryKeys.rooms.mine}

overviewHooks ==
  [useCommunityOverviewQuery |->
     Seeding(Query(queryKeys.bff.communityOverview, communities.overview),
             {queryKeys.communities.members, queryKeys.rooms.inCommunity}),
   useSocialOverviewQuery |-> Query(queryKeys.bff.socialOverview, social.overview)]

userQueries ==
  [useUserProfileQuery |-> Query(queryKeys.users.detail, users.get),
   usePublicProfilesQuery |-> Seeding(Query(queryKeys.users.batch, users.get), {queryKeys.users.detail}),
   useBlockedUsersQuery |-> Query(queryKeys.users.blocked, blocks.list)]

blockMutations ==
  LET d == {queryKeys.users.blocked, queryKeys.bff.socialOverview} IN
  [useBlockUserMutation |-> Mutation(blocks.block, d),
   useUnblockUserMutation |-> Mutation(blocks.unblock, d)]

friendHooks ==
  LET k == queryKeys.friends IN
  [useFriendsListQuery |-> Query(k.list, friends.list),
   usePendingFriendsQuery |-> Query(k.pending, friends.pending),
   useSentFriendsQuery |-> Query(k.sent, friends.sent),
   useSendFriendRequestMutation |-> Mutation(friends.request, {k.all}),
   useRespondFriendRequestMutation |-> Mutation(friends.respond, {k.all}),
   useRemoveFriendMutation |-> Mutation(friends.remove, {k.all})]

notificationHooks ==
  LET k == queryKeys.notifications IN
  [useNotificationsQuery |-> Query(k.page, notifications.list),
   useMarkNotificationReadMutation |-> Optimistic(Mutation(notifications.markRead, {}), k.list, {k.list}),
   useMarkAllNotificationsReadMutation |->
     Optimistic(Mutation(notifications.markAllRead, {}), k.list, {k.list})]

messageHooks ==
  LET d == {queryKeys.messages.list} IN
  [useMessagesQuery |-> Query(queryKeys.messages.page, messages.history),
   useSendMessageMutation |-> Mutation(messages.post, d),
   useAddReactionMutation |-> Mutation(messages.react, d),
   useRemoveReactionMutation |-> Mutation(messages.unreact, d),
   useEditMessageMutation |-> Mutation(messages.edit, d),
   useDeleteMessageMutation |-> Mutation(messages.remove, d)]

emojiHooks ==
  LET d == {queryKeys.emojis.all} IN
  [useRoomEmojisQuery |-> Query(queryKeys.emojis.forRoom, emojis.forRoom),
   useCommunityEmojisQuery |-> Query(queryKeys.emojis.forCommunity, emojis.list),
   useCreateEmojiMutation |-> Mutation(emojis.create, d),
   useRenameEmojiMutation |-> Mutation(emojis.rename, d),
   useDeleteEmojiMutation |-> Mutation(emojis.remove, d)]

rewardHooks ==
  LET b == queryKeys.economy.balance  s == queryKeys.store IN
  [useBalanceQuery |-> Query(b, economy.balance),
   useDailyCheckinMutation |-> Mutation(economy.dailyCheckin, {b}),
   useStoreItemsQuery |-> Query(s.items, store.items),
   useInventoryQuery |-> Query(s.inventory, inventory.mine),
   usePurchaseMutation |-> Mutation(store.purchase, {b, s.inventory}),
   useEquippedQuery |-> Query(s.equipped, inventory.equipped),
   useEquipMutation |-> Mutation(inventory.equip, {s.equipped, s.items})]

recommendationHooks ==
  LET k == queryKeys.recommendations IN
  [useRecommendedRoomsQuery |-> Query(k.rooms, recommendations.rooms),
   useRecommendedPeopleQuery |-> Query(k.people, recommendations.people),
   useRecommendedCommunitiesQuery |-> Query(k.communities, recommendations.communities)]

gifHooks == [useGifSearchInfinite |-> Query(queryKeys.gifs.search, gifs.search)]

broadcastHooks == [useActiveBroadcastsQuery |-> Polled(Query(queryKeys.broadcasts.active, broadcasts.active))]

SharedHookTable ==
  authHooks @@ communityQueries @@ communityMutations @@ roleMutations @@ inviteHooks @@ roomQueries
  @@ roomMutations @@ sessionHooks @@ overviewHooks @@ userQueries @@ blockMutations @@ friendHooks
  @@ notificationHooks @@ messageHooks @@ emojiHooks @@ rewardHooks @@ recommendationHooks @@ gifHooks
  @@ broadcastHooks
=============================================================================
