---------------------------- MODULE MobileScreens ---------------------------
(***************************************************************************)
(* The mobile app's screens (apps/mobile/src/screens and features) over the  *)
(* shared view models.  A screen below the top of the navigation stack stays *)
(* mounted.                                                                 *)
(***************************************************************************)
EXTENDS SharedHooks, Acts

\* A call one screen makes straight to the API, past the hooks.
findRandomRoom == [useRandomRoom |-> Mutation(rooms.random, {})]

(***************************************************************************)
(* View models (packages/shared/src/viewmodels).                            *)
(***************************************************************************)
useFriendsVM ==
  [shows |-> {"useSocialOverviewQuery"},
   sendFriendRequest |-> Press("useSendFriendRequestMutation"),
   respond |-> Press("useRespondFriendRequestMutation"),
   removeFriend |-> Press("useRemoveFriendMutation")]

useBlockedUsersVM ==
  [shows |-> {"useSocialOverviewQuery"},
   blockUser |-> Press("useBlockUserMutation"), unblockUser |-> Press("useUnblockUserMutation")]

useCommunitiesVM ==
  [shows |-> {"useCommunitiesQuery"},
   create |-> Press("useCreateCommunityMutation"), join |-> Press("useJoinCommunityMutation")]

\* One overview query answers for the community, its members, roles and channels.
useCommunityDetailVM ==
  [shows |-> {"useCommunityOverviewQuery"},
   leave |-> Press("useLeaveCommunityMutation"),
   updateCommunity |-> Press("useUpdateCommunityMutation"),
   deleteCommunity |-> Press("useDeleteCommunityMutation"),
   createRole |-> Press("useCreateRoleMutation"),
   assignRole |-> Press("useAssignRoleMutation"), removeRole |-> Press("useRemoveRoleMutation"),
   createRoom |-> Press("useCreateCommunityRoomMutation"),
   deleteRoom |-> Press("useDeleteRoomMutation")]

useRoomsVM == [shows |-> {"useDiscoveryQuery"}]

useNotificationsVM ==
  [shows |-> {"useNotificationsQuery"},
   markAsRead |-> Press("useMarkNotificationReadMutation"),
   markAllAsRead |-> Press("useMarkAllNotificationsReadMutation")]

(***************************************************************************)
(* Friends and profiles.                                                    *)
(***************************************************************************)
friendsShown == useFriendsVM.shows \cup useBlockedUsersVM.shows \cup {"useMyRoomsQuery", "usePublicProfilesQuery"}

\* Every handler refetches the overview it draws from.
friendsHandlers ==
  LET settle(act) == Refreshing(act, useFriendsVM.shows) IN
  [openDM |-> Going(Press("useOpenDMMutation")),
   sendRequest |-> settle(Busied(useFriendsVM.sendFriendRequest)),
   respond |-> settle(useFriendsVM.respond),
   removeFriend |-> settle(Asked(useFriendsVM.removeFriend)),
   blockUser |-> settle(useBlockedUsersVM.blockUser),
   unblockUser |-> settle(useBlockedUsersVM.unblockUser)]

ChatsTab == Screen(friendsShown, NoActs)
FriendsTab == Screen(friendsShown, Controls(friendsHandlers, {"openDM"}, {}))
PendingTab == Screen(friendsShown, Controls(friendsHandlers, {"respond", "removeFriend"}, {}))
BlockedAndAddTabs == Screen(friendsShown, Controls(friendsHandlers, {"unblockUser", "sendRequest"}, {}))
FriendMenu == Screen(friendsShown, Controls(friendsHandlers, {"openDM", "removeFriend", "blockUser"}, {}))

profileCardHandlers ==
  [handleOpenDM |-> Going(Press("useOpenDMMutation")),
   handleSendFriendRequest |-> Press("useSendFriendRequestMutation"),
   handleBlock |-> Closing(Asked(Press("useBlockUserMutation")))]
\* One flag over the three mutations.  The card is keyed by its user.
ProfileCard ==
  Screen({"useUserProfileQuery"},
         Controls(profileCardHandlers, DOMAIN profileCardHandlers, DOMAIN profileCardHandlers))

(***************************************************************************)
(* Finding a room or a community.                                           *)
(***************************************************************************)
HomeScreen ==
  Screen(useRoomsVM.shows \cup {"useRecommendedRoomsQuery"},
         [handleFindRandomRoom |-> Busied(Going(Press("useRandomRoom")))])
ForYouSection == Screen({"useRecommendedRoomsQuery"}, NoActs)

\* The sheet stays mounted under its parent; the parent refetches what it lists.
CreateRoomSheet(shown) ==
  Screen(shown, [handleCreate |->
    Refreshing(Locked(Going(Press("useCreateStandaloneRoomMutation"))), shown)])
homeRoomSheet == CreateRoomSheet(useRoomsVM.shows \cup {"useRecommendedRoomsQuery"})
feedRoomSheet == CreateRoomSheet({"useFeedQuery"})

PlaygroundFeedScreen == Screen({"useFeedQuery"}, NoActs)
CommunitiesScreen == Screen(useCommunitiesVM.shows, NoActs)

CreateCommunityModal ==
  Screen(useCommunitiesVM.shows,
         [handleCreate |-> Refreshing(Locked(Closing(useCommunitiesVM.create)), useCommunitiesVM.shows)])

\* A conflict means already a member, and enters too.
ExploreScreen == Screen(useCommunitiesVM.shows, [join |-> Busied(Going(useCommunitiesVM.join))])
InviteScreen ==
  Screen({"useInvitePreviewQuery"}, [accept |-> Locked(Going(Press("useRedeemInviteMutation")))])

(***************************************************************************)
(* A community and its settings.                                            *)
(***************************************************************************)
CommunityDetailScreen ==
  Screen(useCommunityDetailVM.shows, [leave |-> Asked(Going(useCommunityDetailVM.leave))])
CommunitySettingsScreen == Screen(useCommunityDetailVM.shows, NoActs)
MemberListScreen ==
  Screen({"useCommunityMembersQuery", "useRoomParticipantsQuery", "usePublicProfilesQuery"}, NoActs)

OverviewTab ==
  Screen(useCommunityDetailVM.shows,
         [save |-> Locked(useCommunityDetailVM.updateCommunity),
          remove |-> Asked(Going(useCommunityDetailVM.deleteCommunity))])
RolesTab ==
  Screen(useCommunityDetailVM.shows, [create |-> Locked(useCommunityDetailVM.createRole)])
MembersTab ==
  Screen(useCommunityDetailVM.shows \cup {"usePublicProfilesQuery"},
         [assignRole |-> useCommunityDetailVM.assignRole, removeRole |-> useCommunityDetailVM.removeRole,
          remove |-> Asked(useCommunityDetailVM.leave)])
ChannelsTab ==
  Screen(useCommunityDetailVM.shows,
         [create |-> Locked(useCommunityDetailVM.createRoom),
          remove |-> Asked(useCommunityDetailVM.deleteRoom)])
InvitesTab ==
  Screen({"useCommunityInvitesQuery"},
         [create |-> Locked(Press("useCreateInviteMutation")),
          revoke |-> Asked(Press("useRevokeInviteMutation"))])

(***************************************************************************)
(* Signing in, and beside a room's transcript.                              *)
(***************************************************************************)
\* What it submits is Login of ClientAuth.
SignInScreen == Screen({"useAuthConfigQuery"}, NoActs)

roomChatHandlers ==
  [submitEdit |-> Press("useEditMessageMutation"),
   removeMessage |-> Asked(Press("useDeleteMessageMutation")),
   addReaction |-> Press("useAddReactionMutation"), removeReaction |-> Press("useRemoveReactionMutation")]
RoomChatScreen ==
  Screen({"useRoomQuery", "useRoomEmojisQuery", "useAuthConfigQuery", "usePublicProfilesQuery"},
         Controls(roomChatHandlers, DOMAIN roomChatHandlers, {}))

ExperienceRoomScreen == Screen({"useRoomQuery"}, NoActs)
GifPanel == Screen({"useGifSearchInfinite"}, NoActs)

(***************************************************************************)
(* The account's settings, points and outfit.                               *)
(***************************************************************************)
useSubmission(act) == Busied(act)

\* The form re-seeds itself whenever the profile object changes.
ProfileTab ==
  Screen({}, [onSubmit |-> Priming(useSubmission(Press("useUpdateProfileMutation")), {"useUserProfileQuery"})])
BlockedTab ==
  Screen(useBlockedUsersVM.shows \cup {"usePublicProfilesQuery"},
         [handleBlock |-> useSubmission(useBlockedUsersVM.blockUser),
          handleUnblock |-> useBlockedUsersVM.unblockUser])

RewardsScreen == Screen({"useBalanceQuery"}, NoActs)
HistoryView == Screen({"useBalanceQuery"}, NoActs)
InventoryView == Screen({"useInventoryQuery"}, NoActs)
\* Disabled only for the item the running purchase is about.
StoreView ==
  Screen({"useBalanceQuery", "useStoreItemsQuery"}, [buy |-> Locked(Asked(Press("usePurchaseMutation")))])
StudioView ==
  Screen({"useInventoryQuery", "useEquippedQuery"}, [wear |-> Locked(Press("useEquipMutation"))])

NotificationList ==
  Screen(useNotificationsVM.shows \cup {"usePublicProfilesQuery"},
         [open |-> useNotificationsVM.markAsRead])
NotificationsScreen ==
  Screen(useNotificationsVM.shows, [markAllRead |-> useNotificationsVM.markAllAsRead])
GlobalBroadcastBanner == Screen({"useActiveBroadcastsQuery"}, NoActs)

\* The tabs of the two modes; a tab once visited stays mounted while its mode is on.
PlaygroundTabs == {"PlaygroundFeedScreen", "HomeScreen", "NotificationsScreen", "GlobalBroadcastBanner"}
ServersTabs == {"CommunitiesScreen", "ChatsTab", "RewardsScreen", "NotificationsScreen", "GlobalBroadcastBanner"}
MainTabs(s) ==
  CASE s \in PlaygroundTabs \cup {"ForYouSection", "homeRoomSheet", "feedRoomSheet"} -> PlaygroundTabs
    [] s \in ServersTabs \cup {"FriendsTab", "PendingTab", "BlockedAndAddTabs", "FriendMenu", "CreateCommunityModal",
                               "HistoryView", "InventoryView", "StoreView", "StudioView"} -> ServersTabs
    [] OTHER -> PlaygroundTabs \cup ServersTabs

MobileScreenTable ==
  [ChatsTab |-> ChatsTab, FriendsTab |-> FriendsTab, PendingTab |-> PendingTab,
   BlockedAndAddTabs |-> BlockedAndAddTabs, FriendMenu |-> FriendMenu,
   ProfileCard |-> ProfileCard, HomeScreen |-> HomeScreen, ForYouSection |-> ForYouSection,
   homeRoomSheet |-> homeRoomSheet, feedRoomSheet |-> feedRoomSheet,
   PlaygroundFeedScreen |-> PlaygroundFeedScreen, CommunitiesScreen |-> CommunitiesScreen,
   CreateCommunityModal |-> CreateCommunityModal, ExploreScreen |-> ExploreScreen,
   InviteScreen |-> InviteScreen, CommunityDetailScreen |-> CommunityDetailScreen,
   CommunitySettingsScreen |-> CommunitySettingsScreen, MemberListScreen |-> MemberListScreen,
   OverviewTab |-> OverviewTab, RolesTab |-> RolesTab, MembersTab |-> MembersTab,
   ChannelsTab |-> ChannelsTab, InvitesTab |-> InvitesTab, ProfileTab |-> ProfileTab,
   BlockedTab |-> BlockedTab, RewardsScreen |-> RewardsScreen, HistoryView |-> HistoryView,
   InventoryView |-> InventoryView, StoreView |-> StoreView, StudioView |-> StudioView,
   NotificationList |-> NotificationList, NotificationsScreen |-> NotificationsScreen,
   GlobalBroadcastBanner |-> GlobalBroadcastBanner, SignInScreen |-> SignInScreen,
   RoomChatScreen |-> RoomChatScreen, ExperienceRoomScreen |-> ExperienceRoomScreen,
   GifPanel |-> GifPanel]

MobileScreenHooks == SharedHookTable @@ findRandomRoom
=============================================================================
