----------------------------- MODULE WebScreens -----------------------------
(***************************************************************************)
(* The web app's screens (apps/web/src/routes and features): the queries     *)
(* each one shows and the acts it offers, one definition per component, or   *)
(* one for its handlers and one for its view where the component is large.  *)
(* Acts that belong to calls, chat and the experiences have modules of       *)
(* their own.                                                               *)
(***************************************************************************)
EXTENDS WebHooks, Acts

(***************************************************************************)
(* The staff console (routes/admin).                                        *)
(***************************************************************************)
AdminRoute == Screen({"useAdminStats", "useSupportQueue"}, NoActs)

accessBanHandlers ==
  [handleBanIp |-> Press("useBanIpMutation"),
   handleUnbanIp |-> Asked(Press("useUnbanIpMutation")),
   handleBlockDomain |-> Press("useBlockEmailDomainMutation"),
   handleUnblockDomain |-> Asked(Press("useUnblockEmailDomainMutation"))]

SecurityPanel ==
  Screen({"useIpBans", "useBlockedEmailDomains"},
         Controls(accessBanHandlers, DOMAIN accessBanHandlers, {"handleBanIp", "handleBlockDomain"}))

AutoModPanel ==
  Screen({"useAutomodRules"},
         [handleCreate |-> Locked(Press("useCreateAutomodRuleMutation")),
          handleDelete |-> Asked(Press("useDeleteAutomodRuleMutation"))])

BroadcastsPanel ==
  Screen({"useAdminBroadcasts"},
         [handleCreate |-> Locked(Press("useCreateBroadcastMutation"))])

BroadcastCard ==
  Screen({"useAdminBroadcasts"}, [handleDismiss |-> Asked(Press("useDeleteBroadcastMutation"))])

FeatureFlagsPanel ==
  Screen({"useAdminSettings"}, [handleToggle |-> Locked(Press("useUpdateSettingMutation"))])

LiveMediaPanel == Screen({"useLiveMediaSessions"}, NoActs)
LiveMediaCard ==
  Screen({"useLiveMediaSessions"}, [handleTerminate |-> Asked(Press("useTerminateLiveMediaMutation"))])

CommunitiesPanel == Screen({"useAdminCommunities"}, NoActs)

CommunityCard ==
  Screen({"useAdminCommunities"},
         [handleQuarantine |-> Asked(Press("useQuarantineCommunityMutation")),
          handleUnquarantine |-> Press("useUnquarantineCommunityMutation"),
          handleDelete |-> Asked(Press("useDeleteAdminCommunityMutation"))])

CoverageSection == Screen({"useRecommendationCoverage"}, NoActs)
ExplainSection == Screen({"useUserSearch", "useRecommendationExplain"}, NoActs)

StaffUsersPanel == Screen({"useUserSearch", "useStaffList"}, NoActs)

\* One flag for both buttons; a batch that half failed is still a settled call.
BulkBar ==
  Screen({"useUserSearch"},
         [reinstate |-> Locked(Asked(Closing(Press("useBulkReinstateMutation")))),
          suspend |-> Locked(Asked(Closing(Press("useBulkSuspendMutation"))))])

userCardHandlers ==
  [handleRevokeSessions |-> Asked(Press("useRevokeUserSessionsMutation")),
   handleSaveProfile |-> Closing(Press("useStaffUpdateUserProfileMutation")),
   handleSuspend |-> Asked(Press("useSuspendUserMutation")),
   handleReinstate |-> Press("useReinstateUserMutation"),
   handleRole |-> Press("useSetPlatformRoleMutation")]

\* No control of the card is ever disabled.
UserCard ==
  Screen({"useUserSearch", "useStaffList"}, Controls(userCardHandlers, DOMAIN userCardHandlers, {}))

StoreItemsPanel == Screen({"useAdminCatalogQuery"}, NoActs)

CatalogRow ==
  Screen({"useAdminCatalogQuery"},
         [handleDelete |-> Locked(Asked(Press("useDeleteStoreItemMutation"))),
          toggleActive |-> Locked(Press("useUpdateStoreItemMutation"))])

itemFormHandlers ==
  [create |-> Closing(Press("useCreateStoreItemMutation")),
   update |-> Closing(Press("useUpdateStoreItemMutation"))]
ItemForm ==
  Screen({"useAdminCatalogQuery"}, Controls(itemFormHandlers, {"create", "update"}, {"create", "update"}))

SupportQueuePanel == Screen({"useSupportQueue"}, NoActs)

ticketHandlers ==
  [send |-> Press("useStaffReplyMutation"),
   move |-> Press("useUpdateTicketMutation"),
   handleAssign |-> Press("useAssignTicketMutation")]
TicketThread ==
  Screen({"useSupportTicket", "useStaffList"}, Controls(ticketHandlers, DOMAIN ticketHandlers, {"send"}))

AuditLogPanel == Screen({"useAuditActions", "useAuditLog"}, NoActs)

SystemHealthPanel == Screen({"useSystemTelemetry", "useAdminStats", "useLiveMediaSessions"}, NoActs)
BackgroundJobs == Screen({"useBackgroundJobs"}, [run |-> Locked(Press("useRunJobMutation"))])

(***************************************************************************)
(* The shell around every route (routes/AppShell, routes/shell).            *)
(***************************************************************************)
AppShell ==
  Screen({"useCommunitiesList", "useCommunityRoomsQuery", "useMyRoomsQuery"}, NoActs)
ChannelSidebar == Screen({"useUnreadOverviewQuery"}, NoActs)
DirectMessageList == Screen({"usePublicProfiles", "useOnlineUsers"}, NoActs)
GlobalBroadcastBanner == Screen({"useActiveBroadcasts"}, NoActs)
MobileNav == Screen({"useNotificationsInfinite"}, NoActs)

\* The dialog lives in the shell, so closing it resets its form but not its calls.
addCommunityHandlers ==
  LET entered(hook) == Going(Press(hook)) IN
  [handleCreate |-> entered("useCreateCommunityMutation"),
   handleJoin |-> entered("useJoinCommunityMutation"),
   handleRedeem |-> entered("useRedeemInviteMutation")]
AddCommunityDialog ==
  Screen({"useCommunityTemplates"}, [n \in DOMAIN addCommunityHandlers |-> Busied(addCommunityHandlers[n])])

CreatePlaygroundRoomDialog ==
  Screen({}, [handleCreate |-> Busied(Going(Press("useCreateStandaloneRoomMutation")))])

(***************************************************************************)
(* Finding a room or a community.                                           *)
(***************************************************************************)
HomeRoute ==
  Screen({"useDiscoveryRooms", "useRecommendedRooms"},
         [handleFindRandomRoom |-> Locked(Going(Press("useRandomRoomMutation")))])
ForYouSection == Screen({"useRecommendedRooms"}, NoActs)

\* A conflict means already a member, and enters too.
ExploreRoute ==
  Screen({"useCommunitiesList"}, [handleJoin |-> Locked(Going(Press("useJoinCommunityMutation")))])
SuggestedCommunities ==
  Screen({"useRecommendedCommunities"}, [handleJoin |-> Locked(Going(Press("useJoinCommunityMutation")))])

InviteRoute ==
  Screen({"useInvitePreview"}, [handleAccept |-> Locked(Going(Press("useRedeemInviteMutation")))])
ServersRoute == Screen({"useCommunitiesList"}, NoActs)
PlaygroundFeedRoute == Screen({"usePlaygroundFeed"}, NoActs)
AccountRoute == Screen({"useEquippedQuery", "useBalanceQuery"}, NoActs)

(***************************************************************************)
(* Friends and profiles.                                                    *)
(***************************************************************************)
friendsShown ==
  {"useFriendsList", "usePendingFriendRequests", "useSentFriendRequests", "useBlockedUsers",
   "usePublicProfiles", "useOnlineUsers"}

friendsHandlers ==
  [openDM |-> Going(Press("useOpenDMMutation")), callFriend |-> Going(Press("useOpenDMMutation")),
   sendRequest |-> Going(Press("useSendFriendRequestMutation")),
   respond |-> Press("useRespondFriendRequestMutation"),
   removeFriend |-> Asked(Press("useRemoveFriendMutation")),
   blockUser |-> Press("useBlockUserMutation"), unblockUser |-> Press("useUnblockUserMutation")]

FriendsTab ==
  Screen(friendsShown, Controls(friendsHandlers, {"openDM", "callFriend", "removeFriend", "blockUser"}, {}))
PendingTab == Screen(friendsShown, Controls(friendsHandlers, {"respond", "removeFriend"}, {}))
BlockedAndAddTabs ==
  Screen(friendsShown, Controls(friendsHandlers, {"unblockUser", "sendRequest"}, {"sendRequest"}))

PeopleYouMayKnow ==
  Screen({"useRecommendedPeople"}, [sendRequest |-> Locked(Press("useSendFriendRequestMutation"))])

\* The four lists a relationship is worked out from.
useSocialGraph == {"useFriendsList", "usePendingFriendRequests", "useSentFriendRequests", "useBlockedUsers"}

profileCardHandlers ==
  [handleOpenDM |-> Going(Press("useOpenDMMutation")),
   handleCall |-> Going(Press("useOpenDMMutation")),
   handleSendFriendRequest |-> Press("useSendFriendRequestMutation"),
   handleRespond |-> Press("useRespondFriendRequestMutation"),
   handleRemoveFriend |-> Press("useRemoveFriendMutation"),
   handleBlockUser |-> Closing(Press("useBlockUserMutation")),
   handleUnblockUser |-> Press("useUnblockUserMutation")]

\* Every button waits for whichever of the six mutations is pending.
PublicProfileCard ==
  Screen(useSocialGraph \cup {"usePublicProfileQuery", "useCosmeticsFor", "useOnlineUsers"},
         Controls(profileCardHandlers, DOMAIN profileCardHandlers, DOMAIN profileCardHandlers))

profileFormHandlers ==
  [savePublic |-> Priming(Closing(Press("useUpdateProfileMutation")), {"usePublicProfileQuery"})]
ProfileForm ==
  Screen({"useEquippedQuery"}, Controls(profileFormHandlers, {"savePublic"}, {"savePublic"}))

MemberList ==
  Screen({"useCommunityMembers", "useRoomParticipantsQuery", "useCosmeticsFor", "usePublicProfiles",
          "useOnlineUsers"}, NoActs)

(***************************************************************************)
(* Beside a room's transcript, and the page of the public site that calls.  *)
(***************************************************************************)
\* Sending touches nothing but the transcript.
chatHandlers ==
  [toggleReaction |-> Press("useReactionMutation"),
   editMessage |-> Press("useEditMessageMutation"), deleteMessage |-> Press("useDeleteMessageMutation"),
   pinMessage |-> Press("usePinMessageMutation"), unpinMessage |-> Press("useUnpinMessageMutation")]

\* No control of a message waits for another.
Chat ==
  Screen({"useRoomEmojisQuery", "useRoomPinsQuery", "useCosmeticsFor", "usePublicProfiles", "useAuthConfig"},
         Controls(chatHandlers, DOMAIN chatHandlers, {}))

PinnedMessagesDialog ==
  Screen({"useRoomPinsQuery", "usePublicProfiles"}, [handleUnpin |-> Press("useUnpinMessageMutation")])
SearchMessagesDialog == Screen({"useSearchMessagesQuery", "usePublicProfiles"}, NoActs)
GifPicker == Screen({"useGifSearchInfinite"}, NoActs)

ReportSection == Screen({}, [handleSubmit |-> Locked(Press("useOpenTicketMutation"))])

(***************************************************************************)
(* A room, a community and its settings.                                    *)
(***************************************************************************)
\* Opening a room marks it read; choosing a persona is kept locally when the call fails.
roomViewHandlers ==
  [markRead |-> Press("useMarkRoomReadMutation"),
   handleTogglePersona |-> Press("useSetPersonaMutation")]
RoomView ==
  Screen({"useJoinedRoomQuery", "useRoomPinsQuery", "useRoomParticipantsQuery", "usePublicProfiles",
          "useOnlineUsers"},
         Controls(roomViewHandlers, DOMAIN roomViewHandlers, {}))

communityHandlers == [createRoom |-> Going(Press("useCreateCommunityRoomMutation"))]
CommunityRoute ==
  Screen({"useCommunityDetail", "useCommunityRoomsQuery", "useCommunityMembers"},
         Controls(communityHandlers, {"createRoom"}, {"createRoom"}))
CommunityTabs == Screen({"useCommunityDetail", "useCommunityRoomsQuery", "useCommunityMembers"}, NoActs)
CommunitySettingsRoute == Screen({"useCommunityDetail"}, NoActs)

OverviewTab ==
  Screen({"useCommunityDetail"},
         [save |-> Locked(Press("useUpdateCommunityMutation")),
          remove |-> Asked(Going(Press("useDeleteCommunityMutation")))])

RolesTab ==
  Screen({"useCommunityRoles"}, [create |-> Locked(Press("useCreateRoleMutation"))])

membersTabHandlers ==
  [assignRole |-> Press("useAssignRoleMutation"), removeRole |-> Press("useRemoveRoleMutation"),
   remove |-> Asked(Press("useLeaveCommunityMutation"))]
MembersTab ==
  Screen({"useCommunityMembers", "useCommunityRoles", "usePublicProfiles", "useOnlineUsers"},
         Controls(membersTabHandlers, DOMAIN membersTabHandlers, {}))

ChannelsTab ==
  Screen({"useCommunityRoomsQuery"},
         [create |-> Locked(Press("useCreateCommunityRoomMutation")),
          remove |-> Asked(Press("useDeleteRoomMutation"))])

EmojiTab ==
  Screen({"useCommunityEmojisQuery"},
         [handleCreate |-> Locked(Press("useCreateEmojiMutation")),
          handleDelete |-> Asked(Press("useDeleteEmojiMutation"))])

InvitesTab ==
  Screen({"useCommunityInvites"},
         [handleCreate |-> Locked(Press("useCreateInviteMutation")),
          handleRevoke |-> Asked(Press("useRevokeInviteMutation"))])

(***************************************************************************)
(* The account's own settings, points and outfit.                           *)
(***************************************************************************)
\* The form re-seeds itself whenever the profile object changes, a save of its own included.
ProfileTab == Screen({}, [onSubmit |-> Locked(Press("useUpdateProfileMutation"))])

BlockedTab ==
  Screen({"useBlockedUsers", "usePublicProfiles"},
         [handleBlock |-> Locked(Press("useBlockUserMutation")),
          handleUnblock |-> Press("useUnblockUserMutation")])

InventoryPanel == Screen({"useInventoryQuery", "useEquippedQuery"}, NoActs)
Loadout ==
  Screen({"useCurrentUser", "useEquippedQuery"}, [unequipSlot |-> Press("useEquipMutation")])
InventoryCard ==
  Screen({"useCurrentUser", "useInventoryQuery"}, [toggle |-> Locked(Press("useEquipMutation"))])

LedgerPanel == Screen({"useBalanceQuery"}, NoActs)
ReferralHub == Screen({"useReferralOverviewQuery"}, NoActs)
ClaimCodePanel ==
  Screen({"useReferralOverviewQuery"}, [submit |-> Locked(Press("useClaimReferralMutation"))])
StoreGrid == Screen({"useStoreItemsQuery"}, NoActs)
TryOnPreview == Screen({"useCurrentUser", "useEquippedQuery"}, NoActs)
StoreCard ==
  Screen({"useBalanceQuery", "useStoreItemsQuery", "useCurrentUser"},
         [buy |-> Locked(Press("usePurchaseMutation"))])
WalletStrip == Screen({"useBalanceQuery"}, [claim |-> Locked(Press("useDailyCheckinMutation"))])

NotificationPanel ==
  Screen({"useNotificationsInfinite", "usePublicProfiles"},
         [open |-> Press("useMarkNotificationReadMutation"),
          markAllRead |-> Press("useMarkAllNotificationsReadMutation")])

\* A try-on starts from whatever is equipped when the panel mounts.  Buying the missing
\* pieces goes one purchase at a time under one flag; equipping ends it either way.
OutfitStudioPanel ==
  Screen({"useCurrentUser", "useBalanceQuery", "useEquippedQuery", "useStoreItemsQuery"},
         [equipCurrentLook |-> Locked(Press("useEquipMutation")),
          buyMissingAndEquip |-> Busied(Press("usePurchaseMutation"))])

\* Mounted around every route.
WebShell == {"AppShell", "ChannelSidebar", "DirectMessageList", "GlobalBroadcastBanner", "MobileNav"}

WebScreenTable ==
  [Chat |-> Chat, PinnedMessagesDialog |-> PinnedMessagesDialog, SearchMessagesDialog |-> SearchMessagesDialog,
   GifPicker |-> GifPicker, ReportSection |-> ReportSection,
   AdminRoute |-> AdminRoute, SecurityPanel |-> SecurityPanel, AutoModPanel |-> AutoModPanel,
   BroadcastsPanel |-> BroadcastsPanel, BroadcastCard |-> BroadcastCard,
   FeatureFlagsPanel |-> FeatureFlagsPanel, LiveMediaPanel |-> LiveMediaPanel,
   LiveMediaCard |-> LiveMediaCard, CommunitiesPanel |-> CommunitiesPanel,
   CommunityCard |-> CommunityCard, CoverageSection |-> CoverageSection,
   ExplainSection |-> ExplainSection, StaffUsersPanel |-> StaffUsersPanel, BulkBar |-> BulkBar,
   UserCard |-> UserCard, StoreItemsPanel |-> StoreItemsPanel, CatalogRow |-> CatalogRow,
   ItemForm |-> ItemForm, SupportQueuePanel |-> SupportQueuePanel, TicketThread |-> TicketThread,
   AuditLogPanel |-> AuditLogPanel, SystemHealthPanel |-> SystemHealthPanel,
   BackgroundJobs |-> BackgroundJobs, AppShell |-> AppShell, ChannelSidebar |-> ChannelSidebar,
   DirectMessageList |-> DirectMessageList, GlobalBroadcastBanner |-> GlobalBroadcastBanner,
   MobileNav |-> MobileNav, AddCommunityDialog |-> AddCommunityDialog,
   CreatePlaygroundRoomDialog |-> CreatePlaygroundRoomDialog, HomeRoute |-> HomeRoute,
   ForYouSection |-> ForYouSection, ExploreRoute |-> ExploreRoute,
   SuggestedCommunities |-> SuggestedCommunities, InviteRoute |-> InviteRoute,
   ServersRoute |-> ServersRoute, PlaygroundFeedRoute |-> PlaygroundFeedRoute,
   AccountRoute |-> AccountRoute, FriendsTab |-> FriendsTab, PendingTab |-> PendingTab,
   BlockedAndAddTabs |-> BlockedAndAddTabs, PeopleYouMayKnow |-> PeopleYouMayKnow,
   PublicProfileCard |-> PublicProfileCard, ProfileForm |-> ProfileForm,
   MemberList |-> MemberList, RoomView |-> RoomView, CommunityRoute |-> CommunityRoute,
   CommunityTabs |-> CommunityTabs, CommunitySettingsRoute |-> CommunitySettingsRoute,
   OverviewTab |-> OverviewTab, RolesTab |-> RolesTab, MembersTab |-> MembersTab,
   ChannelsTab |-> ChannelsTab, EmojiTab |-> EmojiTab, InvitesTab |-> InvitesTab,
   ProfileTab |-> ProfileTab, BlockedTab |-> BlockedTab, InventoryPanel |-> InventoryPanel,
   Loadout |-> Loadout, InventoryCard |-> InventoryCard, LedgerPanel |-> LedgerPanel,
   ReferralHub |-> ReferralHub, ClaimCodePanel |-> ClaimCodePanel, StoreGrid |-> StoreGrid,
   TryOnPreview |-> TryOnPreview, StoreCard |-> StoreCard, WalletStrip |-> WalletStrip,
   NotificationPanel |-> NotificationPanel, OutfitStudioPanel |-> OutfitStudioPanel]

Emoji == INSTANCE SharedHooks
WebScreenHooks == WebHookTable @@ Emoji!emojiHooks @@ Emoji!gifHooks
=============================================================================
