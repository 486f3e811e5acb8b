---------------------------- MODULE MCQueryCache ----------------------------
EXTENDS QueryCache, ClientCases

\* Pairs whose mutation leaves the drawn query alone, so that what the user did is not
\* shown until the entry ages out, and three that edit the entry without marking it.
KnownGaps ==
  {<<"web", "CommunityCard", "handleDelete", "useCommunitiesList">>,
   <<"web", "UserCard", "handleSaveProfile", "usePublicProfiles">>,
   <<"web", "InviteRoute", "handleAccept", "useInvitePreview">>,
   <<"web", "ProfileForm", "savePublic", "usePublicProfiles">>,
   <<"web", "ProfileTab", "onSubmit", "usePublicProfiles">>,
   <<"web", "NotificationPanel", "open", "useNotificationsInfinite">>,
   <<"web", "Chat", "editMessage", "useRoomPinsQuery">>,
   <<"web", "Chat", "deleteMessage", "useRoomPinsQuery">>,
   <<"web", "Chat", "toggleReaction", "useRoomPinsQuery">>,
   <<"web", "RoomView", "markRead", "useUnreadOverviewQuery">>,
   <<"mobile", "ProfileTab", "onSubmit", "usePublicProfilesQuery">>,
   <<"mobile", "homeRoomSheet", "handleCreate", "useFeedQuery">>,
   <<"mobile", "feedRoomSheet", "handleCreate", "useDiscoveryQuery">>,
   <<"mobile", "InviteScreen", "accept", "useInvitePreviewQuery">>,
   <<"mobile", "StoreView", "buy", "useStoreItemsQuery">>,
   <<"mobile", "StudioView", "wear", "useInventoryQuery">>}

Named(p) == <<p.app, p.screen, p.act, p.query>>

\* Pairs with the same rules behave alike: one case stands for all of them.
MCCases == {[rules |-> p.rules, gap |-> Named(p) \in KnownGaps] : p \in Pairs}
=============================================================================
