--------------------------- MODULE InstagramTools ---------------------------
(***************************************************************************)
(* The tools of the operator copilot that ask Instagram, by the functions  *)
(* of app/adapters/ai/tool_registry that register them, and what           *)
(* ToolPolicyRegistry says of each.  A handler answers {"error": ...} for  *)
(* whatever its use case raises.  The tools that stay in the back end      *)
(* (list_accounts, schedule_post, the proxies, ...), log an account in or  *)
(* log it out are not here.                                                *)
(***************************************************************************)
EXTENDS InstagramUseCases

\* A handler finds the account by its username and converts the arguments.
Tool(useCase) == HasAccount \o Argument \o useCase

HighlightWriteTools ==
  [create_highlight |-> Tool(create_highlight),
   delete_highlight |-> Tool(delete_highlight),
   change_highlight_title |-> Tool(change_title),
   add_stories_to_highlight |-> Tool(add_stories),
   remove_stories_from_highlight |-> Tool(remove_stories)]

StoryWriteTools ==
  [delete_story |-> Tool(delete_story),
   mark_stories_seen |-> Tool(mark_seen)]

CommentWriteTools ==
  [create_comment |-> Tool(create_comment),
   delete_comment |-> Tool(delete_comment),
   like_comment |-> Tool(like_comment),
   unlike_comment |-> Tool(unlike_comment),
   pin_comment |-> Tool(pin_comment),
   unpin_comment |-> Tool(unpin_comment)]

SendDirectMessageTool == [send_direct_message |-> Tool(send_to_username)]

DirectThreadWriteTools ==
  [send_message_to_thread |-> Tool(send_to_thread),
   find_or_create_direct_thread |-> Tool(find_or_create_thread_with_usernames),
   delete_direct_message |-> Tool(delete_message),
   approve_pending_direct_thread |-> Tool(approve_pending_thread),
   mark_direct_thread_seen |-> Tool(mark_thread_seen)]

DirectAttachmentWriteTools ==
  [dm_send_photo |-> Tool(send_photo),
   dm_send_video |-> Tool(send_video),
   dm_send_voice |-> Tool(send_voice),
   dm_share_media |-> Tool(share_media),
   dm_share_story |-> Tool(share_story)]

RelationshipPrimaryWriteTools ==
  [follow_user |-> Tool(follow_user),
   unfollow_user |-> Tool(unfollow_user)]

RelationshipManagementWriteTools ==
  [remove_follower |-> Tool(remove_follower),
   close_friend_add |-> Tool(close_friend_add),
   close_friend_remove |-> Tool(close_friend_remove)]

MediaWriteTools ==
  [like_post |-> Tool(like_media),
   unlike_post |-> Tool(unlike_media)]

MediaReadTools ==
  [get_media_by_pk |-> Tool(get_media_by_pk),
   get_media_by_code |-> Tool(get_media_by_code),
   get_user_medias |-> Tool(get_user_medias),
   get_media_oembed |-> Tool(get_media_oembed)]

StoryReadTools ==
  [get_story |-> Tool(get_story),
   list_user_stories |-> Tool(list_user_stories)]

HighlightReadTools ==
  [get_highlight |-> Tool(get_highlight),
   list_user_highlights |-> Tool(list_user_highlights)]

DiscoveryReadTools ==
  [search_hashtags |-> Tool(search_hashtags),
   get_hashtag |-> Tool(get_hashtag),
   list_collections |-> Tool(list_collections),
   list_liked_medias |-> Tool(list_liked_medias)]

CommentReadTools == [list_comments |-> Tool(list_comments)]

DirectInboxReadTools ==
  [list_inbox_threads |-> Tool(list_inbox_threads),
   list_pending_threads |-> Tool(list_pending_threads),
   search_threads |-> Tool(search_threads)]

DirectThreadReadTools ==
  [get_direct_thread |-> Tool(get_thread),
   list_direct_messages |-> Tool(list_messages)]

InsightReadTools ==
  [get_media_insight |-> Tool(get_media_insight),
   get_account_insight |-> Tool(get_account_insight),
   list_media_insights |-> Tool(list_media_insights)]

RelationshipReadTools ==
  [list_followers |-> Tool(list_followers),
   list_following |-> Tool(list_following),
   search_followers |-> Tool(search_followers),
   search_following |-> Tool(search_following)]

\* set_account_privacy calls set_private or set_public, which take the same steps.
AccountTools ==
  [get_account_info |-> Tool(get_account_info),
   set_account_privacy |-> Tool(set_private),
   edit_account_profile |-> Tool(edit_profile),
   set_account_presence |-> Tool(set_presence_disabled)]

\* The arguments are looked at before the account; the pk of a collection is
\* looked up by its name.
AccountContentTools ==
  [get_hashtag_posts |-> Argument \o HasAccount \o get_hashtag_recent_posts,
   get_collection_posts |->
     Argument \o HasAccount \o get_collection_pk_by_name
       \o get_collection_posts]

\* create_tool_registry: every table registers its tools, no two the same name.
ToolTables ==
  {HighlightWriteTools, StoryWriteTools, CommentWriteTools,
   SendDirectMessageTool, DirectThreadWriteTools, DirectAttachmentWriteTools,
   RelationshipPrimaryWriteTools, RelationshipManagementWriteTools,
   MediaWriteTools, MediaReadTools, StoryReadTools, HighlightReadTools,
   DiscoveryReadTools, CommentReadTools, DirectInboxReadTools,
   DirectThreadReadTools, InsightReadTools, RelationshipReadTools,
   AccountTools, AccountContentTools}

Tools ==
  [tool \in UNION {DOMAIN table : table \in ToolTables} |->
     (CHOOSE table \in ToolTables : tool \in DOMAIN table)[tool]]

-----------------------------------------------------------------------------
(* The policy of the tools                                                 *)

\* Runs without being approved.
ReadOnlyTools ==
  {"list_accounts", "list_proxy_pool", "pick_proxy", "get_post_jobs",
   "check_proxy", "list_pending_challenges", "get_account_info",
   "get_user_profile", "get_followers", "get_following", "list_followers",
   "list_following", "search_followers", "search_following", "get_posts",
   "get_post_details", "get_hashtag_posts", "get_collection_posts",
   "get_scheduled_posts", "get_engagement_stats", "get_media_by_pk",
   "get_media_by_code", "get_user_medias", "get_media_oembed",
   "search_hashtags", "get_hashtag", "list_collections", "list_liked_medias",
   "get_story", "list_user_stories", "get_highlight", "list_user_highlights",
   "list_comments", "list_inbox_threads", "list_pending_threads",
   "search_threads", "get_direct_thread", "list_direct_messages",
   "get_media_insight", "list_media_insights", "get_account_insight"}

\* Runs only if an operator approved it.
WriteSensitiveTools ==
  {"relogin_account", "logout_account", "set_account_proxy",
   "set_account_privacy", "edit_account_profile", "set_account_presence",
   "import_proxies", "recheck_proxy_pool", "delete_proxy", "follow_user",
   "unfollow_user", "remove_follower", "close_friend_add",
   "close_friend_remove", "like_post", "unlike_post", "create_comment",
   "delete_comment", "like_comment", "unlike_comment", "pin_comment",
   "unpin_comment", "send_direct_message", "send_message_to_thread",
   "find_or_create_direct_thread", "delete_direct_message",
   "approve_pending_direct_thread", "mark_direct_thread_seen",
   "dm_send_photo", "dm_send_video", "dm_send_voice", "dm_share_media",
   "dm_share_story", "delete_story", "mark_stories_seen", "create_highlight",
   "delete_highlight", "change_highlight_title", "add_stories_to_highlight",
   "remove_stories_from_highlight", "schedule_post", "publish_post",
   "delete_post", "update_profile"}

\* A tool of neither set is blocked.
MayRun(tool) == tool \in ReadOnlyTools \cup WriteSensitiveTools
=============================================================================
