-------------------------- MODULE InstagramRoutes --------------------------
(***************************************************************************)
(* The HTTP routes that ask Instagram: the routers of                      *)
(* app/adapters/http/routers/instagram, direct.py and accounts.py beside   *)
(* them.  A handler answers an error for whatever its use case raises.  A  *)
(* job is what is asked for in one request: a sequence of stages, each     *)
(* reported by itself, where a stage that fails does not stop the next.    *)
(***************************************************************************)
EXTENDS InstagramUseCases

\* A handler, which runs once the framework has validated the request.
Route(useCase) == <<useCase>>

CommentRoutes ==
  {Route(create_comment), Route(list_comments), Route(list_comments_page),
   Route(delete_comment), Route(like_comment), Route(unlike_comment),
   Route(pin_comment), Route(unpin_comment)}

DirectWriteRoutes ==
  {Route(send_to_username), Route(find_or_create_thread),
   Route(send_to_thread), Route(send_to_users), Route(delete_message),
   Route(approve_pending_thread), Route(mark_thread_seen)}

DirectReadRoutes ==
  {Route(list_inbox_threads), Route(list_pending_threads),
   Route(get_thread), Route(list_messages), Route(search_threads)}

HashtagRoutes ==
  {Route(search_hashtags), Route(get_hashtag),
   Route(get_hashtag_top_posts), Route(get_hashtag_recent_posts)}

HighlightRoutes ==
  {Route(get_highlight_pk_from_url), Route(get_highlight),
   Route(list_user_highlights), Route(create_highlight),
   Route(change_title), Route(add_stories), Route(remove_stories),
   Route(delete_highlight)}

IdentityRoutes ==
  {Route(get_authenticated_account), Route(get_public_user_by_username)}

InsightRoutes ==
  {Route(get_account_insight), Route(get_media_insight),
   Route(list_media_insights)}

MediaReadRoutes ==
  {Route(get_media_by_pk), Route(get_media_by_code),
   Route(get_user_medias), Route(list_media_likers),
   Route(list_user_clips), Route(list_usertag_medias),
   Route(get_media_oembed)}

MediaWriteRoutes ==
  {Route(edit_caption), Route(delete_media), Route(pin_media),
   Route(unpin_media), Route(archive_media), Route(unarchive_media),
   Route(save_media), Route(unsave_media)}

\* The request of the publish route has no overlays.
StoryRoutes ==
  {Route(get_story_pk_from_url), Route(get_story),
   Route(list_user_stories), Route(publish_story), Route(delete_story),
   Route(mark_seen)}

\* The posts of a collection are asked for by its name.
CollectionRoutes ==
  {Route(list_collections),
   Route(get_collection_pk_by_name \o get_collection_posts),
   Route(list_liked_medias)}

RelationshipRoutes ==
  {Route(list_followers), Route(list_following), Route(search_followers),
   Route(search_following), Route(follow_user), Route(unfollow_user),
   Route(remove_follower), Route(close_friend_add),
   Route(close_friend_remove)}

MuteRoutes ==
  {Route(mute_posts), Route(unmute_posts), Route(mute_stories),
   Route(unmute_stories), Route(set_user_notifications)}

\* routers/direct.py: attachments, then the management of a thread.
AttachmentRoutes ==
  {Route(send_photo), Route(send_video), Route(send_voice),
   Route(share_media), Route(share_story)}

ThreadRoutes ==
  {Route(mute_thread), Route(unmute_thread), Route(hide_thread),
   Route(mark_thread_unread), Route(share_profile)}

\* routers/accounts.py: the account itself.
AccountEditRoutes ==
  {Route(set_private), Route(set_public), Route(change_avatar),
   Route(edit_profile), Route(set_presence_disabled)}

ConfirmationRoutes ==
  {Route(request_email_confirm), Route(request_phone_confirm),
   Route(get_account_security_info)}

VerifyRoutes == {Route(verify_account_connectivity)}

\* The route of one account; the bulk route does the same for each of its accounts.
ReloginRoutes == {Route(relogin_account)}

-----------------------------------------------------------------------------
(* Jobs with several stages                                                *)

\* What runs after a login: the counts are asked for unless the profile showed
\* that the session is gone.
HydrateAndPublish ==
  <<hydrate_account_profile,
    Do("client", "none") \o refresh_follower_counts>>

\* The counts of one account, and those of an account of the bulk job, which
\* skips the accounts that cool down.
RefreshCountsJobs ==
  {<<refresh_follower_counts>>,
   <<Do("cooldown", "none") \o refresh_follower_counts>>}

\* The task of one account of a batch: target after target, each reported.
BatchTask(useCase, targets) == [i \in 1..targets |-> useCase]

BatchJobs(targets) ==
  {BatchTask(follow_user, targets), BatchTask(unfollow_user, targets)}

Routes ==
  CommentRoutes \cup DirectWriteRoutes \cup DirectReadRoutes
    \cup HashtagRoutes \cup HighlightRoutes \cup IdentityRoutes
    \cup InsightRoutes \cup MediaReadRoutes \cup MediaWriteRoutes
    \cup StoryRoutes \cup CollectionRoutes \cup RelationshipRoutes
    \cup MuteRoutes \cup AttachmentRoutes \cup ThreadRoutes
    \cup AccountEditRoutes \cup ConfirmationRoutes \cup VerifyRoutes
    \cup ReloginRoutes
=============================================================================
