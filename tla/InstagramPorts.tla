--------------------------- MODULE InstagramPorts ---------------------------
(***************************************************************************)
(* What the adapters of app/adapters/instagram do for each method of their *)
(* ports: the guard in front of the call, the call of the SDK, and what    *)
(* becomes of its failure and of its answer.  Mapping what was read to a   *)
(* DTO is part of the read.                                                *)
(***************************************************************************)
EXTENDS InstagramSteps

\* Direct messages: writes (direct_writer.py)
find_or_create_thread == GuardedCreate
send_to_thread == GuardedCreate
send_to_users == GuardedCreate
delete_message == GuardedReceipt
approve_pending_thread == GuardedReceipt
mark_thread_seen == GuardedReceipt
send_photo == Argument \o GuardedWrite
send_video == Argument \o GuardedWrite
send_voice == Argument \o GuardedWrite
share_media == GuardedWrite
share_story == GuardedWrite
mute_thread == GuardedReceipt
unmute_thread == GuardedReceipt
hide_thread == GuardedReceipt
mark_thread_unread == GuardedReceipt
share_profile == GuardedWrite

\* Direct messages: reads (direct_reader.py)
list_inbox_threads == GuardedRead
list_pending_threads == GuardedRead
\* Faulty: reading a thread marks it as seen.
get_thread_seen == GuardedRead \o Write("raise")

get_thread == GuardedRead
list_messages == GuardedRead
search_threads == GuardedRead

\* Relationships: writes (relationship_writer.py)
follow_user == GuardedTry
unfollow_user == GuardedTry
remove_follower == GuardedTry
close_friend_add == GuardedTry
close_friend_remove == GuardedTry
mute_posts == GuardedTry
unmute_posts == GuardedTry
mute_stories == GuardedTry
unmute_stories == GuardedTry
set_user_notifications == GuardedTry

\* Relationships: reads (relationship_reader.py)
list_followers == GuardedRead
list_following == GuardedRead
search_followers == GuardedRead
search_following == GuardedRead

\* Comments: writes (comment_writer.py)
create_comment == GuardedCreate
delete_comment == GuardedReceipt
like_comment == GuardedReceipt
unlike_comment == GuardedReceipt
pin_comment == GuardedReceipt
unpin_comment == GuardedReceipt

\* Comments: reads (comment_reader.py)
list_comments == GuardedRead
list_comments_page == GuardedRead

\* Highlights: writes (highlight_writer.py)
create_highlight == GuardedCreate
change_title == GuardedCreate
add_stories == GuardedCreate
remove_stories == GuardedCreate
delete_highlight == GuardedReceipt

\* Highlights: reads (highlight_reader.py)
get_highlight_pk_from_url == PublicRead
get_highlight == GuardedRead
list_user_highlights == GuardedRead

\* Stories: writes (story_publisher.py)
publish_story == Guarded("raise") \o Argument \o Write("raise") \o Answer
delete_story == GuardedReceipt
mark_seen == GuardedReceipt

\* Stories: reads (story_reader.py)
get_story_pk_from_url == PublicRead
get_story == GuardedRead
list_user_stories == GuardedRead

\* Media: writes (media_writer.py)
like_media == GuardedTry
unlike_media == GuardedTry
edit_caption == GuardedReceipt
delete_media == GuardedReceipt
pin_media == GuardedReceipt
unpin_media == GuardedReceipt
archive_media == GuardedReceipt
unarchive_media == GuardedReceipt
save_media == GuardedReceipt
unsave_media == GuardedReceipt

\* Media: reads (media_reader.py)
get_media_by_pk == GuardedRead
get_media_by_code == GuardedRead
get_user_medias == GuardedRead
list_media_likers == GuardedRead
list_user_clips == GuardedRead
list_usertag_medias == GuardedRead
get_media_oembed == GuardedRead

\* Collections (collection_reader.py)
list_collections == GuardedRead
get_collection_pk_by_name == GuardedRead \o Argument
get_collection_posts == GuardedRead
list_liked_medias == GuardedRead

\* Places and hashtags (discovery_reader.py)
search_locations == GuardedRead
get_location == GuardedRead
get_location_top_posts == GuardedRead
get_location_recent_posts == GuardedRead
search_hashtags == GuardedRead
get_hashtag == GuardedRead
get_hashtag_top_posts == GuardedRead
get_hashtag_recent_posts == GuardedRead

\* Insights (insight_reader.py)
get_account_insight == GuardedRead
get_media_insight == GuardedRead
list_media_insights == GuardedRead

\* Identities (identity_reader.py)
get_authenticated_account == GuardedRead
get_own_user_info == GuardedRead
get_profile_for_hydration == Guarded("none") \o Read("none")
get_public_user_by_id == GuardedRead
get_public_user_by_username == GuardedRead
get_user_id_by_username == GuardedRead

\* The account itself (account_writer.py)
set_private == Guarded("raise") \o Blind("raise") \o Read("raise")
set_public == Guarded("raise") \o Blind("raise") \o Read("raise")
change_avatar == Guarded("raise") \o Blind("raise") \o Read("raise")
edit_profile == GuardedCreate
set_presence_disabled == Guarded("raise") \o Blind("raise") \o Read("raise")
request_email_confirm == GuardedTry
request_phone_confirm == GuardedTry

\* Security of the account (account_security_reader.py)
get_account_security_info == GuardedRead
=============================================================================
