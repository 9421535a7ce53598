------------------------- MODULE InstagramUseCases -------------------------
(***************************************************************************)
(* The use cases of app/application/use_cases that ask Instagram: what     *)
(* each one looks at before it calls its port, and in which order.         *)
(***************************************************************************)
EXTENDS InstagramSteps

P == INSTANCE InstagramPorts

\* A method that takes a username: it is cleaned, the account checked, and the
\* user looked up with a call of its own before the one that was asked for.
OfUser(lookup, port) == Argument \o Authenticated \o lookup \o port

\* Direct messages (direct.py)
list_inbox_threads == Authenticated \o Argument \o P!list_inbox_threads
list_pending_threads == Authenticated \o Argument \o P!list_pending_threads
get_thread == Authenticated \o Argument \o P!get_thread
list_messages == Authenticated \o Argument \o P!list_messages
search_threads == Authenticated \o Argument \o P!search_threads
find_or_create_thread == Authenticated \o Argument \o P!find_or_create_thread
send_to_thread == Authenticated \o Argument \o P!send_to_thread
send_to_users == Authenticated \o Argument \o P!send_to_users
delete_message == Authenticated \o Argument \o P!delete_message
approve_pending_thread == Authenticated \o Argument \o P!approve_pending_thread
mark_thread_seen == Authenticated \o Argument \o P!mark_thread_seen
send_photo == Authenticated \o Argument \o P!send_photo
send_video == Authenticated \o Argument \o P!send_video
send_voice == Authenticated \o Argument \o P!send_voice
share_media == Authenticated \o Argument \o P!share_media
share_story == Authenticated \o Argument \o P!share_story
mute_thread == Authenticated \o Argument \o P!mute_thread
unmute_thread == Authenticated \o Argument \o P!unmute_thread
hide_thread == Authenticated \o Argument \o P!hide_thread
mark_thread_unread == Authenticated \o Argument \o P!mark_thread_unread
share_profile == Authenticated \o Argument \o P!share_profile

\* Relationships: the name is looked up first (relationships.py)
list_followers == OfUser(P!get_public_user_by_username, P!list_followers)
list_following == OfUser(P!get_public_user_by_username, P!list_following)
search_followers == OfUser(P!get_public_user_by_username, P!search_followers)
search_following == OfUser(P!get_public_user_by_username, P!search_following)
follow_user == OfUser(P!get_user_id_by_username, P!follow_user)
unfollow_user == OfUser(P!get_user_id_by_username, P!unfollow_user)
remove_follower == OfUser(P!get_user_id_by_username, P!remove_follower)
close_friend_add == OfUser(P!get_user_id_by_username, P!close_friend_add)
close_friend_remove == OfUser(P!get_user_id_by_username, P!close_friend_remove)
mute_posts == OfUser(P!get_user_id_by_username, P!mute_posts)
unmute_posts == OfUser(P!get_user_id_by_username, P!unmute_posts)
mute_stories == OfUser(P!get_user_id_by_username, P!mute_stories)
unmute_stories == OfUser(P!get_user_id_by_username, P!unmute_stories)
set_user_notifications == OfUser(P!get_user_id_by_username, P!set_user_notifications)

\* Media (media.py)
get_media_by_pk == Authenticated \o Argument \o P!get_media_by_pk
get_media_by_code == Authenticated \o Argument \o P!get_media_by_code
get_user_medias == Authenticated \o Argument \o P!get_user_medias
get_media_oembed == Authenticated \o Argument \o P!get_media_oembed
list_media_likers == Authenticated \o Argument \o P!list_media_likers
list_user_clips == Authenticated \o Argument \o P!list_user_clips
list_usertag_medias == Authenticated \o Argument \o P!list_usertag_medias
like_media == Authenticated \o Argument \o P!like_media
unlike_media == Authenticated \o Argument \o P!unlike_media
edit_caption == Authenticated \o Argument \o P!edit_caption
delete_media == Authenticated \o Argument \o P!delete_media
pin_media == Authenticated \o Argument \o P!pin_media
unpin_media == Authenticated \o Argument \o P!unpin_media
archive_media == Authenticated \o Argument \o P!archive_media
unarchive_media == Authenticated \o Argument \o P!unarchive_media
save_media == Authenticated \o Argument \o P!save_media
unsave_media == Authenticated \o Argument \o P!unsave_media

\* Highlights (highlight.py)
get_highlight_pk_from_url == Argument \o P!get_highlight_pk_from_url
get_highlight == Authenticated \o Argument \o P!get_highlight
list_user_highlights == Authenticated \o Argument \o P!list_user_highlights
create_highlight == Authenticated \o Argument \o P!create_highlight
change_title == Authenticated \o Argument \o P!change_title
add_stories == Authenticated \o Argument \o P!add_stories
remove_stories == Authenticated \o Argument \o P!remove_stories
delete_highlight == Authenticated \o Argument \o P!delete_highlight

\* Comments (comment.py)
list_comments == Authenticated \o Argument \o P!list_comments
list_comments_page == Authenticated \o Argument \o P!list_comments_page
create_comment == Authenticated \o Argument \o P!create_comment
delete_comment == Authenticated \o Argument \o P!delete_comment
like_comment == Authenticated \o Argument \o P!like_comment
unlike_comment == Authenticated \o Argument \o P!unlike_comment
pin_comment == Authenticated \o Argument \o P!pin_comment
unpin_comment == Authenticated \o Argument \o P!unpin_comment

\* Stories (story.py)
get_story_pk_from_url == Argument \o P!get_story_pk_from_url
get_story == Authenticated \o Argument \o P!get_story
list_user_stories == Authenticated \o Argument \o P!list_user_stories
publish_story == Authenticated \o Argument \o P!publish_story
delete_story == Authenticated \o Argument \o P!delete_story
mark_seen == Authenticated \o Argument \o P!mark_seen

\* Collections (collection.py)
list_collections == Authenticated \o P!list_collections
get_collection_pk_by_name == Authenticated \o Argument \o P!get_collection_pk_by_name
get_collection_posts == Authenticated \o Argument \o P!get_collection_posts
list_liked_medias == Authenticated \o Argument \o P!list_liked_medias

\* Hashtags (hashtag.py)
search_hashtags == Authenticated \o Argument \o P!search_hashtags
get_hashtag == Authenticated \o Argument \o P!get_hashtag
get_hashtag_top_posts == Authenticated \o Argument \o P!get_hashtag_top_posts
get_hashtag_recent_posts == Authenticated \o Argument \o P!get_hashtag_recent_posts

\* Insights (insight.py)
get_account_insight == Authenticated \o P!get_account_insight
get_media_insight == Authenticated \o Argument \o P!get_media_insight
list_media_insights == Authenticated \o Argument \o P!list_media_insights

\* The account itself (account/edit.py)
set_private == Authenticated \o P!set_private
set_public == Authenticated \o P!set_public
change_avatar == Authenticated \o Argument \o P!change_avatar
edit_profile == Authenticated \o Argument \o P!edit_profile
set_presence_disabled == Authenticated \o Argument \o P!set_presence_disabled
request_email_confirm == Authenticated \o Argument \o P!request_email_confirm
request_phone_confirm == Authenticated \o Argument \o P!request_phone_confirm

\* Security of the account (account/security.py)
get_account_security_info == Authenticated \o P!get_account_security_info

\* Identities (identity.py)
get_authenticated_account == Authenticated \o P!get_authenticated_account
get_public_user_by_id == Authenticated \o P!get_public_user_by_id
get_public_user_by_username ==
  Argument \o Authenticated \o P!get_public_user_by_username

\* Direct messages to usernames: one lookup for each of them.
find_or_create_thread_with_usernames ==
  Authenticated \o Argument \o get_public_user_by_username
    \o get_public_user_by_username \o P!find_or_create_thread
send_to_username ==
  Authenticated \o Argument \o get_public_user_by_username \o P!send_to_users

\* A new login of a known account with the password that is stored for it
\* (account/relogin.py).
relogin_account == HasAccount \o Argument \o Login

\* The profile of an account, whose failure is answered in its error field.
get_account_info == Authenticated \o P!get_own_user_info

\* The probes of an account (account_connectivity.py, account_auth.py): the
\* first two write what the failure says of the session to its status.
verify_account_connectivity ==
  Authenticated \o Demoting(P!get_authenticated_account) \o Verified
hydrate_account_profile == Demoting(P!get_authenticated_account)
refresh_follower_counts == P!get_profile_for_hydration
=============================================================================
