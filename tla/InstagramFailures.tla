------------------------- MODULE InstagramFailures -------------------------
(***************************************************************************)
(* The catalog of failures: what the back end makes of an exception of the *)
(* SDK, and the three decisions it takes from it: how long the account     *)
(* cools down, whether its session is dead, and which status it gets.      *)
(***************************************************************************)
EXTENDS Naturals, FiniteSets

Traits == {"retryable", "action"}

\* code, family, what may be done about it, and the HTTP status it becomes.
Failure(code, family, traits, hint) ==
  [code |-> code, family |-> family, retryable |-> "retryable" \in traits,
   requires_user_action |-> "action" \in traits, http_hint |-> hint]

AccountFailures ==
  {Failure("account_suspended", "account", {}, 403),
   Failure("terms_violation", "account", {"action"}, 403),
   Failure("terms_accept_required", "account", {"action"}, 409),
   Failure("about_us_error", "account", {}, 400),
   Failure("password_reset_failed", "account", {"retryable"}, 400),
   Failure("unsupported_operation", "account", {}, 400),
   Failure("unsupported_setting", "account", {}, 400)}

AlbumFailures ==
  {Failure("album_download_failed", "album", {"retryable"}, 500),
   Failure("album_unknown_format", "album", {}, 400),
   Failure("album_configure_error", "album", {"retryable"}, 500)}

ChallengeFailures ==
  {Failure("challenge_error", "challenge", {}, 409),
   Failure("challenge_redirection", "challenge", {"action"}, 409),
   Failure("challenge_required", "challenge", {"action"}, 409),
   Failure("challenge_selfie", "challenge", {"action"}, 409),
   Failure("challenge_unknown_step", "challenge", {"action"}, 409),
   Failure("challenge_select_contact", "challenge", {"action"}, 409),
   Failure("challenge_recaptcha", "challenge", {"action"}, 409),
   Failure("challenge_phone_required", "challenge", {"action"}, 409),
   Failure("challenge_password_change", "challenge", {"action"}, 409),
   Failure("consent_required", "challenge", {"action"}, 409),
   Failure("geo_blocked", "challenge", {}, 403),
   Failure("checkpoint_required", "challenge", {"action"}, 409),
   Failure("captcha_challenge_required", "challenge", {"action"}, 409)}

ClipFailures ==
  {Failure("clip_upload_failed", "clip", {"retryable"}, 500),
   Failure("clip_configure_error", "clip", {"retryable"}, 500)}

CollectionFailures ==
  {Failure("collection_error", "collection", {}, 400),
   Failure("collection_not_found", "collection", {}, 404)}

CommentFailures ==
  {Failure("comment_not_found", "comment", {}, 404),
   Failure("comments_disabled", "comment", {}, 403)}

CommonClientFailures ==
  {Failure("client_error", "common_client", {}, 400),
   Failure("request_error", "common_client", {"retryable"}, 500),
   Failure("graphql_error", "common_client", {"retryable"}, 500),
   Failure("json_decode_error", "common_client", {"retryable"}, 500),
   Failure("connection_error", "common_client", {"retryable"}, 503),
   Failure("bad_request", "common_client", {"action"}, 400),
   Failure("unauthorized", "private_auth", {"action"}, 401),
   Failure("forbidden", "common_client", {}, 403),
   Failure("not_found", "common_client", {}, 404),
   Failure("throttled", "common_client", {"retryable"}, 429),
   Failure("request_timeout", "common_client", {"retryable"}, 504),
   Failure("incomplete_read", "common_client", {"retryable"}, 500),
   Failure("login_required", "private_auth", {"action"}, 401),
   Failure("relogin_attempt_exceeded", "private_auth", {"action"}, 429),
   Failure("error_with_title", "common_client", {}, 400),
   Failure("unknown_instagram_error", "unknown", {"retryable"}, 500),
   Failure("wrong_cursor", "common_client", {}, 400),
   Failure("status_fail", "common_client", {"retryable"}, 500)}

DirectFailures ==
  {Failure("direct_error", "direct", {}, 400),
   Failure("direct_thread_not_found", "direct", {}, 404),
   Failure("direct_message_not_found", "direct", {}, 404)}

HashtagFailures ==
  {Failure("hashtag_error", "hashtag", {}, 400),
   Failure("hashtag_not_found", "hashtag", {}, 404),
   Failure("hashtag_page_warning", "hashtag", {}, 400)}

HighlightFailures ==
  {Failure("highlight_not_found", "highlight", {}, 404)}

IgtvFailures ==
  {Failure("igtv_upload_failed", "igtv", {"retryable"}, 500),
   Failure("igtv_configure_error", "igtv", {"retryable"}, 500)}

LocationFailures ==
  {Failure("location_error", "location", {}, 400),
   Failure("location_not_found", "location", {}, 404)}

MediaFailures ==
  {Failure("media_error", "media", {}, 400),
   Failure("media_not_found", "media", {}, 404),
   Failure("invalid_target_user", "media", {}, 400),
   Failure("invalid_media_id", "media", {}, 400),
   Failure("media_unavailable", "media", {}, 403)}

NoteFailures ==
  {Failure("note_not_found", "note", {}, 404)}

PhotoFailures ==
  {Failure("photo_download_failed", "photo", {"retryable"}, 500),
   Failure("photo_upload_failed", "photo", {"retryable"}, 500),
   Failure("photo_configure_error", "photo", {"retryable"}, 500),
   Failure("photo_story_configure_error", "photo", {"retryable"}, 500)}

PrivateAuthFailures ==
  {Failure("private_error", "private_auth", {}, 400),
   Failure("feedback_required", "private_auth", {"retryable"}, 429),
   Failure("pre_login_required", "private_auth", {"action"}, 401),
   Failure("bad_password", "private_auth", {"action"}, 401),
   Failure("two_factor_required", "private_auth", {"action"}, 409),
   Failure("bad_credentials", "private_auth", {"action"}, 401),
   Failure("c18_account", "private_auth", {"action"}, 403)}

ProxyFailures ==
  {Failure("proxy_error", "proxy", {"retryable", "action"}, 503),
   Failure("proxy_connection_failed", "proxy", {"retryable", "action"}, 503),
   Failure("proxy_auth_failed", "proxy", {"action"}, 407),
   Failure("proxy_blocked", "proxy", {"retryable", "action"}, 503),
   Failure("ip_banned", "proxy", {"retryable", "action"}, 503),
   Failure("rate_limit", "proxy", {"retryable"}, 429),
   Failure("wait_required", "proxy", {"retryable"}, 429)}

ShareFailures ==
  {Failure("share_decode_error", "share", {}, 400)}

StoryFailures ==
  {Failure("story_not_found", "story", {}, 404)}

TrackFailures ==
  {Failure("track_not_found", "track", {}, 404)}

UserFailures ==
  {Failure("user_error", "user", {}, 400),
   Failure("user_not_found", "user", {}, 404),
   Failure("private_account", "user", {}, 403)}

VideoFailures ==
  {Failure("video_download_failed", "video", {"retryable"}, 500),
   Failure("video_upload_failed", "video", {"retryable"}, 500),
   Failure("video_configure_error", "video", {"retryable"}, 500),
   Failure("video_story_configure_error", "video", {"retryable"}, 500),
   Failure("video_too_long", "video", {"action"}, 400)}

\* What the exceptions of the SDK are mapped to: unknown_instagram_error for one
\* the registry does not have.
Failures == UNION
  {AccountFailures, AlbumFailures, ChallengeFailures,
   ClipFailures, CollectionFailures, CommentFailures,
   CommonClientFailures, DirectFailures, HashtagFailures,
   HighlightFailures, IgtvFailures, LocationFailures,
   MediaFailures, NoteFailures, PhotoFailures,
   PrivateAuthFailures, ProxyFailures, ShareFailures,
   StoryFailures, TrackFailures, UserFailures,
   VideoFailures}

-----------------------------------------------------------------------------
(* What is decided from a failure                                          *)

LongestCooldown == 2

\* Cooldowns in half hours: 1800 s after an action block, 3600 s after any
\* other failure with the status 429.
CooldownOf(failure) ==
  CASE failure.http_hint # 429 -> 0
    [] failure.code = "feedback_required" -> 1
    [] OTHER -> LongestCooldown

DeadSessionCodes == {"login_required", "unauthorized", "pre_login_required"}

ShouldEvictDeadSession(failure) ==
  ~failure.retryable /\ failure.code \in DeadSessionCodes

ChallengeCodes ==
  {"challenge_error", "challenge_redirection", "challenge_required",
   "challenge_selfie", "challenge_unknown_step", "challenge_select_contact",
   "challenge_recaptcha", "challenge_phone_required",
   "challenge_password_change", "captcha_challenge_required",
   "checkpoint_required", "consent_required", "geo_blocked"}

IsChallengeFailure(failure) ==
  failure.family = "challenge" \/ failure.code \in ChallengeCodes

\* A failure that waiting may cure: it says nothing of the session.
IsTransient(failure) == failure.retryable /\ ~failure.requires_user_action

\* Faulty: a transient failure takes the account out as any other.
StatusFromAnyFailure(failure) ==
  CASE IsChallengeFailure(failure) -> "challenge"
    [] failure.code = "two_factor_required" -> "2fa_required"
    [] OTHER -> "error"

\* The status an account gets from a failure; "keep" leaves it as it is.
StatusFromFailure(failure) ==
  CASE IsChallengeFailure(failure) -> "challenge"
    [] failure.code = "two_factor_required" -> "2fa_required"
    [] OTHER -> IF IsTransient(failure) THEN "keep" ELSE "error"

\* What a caller can tell of a failure: those that are handled the same way are
\* one class.
Class(failure) ==
  [cooldown |-> CooldownOf(failure), dead |-> ShouldEvictDeadSession(failure),
   status |-> StatusFromFailure(failure), transient |-> IsTransient(failure)]

FailureClasses == {Class(failure) : failure \in Failures}

\* What becomes of an exception that is not of Instagram, such as the one of the
\* guard during a cooldown.
Unknown == Class(Failure("unknown_instagram_error", "unknown", {"retryable"}, 500))
=============================================================================
