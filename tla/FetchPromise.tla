---------------------------- MODULE FetchPromise ----------------------------
(***************************************************************************)
(* What fetching a subject promises to the task that asks for it: one      *)
(* result, which is data with a status, or the reason why there is none.   *)
(* The TikTok client never reports that a later attempt may succeed, and   *)
(* only a YouTube channel can lack its playlist of uploads.                *)
(***************************************************************************)
CONSTANTS
  Subjects,    \* (platform, platform_id) pairs
  PlatformOf,  \* the platform of each subject
  NoResult     \* nothing has been fetched

VARIABLE result  \* what the task has in hand

Reasons(p) ==
  {"not_found", "permanent", "error"}
    \cup (IF p = "tiktok" THEN {"no_credentials"} ELSE {"transient"})
    \cup (IF p = "youtube" THEN {"no_uploads_playlist"} ELSE {})

Results(s) ==
  [subj : {s}, outcome : {"data"}, status : {"active", "inactive"}]
    \cup [subj : {s}, outcome : Reasons(PlatformOf[s]), status : {"none"}]

Deliver(s) == result = NoResult /\ result' \in Results(s)

\* The task has dealt with it.
Take == result # NoResult /\ result' = NoResult

PromiseInit == result = NoResult

PromiseSpec == PromiseInit /\ [][(\E s \in Subjects : Deliver(s)) \/ Take]_result
=============================================================================
