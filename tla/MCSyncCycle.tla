---------------------------- MODULE MCSyncCycle ----------------------------
(***************************************************************************)
(* A page with a 404 among the digits of its id, a channel, and a TikTok   *)
(* account that is registered without its open_id (blank).                 *)
(***************************************************************************)
EXTENDS SyncCycle

CONSTANTS page, channel, blank, account

MCPlatformOf == [s \in Subjects |-> CASE s = page -> "facebook"
                                     [] s = channel -> "youtube"
                                     [] s \in {blank, account} -> "tiktok"]
MCIdMarks == [s \in Subjects |-> IF s = page THEN {"404"} ELSE {}]
MCAnsweredAs == [s \in Subjects |-> IF s = blank THEN account ELSE s]

\* A recent post, one without a date and two old ones.
MCFeeds == {<<>>, <<1, Undated, ActivityDays + 1, ActivityDays + 1>>}
=============================================================================
