---------------------------- MODULE PlatformFetch ----------------------------
(***************************************************************************)
(* One execution of a sync task between its credential lookup and its      *)
(* transaction: the calls the three platform clients make, one HTTP        *)
(* exchange per step.  Facebook and YouTube go through get_json, which     *)
(* retries what is transient; TikTok's client retries nothing and takes a  *)
(* timeout for a refusal.  A refusal is told apart by searching the text   *)
(* of the error, which holds the status, the path and the body; Facebook's *)
(* path holds the id of the page.  The lists of posts are read newest      *)
(* first, in pages, while the platform may answer anything.                *)
(***************************************************************************)
EXTENDS Normalizer

CONSTANTS
  Subjects,     \* (platform, platform_id) pairs
  PlatformOf,   \* the platform of each subject
  IdMarks,      \* the status codes that occur as digits in an id
  MaxAttempts,  \* max_attempts of the retry policy
  Metrics,      \* how many Page insights are asked for
  SampleLimit,  \* activity_sample_size
  VideoLimit,   \* overall_limit of the TikTok list
  PageSize,     \* _PAGE_SIZE of YouTube
  VideoPage,    \* max_count of the TikTok list, clamped
  Feeds,        \* what a platform can list: ages of posts, newest first
  MayStick,     \* whether TikTok may ask for more without a new cursor
  MayGarble,    \* whether a platform may answer 200 without JSON
  NoSubject

Platforms == {"facebook", "youtube", "tiktok"}
Codes == {"400", "401", "403", "404"}

\* What the body of a refusal may say; both spellings of "not permitted" are
\* treated alike.  Like an id, it may hold the digits of a status.
Bodies == {{}, {"nonexisting field"}, {"not permitted"}} \cup {{code} : code \in Codes}

ASSUME FetchAssumption ==
  /\ PlatformOf \in [Subjects -> Platforms]
  /\ IdMarks \in [Subjects -> SUBSET Codes]
  /\ MaxAttempts \in Nat \ {0} /\ Metrics \in Nat \ {0}
  /\ SampleLimit \in Nat \ {0} /\ VideoLimit \in Nat \ {0}
  /\ PageSize \in Nat \ {0} /\ VideoPage \in Nat \ {0}
  /\ Feeds \subseteq Seq(Int)
  /\ MayStick \in BOOLEAN /\ MayGarble \in BOOLEAN
  /\ NoSubject \notin Subjects

VARIABLES
  fetch,  \* the execution: its subject, the call under way and what it has read
  feed,   \* what the platform would list for it
  gone,   \* history: the platform has answered that the subject does not exist
  flawed  \* history: the list of posts is not complete, or has doubles, and the
          \* client takes it for the platform's

fetchVars == <<fetch, feed, gone, flawed>>

FacebookCalls == {"page", "page_min", "posts", "insights", "photos", "videos"}
YouTubeCalls == {"channel", "uploads", "details"}
TikTokCalls == {"user", "list"}
Analytics == {"report", "report_again"}

\* The calls made through get_json.
GetJson == FacebookCalls \cup YouTubeCalls
Calls == GetJson \cup TikTokCalls \cup Analytics

Outcomes == {"none", "data", "not_found", "permanent", "transient", "error",
             "no_uploads_playlist", "no_credentials"}

Fetch == [subj : Subjects \cup {NoSubject}, call : Calls \cup {"idle", "end"},
          attempt : 1 .. MaxAttempts, metric : Nat, cursor : Nat, token : BOOLEAN,
          sample : Seq(Nat), followers : {0, 1}, named : BOOLEAN, outcome : Outcomes]

Idle == [subj |-> NoSubject, call |-> "idle", attempt |-> 1, metric |-> 0, cursor |-> 0,
         token |-> FALSE, sample |-> <<>>, followers |-> 0, named |-> FALSE, outcome |-> "none"]

FetchInit == fetch = Idle /\ feed = <<>> /\ gone = FALSE /\ flawed = FALSE

-----------------------------------------------------------------------------
(* The first call of each client, and the end of an execution. *)

FirstCall(p) ==
  CASE p = "facebook" -> "page" [] p = "youtube" -> "channel" [] p = "tiktok" -> "user"

\* The client is opened.  Without a token of the subject or of the environment
\* Facebook's and YouTube's clients refuse to be made, inside the task's try;
\* the TikTok task returns before.
Open(s, token) ==
  /\ fetch.call = "idle"
  /\ fetch' = [Idle EXCEPT !.subj = s,
                 !.call = IF token THEN FirstCall(PlatformOf[s]) ELSE "end",
                 !.outcome = IF token THEN "none"
                             ELSE IF PlatformOf[s] = "tiktok" THEN "no_credentials"
                             ELSE "permanent"]
  /\ feed' \in Feeds
  /\ gone' = FALSE /\ flawed' = FALSE

Close == fetch' = Idle /\ feed' = <<>> /\ gone' = FALSE /\ flawed' = FALSE

Go(call) == fetch' = [fetch EXCEPT !.call = call, !.attempt = 1]

End(outcome) ==
  fetch' = [fetch EXCEPT !.call = "end", !.attempt = 1, !.token = FALSE, !.outcome = outcome]

\* The text of a PermanentPlatformError of get_json.
TextOf(code, body) ==
  {code} \cup body
    \cup (IF fetch.call \in FacebookCalls THEN IdMarks[fetch.subj] ELSE {})

-----------------------------------------------------------------------------
(* get_json *)

\* Fault: an attempt too many.
BusyOnceMore ==
  /\ fetch.call \in GetJson
  /\ \/ fetch.attempt <= MaxAttempts
        /\ fetch' = [fetch EXCEPT !.attempt = @ + 1]
     \/ fetch.attempt > MaxAttempts /\ End("transient")
  /\ UNCHANGED <<feed, gone, flawed>>

\* Fault: attempts are not counted.
BusyForever ==
  /\ fetch.call \in GetJson
  /\ fetch' = [fetch EXCEPT !.attempt = IF @ < MaxAttempts THEN @ + 1 ELSE 1]
  /\ UNCHANGED <<feed, gone, flawed>>

\* 429, 5xx or no answer: another attempt, or the last error is raised.
Busy ==
  /\ fetch.call \in GetJson
  /\ \/ fetch.attempt < MaxAttempts
        /\ fetch' = [fetch EXCEPT !.attempt = @ + 1]
     \/ fetch.attempt = MaxAttempts /\ End("transient")
  /\ UNCHANGED <<feed, gone, flawed>>

\* The body is no JSON: a ValueError that nobody catches.
Garbled ==
  /\ MayGarble
  /\ fetch.call \in Calls
  /\ End("error")
  /\ UNCHANGED <<feed, gone, flawed>>

-----------------------------------------------------------------------------
(* Facebook *)

\* The second request asks for id and name only, and a count that is missing
\* is zero.
PageRead ==
  /\ fetch.call \in {"page", "page_min"}
  /\ \E n \in IF fetch.call = "page" THEN {0, 1} ELSE {0}, named \in BOOLEAN :
       fetch' = [fetch EXCEPT !.call = "posts", !.attempt = 1, !.named = named,
                              !.followers = IF named THEN n ELSE 0]
  /\ UNCHANGED <<feed, gone, flawed>>

\* Fault: the missing field is looked for before the status.
PageRefusedByField(code, body) ==
  LET text == TextOf(code, body) IN
  /\ fetch.call \in {"page", "page_min"}
  /\ \/ "nonexisting field" \in text /\ fetch.call = "page" /\ Go("page_min")
     \/ /\ "nonexisting field" \notin text \/ fetch.call # "page"
        /\ End(IF "404" \in text THEN "not_found" ELSE "permanent")
  /\ gone' = (code = "404")
  /\ UNCHANGED <<feed, flawed>>

PageRefused(code, body) ==
  LET text == TextOf(code, body) IN
  /\ fetch.call \in {"page", "page_min"}
  /\ \/ "404" \in text /\ End("not_found")
     \/ /\ "404" \notin text /\ "nonexisting field" \in text
        /\ IF fetch.call = "page" THEN Go("page_min") ELSE End("permanent")
     \/ text \cap {"404", "nonexisting field"} = {} /\ End("permanent")
  /\ gone' = (code = "404")
  /\ UNCHANGED <<feed, flawed>>

\* One page of at most SampleLimit posts; what the platform leaves out of it is
\* not asked for again.
PostsRead ==
  /\ fetch.call = "posts"
  /\ \E k \in 0 .. Len(feed) :
       /\ k <= SampleLimit
       /\ fetch' = [fetch EXCEPT !.call = "insights", !.attempt = 1,
                                 !.sample = [i \in 1 .. k |-> i]]
       /\ flawed' = (k < Len(feed) /\ k < SampleLimit)
  /\ UNCHANGED <<feed, gone>>

PostsRefused(code, body) ==
  /\ fetch.call = "posts"
  /\ IF "404" \in TextOf(code, body)
     THEN Go("insights") /\ flawed' = TRUE
     ELSE End("permanent") /\ UNCHANGED flawed
  /\ UNCHANGED <<feed, gone>>

NextMetric ==
  IF fetch.metric + 1 < Metrics
  THEN fetch' = [fetch EXCEPT !.attempt = 1, !.metric = @ + 1]
  ELSE Go("photos")

InsightRead ==
  /\ fetch.call = "insights"
  /\ NextMetric
  /\ UNCHANGED <<feed, gone, flawed>>

\* One metric is skipped, the rest is given up, or the whole fetch is.
InsightRefused(code, body) ==
  LET text == TextOf(code, body) IN
  /\ fetch.call = "insights"
  /\ \/ text \cap {"nonexisting field", "not permitted"} # {} /\ NextMetric
     \/ /\ text \cap {"nonexisting field", "not permitted"} = {}
        /\ IF text \cap {"403", "400"} # {} THEN Go("photos") ELSE End("permanent")
  /\ UNCHANGED <<feed, gone, flawed>>

NextMedia == IF fetch.call = "photos" THEN Go("videos") ELSE End("data")

MediaRead ==
  /\ fetch.call \in {"photos", "videos"}
  /\ NextMedia
  /\ UNCHANGED <<feed, gone, flawed>>

MediaRefused(code, body) ==
  /\ fetch.call \in {"photos", "videos"}
  /\ IF "403" \in TextOf(code, body) THEN NextMedia ELSE End("permanent")
  /\ UNCHANGED <<feed, gone, flawed>>

-----------------------------------------------------------------------------
(* YouTube *)

\* 200 without items is a channel that does not exist; a channel without an
\* uploads playlist is not synced.  How many follow decides nothing here.
ChannelRead ==
  /\ fetch.call = "channel"
  /\ \/ End("not_found") /\ gone' = TRUE
     \/ End("no_uploads_playlist") /\ UNCHANGED gone
     \/ /\ \E named \in BOOLEAN :
             fetch' = [fetch EXCEPT !.call = "uploads", !.attempt = 1, !.named = named]
        /\ UNCHANGED gone
  /\ UNCHANGED <<feed, flawed>>

ChannelRefused(code, body) ==
  /\ fetch.call = "channel"
  /\ End(IF "404" \in TextOf(code, body) THEN "not_found" ELSE "permanent")
  /\ gone' = (code = "404")
  /\ UNCHANGED <<feed, flawed>>

\* The list is as long as it gets: the details are asked for if it has videos,
\* and the analytics if the credential of the subject has an access token.
AfterUploads(sample, cursor) ==
  \E call \in IF sample # <<>> THEN {"details"} ELSE {"report", "end"} :
    fetch' = [fetch EXCEPT !.call = call, !.attempt = 1, !.sample = sample, !.cursor = cursor,
                           !.token = FALSE, !.outcome = IF call = "end" THEN "data" ELSE @]

\* Fault: every page is asked for in full.
UploadsPageInFull ==
  /\ fetch.call = "uploads"
  /\ \E k \in 0 .. PageSize, token \in BOOLEAN :
       LET sample == fetch.sample \o [i \in 1 .. k |-> fetch.cursor + i]
           cursor == fetch.cursor + k
       IN /\ cursor <= Len(feed) /\ (token => k > 0) /\ (token \/ cursor = Len(feed))
          /\ IF token /\ Len(sample) < SampleLimit
             THEN fetch' = [fetch EXCEPT !.attempt = 1, !.sample = sample, !.cursor = cursor]
             ELSE AfterUploads(sample, cursor)
  /\ UNCHANGED <<feed, gone, flawed>>

\* A page of the playlist with videos, or the last, which has no token for another.
\* The list of the channel is through when there is no token.
UploadsPage ==
  /\ fetch.call = "uploads"
  /\ \E k \in 0 .. PageSize, token \in BOOLEAN :
       LET sample == fetch.sample \o [i \in 1 .. k |-> fetch.cursor + i]
           cursor == fetch.cursor + k
       IN /\ Len(sample) <= SampleLimit
          /\ cursor <= Len(feed) /\ (token => k > 0) /\ (token \/ cursor = Len(feed))
          /\ IF token /\ Len(sample) < SampleLimit
             THEN fetch' = [fetch EXCEPT !.attempt = 1, !.sample = sample, !.cursor = cursor]
             ELSE AfterUploads(sample, cursor)
  /\ UNCHANGED <<feed, gone, flawed>>

\* A page without videos, but with a token: the loop asks for the next, however
\* often that happens.
EmptyPage ==
  /\ fetch.call = "uploads"
  /\ fetch' = [fetch EXCEPT !.attempt = 1, !.token = ~@]
  /\ UNCHANGED <<feed, gone, flawed>>

\* A 404 ends the list with the pages read so far.
UploadsRefused(code, body) ==
  /\ fetch.call = "uploads"
  /\ IF "404" \in TextOf(code, body)
     THEN AfterUploads(fetch.sample, fetch.cursor) /\ flawed' = TRUE
     ELSE End("permanent") /\ UNCHANGED flawed
  /\ UNCHANGED <<feed, gone>>

DetailsRead ==
  /\ fetch.call = "details"
  /\ Go("report") \/ End("data")
  /\ UNCHANGED <<feed, gone, flawed>>

DetailsRefused ==
  /\ fetch.call = "details"
  /\ End("permanent")
  /\ UNCHANGED <<feed, gone, flawed>>

\* The analytics never fail a fetch: a report, or nothing, and after a first 401
\* the access token may be refreshed for a second attempt.
Report ==
  /\ fetch.call \in Analytics
  /\ \/ End("data")
     \/ fetch.call = "report" /\ Go("report_again")
  /\ UNCHANGED <<feed, gone, flawed>>

-----------------------------------------------------------------------------
(* TikTok *)

UserRead ==
  /\ fetch.call = "user"
  /\ \/ End("not_found") /\ gone' = TRUE
     \/ fetch' = [fetch EXCEPT !.call = "list", !.named = TRUE] /\ UNCHANGED gone
  /\ UNCHANGED <<feed, flawed>>

\* Any error that is not a 404 is permanent, a 429 or a timeout too.
UserRefused(code) ==
  /\ fetch.call = "user"
  /\ End(IF code = "404" THEN "not_found" ELSE "permanent")
  /\ gone' = (code = "404")
  /\ UNCHANGED <<feed, flawed>>

\* A page of the list.  An empty one ends it even if there are more; the cursor
\* of the next is the platform's, or the same again.
ListPage ==
  /\ fetch.call = "list"
  /\ \E k \in 0 .. VideoPage :
       LET sample == fetch.sample \o [i \in 1 .. k |-> fetch.cursor + i]
           more == fetch.cursor + k < Len(feed)
       IN /\ fetch.cursor + k <= Len(feed)
          /\ IF k > 0 /\ Len(sample) < VideoLimit /\ more
             THEN \E stuck \in {FALSE, MayStick} :
                    /\ fetch' = [fetch EXCEPT !.sample = sample,
                                              !.cursor = IF stuck THEN @ ELSE @ + k]
                    /\ flawed' = (flawed \/ stuck)
             ELSE /\ fetch' = [fetch EXCEPT !.call = "end", !.outcome = "data",
                                 !.sample = SubSeq(sample, 1, IF Len(sample) < VideoLimit
                                                              THEN Len(sample) ELSE VideoLimit)]
                  /\ flawed' = (flawed \/ (k = 0 /\ more))
  /\ UNCHANGED <<feed, gone>>

\* Fault: an error of the list asks for another attempt of the task.
ListRefusedForLater ==
  /\ fetch.call = "list"
  /\ End("transient")
  /\ UNCHANGED <<feed, gone, flawed>>

\* Any error, the very first page's included, ends the list as if it were all.
ListRefused ==
  /\ fetch.call = "list"
  /\ End("data")
  /\ flawed' = TRUE
  /\ UNCHANGED <<feed, gone>>

-----------------------------------------------------------------------------

Exchange ==
  \/ Busy \/ Garbled
  \/ PageRead \/ PostsRead \/ InsightRead \/ MediaRead
  \/ ChannelRead \/ UploadsPage \/ EmptyPage \/ DetailsRead \/ DetailsRefused \/ Report
  \/ UserRead \/ ListPage \/ ListRefused
  \/ \E code \in Codes \cup {"429"} : UserRefused(code)
  \/ \E code \in Codes, body \in Bodies :
       \/ PageRefused(code, body) \/ PostsRefused(code, body)
       \/ InsightRefused(code, body) \/ MediaRefused(code, body)
       \/ ChannelRefused(code, body) \/ UploadsRefused(code, body)

\* The ages of the sampled posts.
Ages == [i \in DOMAIN fetch.sample |-> feed[fetch.sample[i]]]

\* What the normalizer makes of the answers; without a name it raises.
Result ==
  LET platform == PlatformOf[fetch.subj]
      posts == PostCount(platform, Len(feed), Ages)
      data == fetch.outcome = "data" /\ fetch.named
  IN [subj |-> fetch.subj,
      outcome |-> IF fetch.outcome = "data" /\ ~fetch.named THEN "error" ELSE fetch.outcome,
      status |-> IF data THEN StatusOf(platform, fetch.followers, posts, ActivityFrequency(Ages))
                 ELSE "none"]

-----------------------------------------------------------------------------
(* Properties of a fetch. *)

FetchTypeOK ==
  /\ fetch \in Fetch
  /\ feed \in Feeds \cup {<<>>}
  /\ gone \in BOOLEAN /\ flawed \in BOOLEAN

\* How many exchanges an execution has left, at most: of the call under way the
\* attempts, of get_json's later calls all of theirs.  Every page of a list that
\* has an entry adds to the sample; the pages of a playlist that have none, and
\* lead to a further one, are not counted.
CallsLeft(f) ==
  LET tries == MaxAttempts - f.attempt + 1 IN
  CASE f.call = "page"         -> tries + MaxAttempts * (Metrics + 4)
    [] f.call = "page_min"     -> tries + MaxAttempts * (Metrics + 3)
    [] f.call = "posts"        -> tries + MaxAttempts * (Metrics + 2)
    [] f.call = "insights"     -> tries + MaxAttempts * (Metrics - f.metric + 1)
    [] f.call = "photos"       -> tries + MaxAttempts
    [] f.call = "videos"       -> tries
    [] f.call = "channel"      -> tries + MaxAttempts * (SampleLimit + 1) + 2
    [] f.call = "uploads"      -> tries + MaxAttempts * (SampleLimit - Len(f.sample)) + 2
    [] f.call = "details"      -> tries + 2
    [] f.call = "report"       -> 2
    [] f.call = "report_again" -> 1
    [] f.call = "user"         -> 1 + VideoLimit
    [] f.call = "list"         -> VideoLimit - Len(f.sample)
    [] OTHER                       -> 0

\* No execution of any platform makes more.
MostCalls == MaxAttempts * (Metrics + SampleLimit + 5) + VideoLimit + 2

\* How many posts the sample can hold.
Limit == IF PlatformOf[fetch.subj] = "tiktok" THEN VideoLimit ELSE SampleLimit

Newest == SubSeq(feed, 1, IF Limit < Len(feed) THEN Limit ELSE Len(feed))

\* A subject that the platform says does not exist is reported as not found,
\* whatever else the refusal says: its 404 is never taken for a field to leave
\* out, for a lack of permission or for an error to try again (the clients search
\* the text of the error for several marks, in an order of their own).
MissingIsReported == gone => fetch.outcome = "not_found"

\* A fetch makes a subject inactive only if the posts the sample can hold show
\* no activity, or if a list was cut short without a word.
InactiveForCause ==
  fetch.outcome = "data" /\ Result.status = "inactive" /\ ~flawed
  => RecentPosts(Newest) = {}

\* The sample is the newest posts, each of them once, up to the limit of the
\* platform, however the platform splits its pages.
SampleFaithful ==
  fetch.outcome = "data" /\ ~flawed
  => fetch.sample = [i \in DOMAIN Newest |-> i]
=============================================================================
