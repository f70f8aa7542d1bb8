--------------------------- MODULE SyncCycleProofs ---------------------------
(***************************************************************************)
(* The fetches and the commands, for all subjects, lists, credentials and  *)
(* answers.  The first half is about one execution: each call is one of    *)
(* the platform's own, an outcome has its cause, and a list that nothing   *)
(* has cut short is read as the newest posts in their order (as            *)
(* 1 .. cursor; the numbers of a page continue those before).  The second  *)
(* half is about the commands: what a command has read is what it has      *)
(* tried and what is left, a task in hand is of a target that is left, the *)
(* exit code counts what has raised, and once a seeding has ended well its *)
(* rows are there for every query after it.                                *)
(***************************************************************************)
EXTENDS SyncCycle, SequenceTheorems, FiniteSetTheorems, TLAPS

-----------------------------------------------------------------------------
(* One execution. *)

\* The calls before, during and after the reading of a list.
Before == {"page", "page_min", "posts", "channel", "user"}
Listing == {"uploads", "list"}
After == {"insights", "photos", "videos", "details"} \cup Analytics

CallsFit ==
  /\ fetch.call # "idle" => fetch.subj \in Subjects
  /\ fetch.call \in FacebookCalls => PlatformOf[fetch.subj] = "facebook"
  /\ fetch.call \in YouTubeCalls \cup Analytics => PlatformOf[fetch.subj] = "youtube"
  /\ fetch.call \in TikTokCalls => PlatformOf[fetch.subj] = "tiktok"

OutcomesFit ==
  /\ fetch.call = "end" <=> fetch.outcome # "none"
  /\ fetch.outcome = "transient" => PlatformOf[fetch.subj] # "tiktok"
  /\ fetch.outcome = "no_credentials" => PlatformOf[fetch.subj] = "tiktok"
  /\ fetch.outcome = "no_uploads_playlist" => PlatformOf[fetch.subj] = "youtube"

\* The first n posts.
FirstOf(n) == [i \in 1 .. n |-> i]

\* How many posts the sample is to hold.
Full == IF Limit < Len(feed) THEN Limit ELSE Len(feed)

SampleFits ==
  /\ fetch.call \in Before => fetch.sample = <<>> /\ fetch.cursor = 0 /\ ~flawed
  /\ fetch.call \in Listing /\ ~flawed =>
       fetch.sample = FirstOf(fetch.cursor) /\ fetch.cursor <= Full
  /\ (fetch.call \in After \/ fetch.outcome = "data") /\ ~flawed =>
       fetch.sample = FirstOf(Full)

FetchInv == FetchTypeOK /\ CallsFit /\ OutcomesFit /\ SampleFits

-----------------------------------------------------------------------------
(* Sequences of numbers. *)

LEMMA FirstOfSeq ==
  ASSUME NEW n \in Nat
  PROVE  /\ FirstOf(n) \in Seq(Nat) /\ Len(FirstOf(n)) = n
         /\ FirstOf(0) = <<>>
<1>1. FirstOf(n) \in [1 .. n -> Nat]
  BY DEF FirstOf
<1>2. FirstOf(n) \in Seq(Nat) /\ Len(FirstOf(n)) = n
  BY <1>1, SeqDef, LenProperties DEF FirstOf
<1>3. FirstOf(0) = <<>>
  BY DEF FirstOf
<1>4. QED
  BY <1>2, <1>3

LEMMA PageSeq ==
  ASSUME NEW s \in Seq(Nat), NEW c \in Nat, NEW k \in Nat
  PROVE  /\ [i \in 1 .. k |-> c + i] \in Seq(Nat)
         /\ Len([i \in 1 .. k |-> c + i]) = k
         /\ s \o [i \in 1 .. k |-> c + i] \in Seq(Nat)
         /\ Len(s \o [i \in 1 .. k |-> c + i]) = Len(s) + k
<1> DEFINE page == [i \in 1 .. k |-> c + i]
<1>1. page \in [1 .. k -> Nat]
  OBVIOUS
<1>2. page \in Seq(Nat) /\ Len(page) = k
  BY <1>1, SeqDef, LenProperties
<1>3. QED
  BY <1>2, ConcatProperties

\* A page continues the ones before.
LEMMA PagesJoin ==
  ASSUME NEW c \in Nat, NEW k \in Nat
  PROVE  FirstOf(c) \o [i \in 1 .. k |-> c + i] = FirstOf(c + k)
<1> DEFINE page == [i \in 1 .. k |-> c + i]
           joined == FirstOf(c) \o page
<1>1. FirstOf(c) \in Seq(Nat) /\ Len(FirstOf(c)) = c
  BY FirstOfSeq
<1>2. page \in Seq(Nat) /\ Len(page) = k
  BY <1>1, PageSeq
<1>3. joined \in Seq(Nat) /\ Len(joined) = c + k
  BY <1>1, <1>2, ConcatProperties
<1>4. ASSUME NEW i \in 1 .. c + k PROVE joined[i] = i
  <2>1. joined[i] = IF i <= c THEN FirstOf(c)[i] ELSE page[i - c]
    BY <1>1, <1>2, ConcatProperties
  <2>2. i <= c => FirstOf(c)[i] = i
    BY DEF FirstOf
  <2>3. ~(i <= c) => page[i - c] = i
    <3>1. ~(i <= c) => i - c \in 1 .. k /\ c + (i - c) = i
      OBVIOUS
    <3>2. QED
      BY <3>1
  <2> HIDE DEF joined, page
  <2>4. QED
    BY <2>1, <2>2, <2>3
<1>5. FirstOf(c + k) \in Seq(Nat) /\ Len(FirstOf(c + k)) = c + k
  BY FirstOfSeq
<1>6. \A i \in 1 .. c + k : FirstOf(c + k)[i] = i
  BY DEF FirstOf
<1>7. QED
  BY <1>3, <1>4, <1>5, <1>6, SeqEqual

\* What is cut off at the limit.
LEMMA FirstOfCut ==
  ASSUME NEW n \in Nat, NEW m \in Nat, m <= n
  PROVE  SubSeq(FirstOf(n), 1, m) = FirstOf(m)
<1>1. \A i \in 1 .. m : FirstOf(n)[i] \in Nat /\ FirstOf(n)[i] = i
  BY DEF FirstOf
<1>2. /\ SubSeq(FirstOf(n), 1, m) \in Seq(Nat)
      /\ Len(SubSeq(FirstOf(n), 1, m)) = m
      /\ \A i \in 1 .. m : SubSeq(FirstOf(n), 1, m)[i] = i
  BY <1>1, SubSeqProperties
<1>3. FirstOf(m) \in Seq(Nat) /\ Len(FirstOf(m)) = m /\ \A i \in 1 .. m : FirstOf(m)[i] = i
  BY FirstOfSeq DEF FirstOf
<1>4. QED
  BY <1>2, <1>3, SeqEqual

-----------------------------------------------------------------------------
(* One exchange. *)

LEMMA FetchFields ==
  ASSUME FetchTypeOK
  PROVE  /\ fetch.subj \in Subjects \cup {NoSubject} /\ fetch.call \in Calls \cup {"idle", "end"}
         /\ fetch.attempt \in 1 .. MaxAttempts /\ fetch.metric \in Nat /\ fetch.cursor \in Nat
         /\ fetch.sample \in Seq(Nat) /\ fetch.followers \in {0, 1} /\ fetch.named \in BOOLEAN
         /\ fetch.token \in BOOLEAN /\ fetch.outcome \in Outcomes
         /\ feed \in Seq(Int) /\ Len(feed) \in Nat
<1>1. feed \in Seq(Int)
  BY FetchAssumption, EmptySeq DEF FetchTypeOK
<1>2. QED
  BY <1>1, LenProperties DEF FetchTypeOK, Fetch

\* Every call after this one belongs to the same platform.
LEMMA GoesOn ==
  ASSUME FetchInv, NEW c \in Calls,
         fetch.call \in Calls,
         fetch' \in Fetch, fetch'.call = c, fetch'.subj = fetch.subj,
         fetch'.sample = fetch.sample, fetch'.cursor = fetch.cursor,
         fetch'.outcome = fetch.outcome,
         \/ fetch.call \in FacebookCalls /\ c \in FacebookCalls
         \/ fetch.call \in YouTubeCalls \cup Analytics /\ c \in YouTubeCalls \cup Analytics
         \/ fetch.call \in TikTokCalls /\ c \in TikTokCalls,
         \/ fetch.call \in Before /\ c \in Before
         \/ fetch.call \in After /\ c \in After
         \/ fetch.call = c,
         UNCHANGED <<feed, flawed>>, gone' \in BOOLEAN
  PROVE  FetchInv'
<1>1. FetchTypeOK'
  BY DEF FetchInv, FetchTypeOK
<1>2. CallsFit'
  BY DEF FetchInv, CallsFit, Calls, GetJson, FacebookCalls, YouTubeCalls, TikTokCalls, Analytics
<1>3. OutcomesFit'
  BY DEF FetchInv, OutcomesFit, Calls, GetJson, FacebookCalls,
         YouTubeCalls, TikTokCalls, Analytics
<1>4. SampleFits'
  BY DEF FetchInv, SampleFits, OutcomesFit, Full, Limit, Before, Listing, After, Analytics
<1>5. QED
  BY <1>1, <1>2, <1>3, <1>4 DEF FetchInv

\* A fetch that ends without data.
LEMMA EndsWithout ==
  ASSUME FetchInv, fetch.call \in Calls,
         NEW o \in {"not_found", "permanent", "transient", "error", "no_uploads_playlist"},
         End(o),
         o = "transient" => fetch.call \notin TikTokCalls,
         o = "no_uploads_playlist" => fetch.call \in YouTubeCalls,
         UNCHANGED feed, flawed' \in BOOLEAN, gone' \in BOOLEAN
  PROVE  FetchInv'
<1>1. /\ fetch' \in Fetch /\ fetch'.call = "end" /\ fetch'.subj = fetch.subj
      /\ fetch'.outcome = o
  <2>1. 1 \in 1 .. MaxAttempts
    BY FetchAssumption
  <2>2. fetch \in Fetch /\ o \in Outcomes
    BY DEF FetchInv, FetchTypeOK, Outcomes
  <2>3. QED
    BY <2>1, <2>2 DEF Fetch, End
<1>2. FetchTypeOK'
  BY <1>1 DEF FetchInv, FetchTypeOK
<1>3. CallsFit'
  BY <1>1 DEF FetchInv, CallsFit, Calls, GetJson, FacebookCalls, YouTubeCalls, TikTokCalls,
              Analytics
<1>4. OutcomesFit'
  BY <1>1 DEF FetchInv, CallsFit, OutcomesFit, Calls, GetJson, FacebookCalls, YouTubeCalls,
              TikTokCalls, Analytics
<1>5. SampleFits'
  BY <1>1 DEF SampleFits, Before, Listing, After, Analytics
<1>6. QED
  BY <1>2, <1>3, <1>4, <1>5 DEF FetchInv

\* A fetch that ends with data, or goes on after a list, with the sample it has.
LEMMA Sampled ==
  ASSUME FetchInv, fetch.call \in Calls,
         fetch' \in Fetch, fetch'.subj = fetch.subj,
         \/ fetch'.call = "end" /\ fetch'.outcome = "data"
         \/ /\ fetch'.call \in After /\ fetch'.outcome = "none"
            /\ IF fetch'.call \in FacebookCalls THEN fetch.call \in FacebookCalls
               ELSE fetch.call \in YouTubeCalls \cup Analytics,
         ~flawed' => fetch'.sample = FirstOf(Full),
         UNCHANGED <<feed, gone>>, flawed' \in BOOLEAN
  PROVE  FetchInv'
<1>1. FetchTypeOK'
  BY DEF FetchInv, FetchTypeOK
<1>2. CallsFit'
  BY DEF FetchInv, CallsFit, Calls, GetJson, FacebookCalls, YouTubeCalls, TikTokCalls, Analytics,
         After
<1>3. OutcomesFit'
  BY DEF OutcomesFit, Calls, GetJson, FacebookCalls, YouTubeCalls,
         TikTokCalls, Analytics, After
<1>4. SampleFits'
  BY DEF SampleFits, Full, Limit, Before, Listing, After, Analytics
<1>5. QED
  BY <1>1, <1>2, <1>3, <1>4 DEF FetchInv

LEMMA GoFields ==
  ASSUME FetchInv, NEW c \in Calls, Go(c)
  PROVE  /\ fetch' \in Fetch /\ fetch'.call = c /\ fetch'.subj = fetch.subj
         /\ fetch'.sample = fetch.sample /\ fetch'.cursor = fetch.cursor
         /\ fetch'.outcome = fetch.outcome
<1>1. 1 \in 1 .. MaxAttempts /\ fetch \in Fetch
  BY FetchAssumption DEF FetchInv, FetchTypeOK
<1>2. QED
  BY <1>1 DEF Fetch, Go

LEMMA EndFields ==
  ASSUME FetchInv, NEW o \in Outcomes, End(o)
  PROVE  /\ fetch' \in Fetch /\ fetch'.call = "end" /\ fetch'.subj = fetch.subj
         /\ fetch'.sample = fetch.sample /\ fetch'.outcome = o
<1>1. 1 \in 1 .. MaxAttempts /\ fetch \in Fetch
  BY FetchAssumption DEF FetchInv, FetchTypeOK
<1>2. QED
  BY <1>1 DEF Fetch, End

LEMMA FullNat ==
  ASSUME FetchInv
  PROVE  Limit \in Nat \ {0} /\ Full \in Nat /\ Full <= Limit /\ Full <= Len(feed)
  BY FetchFields, FetchAssumption DEF FetchInv, Limit, Full

\* A call after the list goes on with the sample, or ends with it.
LEMMA AfterGoes ==
  ASSUME FetchInv, fetch.call \in After, UNCHANGED <<feed, gone, flawed>>,
         NEW c \in After,
         \/ Go(c) /\ (c \in FacebookCalls <=> fetch.call \in FacebookCalls)
         \/ End("data")
  PROVE  FetchInv'
<1>1. fetch.call \in Calls /\ c \in Calls /\ "data" \in Outcomes
  BY DEF After, Calls, GetJson, FacebookCalls, YouTubeCalls, Analytics, Outcomes
<1>2. fetch.outcome = "none" /\ (~flawed => fetch.sample = FirstOf(Full))
  BY DEF FetchInv, OutcomesFit, SampleFits, After, Analytics
<1>3. flawed' \in BOOLEAN
  BY DEF FetchInv, FetchTypeOK
<1>4. CASE End("data")
  BY <1>1, <1>2, <1>3, <1>4, EndFields, Sampled
<1>5. CASE Go(c) /\ (c \in FacebookCalls <=> fetch.call \in FacebookCalls)
  <2>1. IF c \in FacebookCalls THEN fetch.call \in FacebookCalls
        ELSE fetch.call \in YouTubeCalls \cup Analytics
    BY <1>5 DEF After, FacebookCalls, YouTubeCalls, Analytics
  <2>2. QED
    BY <1>1, <1>2, <1>3, <1>5, <2>1, GoFields, Sampled
<1>6. QED
  BY <1>4, <1>5

LEMMA GetJsonSteps ==
  ASSUME FetchInv, Busy \/ Garbled
  PROVE  FetchInv'
<1>1. gone' \in BOOLEAN /\ flawed' \in BOOLEAN /\ UNCHANGED <<feed, gone, flawed>>
  BY DEF FetchInv, FetchTypeOK, Busy, Garbled
<1>2. CASE Garbled
  BY <1>1, <1>2, EndsWithout DEF Garbled
<1>3. CASE Busy /\ End("transient")
  <2>1. fetch.call \in Calls /\ fetch.call \notin TikTokCalls
    BY <1>3 DEF Busy, Calls, GetJson, FacebookCalls, YouTubeCalls, TikTokCalls
  <2>2. QED
    BY <1>1, <1>3, <2>1, EndsWithout
<1>4. CASE Busy /\ fetch.attempt < MaxAttempts /\ fetch' = [fetch EXCEPT !.attempt = @ + 1]
  <2>1. fetch.attempt + 1 \in 1 .. MaxAttempts /\ fetch \in Fetch
    <3>1. fetch.attempt \in 1 .. MaxAttempts /\ fetch \in Fetch
      BY DEF FetchInv, FetchTypeOK, Fetch
    <3>2. fetch.attempt < MaxAttempts /\ MaxAttempts \in Nat
      BY <1>4, FetchAssumption
    <3>3. QED
      BY <3>1, <3>2
  <2>2. /\ fetch' \in Fetch /\ fetch'.call = fetch.call /\ fetch'.subj = fetch.subj
        /\ fetch'.sample = fetch.sample /\ fetch'.cursor = fetch.cursor
        /\ fetch'.outcome = fetch.outcome
    BY <1>4, <2>1 DEF Fetch
  <2>3. fetch.call \in Calls /\ fetch.call \in FacebookCalls \cup YouTubeCalls
    BY <1>4 DEF Busy, Calls, GetJson
  <2>4. QED
    BY <1>1, <2>2, <2>3, GoesOn
<1>5. QED
  BY <1>2, <1>3, <1>4 DEF Busy

-----------------------------------------------------------------------------
(* Facebook. *)

LEMMA FacebookReads ==
  ASSUME FetchInv, PageRead \/ PostsRead \/ InsightRead \/ MediaRead
  PROVE  FetchInv'
<1>0. fetch \in Fetch /\ 1 \in 1 .. MaxAttempts /\ gone \in BOOLEAN /\ flawed \in BOOLEAN
  BY FetchAssumption DEF FetchInv, FetchTypeOK
<1>1. CASE PageRead
  <2>1. PICK n \in {0, 1}, named \in BOOLEAN :
          fetch' = [fetch EXCEPT !.call = "posts", !.attempt = 1, !.named = named,
                                 !.followers = IF named THEN n ELSE 0]
    BY <1>1 DEF PageRead
  <2>2. /\ fetch' \in Fetch /\ fetch'.call = "posts" /\ fetch'.subj = fetch.subj
        /\ fetch'.sample = fetch.sample /\ fetch'.cursor = fetch.cursor
        /\ fetch'.outcome = fetch.outcome
    BY <1>0, <2>1 DEF Fetch, Calls, GetJson, FacebookCalls
  <2>3. /\ fetch.call \in FacebookCalls \cap Before /\ "posts" \in FacebookCalls \cap Before
        /\ fetch.call \in Calls /\ "posts" \in Calls
    BY <1>1 DEF PageRead, FacebookCalls, Before, Calls, GetJson
  <2>4. QED
    BY <1>0, <1>1, <2>2, <2>3, GoesOn DEF PageRead
<1>2. CASE PostsRead
  <2>1. PICK k \in 0 .. Len(feed) :
          /\ k <= SampleLimit
          /\ fetch' = [fetch EXCEPT !.call = "insights", !.attempt = 1,
                                    !.sample = FirstOf(k)]
          /\ flawed' = (k < Len(feed) /\ k < SampleLimit)
    BY <1>2 DEF PostsRead, FirstOf
  <2>2. FirstOf(k) \in Seq(Nat)
    BY FirstOfSeq
  <2>3. /\ fetch' \in Fetch /\ fetch'.call = "insights" /\ fetch'.subj = fetch.subj
        /\ fetch'.sample = FirstOf(k) /\ fetch'.outcome = fetch.outcome
    BY <1>0, <2>1, <2>2 DEF Fetch, Calls, GetJson, FacebookCalls
  <2>4. fetch.call \in Calls /\ fetch.call \in FacebookCalls /\ fetch.outcome = "none"
    BY <1>2 DEF PostsRead, FacebookCalls, Calls, GetJson, FetchInv, OutcomesFit
  <2>5. ~flawed' => k = Full
    <3>1. Limit = SampleLimit
      BY <2>4 DEF Limit, FetchInv, CallsFit
    <3>2. ~flawed' => ~(k < Len(feed) /\ k < SampleLimit)
      BY <2>1
    <3>3. ~(k < Len(feed) /\ k < SampleLimit) => k = Full
      BY <2>1, <3>1, FetchFields, FetchAssumption DEF FetchInv, Full
    <3>4. QED
      BY <3>2, <3>3
  <2>6. flawed' \in BOOLEAN /\ UNCHANGED <<feed, gone>>
    BY <1>2, <2>1 DEF PostsRead
  <2>7. fetch'.call \in After /\ fetch'.call \in FacebookCalls
    BY <2>3 DEF After, FacebookCalls
  <2>8. QED
    BY <2>3, <2>4, <2>5, <2>6, <2>7, Sampled
<1>3. CASE InsightRead
  <2>1. fetch.call = "insights" /\ UNCHANGED <<feed, gone, flawed>> /\ NextMetric
    BY <1>3 DEF InsightRead
  <2>2. CASE Go("photos")
    BY <2>1, <2>2, AfterGoes DEF After, FacebookCalls
  <2>3. CASE fetch' = [fetch EXCEPT !.attempt = 1, !.metric = @ + 1]
    <3>1. fetch.metric + 1 \in Nat
      BY FetchFields DEF FetchInv
    <3>2. /\ fetch' \in Fetch /\ fetch'.call = "insights" /\ fetch'.subj = fetch.subj
          /\ fetch'.sample = fetch.sample /\ fetch'.cursor = fetch.cursor
          /\ fetch'.outcome = fetch.outcome
      BY <1>0, <2>1, <2>3, <3>1 DEF Fetch
    <3>3. QED
      BY <1>0, <2>1, <3>2, GoesOn DEF After, FacebookCalls, Calls, GetJson
  <2>4. QED
    BY <2>1, <2>2, <2>3 DEF NextMetric
<1>4. CASE MediaRead
  BY <1>4, AfterGoes DEF MediaRead, NextMedia, After, FacebookCalls
<1>5. QED
  BY <1>1, <1>2, <1>3, <1>4

LEMMA FacebookRefusals ==
  ASSUME FetchInv, NEW code \in Codes, NEW body \in Bodies,
         \/ PageRefused(code, body) \/ PostsRefused(code, body)
         \/ InsightRefused(code, body) \/ MediaRefused(code, body)
  PROVE  FetchInv'
<1> DEFINE text == TextOf(code, body)
<1>0. /\ fetch \in Fetch /\ 1 \in 1 .. MaxAttempts /\ gone \in BOOLEAN /\ flawed \in BOOLEAN
      /\ fetch.call \in FacebookCalls \cap Calls
  <2>1. fetch \in Fetch /\ 1 \in 1 .. MaxAttempts /\ gone \in BOOLEAN /\ flawed \in BOOLEAN
    BY FetchAssumption DEF FetchInv, FetchTypeOK
  <2>2. fetch.call \in FacebookCalls \cap Calls
    BY DEF PageRefused, PostsRefused, InsightRefused, MediaRefused, FacebookCalls, Calls, GetJson
  <2>3. QED
    BY <2>1, <2>2
<1>1. CASE PageRefused(code, body)
  <2>1. gone' = (code = "404") /\ UNCHANGED <<feed, flawed>> /\ gone' \in BOOLEAN
    BY <1>1 DEF PageRefused
  <2>2. CASE End("not_found")
    BY <1>0, <2>1, <2>2, EndsWithout
  <2>3. CASE End("permanent")
    BY <1>0, <2>1, <2>3, EndsWithout
  <2>4. CASE fetch.call = "page" /\ Go("page_min")
    <3>1. /\ "page_min" \in FacebookCalls \cap Calls /\ "page_min" \in Before
          /\ fetch.call \in Before
      BY <2>4 DEF FacebookCalls, Calls, GetJson, Before
    <3>2. QED
      BY <1>0, <2>1, <2>4, <3>1, GoFields, GoesOn
  <2>5. QED
    BY <1>1, <2>2, <2>3, <2>4 DEF PageRefused
<1>2. CASE PostsRefused(code, body)
  <2>1. CASE Go("insights") /\ flawed' = TRUE
    <3>1. /\ "insights" \in After \cap FacebookCalls \cap Calls
          /\ fetch.outcome = "none" /\ UNCHANGED <<feed, gone>>
      BY <1>0, <1>2 DEF After, FacebookCalls, Calls, GetJson, PostsRefused, FetchInv,
                        OutcomesFit
    <3>2. QED
      BY <1>0, <2>1, <3>1, GoFields, Sampled
  <2>2. CASE End("permanent") /\ UNCHANGED flawed
    BY <1>0, <1>2, <2>2, EndsWithout DEF PostsRefused
  <2>3. QED
    BY <1>2, <2>1, <2>2 DEF PostsRefused
<1>3. CASE InsightRefused(code, body)
  <2>1. fetch.call = "insights" /\ UNCHANGED <<feed, gone, flawed>>
    BY <1>3 DEF InsightRefused
  <2>2. CASE NextMetric
    BY <1>3, <2>1, <2>2, FacebookReads DEF InsightRead
  <2>3. CASE Go("photos")
    BY <2>1, <2>3, AfterGoes DEF After, FacebookCalls
  <2>4. CASE End("permanent")
    BY <1>0, <2>1, <2>4, EndsWithout
  <2>5. QED
    BY <1>3, <2>2, <2>3, <2>4 DEF InsightRefused
<1>4. CASE MediaRefused(code, body)
  <2>1. fetch.call \in {"photos", "videos"} /\ UNCHANGED <<feed, gone, flawed>>
    BY <1>4 DEF MediaRefused
  <2>2. CASE NextMedia
    BY <2>1, <2>2, FacebookReads DEF MediaRead
  <2>3. CASE End("permanent")
    BY <1>0, <2>1, <2>3, EndsWithout
  <2>4. QED
    BY <1>4, <2>2, <2>3 DEF MediaRefused
<1>5. QED
  BY <1>1, <1>2, <1>3, <1>4

-----------------------------------------------------------------------------
(* YouTube. *)

LEMMA ChannelSteps ==
  ASSUME FetchInv,
         ChannelRead \/ (\E code \in Codes, body \in Bodies : ChannelRefused(code, body))
  PROVE  FetchInv'
<1>0. /\ fetch \in Fetch /\ 1 \in 1 .. MaxAttempts /\ gone \in BOOLEAN /\ flawed \in BOOLEAN
      /\ fetch.call = "channel" /\ fetch.call \in YouTubeCalls \cap Calls
      /\ UNCHANGED <<feed, flawed>>
  <2>1. fetch \in Fetch /\ 1 \in 1 .. MaxAttempts /\ gone \in BOOLEAN /\ flawed \in BOOLEAN
    BY FetchAssumption DEF FetchInv, FetchTypeOK
  <2>2. fetch.call = "channel" /\ UNCHANGED <<feed, flawed>>
    BY DEF ChannelRead, ChannelRefused
  <2>3. QED
    BY <2>1, <2>2 DEF YouTubeCalls, Calls, GetJson
<1>1. CASE ChannelRead
  <2>1. CASE End("not_found") /\ gone' = TRUE
    BY <1>0, <2>1, EndsWithout
  <2>2. CASE End("no_uploads_playlist") /\ UNCHANGED gone
    BY <1>0, <2>2, EndsWithout
  <2>3. CASE /\ \E named \in BOOLEAN :
                  fetch' = [fetch EXCEPT !.call = "uploads", !.attempt = 1, !.named = named]
             /\ UNCHANGED gone
    <3>1. /\ fetch' \in Fetch /\ fetch'.call = "uploads" /\ fetch'.subj = fetch.subj
          /\ fetch'.sample = fetch.sample /\ fetch'.cursor = fetch.cursor
          /\ fetch'.outcome = fetch.outcome
      <4>1. PICK named \in BOOLEAN :
               fetch' = [fetch EXCEPT !.call = "uploads", !.attempt = 1, !.named = named]
        BY <2>3
      <4>2. "uploads" \in Calls
        BY DEF Calls, GetJson, YouTubeCalls
      <4>3. QED
        BY <1>0, <4>1, <4>2 DEF Fetch
    <3>2. fetch.sample = <<>> /\ fetch.cursor = 0 /\ ~flawed /\ fetch.outcome = "none"
      BY <1>0 DEF FetchInv, SampleFits, OutcomesFit, Before
    <3>3. FetchTypeOK'
      BY <1>0, <2>3, <3>1 DEF FetchInv, FetchTypeOK
    <3>4. CallsFit' /\ OutcomesFit'
      BY <1>0, <3>1, <3>2 DEF FetchInv, CallsFit, OutcomesFit, Calls, GetJson,
                              FacebookCalls, YouTubeCalls, TikTokCalls, Analytics
    <3>5. fetch'.sample = FirstOf(0) /\ 0 <= Full'
      BY <1>0, <3>1, <3>2, FirstOfSeq, FullNat DEF Full, Limit
    <3>6. SampleFits'
      BY <3>1, <3>2, <3>5 DEF SampleFits, Before, Listing, After, Analytics
    <3>7. QED
      BY <3>3, <3>4, <3>6 DEF FetchInv
  <2>4. QED
    BY <1>1, <2>1, <2>2, <2>3 DEF ChannelRead
<1>2. ASSUME NEW code \in Codes, NEW body \in Bodies, ChannelRefused(code, body)
      PROVE  FetchInv'
  <2>1. gone' = (code = "404") /\ gone' \in BOOLEAN
    BY <1>2 DEF ChannelRefused
  <2>2. CASE End("not_found")
    BY <1>0, <2>1, <2>2, EndsWithout
  <2>3. CASE End("permanent")
    BY <1>0, <2>1, <2>3, EndsWithout
  <2>4. QED
    BY <1>2, <2>2, <2>3 DEF ChannelRefused
<1>3. QED
  BY <1>1, <1>2

LEMMA AfterUploadsInv ==
  ASSUME FetchInv, fetch.call = "uploads",
         NEW sample \in Seq(Nat), NEW cursor \in Nat,
         AfterUploads(sample, cursor),
         ~flawed' => sample = FirstOf(Full),
         UNCHANGED <<feed, gone>>, flawed' \in BOOLEAN
  PROVE  FetchInv'
<1>1. PICK call \in {"details", "report", "end"} :
        fetch' = [fetch EXCEPT !.call = call, !.attempt = 1, !.sample = sample,
                               !.cursor = cursor, !.token = FALSE,
                               !.outcome = IF call = "end" THEN "data" ELSE @]
  BY DEF AfterUploads
<1>2. /\ fetch \in Fetch /\ 1 \in 1 .. MaxAttempts /\ fetch.outcome = "none"
      /\ call \in Calls \cup {"idle", "end"} /\ "data" \in Outcomes
  BY FetchAssumption DEF FetchInv, FetchTypeOK, OutcomesFit, Calls, GetJson, YouTubeCalls,
     Analytics, Outcomes
<1>3. /\ fetch' \in Fetch /\ fetch'.call = call /\ fetch'.subj = fetch.subj
      /\ fetch'.sample = sample /\ fetch'.outcome = IF call = "end" THEN "data" ELSE "none"
  BY <1>1, <1>2 DEF Fetch
<1>4. fetch.call \in Calls /\ fetch.call \in YouTubeCalls
  BY DEF Calls, GetJson, YouTubeCalls
<1>5. call # "end" => fetch'.call \in After /\ fetch'.call \notin FacebookCalls
  BY <1>3 DEF After, Analytics, FacebookCalls
<1>6. QED
  BY <1>3, <1>4, <1>5, Sampled

LEMMA UploadsPageInv ==
  ASSUME FetchInv, UploadsPage
  PROVE  FetchInv'
<1>1. PICK k \in 0 .. PageSize, token \in BOOLEAN :
        LET sample == fetch.sample \o [i \in 1 .. k |-> fetch.cursor + i]
            cursor == fetch.cursor + k
        IN /\ Len(sample) <= SampleLimit
           /\ cursor <= Len(feed) /\ (token => k > 0) /\ (token \/ cursor = Len(feed))
           /\ IF token /\ Len(sample) < SampleLimit
              THEN fetch' = [fetch EXCEPT !.attempt = 1, !.sample = sample, !.cursor = cursor]
              ELSE AfterUploads(sample, cursor)
  BY DEF UploadsPage
<1> DEFINE sample == fetch.sample \o [i \in 1 .. k |-> fetch.cursor + i]
           cursor == fetch.cursor + k
<1>2. /\ fetch.call = "uploads" /\ UNCHANGED <<feed, gone, flawed>>
      /\ gone \in BOOLEAN /\ flawed \in BOOLEAN /\ fetch \in Fetch
  BY DEF UploadsPage, FetchInv, FetchTypeOK
<1>3. k \in Nat /\ fetch.cursor \in Nat /\ fetch.sample \in Seq(Nat)
  BY FetchFields, FetchAssumption DEF FetchInv
<1>4. cursor \in Nat /\ sample \in Seq(Nat) /\ Len(sample) \in Nat
  BY <1>3, PageSeq, LenProperties
<1>5. ~flawed => sample = FirstOf(cursor) /\ Len(sample) = cursor
  <2>1. ~flawed => fetch.sample = FirstOf(fetch.cursor)
    BY <1>2 DEF FetchInv, SampleFits, Listing
  <2>2. FirstOf(fetch.cursor) \o [i \in 1 .. k |-> fetch.cursor + i] = FirstOf(cursor)
    BY <1>3, PagesJoin
  <2>3. Len(FirstOf(cursor)) = cursor
    BY <1>4, FirstOfSeq
  <2>4. QED
    BY <2>1, <2>2, <2>3
<1>6. Limit = SampleLimit /\ Len(feed) \in Nat
  BY <1>2, FetchFields DEF Limit, FetchInv, CallsFit, YouTubeCalls
<1>7. CASE token /\ Len(sample) < SampleLimit
  <2>1. /\ fetch' = [fetch EXCEPT !.attempt = 1, !.sample = sample, !.cursor = cursor]
        /\ cursor <= Len(feed)
    BY <1>1, <1>7
  <2>2. 1 \in 1 .. MaxAttempts
    BY FetchAssumption
  <2> HIDE DEF sample, cursor
  <2>3. /\ fetch' \in Fetch /\ fetch'.call = "uploads" /\ fetch'.subj = fetch.subj
        /\ fetch'.sample = sample /\ fetch'.cursor = cursor /\ fetch'.outcome = fetch.outcome
    BY <1>2, <1>4, <2>1, <2>2 DEF Fetch
  <2>4. FetchTypeOK'
    BY <1>2, <2>3 DEF FetchInv, FetchTypeOK
  <2>5. CallsFit' /\ OutcomesFit'
    BY <1>2, <2>3 DEF FetchInv, CallsFit, OutcomesFit
  <2>6. ~flawed => cursor <= Full
    BY <1>4, <1>5, <1>6, <1>7, <2>1, FetchAssumption DEF Full
  <2>7. Full' = Full /\ (flawed' <=> flawed)
    BY <1>2, <2>3 DEF Full, Limit
  <2>8. fetch'.outcome = "none"
    BY <1>2, <2>3 DEF FetchInv, OutcomesFit
  <2>9. SampleFits'
    BY <1>5, <2>3, <2>6, <2>7, <2>8 DEF SampleFits, Before, Listing, After, Analytics
  <2>10. QED
    BY <2>4, <2>5, <2>9 DEF FetchInv
<1>8. CASE ~(token /\ Len(sample) < SampleLimit)
  <2>1. /\ AfterUploads(sample, cursor) /\ cursor <= Len(feed) /\ Len(sample) <= SampleLimit
        /\ token \/ cursor = Len(feed)
    BY <1>1, <1>8
  <2> HIDE DEF sample, cursor
  <2>2. ~flawed => cursor = Full
    BY <1>4, <1>5, <1>6, <1>8, <2>1, FetchAssumption DEF Full
  <2>3. ~flawed' => sample = FirstOf(Full)
    BY <1>2, <1>5, <2>2
  <2>4. flawed' \in BOOLEAN
    BY <1>2
  <2>5. QED
    BY <1>2, <1>4, <2>1, <2>3, <2>4, AfterUploadsInv
<1>9. QED
  BY <1>7, <1>8

\* A page without videos leaves the list as it was.
LEMMA EmptyPageInv ==
  ASSUME FetchInv, EmptyPage
  PROVE  FetchInv'
<1>1. /\ fetch \in Fetch /\ 1 \in 1 .. MaxAttempts /\ gone' \in BOOLEAN
      /\ fetch.call = "uploads" /\ fetch' = [fetch EXCEPT !.attempt = 1, !.token = ~@]
      /\ UNCHANGED <<feed, flawed>>
  BY FetchAssumption DEF FetchInv, FetchTypeOK, EmptyPage
<1>2. fetch.call \in Calls /\ fetch.call \in YouTubeCalls
  BY <1>1 DEF Calls, GetJson, YouTubeCalls
<1>3. /\ fetch' \in Fetch /\ fetch'.call = fetch.call /\ fetch'.subj = fetch.subj
      /\ fetch'.sample = fetch.sample /\ fetch'.cursor = fetch.cursor
      /\ fetch'.outcome = fetch.outcome
  BY <1>1 DEF Fetch
<1>4. QED
  BY <1>1, <1>2, <1>3, GoesOn

LEMMA YouTubeSteps ==
  ASSUME FetchInv,
         \/ DetailsRead \/ DetailsRefused \/ Report
         \/ \E code \in Codes, body \in Bodies : UploadsRefused(code, body)
  PROVE  FetchInv'
<1>0. gone \in BOOLEAN /\ flawed \in BOOLEAN
  BY DEF FetchInv, FetchTypeOK
<1>1. CASE DetailsRead
  BY <1>1, AfterGoes DEF DetailsRead, After, Analytics, FacebookCalls
<1>2. CASE DetailsRefused
  BY <1>0, <1>2, EndsWithout DEF DetailsRefused, Calls, GetJson, YouTubeCalls
<1>3. CASE Report
  BY <1>3, AfterGoes DEF Report, After, Analytics, FacebookCalls
<1>4. ASSUME NEW code \in Codes, NEW body \in Bodies, UploadsRefused(code, body)
      PROVE  FetchInv'
  <2>1. fetch.call = "uploads" /\ fetch.call \in Calls /\ UNCHANGED <<feed, gone>>
    BY <1>4 DEF UploadsRefused, Calls, GetJson, YouTubeCalls
  <2>2. CASE AfterUploads(fetch.sample, fetch.cursor) /\ flawed' = TRUE
    <3>1. fetch.sample \in Seq(Nat) /\ fetch.cursor \in Nat
      BY FetchFields DEF FetchInv
    <3>2. QED
      BY <2>1, <2>2, <3>1, AfterUploadsInv
  <2>3. CASE End("permanent") /\ UNCHANGED flawed
    BY <1>0, <2>1, <2>3, EndsWithout
  <2>4. QED
    BY <1>4, <2>2, <2>3 DEF UploadsRefused
<1>5. QED
  BY <1>1, <1>2, <1>3, <1>4

-----------------------------------------------------------------------------
(* TikTok. *)

LEMMA UserSteps ==
  ASSUME FetchInv, UserRead \/ \E code \in Codes \cup {"429"} : UserRefused(code)
  PROVE  FetchInv'
<1>0. /\ gone \in BOOLEAN /\ flawed \in BOOLEAN /\ fetch \in Fetch
      /\ fetch.call = "user" /\ UNCHANGED <<feed, flawed>>
  BY DEF FetchInv, FetchTypeOK, UserRead, UserRefused
<1>1. fetch.call \in Calls \cap TikTokCalls
  BY <1>0 DEF Calls, TikTokCalls
<1>2. CASE UserRead
  <2>1. CASE End("not_found") /\ gone' = TRUE
    BY <1>0, <1>1, <2>1, EndsWithout
  <2>2. CASE fetch' = [fetch EXCEPT !.call = "list", !.named = TRUE] /\ UNCHANGED gone
    <3>1. /\ fetch' \in Fetch /\ fetch'.call = "list" /\ fetch'.subj = fetch.subj
          /\ fetch'.sample = fetch.sample /\ fetch'.cursor = fetch.cursor
          /\ fetch'.outcome = fetch.outcome
      BY <1>0, <2>2 DEF Fetch, Calls, TikTokCalls
    <3>2. fetch.sample = <<>> /\ fetch.cursor = 0 /\ ~flawed /\ fetch.outcome = "none"
      BY <1>0 DEF FetchInv, SampleFits, OutcomesFit, Before
    <3>3. FetchTypeOK'
      BY <1>0, <2>2, <3>1 DEF FetchInv, FetchTypeOK
    <3>4. CallsFit' /\ OutcomesFit'
      BY <1>0, <3>1, <3>2 DEF FetchInv, CallsFit, OutcomesFit, Calls, GetJson,
                              FacebookCalls, YouTubeCalls, TikTokCalls, Analytics
    <3>5. fetch'.sample = FirstOf(0) /\ 0 <= Full'
      BY <1>0, <3>1, <3>2, FirstOfSeq, FullNat DEF Full, Limit
    <3>6. SampleFits'
      BY <3>1, <3>2, <3>5 DEF SampleFits, Before, Listing, After, Analytics
    <3>7. QED
      BY <3>3, <3>4, <3>6 DEF FetchInv
  <2>3. QED
    BY <1>2, <2>1, <2>2 DEF UserRead
<1>3. ASSUME NEW code \in Codes \cup {"429"}, UserRefused(code)
      PROVE  FetchInv'
  <2>1. gone' = (code = "404") /\ gone' \in BOOLEAN
    BY <1>3 DEF UserRefused
  <2>2. CASE code = "404" /\ End("not_found")
    BY <1>0, <1>1, <2>1, <2>2, EndsWithout
  <2>3. CASE End("permanent")
    BY <1>0, <1>1, <2>1, <2>3, EndsWithout
  <2>4. QED
    BY <1>3, <2>2, <2>3 DEF UserRefused
<1>4. QED
  BY <1>2, <1>3

LEMMA ListPageInv ==
  ASSUME FetchInv, ListPage
  PROVE  FetchInv'
<1>1. PICK k \in 0 .. VideoPage :
        LET sample == fetch.sample \o [i \in 1 .. k |-> fetch.cursor + i]
            more == fetch.cursor + k < Len(feed)
        IN /\ fetch.cursor + k <= Len(feed)
           /\ IF k > 0 /\ Len(sample) < VideoLimit /\ more
              THEN \E stuck \in {FALSE, MayStick} :
                     /\ fetch' = [fetch EXCEPT !.sample = sample,
                                               !.cursor = IF stuck THEN @ ELSE @ + k]
                     /\ flawed' = (flawed \/ stuck)
              ELSE /\ fetch' = [fetch EXCEPT !.call = "end", !.outcome = "data",
                                  !.sample = SubSeq(sample, 1, IF Len(sample) < VideoLimit
                                                               THEN Len(sample) ELSE VideoLimit)]
                   /\ flawed' = (flawed \/ (k = 0 /\ more))
  BY DEF ListPage
<1> DEFINE sample == fetch.sample \o [i \in 1 .. k |-> fetch.cursor + i]
           cursor == fetch.cursor + k
           more == fetch.cursor + k < Len(feed)
           cut == IF Len(sample) < VideoLimit THEN Len(sample) ELSE VideoLimit
<1>2. /\ fetch.call = "list" /\ UNCHANGED <<feed, gone>>
      /\ gone \in BOOLEAN /\ flawed \in BOOLEAN /\ fetch \in Fetch
  BY DEF ListPage, FetchInv, FetchTypeOK
<1>3. k \in Nat /\ fetch.cursor \in Nat /\ fetch.sample \in Seq(Nat)
  BY FetchFields, FetchAssumption DEF FetchInv
<1>4. cursor \in Nat /\ sample \in Seq(Nat) /\ Len(sample) \in Nat
  BY <1>3, PageSeq, LenProperties
<1>5. ~flawed => sample = FirstOf(cursor) /\ Len(sample) = cursor
  <2>1. ~flawed => fetch.sample = FirstOf(fetch.cursor)
    BY <1>2 DEF FetchInv, SampleFits, Listing
  <2>2. FirstOf(fetch.cursor) \o [i \in 1 .. k |-> fetch.cursor + i] = FirstOf(cursor)
    BY <1>3, PagesJoin
  <2>3. Len(FirstOf(cursor)) = cursor
    BY <1>4, FirstOfSeq
  <2>4. QED
    BY <2>1, <2>2, <2>3
<1>6. /\ Limit = VideoLimit /\ Len(feed) \in Nat /\ VideoLimit \in Nat
      /\ cursor <= Len(feed) /\ fetch.outcome = "none"
  BY <1>1, <1>2, FetchFields, FetchAssumption DEF Limit, FetchInv, CallsFit, OutcomesFit,
     TikTokCalls
<1>7. CASE k > 0 /\ Len(sample) < VideoLimit /\ more
  <2>1. PICK stuck \in BOOLEAN :
          /\ fetch' = [fetch EXCEPT !.sample = sample,
                                    !.cursor = IF stuck THEN fetch.cursor ELSE cursor]
          /\ flawed' = (flawed \/ stuck)
    BY <1>1, <1>2, <1>7, FetchAssumption DEF Fetch
  <2>2. more => cursor < Len(feed)
    BY DEF cursor
  <2> HIDE DEF sample, cursor, more
  <2>3. (IF stuck THEN fetch.cursor ELSE cursor) \in Nat
    BY <1>3, <1>4
  <2>4. /\ fetch' \in Fetch /\ fetch'.call = "list" /\ fetch'.subj = fetch.subj
        /\ fetch'.sample = sample /\ (~stuck => fetch'.cursor = cursor)
        /\ fetch'.outcome = "none"
    BY <1>2, <1>4, <1>6, <2>1, <2>3 DEF Fetch
  <2>5. FetchTypeOK'
    BY <1>2, <2>1, <2>4 DEF FetchInv, FetchTypeOK
  <2>6. CallsFit' /\ OutcomesFit'
    BY <1>2, <2>4 DEF FetchInv, CallsFit, OutcomesFit
  <2>7. ~flawed => cursor <= Full
    BY <1>4, <1>5, <1>6, <1>7, <2>2 DEF Full
  <2>8. Full' = Full /\ (~flawed' => ~flawed /\ ~stuck)
    BY <1>2, <2>1, <2>4 DEF Full, Limit
  <2>9. SampleFits'
    BY <1>5, <2>4, <2>7, <2>8 DEF SampleFits, Before, Listing, After, Analytics
  <2>10. QED
    BY <2>5, <2>6, <2>9 DEF FetchInv
<1>8. CASE ~(k > 0 /\ Len(sample) < VideoLimit /\ more)
  <2>1. /\ fetch' = [fetch EXCEPT !.call = "end", !.outcome = "data",
                                  !.sample = SubSeq(sample, 1, cut)]
        /\ flawed' = (flawed \/ (k = 0 /\ more))
    BY <1>1, <1>8
  <2>2. cut \in Nat /\ cut <= Len(sample)
    BY <1>4, <1>6
  <2>3. SubSeq(sample, 1, cut) \in Seq(Nat)
    <3> HIDE DEF sample, cut
    <3>1. \A i \in 1 .. cut : sample[i] \in Nat
      BY <1>4, <2>2, ElementOfSeq
    <3>2. QED
      BY <2>2, <3>1, SubSeqProperties
  <2>4. ~flawed' => ~flawed /\ ~(k = 0 /\ more)
    BY <2>1
  <2>5. ~(k = 0 /\ more) => ~more \/ ~(Len(sample) < VideoLimit)
    BY <1>3, <1>8
  <2>6. ~more => ~(cursor < Len(feed))
    OBVIOUS
  <2> HIDE DEF sample, cursor, more
  <2>7. ~flawed' => cut = Full
    BY <1>4, <1>5, <1>6, <2>4, <2>5, <2>6 DEF Full
  <2>8. ~flawed' => SubSeq(sample, 1, cut) = FirstOf(Full)
    BY <1>4, <1>5, <2>2, <2>4, <2>7, FirstOfCut
  <2> HIDE DEF cut
  <2>9. /\ fetch' \in Fetch /\ fetch'.subj = fetch.subj /\ fetch'.call = "end"
        /\ fetch'.outcome = "data" /\ fetch'.sample = SubSeq(sample, 1, cut)
    BY <1>2, <2>1, <2>3 DEF Fetch, Outcomes
  <2>10. fetch.call \in Calls /\ flawed' \in BOOLEAN
    BY <1>2, <2>1 DEF Calls, TikTokCalls
  <2>11. QED
    BY <1>2, <2>8, <2>9, <2>10, Sampled
<1>9. QED
  BY <1>7, <1>8

LEMMA ListRefusedInv ==
  ASSUME FetchInv, ListRefused
  PROVE  FetchInv'
<1>1. /\ fetch.call \in Calls /\ End("data") /\ "data" \in Outcomes
      /\ UNCHANGED <<feed, gone>> /\ flawed' = TRUE
  BY DEF ListRefused, Calls, TikTokCalls, Outcomes
<1>2. QED
  BY <1>1, EndFields, Sampled

-----------------------------------------------------------------------------
(* An execution. *)

LEMMA ExchangeInv ==
  ASSUME FetchInv, Exchange
  PROVE  FetchInv'
<1>1. ASSUME NEW code \in Codes, NEW body \in Bodies,
             \/ PageRefused(code, body) \/ PostsRefused(code, body)
             \/ InsightRefused(code, body) \/ MediaRefused(code, body)
             \/ ChannelRefused(code, body) \/ UploadsRefused(code, body)
      PROVE  FetchInv'
  BY <1>1, FacebookRefusals, ChannelSteps, YouTubeSteps
<1>2. QED
  BY <1>1, GetJsonSteps, FacebookReads, ChannelSteps, UploadsPageInv, EmptyPageInv, YouTubeSteps,
     UserSteps, ListPageInv, ListRefusedInv DEF Exchange

\* An exchange is of the execution under way, and does not close it.
LEMMA ExchangeFrame ==
  ASSUME FetchInv, Exchange
  PROVE  fetch.call \in Calls /\ fetch'.subj = fetch.subj /\ fetch'.call # "idle"
<1> DEFINE Fine == fetch'.subj = fetch.subj /\ fetch'.call # "idle"
<1>0. fetch \in Fetch
  BY DEF FetchInv, FetchTypeOK
<1>1. fetch.call \in Calls
  BY DEF Exchange, Busy, Garbled, PageRead, PostsRead, InsightRead, MediaRead, ChannelRead,
     UploadsPage, EmptyPage, DetailsRead, DetailsRefused, Report, UserRead, ListPage, ListRefused,
     UserRefused, PageRefused, PostsRefused, InsightRefused, MediaRefused, ChannelRefused,
     UploadsRefused, Calls, GetJson, FacebookCalls, YouTubeCalls, TikTokCalls, Analytics
<1>2. \A c : c # "idle" /\ Go(c) => Fine
  BY <1>0 DEF Go, Fetch
<1>3. \A o : End(o) => Fine
  BY <1>0 DEF End, Fetch
<1>4. \A s, c : AfterUploads(s, c) => Fine
  BY <1>0 DEF AfterUploads, Fetch
<1>5. Busy \/ Garbled => Fine
  BY <1>0, <1>3 DEF Busy, Garbled, Fetch, GetJson, FacebookCalls, YouTubeCalls
<1>6. NextMetric => Fine
  <2>1. fetch.call # "idle"
    BY <1>1 DEF Calls, GetJson, FacebookCalls, YouTubeCalls, TikTokCalls, Analytics
  <2>2. CASE fetch' = [fetch EXCEPT !.attempt = 1, !.metric = @ + 1]
    BY <1>0, <2>1, <2>2 DEF Fetch
  <2>3. QED
    BY <1>2, <2>2 DEF NextMetric
<1>7. NextMedia => Fine
  BY <1>2, <1>3 DEF NextMedia
<1>8. PageRead \/ PostsRead \/ InsightRead \/ MediaRead => Fine
  BY <1>0, <1>6, <1>7 DEF PageRead, PostsRead, InsightRead, MediaRead, Fetch
<1>9. ChannelRead \/ DetailsRead \/ DetailsRefused \/ Report => Fine
  BY <1>0, <1>2, <1>3 DEF ChannelRead, DetailsRead, DetailsRefused, Report, Fetch
<1>10. UploadsPage \/ EmptyPage => Fine
  BY <1>0, <1>4 DEF UploadsPage, EmptyPage, Fetch
<1>11. UserRead \/ ListPage \/ ListRefused => Fine
  BY <1>0, <1>3 DEF UserRead, ListPage, ListRefused, Fetch
<1>12. \A code \in Codes \cup {"429"} : UserRefused(code) => Fine
  BY <1>3 DEF UserRefused
<1>13. ASSUME NEW code \in Codes, NEW body \in Bodies,
              \/ PageRefused(code, body) \/ PostsRefused(code, body)
              \/ InsightRefused(code, body) \/ MediaRefused(code, body)
              \/ ChannelRefused(code, body) \/ UploadsRefused(code, body)
       PROVE  Fine
  <2> HIDE DEF Fine
  <2>1. PageRefused(code, body) \/ PostsRefused(code, body) => Fine
    BY <1>2, <1>3 DEF PageRefused, PostsRefused
  <2>2. InsightRefused(code, body) \/ MediaRefused(code, body) => Fine
    BY <1>2, <1>3, <1>6, <1>7 DEF InsightRefused, MediaRefused
  <2>3. ChannelRefused(code, body) \/ UploadsRefused(code, body) => Fine
    BY <1>3, <1>4 DEF ChannelRefused, UploadsRefused
  <2>4. QED
    BY <1>13, <2>1, <2>2, <2>3
<1>14. QED
  BY <1>1, <1>5, <1>8, <1>9, <1>10, <1>11, <1>12, <1>13 DEF Exchange

\* No execution is under way before the first and after each.
LEMMA IdleInv ==
  ASSUME fetch = Idle, feed = <<>>, gone = FALSE, flawed = FALSE
  PROVE  FetchInv
<1>1. 1 \in 1 .. MaxAttempts /\ <<>> \in Seq(Nat)
  BY FetchAssumption, EmptySeq
<1>2. FetchTypeOK
  BY <1>1 DEF FetchTypeOK, Fetch, Idle, Outcomes
<1>3. QED
  BY <1>2 DEF FetchInv, Idle, CallsFit, OutcomesFit, SampleFits, Before,
     Listing, After, FacebookCalls, YouTubeCalls, TikTokCalls, Analytics

LEMMA OpenInv ==
  ASSUME NEW s \in Subjects, NEW token \in BOOLEAN, Open(s, token)
  PROVE  /\ FetchInv' /\ fetch'.subj = s /\ fetch'.call # "idle"
         /\ fetch'.call = "end" => fetch'.outcome # "data"
<1>1. 1 \in 1 .. MaxAttempts /\ <<>> \in Seq(Nat) /\ PlatformOf[s] \in Platforms
  BY FetchAssumption, EmptySeq
<1>2. FirstCall(PlatformOf[s]) \in Calls \cap Before
  BY <1>1 DEF FirstCall, Platforms, Calls, GetJson, FacebookCalls, YouTubeCalls, TikTokCalls,
     Before
<1>3. /\ fetch'.subj = s /\ fetch'.sample = <<>> /\ fetch'.cursor = 0
      /\ fetch'.call = IF token THEN FirstCall(PlatformOf[s]) ELSE "end"
      /\ fetch'.outcome = IF token THEN "none"
                          ELSE IF PlatformOf[s] = "tiktok" THEN "no_credentials" ELSE "permanent"
  BY DEF Open, Idle
<1>4. FetchTypeOK'
  BY <1>1, <1>2 DEF Open, Idle, FetchTypeOK, Fetch, Outcomes
<1>5. CallsFit'
  BY <1>1, <1>3 DEF CallsFit, FirstCall, Platforms, FacebookCalls, YouTubeCalls, TikTokCalls,
     Analytics
<1>6. OutcomesFit'
  BY <1>2, <1>3 DEF OutcomesFit, Calls, Before
<1>7. SampleFits'
  BY <1>2, <1>3 DEF SampleFits, Open, Before, Listing, After, Analytics
<1>8. QED
  BY <1>2, <1>3, <1>4, <1>5, <1>6, <1>7 DEF FetchInv, Before

LEMMA CloseInv ==
  ASSUME Close
  PROVE  FetchInv' /\ fetch'.call = "idle"
<1>1. fetch' = Idle /\ feed' = <<>> /\ gone' = FALSE /\ flawed' = FALSE
  BY DEF Close
<1>2. 1 \in 1 .. MaxAttempts /\ <<>> \in Seq(Nat)
  BY FetchAssumption, EmptySeq
<1>3. FetchTypeOK'
  BY <1>1, <1>2 DEF FetchTypeOK, Fetch, Idle, Outcomes
<1>4. QED
  BY <1>1, <1>3 DEF FetchInv, Idle, CallsFit, OutcomesFit, SampleFits, Before,
     Listing, After, FacebookCalls, YouTubeCalls, TikTokCalls, Analytics

-----------------------------------------------------------------------------
(* What an execution ends with. *)

LEMMA NewestSeq ==
  ASSUME FetchInv
  PROVE  /\ Newest \in Seq(Int) /\ Len(Newest) = Full
         /\ \A i \in 1 .. Full : Newest[i] = feed[i]
<1>1. Full \in Nat /\ Full <= Len(feed) /\ feed \in Seq(Int) /\ Len(feed) \in Nat
  BY FullNat, FetchFields DEF FetchInv
<1>2. Newest = SubSeq(feed, 1, Full)
  BY DEF Newest, Full
<1>3. \A i \in 1 .. Full : feed[i] \in Int
  BY <1>1, ElementOfSeq
<1>4. QED
  BY <1>1, <1>2, <1>3, SubSeqProperties

LEMMA SampleInv ==
  ASSUME FetchInv
  PROVE  SampleFaithful
<1>1. DOMAIN Newest = 1 .. Full
  BY NewestSeq, LenProperties
<1>2. FirstOf(Full) = [i \in DOMAIN Newest |-> i]
  BY <1>1 DEF FirstOf
<1>3. QED
  BY <1>2 DEF FetchInv, SampleFits, SampleFaithful

\* A faithful sample has the ages of the newest posts.
LEMMA AgesOfNewest ==
  ASSUME FetchInv, fetch.sample = FirstOf(Full)
  PROVE  Ages = Newest
<1>1. Full \in Nat /\ DOMAIN Newest = 1 .. Full /\ \A i \in 1 .. Full : Newest[i] = feed[i]
  BY FullNat, NewestSeq, LenProperties
<1>2. Ages = [i \in 1 .. Full |-> feed[i]]
  BY DEF Ages, FirstOf
<1>3. Newest = [i \in DOMAIN Newest |-> Newest[i]]
  BY NewestSeq, SeqDef
<1>4. QED
  BY <1>1, <1>2, <1>3

LEMMA NoRecentPosts ==
  ASSUME NEW ages \in Seq(Int)
  PROVE  /\ ActivityFrequency(ages) = 0 => RecentPosts(ages) = {}
         /\ Len(ages) = 0 => RecentPosts(ages) = {}
<1>1. IsFiniteSet(1 .. Len(ages)) /\ Len(ages) \in Nat /\ DOMAIN ages = 1 .. Len(ages)
  BY LenProperties, FS_Interval
<1>2. RecentPosts(ages) \subseteq 1 .. Len(ages)
  BY <1>1 DEF RecentPosts
<1>3. IsFiniteSet(RecentPosts(ages))
  BY <1>1, <1>2, FS_Subset
<1>4. QED
  BY <1>1, <1>2, <1>3, FS_EmptySet DEF ActivityFrequency

LEMMA InactiveInv ==
  ASSUME FetchInv
  PROVE  InactiveForCause
<1> SUFFICES ASSUME fetch.outcome = "data", Result.status = "inactive", ~flawed
             PROVE  RecentPosts(Newest) = {}
  BY DEF InactiveForCause
<1>1. fetch.sample = FirstOf(Full)
  BY DEF FetchInv, SampleFits
<1>2. Ages = Newest /\ Newest \in Seq(Int) /\ Len(Newest) \in Nat /\ Len(feed) \in Nat
  BY <1>1, AgesOfNewest, NewestSeq, LenProperties, FetchFields DEF FetchInv
<1> DEFINE platform == PlatformOf[fetch.subj]
           posts == PostCount(platform, Len(feed), Newest)
           frequency == ActivityFrequency(Newest)
<1>3. StatusOf(platform, fetch.followers, posts, frequency) = "inactive"
  BY <1>2 DEF Result
<1>4. posts = 0 \/ frequency = 0
  BY <1>3 DEF StatusOf
<1>5. posts = 0 => Len(Newest) = 0
  BY <1>2 DEF PostCount
<1>6. QED
  BY <1>2, <1>4, <1>5, NoRecentPosts

-----------------------------------------------------------------------------
(* Every exchange brings the end of its execution nearer. *)

\* There are insights left to ask for, and room for a page of a list.
Unfinished(f) ==
  /\ f.metric < Metrics
  /\ f.call = "uploads" => Len(f.sample) < SampleLimit
  /\ f.call = "list" => Len(f.sample) < VideoLimit

LEMMA CallsLeftValues ==
  ASSUME NEW f
  PROVE  LET tries == MaxAttempts - f.attempt + 1 IN
         /\ f.call = "page" => CallsLeft(f) = tries + MaxAttempts * (Metrics + 4)
         /\ f.call = "page_min" => CallsLeft(f) = tries + MaxAttempts * (Metrics + 3)
         /\ f.call = "posts" => CallsLeft(f) = tries + MaxAttempts * (Metrics + 2)
         /\ f.call = "insights" => CallsLeft(f) = tries + MaxAttempts * (Metrics - f.metric + 1)
         /\ f.call = "photos" => CallsLeft(f) = tries + MaxAttempts
         /\ f.call = "videos" => CallsLeft(f) = tries
         /\ f.call = "channel" => CallsLeft(f) = tries + MaxAttempts * (SampleLimit + 1) + 2
         /\ f.call = "uploads" =>
              CallsLeft(f) = tries + MaxAttempts * (SampleLimit - Len(f.sample)) + 2
         /\ f.call = "details" => CallsLeft(f) = tries + 2
         /\ f.call = "report" => CallsLeft(f) = 2
         /\ f.call = "report_again" => CallsLeft(f) = 1
         /\ f.call = "user" => CallsLeft(f) = 1 + VideoLimit
         /\ f.call = "list" => CallsLeft(f) = VideoLimit - Len(f.sample)
BY DEF CallsLeft

\* An execution that makes a call has one left, and no more than MostCalls.
LEMMA CallsLeftRange ==
  ASSUME NEW f \in Fetch, f.call \in Calls, Unfinished(f)
  PROVE  CallsLeft(f) \in 1 .. MostCalls
<1> DEFINE tries == MaxAttempts - f.attempt + 1
<1>1. /\ MaxAttempts \in Nat \ {0} /\ Metrics \in Nat \ {0}
      /\ SampleLimit \in Nat \ {0} /\ VideoLimit \in Nat \ {0}
  BY FetchAssumption
<1>2. tries \in 1 .. MaxAttempts /\ f.metric \in Nat /\ f.metric < Metrics
  BY <1>1 DEF Fetch, Unfinished
<1>3. f.sample \in Seq(Nat) /\ Len(f.sample) \in Nat
  BY LenProperties DEF Fetch
<1>4. MostCalls = MaxAttempts * (Metrics + SampleLimit + 5) + VideoLimit + 2
  BY DEF MostCalls
<1>0. MostCalls \in Nat
  BY <1>1, <1>4
<1> DEFINE within(others) == tries + MaxAttempts * others
<1>5. ASSUME NEW others \in Nat, others <= Metrics + SampleLimit + 4
      PROVE  within(others) \in Int /\ within(others) >= 1 /\ within(others) + 2 <= MostCalls
  <2>1. MaxAttempts * others <= MaxAttempts * (Metrics + SampleLimit + 4)
    BY <1>1, <1>5
  <2>2. MaxAttempts * others >= 0
    BY <1>1
  <2>3. MaxAttempts * (Metrics + SampleLimit + 5)
          = MaxAttempts * (Metrics + SampleLimit + 4) + MaxAttempts
    BY <1>1
  <2>4. QED
    <3> DEFINE a == MaxAttempts * others
               b == MaxAttempts * (Metrics + SampleLimit + 4)
               c == MaxAttempts * (Metrics + SampleLimit + 5)
    <3>1. a \in Int /\ b \in Int /\ c \in Int
      BY <1>1
    <3> HIDE DEF a, b, c, tries
    <3>2. a <= b /\ a >= 0 /\ c = b + MaxAttempts /\ MostCalls = c + VideoLimit + 2
      BY <1>4, <2>1, <2>2, <2>3 DEF a, b, c
    <3>3. tries + a \in Int /\ tries + a >= 1 /\ (tries + a) + 2 <= MostCalls
      BY <1>1, <1>2, <3>1, <3>2
    <3>4. QED
      BY <3>3 DEF a
<1>6. CASE f.call \in FacebookCalls
  <2>1. CASE f.call = "page"
    <3>1. Metrics + 4 \in Nat /\ Metrics + 4 <= Metrics + SampleLimit + 4
      BY <1>1
    <3>2. CallsLeft(f) = within(Metrics + 4)
      BY <2>1, CallsLeftValues
    <3> HIDE DEF within
    <3>3. QED
      BY <1>0, <1>5, <3>1, <3>2
  <2>2. CASE f.call = "page_min"
    <3>1. Metrics + 3 \in Nat /\ Metrics + 3 <= Metrics + SampleLimit + 4
      BY <1>1
    <3>2. CallsLeft(f) = within(Metrics + 3)
      BY <2>2, CallsLeftValues
    <3> HIDE DEF within
    <3>3. QED
      BY <1>0, <1>5, <3>1, <3>2
  <2>3. CASE f.call = "posts"
    <3>1. Metrics + 2 \in Nat /\ Metrics + 2 <= Metrics + SampleLimit + 4
      BY <1>1
    <3>2. CallsLeft(f) = within(Metrics + 2)
      BY <2>3, CallsLeftValues
    <3> HIDE DEF within
    <3>3. QED
      BY <1>0, <1>5, <3>1, <3>2
  <2>4. CASE f.call = "insights"
    <3>1. Metrics - f.metric + 1 \in Nat /\ Metrics - f.metric + 1 <= Metrics + SampleLimit + 4
      BY <1>1, <1>2
    <3>2. CallsLeft(f) = within(Metrics - f.metric + 1)
      BY <2>4, CallsLeftValues
    <3> HIDE DEF within
    <3>3. QED
      BY <1>0, <1>5, <3>1, <3>2
  <2>5. CASE f.call = "photos"
    <3>1. 1 \in Nat /\ 1 <= Metrics + SampleLimit + 4
      BY <1>1
    <3>2. CallsLeft(f) = within(1)
      BY <1>1, <2>5, CallsLeftValues
    <3> HIDE DEF within
    <3>3. QED
      BY <1>0, <1>5, <3>1, <3>2
  <2>6. CASE f.call = "videos"
    <3>1. 0 \in Nat /\ 0 <= Metrics + SampleLimit + 4
      BY <1>1
    <3>2. CallsLeft(f) = within(0)
      BY <1>1, <1>2, <2>6, CallsLeftValues
    <3> HIDE DEF within
    <3>3. QED
      BY <1>0, <1>5, <3>1, <3>2
  <2>7. QED
    BY <1>6, <2>1, <2>2, <2>3, <2>4, <2>5, <2>6 DEF FacebookCalls
<1>7. CASE f.call \in YouTubeCalls
  <2>1. CASE f.call = "channel"
    <3>1. SampleLimit + 1 \in Nat /\ SampleLimit + 1 <= Metrics + SampleLimit + 4
      BY <1>1
    <3>2. CallsLeft(f) = within(SampleLimit + 1) + 2
      BY <2>1, CallsLeftValues
    <3> HIDE DEF within
    <3>3. QED
      BY <1>0, <1>5, <3>1, <3>2
  <2>2. CASE f.call = "uploads"
    <3>0. Len(f.sample) < SampleLimit
      BY <2>2 DEF Unfinished
    <3>1. /\ SampleLimit - Len(f.sample) \in Nat
          /\ SampleLimit - Len(f.sample) <= Metrics + SampleLimit + 4
      <4> DEFINE len == Len(f.sample)
      <4>1. len \in Nat /\ len < SampleLimit
        BY <1>3, <3>0
      <4> HIDE DEF len
      <4>2. SampleLimit - len \in Nat /\ SampleLimit - len <= Metrics + SampleLimit + 4
        BY <1>1, <4>1
      <4>3. QED
        BY <4>2 DEF len
    <3>2. CallsLeft(f) = within(SampleLimit - Len(f.sample)) + 2
      BY <2>2, CallsLeftValues
    <3> HIDE DEF within
    <3>3. QED
      BY <1>0, <1>5, <3>1, <3>2
  <2>3. CASE f.call = "details"
    <3>1. 0 \in Nat /\ 0 <= Metrics + SampleLimit + 4
      BY <1>1
    <3>2. CallsLeft(f) = within(0) + 2
      BY <1>1, <1>2, <2>3, CallsLeftValues
    <3> HIDE DEF within
    <3>3. QED
      BY <1>0, <1>5, <3>1, <3>2
  <2>4. QED
    BY <1>7, <2>1, <2>2, <2>3 DEF YouTubeCalls
<1>8. CASE f.call \in TikTokCalls \cup Analytics
  <2>1. MaxAttempts * (Metrics + SampleLimit + 5) \in Nat
    BY <1>1
  <2>2. CallsLeft(f) \in 1 .. VideoLimit + 2
    <3>1. CASE f.call = "user"
      BY <1>1, <3>1, CallsLeftValues
    <3>2. CASE f.call = "list"
      BY <1>1, <1>3, <3>2, CallsLeftValues DEF Unfinished
    <3>3. CASE f.call = "report"
      BY <1>1, <3>3, CallsLeftValues
    <3>4. CASE f.call = "report_again"
      BY <1>1, <3>4, CallsLeftValues
    <3>5. QED
      BY <1>8, <3>1, <3>2, <3>3, <3>4 DEF TikTokCalls, Analytics
  <2>3. QED
    BY <1>1, <1>4, <2>1, <2>2
<1>9. QED
  BY <1>6, <1>7, <1>8 DEF Calls, GetJson

\* The execution has ended, or goes on with fewer exchanges.
Nearer ==
  /\ Unfinished(fetch')
  /\ \/ fetch'.call = "end"
     \/ fetch'.call \in Calls /\ CallsLeft(fetch') < CallsLeft(fetch)

\* The calls that may come after one, the same again left out.
Later(call) ==
  CASE call = "page" -> {"page_min", "posts"}
    [] call = "page_min" -> {"posts"}
    [] call = "posts" -> {"insights"}
    [] call = "insights" -> {"photos"}
    [] call = "photos" -> {"videos"}
    [] call = "channel" -> {"uploads"}
    [] call = "uploads" -> {"details", "report"}
    [] call = "details" -> {"report"}
    [] call = "report" -> {"report_again"}
    [] OTHER -> {}

LEMMA LaterNearer ==
  ASSUME FetchInv, Unfinished(fetch), fetch' \in Fetch, fetch'.attempt = 1,
         fetch'.metric = fetch.metric, fetch'.call \in Later(fetch.call),
         fetch'.call = "uploads" => fetch'.sample = <<>>
  PROVE  Nearer
<1> DEFINE M == MaxAttempts
           tries == M - fetch.attempt + 1
<1>1. /\ M \in Nat \ {0} /\ Metrics \in Nat \ {0}
      /\ SampleLimit \in Nat \ {0} /\ VideoLimit \in Nat \ {0}
  BY FetchAssumption
<1>2. tries \in 1 .. M /\ fetch.metric \in Nat /\ fetch.metric < Metrics
  BY <1>1, FetchFields DEF FetchInv, Unfinished
<1>3. Unfinished(fetch')
  <2>1. Len(<<>>) = 0
    OBVIOUS
  <2>2. fetch'.call # "list"
    BY DEF Later
  <2>3. QED
    BY <1>1, <1>2, <2>1, <2>2 DEF Unfinished
<1>4. M - fetch'.attempt + 1 = M
  BY <1>1
<1> HIDE DEF tries, M
<1>5. /\ M * (Metrics + 4) = M * (Metrics + 3) + M /\ M * (Metrics + 3) = M * (Metrics + 2) + M
      /\ M * (Metrics + 2) \in Int /\ M * (Metrics + 3) \in Int /\ M * (Metrics + 4) \in Int
  BY <1>1
<1>6. CASE fetch.call = "page"
  <2>1. CallsLeft(fetch) = tries + M * (Metrics + 4)
    BY <1>6, CallsLeftValues DEF tries, M
  <2>2. fetch'.call \in {"page_min", "posts"}
    BY <1>6 DEF Later
  <2>3. fetch'.call = "page_min" => CallsLeft(fetch') = M + M * (Metrics + 3)
    BY <1>4, CallsLeftValues DEF M
  <2>4. fetch'.call = "posts" => CallsLeft(fetch') = M + M * (Metrics + 2)
    BY <1>4, CallsLeftValues DEF M
  <2>5. CallsLeft(fetch') < CallsLeft(fetch)
    BY <1>1, <1>2, <1>5, <2>1, <2>2, <2>3, <2>4
  <2>6. QED
    BY <1>3, <2>2, <2>5 DEF Nearer, Calls, GetJson, FacebookCalls
<1>7. CASE fetch.call = "page_min"
  <2>1. CallsLeft(fetch) = tries + M * (Metrics + 3)
    BY <1>7, CallsLeftValues DEF tries, M
  <2>2. fetch'.call = "posts"
    BY <1>7 DEF Later
  <2>3. CallsLeft(fetch') = M + M * (Metrics + 2)
    BY <1>4, <2>2, CallsLeftValues DEF M
  <2>4. CallsLeft(fetch') < CallsLeft(fetch)
    BY <1>1, <1>2, <1>5, <2>1, <2>3
  <2>5. QED
    BY <1>3, <2>2, <2>4 DEF Nearer, Calls, GetJson, FacebookCalls
<1>8. CASE fetch.call = "posts"
  <2>1. CallsLeft(fetch) = tries + M * (Metrics + 2)
    BY <1>8, CallsLeftValues DEF tries, M
  <2>2. fetch'.call = "insights"
    BY <1>8 DEF Later
  <2>3. CallsLeft(fetch') = M + M * (Metrics - fetch.metric + 1)
    BY <1>4, <2>2, CallsLeftValues DEF M
  <2>4. /\ M * (Metrics - fetch.metric + 1) <= M * (Metrics + 1)
        /\ M * (Metrics - fetch.metric + 1) \in Int
        /\ M * (Metrics + 2) = M * (Metrics + 1) + M
        /\ M * (Metrics + 1) \in Int
    BY <1>1, <1>2
  <2>5. CallsLeft(fetch') < CallsLeft(fetch)
    BY <1>1, <1>2, <2>1, <2>3, <2>4
  <2>6. QED
    BY <1>3, <2>2, <2>5 DEF Nearer, Calls, GetJson, FacebookCalls
<1>9. CASE fetch.call = "insights"
  <2>1. CallsLeft(fetch) = tries + M * (Metrics - fetch.metric + 1)
    BY <1>9, CallsLeftValues DEF tries, M
  <2>2. fetch'.call = "photos"
    BY <1>9 DEF Later
  <2>3. CallsLeft(fetch') = M + M
    BY <1>4, <2>2, CallsLeftValues DEF M
  <2>4. /\ M * (Metrics - fetch.metric + 1) >= M + M
        /\ M * (Metrics - fetch.metric + 1) \in Int
    <3>1. Metrics - fetch.metric - 1 \in Nat
      BY <1>1, <1>2
    <3>2. M * (Metrics - fetch.metric - 1) >= 0
      BY <1>1, <3>1
    <3>3. M * (Metrics - fetch.metric + 1) = M * (Metrics - fetch.metric - 1) + (M + M)
      BY <1>1, <1>2
    <3>4. QED
      BY <1>1, <1>2, <3>1, <3>2, <3>3
  <2>5. CallsLeft(fetch') < CallsLeft(fetch)
    BY <1>1, <1>2, <2>1, <2>3, <2>4
  <2>6. QED
    BY <1>3, <2>2, <2>5 DEF Nearer, Calls, GetJson, FacebookCalls
<1>10. CASE fetch.call = "photos"
  <2>1. CallsLeft(fetch) = tries + M
    BY <1>10, CallsLeftValues DEF tries, M
  <2>2. fetch'.call = "videos"
    BY <1>10 DEF Later
  <2>3. CallsLeft(fetch') = M
    BY <1>4, <2>2, CallsLeftValues DEF M
  <2>4. CallsLeft(fetch') < CallsLeft(fetch)
    BY <1>1, <1>2, <2>1, <2>3
  <2>5. QED
    BY <1>3, <2>2, <2>4 DEF Nearer, Calls, GetJson, FacebookCalls
<1>11. CASE fetch.call = "channel"
  <2>1. CallsLeft(fetch) = tries + M * (SampleLimit + 1) + 2
    BY <1>11, CallsLeftValues DEF tries, M
  <2>2. fetch'.call = "uploads" /\ Len(fetch'.sample) = 0
    BY <1>11 DEF Later
  <2>3. CallsLeft(fetch') = M + M * SampleLimit + 2
    BY <1>1, <1>4, <2>2, CallsLeftValues DEF M
  <2>4. /\ M * (SampleLimit + 1) = M * SampleLimit + M
        /\ M * SampleLimit \in Int
    BY <1>1
  <2>5. CallsLeft(fetch') < CallsLeft(fetch)
    BY <1>1, <1>2, <2>1, <2>3, <2>4
  <2>6. QED
    BY <1>3, <2>2, <2>5 DEF Nearer, Calls, GetJson, YouTubeCalls
<1>12. CASE fetch.call = "uploads"
  <2>1. CallsLeft(fetch) = tries + M * (SampleLimit - Len(fetch.sample)) + 2
    BY <1>12, CallsLeftValues DEF tries, M
  <2>2. fetch'.call \in {"details", "report"}
    BY <1>12 DEF Later
  <2>3. /\ fetch'.call = "details" => CallsLeft(fetch') = M + 2
        /\ fetch'.call = "report" => CallsLeft(fetch') = 2
    BY <1>4, CallsLeftValues DEF M
  <2>4. SampleLimit - Len(fetch.sample) \in Nat \ {0}
    <3>1. Len(fetch.sample) \in Nat /\ Len(fetch.sample) < SampleLimit
      BY <1>12, FetchFields, LenProperties DEF FetchInv, Unfinished
    <3>2. QED
      BY <1>1, <3>1
  <2>5. /\ M * (SampleLimit - Len(fetch.sample)) >= M
        /\ M * (SampleLimit - Len(fetch.sample)) \in Int
    <3> DEFINE room == SampleLimit - Len(fetch.sample)
    <3> HIDE DEF room
    <3>1. room \in Nat \ {0}
      BY <2>4 DEF room
    <3>2. M * room >= M /\ M * room \in Int
      BY <1>1, <3>1
    <3>3. QED
      BY <3>2 DEF room
  <2>6. CallsLeft(fetch') < CallsLeft(fetch)
    BY <1>1, <1>2, <2>1, <2>2, <2>3, <2>5
  <2>7. QED
    BY <1>3, <2>2, <2>6 DEF Nearer, Calls, GetJson, YouTubeCalls, Analytics
<1>13. CASE fetch.call \in {"details", "report"}
  <2>1. /\ fetch.call = "details" => CallsLeft(fetch) = tries + 2
        /\ fetch.call = "report" => CallsLeft(fetch) = 2
    BY CallsLeftValues DEF tries, M
  <2>2. /\ fetch.call = "details" => fetch'.call = "report"
        /\ fetch.call = "report" => fetch'.call = "report_again"
    BY <1>13 DEF Later
  <2>3. /\ fetch'.call = "report" => CallsLeft(fetch') = 2
        /\ fetch'.call = "report_again" => CallsLeft(fetch') = 1
    BY CallsLeftValues
  <2>4. CallsLeft(fetch') < CallsLeft(fetch)
    BY <1>1, <1>2, <1>13, <2>1, <2>2, <2>3
  <2>5. QED
    BY <1>3, <1>13, <2>2, <2>4 DEF Nearer, Calls, Analytics
<1>14. QED
  BY <1>6, <1>7, <1>8, <1>9, <1>10, <1>11, <1>12, <1>13 DEF Later

LEMMA GoNearer ==
  ASSUME FetchInv, Unfinished(fetch), NEW c \in Calls \ {"uploads", "list"},
         Go(c), c \in Later(fetch.call)
  PROVE  Nearer
<1>1. fetch' \in Fetch /\ fetch'.call = c
  BY GoFields
<1>2. fetch'.attempt = 1 /\ fetch'.metric = fetch.metric
  BY DEF FetchInv, FetchTypeOK, Fetch, Go
<1>3. QED
  BY <1>1, <1>2, LaterNearer

LEMMA EndNearer ==
  ASSUME FetchInv, Unfinished(fetch), NEW o \in Outcomes, End(o)
  PROVE  Nearer
<1>1. fetch'.call = "end"
  BY EndFields
<1>2. fetch'.metric = fetch.metric
  BY DEF FetchInv, FetchTypeOK, Fetch, End
<1>3. QED
  BY <1>1, <1>2 DEF Nearer, Unfinished

\* Another attempt of the same call.
LEMMA BusyNearer ==
  ASSUME FetchInv, Unfinished(fetch), Busy
  PROVE  Nearer
<1>1. CASE End("transient")
  BY <1>1, EndNearer DEF Outcomes
<1>2. CASE fetch.attempt < MaxAttempts /\ fetch' = [fetch EXCEPT !.attempt = @ + 1]
  <2>1. /\ fetch'.call = fetch.call /\ fetch'.sample = fetch.sample
        /\ fetch'.metric = fetch.metric /\ fetch'.attempt = fetch.attempt + 1
    BY <1>2 DEF FetchInv, FetchTypeOK, Fetch
  <2>2. fetch.call \in GetJson
    BY DEF Busy
  <2> DEFINE tries == MaxAttempts - fetch.attempt + 1
  <2>3. MaxAttempts \in Nat /\ fetch.attempt \in Nat
    BY FetchAssumption, FetchFields DEF FetchInv
  <2>4. MaxAttempts - fetch'.attempt + 1 = tries - 1
    BY <2>1, <2>3
  <2>5. CallsLeft(fetch) \in Int
    BY <2>2, CallsLeftRange, FetchFields DEF FetchInv, FetchTypeOK, Calls
  <2>6. CallsLeft(fetch') = CallsLeft(fetch) - 1
    <3> DEFINE of(n) == MaxAttempts * n
               left == Metrics - fetch.metric + 1
               room == SampleLimit - Len(fetch.sample)
    <3>1. tries \in Int /\ Metrics \in Nat /\ SampleLimit \in Nat /\ left \in Int /\ room \in Int
      BY <2>3, FetchAssumption, FetchFields, LenProperties DEF FetchInv
    <3>2. \A n \in Int : of(n) \in Int
      BY <2>3
    <3> HIDE DEF tries, of, left, room
    <3>3. /\ of(Metrics + 4) \in Int /\ of(Metrics + 3) \in Int /\ of(Metrics + 2) \in Int
          /\ of(left) \in Int /\ of(SampleLimit + 1) \in Int /\ of(room) \in Int
      BY <3>1, <3>2
    <3>4. CASE fetch.call = "page"
      <4>1. CallsLeft(fetch) = tries + of(Metrics + 4)
        BY <3>4, CallsLeftValues DEF tries, of, left, room
      <4>2. CallsLeft(fetch') = tries - 1 + of(Metrics + 4)
        BY <2>1, <2>4, <3>4, CallsLeftValues DEF of, left, room
      <4>3. QED
        BY <2>3, <3>1, <3>3, <4>1, <4>2
    <3>5. CASE fetch.call = "page_min"
      <4>1. CallsLeft(fetch) = tries + of(Metrics + 3)
        BY <3>5, CallsLeftValues DEF tries, of, left, room
      <4>2. CallsLeft(fetch') = tries - 1 + of(Metrics + 3)
        BY <2>1, <2>4, <3>5, CallsLeftValues DEF of, left, room
      <4>3. QED
        BY <2>3, <3>1, <3>3, <4>1, <4>2
    <3>6. CASE fetch.call = "posts"
      <4>1. CallsLeft(fetch) = tries + of(Metrics + 2)
        BY <3>6, CallsLeftValues DEF tries, of, left, room
      <4>2. CallsLeft(fetch') = tries - 1 + of(Metrics + 2)
        BY <2>1, <2>4, <3>6, CallsLeftValues DEF of, left, room
      <4>3. QED
        BY <2>3, <3>1, <3>3, <4>1, <4>2
    <3>7. CASE fetch.call = "insights"
      <4>1. CallsLeft(fetch) = tries + of(left)
        BY <3>7, CallsLeftValues DEF tries, of, left, room
      <4>2. CallsLeft(fetch') = tries - 1 + of(left)
        BY <2>1, <2>4, <3>7, CallsLeftValues DEF of, left, room
      <4>3. QED
        BY <2>3, <3>1, <3>3, <4>1, <4>2
    <3>8. CASE fetch.call = "photos"
      <4>1. CallsLeft(fetch) = tries + MaxAttempts
        BY <3>8, CallsLeftValues DEF tries, of, left, room
      <4>2. CallsLeft(fetch') = tries - 1 + MaxAttempts
        BY <2>1, <2>4, <3>8, CallsLeftValues DEF of, left, room
      <4>3. QED
        BY <2>3, <3>1, <3>3, <4>1, <4>2
    <3>9. CASE fetch.call = "videos"
      <4>1. CallsLeft(fetch) = tries
        BY <3>9, CallsLeftValues DEF tries, of, left, room
      <4>2. CallsLeft(fetch') = tries - 1
        BY <2>1, <2>4, <3>9, CallsLeftValues DEF of, left, room
      <4>3. QED
        BY <2>3, <3>1, <3>3, <4>1, <4>2
    <3>10. CASE fetch.call = "channel"
      <4>1. CallsLeft(fetch) = tries + of(SampleLimit + 1) + 2
        BY <3>10, CallsLeftValues DEF tries, of, left, room
      <4>2. CallsLeft(fetch') = tries - 1 + of(SampleLimit + 1) + 2
        BY <2>1, <2>4, <3>10, CallsLeftValues DEF of, left, room
      <4>3. QED
        BY <2>3, <3>1, <3>3, <4>1, <4>2
    <3>11. CASE fetch.call = "uploads"
      <4>1. CallsLeft(fetch) = tries + of(room) + 2
        BY <3>11, CallsLeftValues DEF tries, of, left, room
      <4>2. CallsLeft(fetch') = tries - 1 + of(room) + 2
        BY <2>1, <2>4, <3>11, CallsLeftValues DEF of, left, room
      <4>3. QED
        BY <2>3, <3>1, <3>3, <4>1, <4>2
    <3>12. CASE fetch.call = "details"
      <4>1. CallsLeft(fetch) = tries + 2
        BY <3>12, CallsLeftValues DEF tries, of, left, room
      <4>2. CallsLeft(fetch') = tries - 1 + 2
        BY <2>1, <2>4, <3>12, CallsLeftValues DEF of, left, room
      <4>3. QED
        BY <2>3, <3>1, <3>3, <4>1, <4>2
    <3>13. QED
      BY <2>2, <3>4, <3>5, <3>6, <3>7, <3>8, <3>9, <3>10, <3>11, <3>12
      DEF GetJson, FacebookCalls, YouTubeCalls
  <2>7. QED
    BY <2>1, <2>2, <2>5, <2>6 DEF Nearer, Unfinished, Calls
<1>3. QED
  BY <1>1, <1>2 DEF Busy

\* The next insight, or the calls after them.
LEMMA MetricNearer ==
  ASSUME FetchInv, Unfinished(fetch), fetch.call = "insights", NextMetric
  PROVE  Nearer
<1>1. CASE Go("photos")
  BY <1>1, GoNearer DEF Later, Calls, GetJson, FacebookCalls
<1>2. CASE fetch.metric + 1 < Metrics /\ fetch' = [fetch EXCEPT !.attempt = 1, !.metric = @ + 1]
  <2>1. /\ fetch'.call = "insights" /\ fetch'.metric = fetch.metric + 1 /\ fetch'.attempt = 1
    BY <1>2 DEF FetchInv, FetchTypeOK, Fetch
  <2>2. /\ MaxAttempts \in Nat \ {0} /\ Metrics \in Nat /\ fetch.metric \in Nat
        /\ fetch.attempt \in 1 .. MaxAttempts
    BY FetchAssumption, FetchFields DEF FetchInv
  <2>3. /\ CallsLeft(fetch) =
             MaxAttempts - fetch.attempt + 1 + MaxAttempts * (Metrics - fetch.metric + 1)
        /\ CallsLeft(fetch') = MaxAttempts - 1 + 1 + MaxAttempts * (Metrics - (fetch.metric + 1) + 1)
    BY <2>1, CallsLeftValues
  <2>4. /\ MaxAttempts * (Metrics - fetch.metric + 1)
             = MaxAttempts * (Metrics - (fetch.metric + 1) + 1) + MaxAttempts
        /\ MaxAttempts * (Metrics - (fetch.metric + 1) + 1) \in Int
    BY <2>2
  <2>5. CallsLeft(fetch') < CallsLeft(fetch)
    BY <2>2, <2>3, <2>4
  <2>6. QED
    BY <1>2, <2>1, <2>5 DEF Nearer, Unfinished, Calls, GetJson, FacebookCalls
<1>3. QED
  BY <1>1, <1>2 DEF NextMetric

LEMMA MediaNearer ==
  ASSUME FetchInv, Unfinished(fetch), fetch.call \in {"photos", "videos"}, NextMedia
  PROVE  Nearer
<1>1. CASE End("data")
  BY <1>1, EndNearer DEF Outcomes
<1>2. CASE fetch.call = "photos" /\ Go("videos")
  BY <1>2, GoNearer DEF Later, Calls, GetJson, FacebookCalls
<1>3. QED
  BY <1>1, <1>2 DEF NextMedia

\* The calls for a page: a refusal leads to fewer calls than an answer.
LEMMA FacebookNearer ==
  ASSUME FetchInv, Unfinished(fetch), PageRead \/ PostsRead \/ InsightRead \/ MediaRead
  PROVE  Nearer
<1>0. fetch \in Fetch /\ 1 \in 1 .. MaxAttempts
  BY FetchAssumption DEF FetchInv, FetchTypeOK
<1>1. CASE PageRead
  <2>1. PICK n \in {0, 1}, named \in BOOLEAN :
          fetch' = [fetch EXCEPT !.call = "posts", !.attempt = 1, !.named = named,
                                 !.followers = IF named THEN n ELSE 0]
    BY <1>1 DEF PageRead
  <2>2. /\ fetch' \in Fetch /\ fetch'.call = "posts" /\ fetch'.attempt = 1
        /\ fetch'.metric = fetch.metric
    BY <1>0, <2>1 DEF Fetch, Calls, GetJson, FacebookCalls
  <2>3. "posts" \in Later(fetch.call)
    BY <1>1 DEF PageRead, Later
  <2>4. QED
    BY <2>2, <2>3, LaterNearer
<1>2. CASE PostsRead
  <2>1. PICK k \in 0 .. Len(feed) :
          fetch' = [fetch EXCEPT !.call = "insights", !.attempt = 1, !.sample = FirstOf(k)]
    BY <1>2 DEF PostsRead, FirstOf
  <2>2. FirstOf(k) \in Seq(Nat)
    BY FirstOfSeq
  <2>3. /\ fetch' \in Fetch /\ fetch'.call = "insights" /\ fetch'.attempt = 1
        /\ fetch'.metric = fetch.metric
    BY <1>0, <2>1, <2>2 DEF Fetch, Calls, GetJson, FacebookCalls
  <2>4. "insights" \in Later(fetch.call)
    BY <1>2 DEF PostsRead, Later
  <2>5. QED
    BY <2>3, <2>4, LaterNearer
<1>3. CASE InsightRead
  BY <1>3, MetricNearer DEF InsightRead
<1>4. CASE MediaRead
  BY <1>4, MediaNearer DEF MediaRead
<1>5. QED
  BY <1>1, <1>2, <1>3, <1>4

LEMMA FacebookRefusedNearer ==
  ASSUME FetchInv, Unfinished(fetch), NEW code \in Codes, NEW body \in Bodies,
         \/ PageRefused(code, body) \/ PostsRefused(code, body)
         \/ InsightRefused(code, body) \/ MediaRefused(code, body)
  PROVE  Nearer
<1>1. CASE End("not_found") \/ End("permanent")
  BY <1>1, EndNearer DEF Outcomes
<1>2. CASE fetch.call = "page" /\ Go("page_min")
  BY <1>2, GoNearer DEF Later, Calls, GetJson, FacebookCalls
<1>3. CASE fetch.call = "posts" /\ Go("insights")
  BY <1>3, GoNearer DEF Later, Calls, GetJson, FacebookCalls
<1>4. CASE fetch.call = "insights" /\ Go("photos")
  BY <1>4, GoNearer DEF Later, Calls, GetJson, FacebookCalls
<1>5. CASE fetch.call = "insights" /\ NextMetric
  BY <1>5, MetricNearer
<1>6. CASE fetch.call \in {"photos", "videos"} /\ NextMedia
  BY <1>6, MediaNearer
<1>7. QED
  BY <1>1, <1>2, <1>3, <1>4, <1>5, <1>6
  DEF PageRefused, PostsRefused, InsightRefused, MediaRefused

LEMMA ChannelNearer ==
  ASSUME FetchInv, Unfinished(fetch),
         ChannelRead \/ (\E code \in Codes, body \in Bodies : ChannelRefused(code, body))
  PROVE  Nearer
<1>1. ASSUME NEW outcome \in {"not_found", "no_uploads_playlist", "permanent"}, End(outcome)
      PROVE  Nearer
  BY <1>1, EndNearer DEF Outcomes
<1>2. ASSUME fetch.call = "channel", NEW named \in BOOLEAN,
             fetch' = [fetch EXCEPT !.call = "uploads", !.attempt = 1, !.named = named]
      PROVE  Nearer
  <2>1. fetch \in Fetch /\ 1 \in 1 .. MaxAttempts
    BY FetchAssumption DEF FetchInv, FetchTypeOK
  <2>2. /\ fetch' \in Fetch /\ fetch'.call = "uploads" /\ fetch'.attempt = 1
        /\ fetch'.metric = fetch.metric /\ fetch'.sample = fetch.sample
    BY <1>2, <2>1 DEF Fetch, Calls, GetJson, YouTubeCalls
  <2>3. fetch.sample = <<>> /\ "uploads" \in Later(fetch.call)
    BY <1>2 DEF FetchInv, SampleFits, Before, Later
  <2>4. QED
    BY <2>2, <2>3, LaterNearer
<1>3. QED
  BY <1>1, <1>2 DEF ChannelRead, ChannelRefused

LEMMA AfterUploadsNearer ==
  ASSUME FetchInv, Unfinished(fetch), fetch.call = "uploads",
         NEW sample \in Seq(Nat), NEW cursor \in Nat, AfterUploads(sample, cursor)
  PROVE  Nearer
<1>1. PICK call \in {"details", "report", "end"} :
        fetch' = [fetch EXCEPT !.call = call, !.attempt = 1, !.sample = sample,
                               !.cursor = cursor, !.token = FALSE,
                               !.outcome = IF call = "end" THEN "data" ELSE @]
  BY DEF AfterUploads
<1>2. /\ fetch \in Fetch /\ 1 \in 1 .. MaxAttempts /\ "data" \in Outcomes
      /\ call \in Calls \cup {"idle", "end"}
  BY FetchAssumption DEF FetchInv, FetchTypeOK, Calls, GetJson, YouTubeCalls, Analytics, Outcomes
<1>3. /\ fetch' \in Fetch /\ fetch'.call = call /\ fetch'.attempt = 1
      /\ fetch'.metric = fetch.metric
  BY <1>1, <1>2 DEF Fetch
<1>4. CASE call = "end"
  BY <1>3, <1>4 DEF Nearer, Unfinished
<1>5. CASE call # "end"
  <2>1. call \in Later(fetch.call) /\ call # "uploads"
    BY <1>5 DEF Later
  <2>2. QED
    BY <1>3, <2>1, LaterNearer
<1>6. QED
  BY <1>4, <1>5

\* Every page of the list that leads to another and is not empty adds to the sample.
LEMMA UploadsNearer ==
  ASSUME FetchInv, Unfinished(fetch), UploadsPage
  PROVE  Nearer
<1>1. PICK k \in 0 .. PageSize, token \in BOOLEAN :
        LET sample == fetch.sample \o [i \in 1 .. k |-> fetch.cursor + i]
            cursor == fetch.cursor + k
        IN /\ Len(sample) <= SampleLimit
           /\ cursor <= Len(feed) /\ (token => k > 0) /\ (token \/ cursor = Len(feed))
           /\ IF token /\ Len(sample) < SampleLimit
              THEN fetch' = [fetch EXCEPT !.attempt = 1, !.sample = sample, !.cursor = cursor]
              ELSE AfterUploads(sample, cursor)
  BY DEF UploadsPage
<1> DEFINE sample == fetch.sample \o [i \in 1 .. k |-> fetch.cursor + i]
           cursor == fetch.cursor + k
<1>2. fetch.call = "uploads" /\ fetch \in Fetch
  BY DEF UploadsPage, FetchInv, FetchTypeOK
<1>3. k \in Nat /\ fetch.cursor \in Nat /\ fetch.sample \in Seq(Nat) /\ Len(fetch.sample) \in Nat
  BY FetchFields, FetchAssumption, LenProperties DEF FetchInv
<1>4. cursor \in Nat /\ sample \in Seq(Nat) /\ Len(sample) = Len(fetch.sample) + k
  BY <1>3, PageSeq
<1>5. CASE token /\ Len(sample) < SampleLimit
  <2>1. fetch' = [fetch EXCEPT !.attempt = 1, !.sample = sample, !.cursor = cursor] /\ k # 0
    BY <1>1, <1>4, <1>5, FetchFields DEF FetchInv
  <2> HIDE DEF sample, cursor
  <2>2. /\ fetch'.call = "uploads" /\ fetch'.attempt = 1 /\ fetch'.metric = fetch.metric
        /\ fetch'.sample = sample
    BY <1>2, <2>1 DEF Fetch
  <2> DEFINE room == SampleLimit - Len(fetch.sample)
             less == SampleLimit - Len(sample)
             tries == MaxAttempts - fetch.attempt + 1
  <2>3. room \in Int /\ less \in Int /\ less < room /\ tries \in Int /\ tries >= 1
    <3>1. tries \in Int /\ tries >= 1
      BY FetchAssumption, FetchFields DEF FetchInv
    <3> DEFINE before == Len(fetch.sample)
               after == Len(sample)
    <3>2. SampleLimit \in Nat /\ before \in Nat /\ k \in Nat /\ k # 0 /\ after = before + k
      BY <1>3, <1>4, <2>1, FetchAssumption
    <3> HIDE DEF before, after, tries
    <3>3. /\ SampleLimit - before \in Int /\ SampleLimit - after \in Int
          /\ SampleLimit - after < SampleLimit - before
      BY <3>2
    <3>4. QED
      BY <3>1, <3>3 DEF before, after
  <2>4. CallsLeft(fetch) = tries + MaxAttempts * room + 2
    BY <1>2, CallsLeftValues
  <2>5. CallsLeft(fetch') = MaxAttempts + MaxAttempts * less + 2
    <3>1. MaxAttempts - fetch'.attempt + 1 = MaxAttempts
      BY <2>2, FetchAssumption
    <3>2. QED
      BY <2>2, <3>1, CallsLeftValues
  <2> HIDE DEF room, less, tries
  <2>6. MaxAttempts + MaxAttempts * less <= MaxAttempts * room
    <3> DEFINE gain == room - 1 - less
    <3>1. gain \in Nat /\ room = less + 1 + gain
      BY <2>3
    <3> HIDE DEF gain
    <3>2. MaxAttempts * gain >= 0 /\ MaxAttempts * gain \in Int /\ MaxAttempts * less \in Int
      BY <2>3, <3>1, FetchAssumption
    <3>3. MaxAttempts * (less + 1 + gain) = MaxAttempts * less + MaxAttempts + MaxAttempts * gain
      BY <2>3, <3>1, FetchAssumption
    <3>4. QED
      BY <3>1, <3>2, <3>3, FetchAssumption
  <2>7. MaxAttempts \in Int /\ MaxAttempts * less \in Int /\ MaxAttempts * room \in Int
    BY <2>3, FetchAssumption
  <2>8. CallsLeft(fetch') < CallsLeft(fetch)
    BY <2>3, <2>4, <2>5, <2>6, <2>7
  <2>9. QED
    BY <1>5, <2>2, <2>8 DEF Nearer, Unfinished, Calls, GetJson, YouTubeCalls
<1>6. CASE ~(token /\ Len(sample) < SampleLimit)
  <2>1. AfterUploads(sample, cursor)
    BY <1>1, <1>6
  <2> HIDE DEF sample, cursor
  <2>2. QED
    BY <1>2, <1>4, <2>1, AfterUploadsNearer
<1>7. QED
  BY <1>5, <1>6

LEMMA YouTubeNearer ==
  ASSUME FetchInv, Unfinished(fetch),
         \/ DetailsRead \/ DetailsRefused \/ Report
         \/ \E code \in Codes, body \in Bodies : UploadsRefused(code, body)
  PROVE  Nearer
<1>1. CASE End("data") \/ End("permanent")
  BY <1>1, EndNearer DEF Outcomes
<1>2. CASE fetch.call = "details" /\ Go("report")
  BY <1>2, GoNearer DEF Later, Calls, Analytics
<1>3. CASE fetch.call = "report" /\ Go("report_again")
  BY <1>3, GoNearer DEF Later, Calls, Analytics
<1>4. CASE fetch.call = "uploads" /\ AfterUploads(fetch.sample, fetch.cursor)
  BY <1>4, AfterUploadsNearer, FetchFields DEF FetchInv
<1>5. QED
  BY <1>1, <1>2, <1>3, <1>4 DEF DetailsRead, DetailsRefused, Report, UploadsRefused

LEMMA UserNearer ==
  ASSUME FetchInv, Unfinished(fetch),
         UserRead \/ \E code \in Codes \cup {"429"} : UserRefused(code)
  PROVE  Nearer
<1>1. CASE End("not_found") \/ End("permanent")
  BY <1>1, EndNearer DEF Outcomes
<1>2. ASSUME fetch.call = "user", fetch' = [fetch EXCEPT !.call = "list", !.named = TRUE]
      PROVE  Nearer
  <2>1. /\ fetch'.call = "list" /\ fetch'.metric = fetch.metric
        /\ fetch'.sample = fetch.sample
    BY <1>2 DEF FetchInv, FetchTypeOK, Fetch
  <2>2. Len(fetch'.sample) = 0
    BY <1>2, <2>1 DEF FetchInv, SampleFits, Before
  <2>3. VideoLimit \in Nat \ {0}
    BY FetchAssumption
  <2>4. CallsLeft(fetch) = 1 + VideoLimit /\ CallsLeft(fetch') = VideoLimit - Len(fetch'.sample)
    BY <1>2, <2>1, CallsLeftValues
  <2>5. CallsLeft(fetch') < CallsLeft(fetch)
    BY <2>2, <2>3, <2>4
  <2>6. Unfinished(fetch')
    BY <2>1, <2>2, <2>3 DEF Unfinished
  <2>7. QED
    BY <2>1, <2>5, <2>6 DEF Nearer, Calls, TikTokCalls
<1>3. QED
  BY <1>1, <1>2 DEF UserRead, UserRefused

\* An empty page ends the list, and any other adds to the sample, even with a
\* cursor that stays.
LEMMA ListNearer ==
  ASSUME FetchInv, Unfinished(fetch), ListPage
  PROVE  Nearer
<1>1. PICK k \in 0 .. VideoPage :
        LET sample == fetch.sample \o [i \in 1 .. k |-> fetch.cursor + i]
            more == fetch.cursor + k < Len(feed)
        IN IF k > 0 /\ Len(sample) < VideoLimit /\ more
           THEN \E stuck \in {FALSE, MayStick} :
                  fetch' = [fetch EXCEPT !.sample = sample,
                                         !.cursor = IF stuck THEN @ ELSE @ + k]
           ELSE fetch' = [fetch EXCEPT !.call = "end", !.outcome = "data",
                            !.sample = SubSeq(sample, 1, IF Len(sample) < VideoLimit
                                                         THEN Len(sample) ELSE VideoLimit)]
  BY DEF ListPage
<1> DEFINE sample == fetch.sample \o [i \in 1 .. k |-> fetch.cursor + i]
           more == fetch.cursor + k < Len(feed)
           cut == IF Len(sample) < VideoLimit THEN Len(sample) ELSE VideoLimit
<1>2. fetch.call = "list" /\ fetch \in Fetch
  BY DEF ListPage, FetchInv, FetchTypeOK
<1>3. k \in Nat /\ fetch.cursor \in Nat /\ fetch.sample \in Seq(Nat) /\ Len(fetch.sample) \in Nat
  BY FetchFields, FetchAssumption, LenProperties DEF FetchInv
<1>4. sample \in Seq(Nat) /\ Len(sample) = Len(fetch.sample) + k
  BY <1>3, PageSeq
<1>5. CASE k > 0 /\ Len(sample) < VideoLimit /\ more
  <2>1. PICK stuck \in {FALSE, MayStick} :
          fetch' = [fetch EXCEPT !.sample = sample,
                                 !.cursor = IF stuck THEN fetch.cursor ELSE fetch.cursor + k]
    BY <1>1, <1>2, <1>5 DEF Fetch
  <2> HIDE DEF sample, more
  <2>2. fetch'.call = "list" /\ fetch'.metric = fetch.metric /\ fetch'.sample = sample
    BY <1>2, <2>1 DEF Fetch
  <2>3. /\ CallsLeft(fetch) = VideoLimit - Len(fetch.sample)
        /\ CallsLeft(fetch') = VideoLimit - Len(sample)
    BY <1>2, <2>2, CallsLeftValues
  <2>4. CallsLeft(fetch') < CallsLeft(fetch)
    BY <1>3, <1>4, <1>5, <2>3, FetchAssumption
  <2>5. QED
    BY <1>5, <2>2, <2>4 DEF Nearer, Unfinished, Calls, TikTokCalls
<1>6. CASE ~(k > 0 /\ Len(sample) < VideoLimit /\ more)
  <2>1. fetch' = [fetch EXCEPT !.call = "end", !.outcome = "data",
                               !.sample = SubSeq(sample, 1, cut)]
    BY <1>1, <1>6
  <2> HIDE DEF sample, cut
  <2>2. fetch'.call = "end" /\ fetch'.metric = fetch.metric
    BY <1>2, <2>1 DEF Fetch
  <2>3. QED
    BY <2>2 DEF Nearer, Unfinished
<1>7. QED
  BY <1>5, <1>6

\* Every exchange brings the end nearer, unless it is an empty page that leads to
\* another.
LEMMA ExchangeNearer ==
  ASSUME FetchInv, Unfinished(fetch), Exchange, ~EmptyPage
  PROVE  Nearer
<1>1. CASE Garbled
  BY <1>1, EndNearer DEF Garbled, Outcomes
<1>2. CASE ListRefused
  BY <1>2, EndNearer DEF ListRefused, Outcomes
<1>3. ASSUME NEW code \in Codes, NEW body \in Bodies,
             \/ PageRefused(code, body) \/ PostsRefused(code, body)
             \/ InsightRefused(code, body) \/ MediaRefused(code, body)
      PROVE  Nearer
  BY <1>3, FacebookRefusedNearer
<1>4. QED
  BY <1>1, <1>2, <1>3, BusyNearer, FacebookNearer, ChannelNearer, UploadsNearer, YouTubeNearer,
     UserNearer, ListNearer DEF Exchange

-----------------------------------------------------------------------------
(* The commands. *)

ResultOK == result \in {NoResult} \cup UNION {Promise!Results(s) : s \in Subjects}

\* Rows, credentials and what has been synced.
TableOK ==
  /\ table \in [Subjects -> Rows]
  /\ linked \subseteq {s \in Subjects : table[s] # "none"}
  /\ synced \subseteq Subjects
  /\ PendingForCause

\* The books of the command under way.
CommandOK ==
  /\ cycle \in Cycle
  /\ read \subseteq Subjects /\ raised \in BOOLEAN /\ seeded \in BOOLEAN
  /\ read = tried \cup cycle.left
  /\ Running => (cycle.rc = 1 \/ cycle.failures <=> raised)
  /\ ExitCodeTells

\* What a seeding inserts.
SeedList == {s \in Env : PlatformOf[s] # "tiktok"}

HasRows(S) == \A s \in S : table[s] # "none"

SeedOK ==
  /\ seed \in [state : {"off", "select", "insert", "ok", "failed"}, todo : SUBSET Env,
              key : Env \cup {NoSubject}]
  /\ seed.state \in {"select", "insert"} => HasRows(SeedList \ seed.todo)
  /\ seed.state = "insert" => seed.key \in seed.todo
  /\ seed.state = "ok" => HasRows(SeedList)
  /\ seeded => HasRows(SeedList)

\* A sync-all after a seeding still has a platform before it, or has read its
\* part of the list.
Queued ==
  cycle.command = "sync-all" /\ seeded =>
    \A s \in SeedList : PlatformOf[s] \in Enabled =>
      s \in read \/ \E i \in 1 .. Len(cycle.queue) : cycle.queue[i] = PlatformOf[s]

\* A task in hand is of a target of the command.
InFlight ==
  /\ fetch.call # "idle" => Running /\ fetch.subj \in cycle.left /\ result = NoResult
  /\ result # NoResult => Running /\ result.subj \in cycle.left

CycleInv == FetchInv /\ ResultOK /\ TableOK /\ CommandOK /\ SeedOK /\ Queued /\ InFlight

-----------------------------------------------------------------------------

LEMMA CycleFields ==
  ASSUME CommandOK
  PROVE  /\ cycle.command \in Commands \cup Crawls \cup {"none", "sync-one"}
         /\ cycle.queue \in Seq(Platforms) /\ cycle.left \subseteq Subjects
         /\ cycle.failures \in BOOLEAN /\ cycle.rc \in {0, 1} /\ cycle.done \in BOOLEAN
  BY DEF CommandOK, Cycle

\* What an execution ends with is a result the cycles are ready for.
LEMMA ResultPromised ==
  ASSUME FetchInv, fetch.call = "end"
  PROVE  Result \in Promise!Results(fetch.subj) /\ Result.subj = fetch.subj
<1> DEFINE status == StatusOf(PlatformOf[fetch.subj], fetch.followers,
                              PostCount(PlatformOf[fetch.subj], Len(feed), Ages),
                              ActivityFrequency(Ages))
<1>1. status \in {"active", "inactive"}
  BY DEF StatusOf
<1>2. fetch.outcome \in Outcomes \ {"none"} /\ fetch.subj \in Subjects
  BY FetchFields DEF FetchInv, OutcomesFit, CallsFit
<1>3. fetch.outcome # "data" => fetch.outcome \in Promise!Reasons(PlatformOf[fetch.subj])
  BY <1>2 DEF FetchInv, OutcomesFit, Outcomes, Promise!Reasons
<1>4. "error" \in Promise!Reasons(PlatformOf[fetch.subj])
  BY DEF Promise!Reasons
<1> HIDE DEF status
<1>5. CASE fetch.outcome = "data" /\ fetch.named
  <2>1. Result = [subj |-> fetch.subj, outcome |-> "data", status |-> status]
    BY <1>5 DEF Result, status
  <2>2. QED
    BY <1>1, <2>1 DEF Promise!Results
<1>6. CASE ~(fetch.outcome = "data" /\ fetch.named)
  <2>1. Result = [subj |-> fetch.subj,
                  outcome |-> IF fetch.outcome = "data" THEN "error" ELSE fetch.outcome,
                  status |-> "none"]
    BY <1>6 DEF Result
  <2>2. (IF fetch.outcome = "data" THEN "error" ELSE fetch.outcome)
          \in Promise!Reasons(PlatformOf[fetch.subj])
    BY <1>3, <1>4
  <2>3. QED
    BY <2>1, <2>2 DEF Promise!Results
<1>7. QED
  BY <1>5, <1>6

\* A result in hand is of a subject, and data has a status.
LEMMA InHandFields ==
  ASSUME ResultOK, result # NoResult
  PROVE  /\ result.subj \in Subjects
         /\ result \in Promise!Results(result.subj)
         /\ result.outcome = "data" => result.status \in {"active", "inactive"}
<1>1. PICK s \in Subjects : result \in Promise!Results(s)
  BY DEF ResultOK
<1>2. result.subj = s
  BY <1>1 DEF Promise!Results
<1>3. "data" \notin Promise!Reasons(PlatformOf[s])
  BY DEF Promise!Reasons
<1>4. result.outcome = "data" => result.status \in {"active", "inactive"}
  BY <1>1, <1>3 DEF Promise!Results
<1>5. QED
  BY <1>1, <1>2, <1>4

\* The task of a target is over.
LEMMA OverInv ==
  ASSUME CycleInv, Running, NEW s \in cycle.left, NEW error \in BOOLEAN,
         Over(s, error), UNCHANGED <<read, seeded>>, fetch'.call = "idle", result' = NoResult
  PROVE  CommandOK' /\ Queued' /\ InFlight'
<1>1. /\ cycle \in Cycle /\ read \subseteq Subjects /\ raised \in BOOLEAN
      /\ seeded \in BOOLEAN /\ read = tried \cup cycle.left
      /\ (cycle.rc = 1 \/ cycle.failures <=> raised)
  BY DEF CycleInv, CommandOK
<1>2. /\ tried' = tried \cup {s} /\ raised' = (raised \/ error)
      /\ cycle' = [cycle EXCEPT !.left = @ \ {s}, !.failures = @ \/ error]
  BY DEF Over
<1>3. /\ cycle' \in Cycle /\ cycle'.command = cycle.command /\ cycle'.queue = cycle.queue
      /\ cycle'.left = cycle.left \ {s} /\ cycle'.rc = cycle.rc /\ cycle'.done = cycle.done
      /\ cycle'.failures = (cycle.failures \/ error)
  BY <1>1, <1>2 DEF Cycle
<1>4. ~cycle'.done
  BY <1>3 DEF Running
<1>5. cycle'.rc = 1 \/ cycle'.failures <=> raised'
  BY <1>1, <1>2, <1>3
<1>6. raised' \in BOOLEAN /\ read' = tried' \cup cycle'.left
  BY <1>1, <1>2, <1>3
<1>7. CommandOK'
  BY <1>1, <1>3, <1>4, <1>5, <1>6 DEF CommandOK, ExitCodeTells, Finished
<1>8. Queued'
  BY <1>3 DEF CycleInv, Queued
<1>9. QED
  BY <1>7, <1>8 DEF InFlight

-----------------------------------------------------------------------------
(* The actions. *)

\* The parts of the invariant that an action leaves alone.
LEMMA Kept ==
  ASSUME CycleInv
  PROVE  /\ UNCHANGED fetchVars => FetchInv'
         /\ UNCHANGED result => ResultOK'
         /\ UNCHANGED tableVars => TableOK'
         /\ UNCHANGED cycleVars => CommandOK' /\ Queued'
         /\ UNCHANGED <<table, seed, seeded>> => SeedOK'
         /\ UNCHANGED <<taskVars, cycle>> => InFlight'
<1>1. UNCHANGED fetchVars => FetchInv'
  BY DEF CycleInv, fetchVars, FetchInv, FetchTypeOK, CallsFit, OutcomesFit, SampleFits,
         Full, Limit
<1>2. UNCHANGED tableVars => TableOK'
  BY DEF CycleInv, tableVars, TableOK, PendingForCause
<1>3. UNCHANGED cycleVars => CommandOK' /\ Queued'
  BY DEF CycleInv, cycleVars, CommandOK, Queued, Running, ExitCodeTells, Finished
<1>4. UNCHANGED <<table, seed, seeded>> => SeedOK'
  BY DEF CycleInv, SeedOK, HasRows
<1>5. UNCHANGED <<taskVars, cycle>> => InFlight'
  BY DEF CycleInv, taskVars, fetchVars, InFlight, Running
<1>6. QED
  BY <1>1, <1>2, <1>3, <1>4, <1>5 DEF CycleInv, ResultOK

LEMMA StartInv ==
  ASSUME CycleInv, NEW command \in Commands \cup Crawls \cup {"sync-one"},
         NEW queue \in Seq(Platforms), NEW left \in SUBSET Subjects,
         Start(command, queue, left),
         command = "sync-all" => queue = <<"facebook", "youtube", "tiktok">>
  PROVE  CycleInv'
<1>1. /\ cycle' = [NoCommand EXCEPT !.command = command, !.queue = queue, !.left = left]
      /\ read' = left /\ tried' = {} /\ raised' = FALSE /\ seeded' = (seed.state = "ok")
      /\ UNCHANGED <<taskVars, tableVars, seed>> /\ ~Running
  BY DEF Start, Running
<1>2. /\ cycle' \in Cycle /\ cycle'.command = command /\ cycle'.queue = queue
      /\ cycle'.left = left /\ cycle'.rc = 0 /\ ~cycle'.failures /\ ~cycle'.done
  BY <1>1 DEF NoCommand, Cycle
<1>3. CommandOK'
  <2>1. seeded' \in BOOLEAN /\ raised' \in BOOLEAN
    BY <1>1
  <2>2. cycle'.rc = 1 \/ cycle'.failures <=> raised'
    <3>1. ~(cycle'.rc = 1) /\ ~cycle'.failures
      BY <1>2
    <3>2. ~raised'
      BY <1>1
    <3>3. QED
      BY <3>1, <3>2
  <2>3. read' \subseteq Subjects /\ read' = tried' \cup cycle'.left /\ ~cycle'.done
    BY <1>1, <1>2
  <2>4. QED
    BY <1>2, <2>1, <2>2, <2>3 DEF CommandOK, ExitCodeTells, Finished
<1>4. SeedOK'
  BY <1>1 DEF CycleInv, SeedOK, HasRows, tableVars
<1>5. Queued'
  <2> SUFFICES ASSUME command = "sync-all", NEW s \in SeedList
               PROVE  \E i \in 1 .. Len(queue) : queue[i] = PlatformOf[s]
    BY <1>2 DEF Queued
  <2>1. queue = <<"facebook", "youtube", "tiktok">>
    OBVIOUS
  <2>2. PlatformOf[s] \in {"facebook", "youtube"}
    BY CycleAssumption, FetchAssumption DEF SeedList, Platforms
  <2>3. 1 \in 1 .. Len(queue) /\ 2 \in 1 .. Len(queue)
        /\ queue[1] = "facebook" /\ queue[2] = "youtube"
    BY <2>1
  <2>4. QED
    BY <2>2, <2>3
<1>6. InFlight'
  <2>1. fetch.call = "idle" /\ result = NoResult
    BY <1>1 DEF CycleInv, InFlight
  <2>2. QED
    BY <1>1, <2>1 DEF InFlight, taskVars, fetchVars
<1>7. QED
  BY <1>1, <1>3, <1>4, <1>5, <1>6, Kept DEF CycleInv, taskVars

\* The commands begin.
LEMMA BeginInv ==
  ASSUME CycleInv, SyncCommand \/ Crawl \/ \E s \in Subjects : SyncOne(s)
  PROVE  CycleInv'
<1>1. <<>> \in Seq(Platforms) /\ "sync-all" \notin Crawls \cup {"sync-one"}
  BY EmptySeq DEF Crawls
<1>2. ASSUME NEW command \in Commands, Start(command, PlatformsOf(command), {})
      PROVE  CycleInv'
  <2>1. PlatformsOf(command) \in Seq(Platforms)
    <3>1. /\ <<"facebook", "youtube", "tiktok">> \in Seq(Platforms)
          /\ \A p \in Platforms : <<p>> \in Seq(Platforms)
      BY DEF Platforms
    <3>2. PlatformsOf(command) \in {<<"facebook", "youtube", "tiktok">>, <<"facebook">>,
                                    <<"youtube">>, <<"tiktok">>}
      BY DEF PlatformsOf, Commands
    <3>3. QED
      BY <3>1, <3>2 DEF Platforms
  <2>2. command = "sync-all" => PlatformsOf(command) = <<"facebook", "youtube", "tiktok">>
    BY DEF PlatformsOf
  <2>3. QED
    BY <1>2, <2>1, <2>2, StartInv
<1>3. ASSUME NEW command \in Crawls, NEW targets \in SUBSET Subjects,
             Start(command, <<>>, targets)
      PROVE  CycleInv'
  BY <1>1, <1>3, StartInv
<1>4. ASSUME NEW s \in Subjects, Start("sync-one", <<>>, {s})
      PROVE  CycleInv'
  BY <1>1, <1>4, StartInv
<1>5. CASE Crawl
  <2>1. PICK command \in Crawls, targets \in SUBSET Subjects : Start(command, <<>>, targets)
    BY <1>5 DEF Crawl
  <2>2. QED
    BY <1>3, <2>1
<1>6. QED
  BY <1>2, <1>4, <1>5 DEF SyncCommand, SyncOne

\* Once the rows of the list are there, the query of a platform finds its part.
LEMMA SeededInTable ==
  ASSUME CycleInv, seeded, NEW s \in SeedList, PlatformOf[s] \in Enabled
  PROVE  s \in Targets(PlatformOf[s])
<1>1. s \in InTable(PlatformOf[s])
  BY CycleAssumption DEF CycleInv, SeedOK, HasRows, InTable, SeedList
<1>2. QED
  BY <1>1 DEF Targets

LEMMA ReadTargetsInv ==
  ASSUME CycleInv, ReadTargets
  PROVE  CycleInv'
<1> DEFINE targets == Targets(Head(cycle.queue))
<1>1. /\ Running /\ cycle.left = {} /\ cycle.queue # <<>>
      /\ cycle' = [cycle EXCEPT !.queue = Tail(@), !.left = targets, !.failures = FALSE,
                                !.rc = IF cycle.failures THEN 1 ELSE @]
      /\ read' = read \cup targets
      /\ UNCHANGED <<taskVars, tableVars, tried, raised, seed, seeded>>
  BY DEF ReadTargets
<1>2. /\ cycle.queue \in Seq(Platforms) /\ Head(cycle.queue) \in Platforms
      /\ Tail(cycle.queue) \in Seq(Platforms) /\ Len(Tail(cycle.queue)) = Len(cycle.queue) - 1
      /\ \A i \in 1 .. Len(Tail(cycle.queue)) : Tail(cycle.queue)[i] = cycle.queue[i + 1]
      /\ Head(cycle.queue) = cycle.queue[1] /\ Len(cycle.queue) \in Nat
  BY <1>1, CycleFields, HeadTailProperties, LenProperties DEF CycleInv
<1>3. targets \subseteq Subjects
  BY CycleAssumption DEF Targets, InTable
<1> HIDE DEF targets
<1>4. /\ cycle \in Cycle /\ cycle.rc \in {0, 1}
      /\ (IF cycle.failures THEN 1 ELSE cycle.rc) \in {0, 1}
  BY CycleFields DEF CycleInv, CommandOK
<1>5. /\ cycle' \in Cycle /\ cycle'.command = cycle.command /\ cycle'.queue = Tail(cycle.queue)
      /\ cycle'.left = targets /\ cycle'.rc = (IF cycle.failures THEN 1 ELSE cycle.rc)
      /\ cycle'.done = cycle.done /\ cycle'.failures = FALSE
  BY <1>1, <1>2, <1>3, <1>4 DEF Cycle
<1>6. ~cycle'.done /\ (cycle'.rc = 1 \/ cycle'.failures <=> raised')
  BY <1>1, <1>5 DEF CycleInv, CommandOK, Running
<1>7. CommandOK'
  BY <1>1, <1>3, <1>5, <1>6 DEF CycleInv, CommandOK, ExitCodeTells, Finished
<1>8. Queued'
  <2> SUFFICES ASSUME cycle.command = "sync-all", seeded, NEW s \in SeedList,
                      PlatformOf[s] \in Enabled, s \notin read'
               PROVE  \E i \in 1 .. Len(cycle'.queue) : cycle'.queue[i] = PlatformOf[s]
    BY <1>1, <1>5 DEF Queued
  <2>1. PICK i \in 1 .. Len(cycle.queue) : cycle.queue[i] = PlatformOf[s]
    BY <1>1 DEF CycleInv, Queued
  <2>2. i # 1
    BY <1>1, <1>2, <2>1, SeededInTable DEF targets
  <2>3. i - 1 \in 1 .. Len(Tail(cycle.queue)) /\ Tail(cycle.queue)[i - 1] = cycle.queue[i]
    <3>1. i - 1 \in 1 .. Len(Tail(cycle.queue)) /\ (i - 1) + 1 = i
      BY <1>2, <2>2
    <3>2. QED
      BY <1>2, <3>1
  <2>4. QED
    BY <1>5, <2>1, <2>3
<1>9. InFlight'
  BY <1>1 DEF CycleInv, InFlight, taskVars, fetchVars
<1>10. QED
  BY <1>1, <1>7, <1>8, <1>9, Kept DEF CycleInv, taskVars, tableVars

\* The command ends, with an error of the query or after its platforms.
LEMMA FinishInv ==
  ASSUME CycleInv, ReadTargetsFails \/ Complete
  PROVE  CycleInv'
<1>1. /\ Running /\ cycle.left = {}
      /\ UNCHANGED <<taskVars, tableVars, read, tried, raised, seed, seeded>>
      /\ cycle \in Cycle
  BY DEF ReadTargetsFails, Complete, CycleInv, CommandOK
<1>2. /\ cycle' \in Cycle /\ cycle'.command = cycle.command /\ cycle'.queue = cycle.queue
      /\ cycle'.left = cycle.left /\ cycle'.done
  BY <1>1 DEF ReadTargetsFails, Complete, Cycle
<1>3. ExitCodeTells'
  <2>1. CASE ReadTargetsFails
    BY <1>2, <2>1 DEF ReadTargetsFails, ExitCodeTells, Finished
  <2>2. CASE Complete
    <3>1. cycle'.rc = IF cycle.failures THEN 1 ELSE cycle.rc
      BY <1>1, <2>2 DEF Complete, Cycle
    <3>2. QED
      BY <1>1, <3>1 DEF CycleInv, CommandOK, ExitCodeTells
  <2>3. QED
    BY <2>1, <2>2
<1>4. CommandOK'
  BY <1>1, <1>2, <1>3 DEF CycleInv, CommandOK, Running
<1>5. Queued'
  BY <1>1, <1>2 DEF CycleInv, Queued
<1>6. InFlight'
  BY <1>1 DEF CycleInv, InFlight, taskVars, fetchVars
<1>7. QED
  BY <1>1, <1>4, <1>5, <1>6, Kept DEF CycleInv, taskVars, tableVars

LEMMA ExitInv ==
  ASSUME CycleInv, Exit
  PROVE  CycleInv'
<1>1. /\ cycle' = NoCommand /\ read' = {} /\ tried' = {} /\ raised' = FALSE
      /\ seeded' = FALSE /\ UNCHANGED <<taskVars, tableVars, seed>> /\ ~Running
  BY DEF Exit, Running
<1>2. <<>> \in Seq(Platforms)
  BY EmptySeq
<1>3. CommandOK'
  BY <1>1, <1>2 DEF CommandOK, NoCommand, Cycle, Running, ExitCodeTells, Finished
<1>4. SeedOK'
  BY <1>1 DEF CycleInv, SeedOK, HasRows, tableVars
<1>5. Queued' /\ InFlight'
  BY <1>1 DEF CycleInv, Queued, InFlight, NoCommand, taskVars, fetchVars
<1>6. QED
  BY <1>1, <1>3, <1>4, <1>5, Kept DEF CycleInv, taskVars

LEMMA RunTargetInv ==
  ASSUME CycleInv, NEW s \in Subjects, RunTarget(s)
  PROVE  CycleInv'
<1>1. /\ Ready(s) /\ Open(s, Token(s)) /\ Token(s) \in BOOLEAN
      /\ UNCHANGED <<result, tableVars, cycleVars, seed>>
  BY DEF RunTarget, Token
<1>2. FetchInv' /\ fetch'.subj = s
  BY <1>1, OpenInv
<1>3. InFlight'
  BY <1>1, <1>2 DEF Ready, InFlight, Running, cycleVars
<1>4. QED
  BY <1>1, <1>2, <1>3, Kept DEF CycleInv, tableVars, cycleVars

LEMMA CallInv ==
  ASSUME CycleInv, Call
  PROVE  CycleInv'
<1>1. FetchInv /\ Exchange /\ UNCHANGED <<result, tableVars, cycleVars, seed>>
  BY DEF CycleInv, Call
<1>2. FetchInv' /\ fetch.call \in Calls /\ fetch'.subj = fetch.subj
  BY <1>1, ExchangeInv, ExchangeFrame
<1>3. fetch.call # "idle"
  BY <1>2 DEF Calls, GetJson, FacebookCalls, YouTubeCalls, TikTokCalls, Analytics
<1>4. InFlight'
  BY <1>1, <1>2, <1>3 DEF CycleInv, InFlight, Running, cycleVars
<1>5. QED
  BY <1>1, <1>2, <1>4, Kept DEF CycleInv, tableVars, cycleVars

LEMMA FetchedInv ==
  ASSUME CycleInv, Fetched
  PROVE  CycleInv'
<1>1. /\ fetch.call = "end" /\ result' = Result /\ Close
      /\ UNCHANGED <<tableVars, cycleVars, seed>>
  BY DEF Fetched
<1>2. FetchInv' /\ fetch'.call = "idle"
  BY <1>1, CloseInv
<1>3. Result \in Promise!Results(fetch.subj) /\ Result.subj = fetch.subj
  BY <1>1, ResultPromised DEF CycleInv
<1>4. fetch.subj \in Subjects
  BY <1>1 DEF CycleInv, FetchInv, CallsFit
<1>5. ResultOK'
  BY <1>1, <1>3, <1>4 DEF ResultOK, Promise!Results
<1>6. InFlight'
  BY <1>1, <1>2, <1>3 DEF CycleInv, InFlight, Running, cycleVars
<1>7. QED
  BY <1>1, <1>2, <1>5, <1>6, Kept DEF CycleInv, tableVars, cycleVars

LEMMA FetchTargetInv ==
  ASSUME CycleInv, NEW s \in Subjects, FetchTarget(s)
  PROVE  CycleInv'
<1>1. /\ Ready(s) /\ result' \in Promise!Results(s)
      /\ UNCHANGED <<fetchVars, tableVars, cycleVars, seed>>
  BY DEF FetchTarget
<1>2. ResultOK' /\ result'.subj = s
  BY <1>1 DEF ResultOK, Promise!Results
<1>3. InFlight'
  BY <1>1, <1>2 DEF Ready, InFlight, Running, cycleVars, fetchVars
<1>4. QED
  BY <1>1, <1>2, <1>3, Kept DEF CycleInv, tableVars, cycleVars

LEMMA LookupFailsInv ==
  ASSUME CycleInv, NEW s \in Subjects, LookupFails(s)
  PROVE  CycleInv'
<1>1. /\ Ready(s) /\ Over(s, TRUE)
      /\ UNCHANGED <<taskVars, tableVars, read, seed, seeded>>
  BY DEF LookupFails
<1>2. Running /\ s \in cycle.left /\ fetch'.call = "idle" /\ result' = NoResult
  BY <1>1 DEF Ready, taskVars, fetchVars
<1>3. CommandOK' /\ Queued' /\ InFlight'
  BY <1>1, <1>2, OverInv
<1>4. QED
  BY <1>1, <1>3, Kept DEF CycleInv, taskVars, tableVars

\* The end of a task with its result in hand.
LEMMA TakenInv ==
  ASSUME CycleInv, result # NoResult, NEW error \in BOOLEAN, Over(result.subj, error),
         result' = NoResult, UNCHANGED <<fetchVars, read, seeded>>
  PROVE  CommandOK' /\ Queued' /\ InFlight' /\ FetchInv' /\ ResultOK'
<1>1. Running /\ result.subj \in cycle.left /\ fetch'.call = "idle"
  BY DEF CycleInv, InFlight, fetchVars
<1>2. CommandOK' /\ Queued' /\ InFlight'
  BY <1>1, OverInv
<1>3. QED
  BY <1>2, Kept DEF ResultOK

LEMMA PersistInv ==
  ASSUME CycleInv, Persist
  PROVE  CycleInv'
<1> DEFINE s == AnsweredAs[result.subj]
<1>1. /\ result # NoResult /\ result.outcome = "data" /\ Over(result.subj, FALSE)
      /\ table' = [table EXCEPT ![s] = result.status]
      /\ synced' = synced \cup {result.subj} /\ result' = NoResult
      /\ UNCHANGED <<fetchVars, linked, read, seed, seeded>>
  BY DEF Persist, Recorded, Has
<1>2. result.subj \in Subjects /\ s \in Subjects /\ result.status \in {"active", "inactive"}
  BY <1>1, InHandFields, CycleAssumption DEF CycleInv
<1>3. CommandOK' /\ Queued' /\ InFlight' /\ FetchInv' /\ ResultOK'
  BY <1>1, TakenInv
<1>4. /\ table' \in [Subjects -> Rows] /\ table'[s] \in {"active", "inactive"}
      /\ \A t \in Subjects : t # s => table'[t] = table[t]
  BY <1>1, <1>2 DEF CycleInv, TableOK, Rows
<1>5. linked' \subseteq {t \in Subjects : table'[t] # "none"} /\ synced' \subseteq Subjects
  BY <1>1, <1>2, <1>4 DEF CycleInv, TableOK
<1>6. PendingForCause'
  <2> SUFFICES ASSUME NEW t \in synced', table'[t] \in {"none", "pending"}
               PROVE  AnsweredAs[t] # t
    BY DEF PendingForCause
  <2>1. t # s /\ t \in Subjects /\ table'[t] = table[t]
    BY <1>4, <1>5
  <2>2. QED
    BY <1>1, <2>1 DEF CycleInv, TableOK, PendingForCause
<1>7. SeedOK'
  <2>1. \A t \in Subjects : table[t] # "none" => table'[t] # "none"
    BY <1>4
  <2>2. SeedList \subseteq Subjects
    BY CycleAssumption DEF SeedList
  <2>3. QED
    BY <1>1, <2>1, <2>2 DEF CycleInv, SeedOK, HasRows
<1>8. QED
  BY <1>3, <1>4, <1>5, <1>6, <1>7 DEF CycleInv, TableOK

LEMMA UnrecordedInv ==
  ASSUME CycleInv, PersistFails \/ Return
  PROVE  CycleInv'
<1>1. /\ result # NoResult /\ result' = NoResult
      /\ UNCHANGED <<fetchVars, tableVars, read, seed, seeded>>
  BY DEF PersistFails, Return, Recorded, Has
<1>2. \E error \in BOOLEAN : Over(result.subj, error)
  BY DEF PersistFails, Return
<1>3. CommandOK' /\ Queued' /\ InFlight' /\ FetchInv' /\ ResultOK'
  BY <1>1, <1>2, TakenInv
<1>4. QED
  BY <1>1, <1>3, Kept DEF CycleInv, tableVars

LEMMA CreateInv ==
  ASSUME CycleInv, NEW s \in Subjects, CreateCredential(s)
  PROVE  CycleInv'
<1>1. /\ table[s] = "none" /\ table' = [table EXCEPT ![s] = "pending"]
      /\ linked' = linked \cup {s} /\ UNCHANGED <<synced, taskVars, cycleVars, seed>>
  BY DEF CreateCredential
<1>2. TableOK'
  BY <1>1 DEF CycleInv, TableOK, Rows, PendingForCause
<1>3. SeedOK'
  <2>1. \A t \in Subjects : table[t] # "none" => table'[t] # "none"
    BY <1>1 DEF CycleInv, TableOK
  <2>2. SeedList \subseteq Subjects
    BY CycleAssumption DEF SeedList
  <2>3. QED
    BY <1>1, <2>1, <2>2 DEF CycleInv, SeedOK, HasRows, cycleVars
<1>4. QED
  BY <1>1, <1>2, <1>3, Kept DEF CycleInv, taskVars, cycleVars

LEMMA SeedInv ==
  ASSUME CycleInv,
         \/ SeedSubjects \/ SeedInsert \/ SeedComplete
         \/ \E s \in Subjects : SeedSelect(s)
  PROVE  CycleInv'
<1>0. UNCHANGED <<taskVars, cycleVars, linked, synced>> /\ SeedList \subseteq Env
  BY DEF SeedSubjects, SeedInsert, SeedComplete, SeedSelect, tableVars, SeedList
<1>1. CASE SeedSubjects
  <2>1. UNCHANGED tableVars
    BY <1>1 DEF SeedSubjects
  <2>2. SeedOK'
    BY <1>0, <1>1, <2>1 DEF CycleInv, SeedOK, HasRows, SeedSubjects, SeedList, tableVars, cycleVars
  <2>3. QED
    BY <1>0, <2>1, <2>2, Kept DEF CycleInv, taskVars, cycleVars
<1>2. CASE \E s \in Subjects : SeedSelect(s)
  <2>1. UNCHANGED tableVars
    BY <1>2 DEF SeedSelect
  <2>2. PICK s \in seed.todo :
          /\ seed.state = "select"
          /\ seed' = IF table[s] = "none" THEN [seed EXCEPT !.state = "insert", !.key = s]
                     ELSE [seed EXCEPT !.todo = @ \ {s}]
    BY <1>2 DEF SeedSelect
  <2>3. SeedOK'
    BY <1>0, <2>1, <2>2 DEF CycleInv, SeedOK, HasRows, tableVars, cycleVars
  <2>4. QED
    BY <1>0, <2>1, <2>3, Kept DEF CycleInv, taskVars, cycleVars
<1>3. CASE SeedInsert
  <2>1. seed.key \in seed.todo /\ seed.key \in Subjects /\ seed.todo \subseteq Env
    BY <1>3, CycleAssumption DEF CycleInv, SeedOK, SeedInsert
  <2>2. CASE /\ table[seed.key] = "none"
             /\ table' = [table EXCEPT ![seed.key] = "pending"]
             /\ seed' = [state |-> "select", todo |-> seed.todo \ {seed.key}, key |-> NoSubject]
    <3>1. TableOK'
      BY <1>0, <2>1, <2>2 DEF CycleInv, TableOK, Rows, PendingForCause
    <3>2. /\ table'[seed.key] # "none"
          /\ \A t \in Subjects : table[t] # "none" => table'[t] # "none"
      BY <2>1, <2>2 DEF CycleInv, TableOK
    <3>3. SeedOK'
      BY <1>0, <1>3, <2>1, <2>2, <3>2, CycleAssumption
      DEF CycleInv, SeedOK, HasRows, SeedInsert, cycleVars
    <3>4. QED
      BY <1>0, <3>1, <3>3, Kept DEF CycleInv, taskVars, cycleVars
  <2>3. CASE /\ seed' = [state |-> "failed", todo |-> {}, key |-> NoSubject]
             /\ UNCHANGED table
    <3>1. SeedOK'
      BY <1>0, <2>3 DEF CycleInv, SeedOK, HasRows, cycleVars
    <3>2. QED
      BY <1>0, <2>3, <3>1, Kept DEF CycleInv, taskVars, tableVars, cycleVars
  <2>4. QED
    BY <1>3, <2>2, <2>3 DEF SeedInsert
<1>4. CASE SeedComplete
  <2>1. UNCHANGED tableVars
    BY <1>4 DEF SeedComplete
  <2>2. SeedOK'
    BY <1>0, <1>4, <2>1 DEF CycleInv, SeedOK, HasRows, SeedComplete, tableVars, cycleVars
  <2>3. QED
    BY <1>0, <2>1, <2>2, Kept DEF CycleInv, taskVars, cycleVars
<1>5. QED
  BY <1>1, <1>2, <1>3, <1>4

-----------------------------------------------------------------------------
(* The theorems. *)

LEMMA InitInv == Init => CycleInv
<1> SUFFICES ASSUME Init PROVE CycleInv
  OBVIOUS
<1>1. FetchInv
  BY IdleInv DEF Init, FetchInit
<1>2. <<>> \in Seq(Platforms)
  BY EmptySeq
<1>3. CommandOK
  BY <1>2 DEF Init, NoCommand, CommandOK, Cycle, Running, ExitCodeTells, Finished
<1>4. QED
  BY <1>1, <1>3 DEF Init, FetchInit, Idle, NoCommand, CycleInv, ResultOK, TableOK, Rows,
     PendingForCause, SeedOK, Queued, InFlight

LEMMA NextInv == CycleInv /\ [Next]_vars => CycleInv'
<1> SUFFICES ASSUME CycleInv, [Next]_vars PROVE CycleInv'
  OBVIOUS
<1>1. CASE UNCHANGED vars
  <2>1. /\ UNCHANGED fetchVars /\ UNCHANGED result /\ UNCHANGED tableVars
        /\ UNCHANGED cycleVars /\ UNCHANGED <<table, seed, seeded>>
        /\ UNCHANGED <<taskVars, cycle>>
    BY <1>1 DEF vars, taskVars, tableVars, cycleVars
  <2>2. QED
    BY <2>1, Kept DEF CycleInv
<1>2. CASE Sync
  BY <1>2, ReadTargetsInv, FinishInv, RunTargetInv, CallInv, FetchedInv, FetchTargetInv,
     LookupFailsInv, PersistInv, UnrecordedInv DEF Sync
<1>3. CASE Next /\ ~Sync
  BY <1>3, BeginInv, ExitInv, CreateInv, SeedInv DEF Next
<1>4. QED
  BY <1>1, <1>2, <1>3

LEMMA InvImplies ==
  CycleInv => /\ TypeOK /\ EveryTargetTried /\ ExitCodeTells /\ SeededTargetsTried
              /\ PendingForCause /\ InactiveForCause /\ SampleFaithful
<1> SUFFICES ASSUME CycleInv
             PROVE  /\ TypeOK /\ EveryTargetTried /\ ExitCodeTells /\ SeededTargetsTried
                    /\ PendingForCause /\ InactiveForCause
                    /\ SampleFaithful
  OBVIOUS
<1>1. TypeOK
  BY DEF CycleInv, FetchInv, ResultOK, TableOK, CommandOK, SeedOK, TypeOK
<1>2. EveryTargetTried /\ ExitCodeTells
  BY DEF CycleInv, CommandOK, EveryTargetTried, Finished
<1>3. SeededTargetsTried
  <2> SUFFICES ASSUME Finished, cycle.command = "sync-all", seeded,
                      NEW s \in Env, PlatformOf[s] \in Enabled \ {"tiktok"}
               PROVE  s \in tried
    BY DEF SeededTargetsTried
  <2>1. s \in SeedList /\ cycle.queue = <<>> /\ read = tried
    BY DEF SeedList, Finished, CycleInv, CommandOK
  <2>2. QED
    BY <2>1 DEF CycleInv, Queued
<1>4. QED
  BY <1>1, <1>2, <1>3, SampleInv, InactiveInv DEF CycleInv, FetchInv, TableOK

LEMMA CycleInvariant == Spec => []CycleInv
  BY InitInv, NextInv, PTL DEF Spec

\* The state of the commands, of the executions and of the table has its type.
THEOREM CycleTypeCorrect == Spec => []TypeOK
  BY CycleInvariant, InvImplies, PTL

\* A command that went through its platforms has tried every target it read,
\* whichever of them failed before.
THEOREM CyclesComplete == Spec => []EveryTargetTried
  BY CycleInvariant, InvImplies, PTL

\* The exit code of a command says whether one of its targets raised.
THEOREM ExitCodesTell == Spec => []ExitCodeTells
  BY CycleInvariant, InvImplies, PTL

\* Rows are never deleted, so a seeding that ended well binds every sync-all.
THEOREM SeedingCounts == Spec => []SeededTargetsTried
  BY CycleInvariant, InvImplies, PTL

\* Only an answer with another id leaves the row of a synced subject behind.
THEOREM PlaceholdersResolve == Spec => []PendingForCause
  BY CycleInvariant, InvImplies, PTL

\* However a platform splits its pages, a list that nothing has cut short is
\* read as the newest posts.
THEOREM ListsFaithful == Spec => []SampleFaithful
  BY CycleInvariant, InvImplies, PTL

\* A fetch calls a subject inactive only if its newest posts show nothing of the
\* last thirty days, or if a list was cut short.
THEOREM InactivityHasCause == Spec => []InactiveForCause
  BY CycleInvariant, InvImplies, PTL

-----------------------------------------------------------------------------
(* What the platform has said of the subject. *)

Heard == gone => fetch.call \notin Calls /\ fetch.outcome = "not_found"

\* The call that is told that the subject does not exist is the last.
LEMMA ExchangeHeard ==
  ASSUME FetchInv, Heard, Exchange
  PROVE  Heard'
<1>1. fetch.call \in Calls /\ ~gone /\ fetch \in Fetch /\ "end" \notin Calls
  BY ExchangeFrame DEF Heard, FetchInv, FetchTypeOK, Calls, GetJson, FacebookCalls,
     YouTubeCalls, TikTokCalls, Analytics
<1>2. UNCHANGED gone => Heard'
  BY <1>1 DEF Heard
<1>3. End("not_found") => Heard'
  BY <1>1 DEF End, Fetch, Heard
<1>4. ~gone' => Heard'
  BY DEF Heard
<1>5. CASE \E code \in Codes, body \in Bodies : PageRefused(code, body)
  <2>1. PICK code \in Codes, body \in Bodies : PageRefused(code, body)
    BY <1>5
  <2>2. CASE code = "404"
    BY <1>3, <2>1, <2>2 DEF PageRefused, TextOf
  <2>3. QED
    BY <1>4, <2>1, <2>2 DEF PageRefused
<1>6. CASE \E code \in Codes, body \in Bodies : ChannelRefused(code, body)
  <2>1. PICK code \in Codes, body \in Bodies : ChannelRefused(code, body)
    BY <1>6
  <2>2. CASE code = "404"
    BY <1>3, <2>1, <2>2 DEF ChannelRefused, TextOf
  <2>3. QED
    BY <1>4, <2>1, <2>2 DEF ChannelRefused
<1>7. CASE \E code \in Codes \cup {"429"} : UserRefused(code)
  BY <1>3, <1>4, <1>7 DEF UserRefused
<1>8. CASE ChannelRead \/ UserRead
  BY <1>2, <1>3, <1>8 DEF ChannelRead, UserRead
<1>9. CASE \E code \in Codes, body \in Bodies :
             PostsRefused(code, body) \/ InsightRefused(code, body)
             \/ MediaRefused(code, body) \/ UploadsRefused(code, body)
  BY <1>2, <1>9 DEF PostsRefused, InsightRefused, MediaRefused, UploadsRefused
<1>10. CASE \/ Busy \/ Garbled \/ PageRead \/ PostsRead \/ InsightRead \/ MediaRead
            \/ UploadsPage \/ EmptyPage \/ DetailsRead \/ DetailsRefused \/ Report
            \/ ListPage \/ ListRefused
  BY <1>2, <1>10 DEF Busy, Garbled, PageRead, PostsRead, InsightRead, MediaRead, UploadsPage,
     EmptyPage, DetailsRead, DetailsRefused, Report, ListPage, ListRefused
<1>11. QED
  BY <1>5, <1>6, <1>7, <1>8, <1>9, <1>10 DEF Exchange

LEMMA HeardKept == CycleInv /\ Heard /\ [Next]_vars => Heard'
<1> SUFFICES ASSUME CycleInv, Heard, [Next]_vars PROVE Heard'
  OBVIOUS
<1>1. UNCHANGED fetchVars => Heard'
  BY DEF fetchVars, Heard
<1>2. CASE Call
  BY <1>2, ExchangeHeard DEF Call, CycleInv
<1>3. CASE Fetched
  BY <1>3 DEF Fetched, Close, Heard
<1>4. CASE \E s \in Subjects : RunTarget(s)
  BY <1>4 DEF RunTarget, Open, Heard
<1>5. CASE UNCHANGED vars
  BY <1>1, <1>5 DEF vars, taskVars
<1>6. CASE Sync /\ ~Call /\ ~Fetched /\ ~(\E s \in Subjects : RunTarget(s))
  BY <1>1, <1>6 DEF Sync, ReadTargets, ReadTargetsFails, Complete, FetchTarget, LookupFails,
     Persist, PersistFails, Return, taskVars
<1>7. CASE Next /\ ~Sync
  BY <1>1, <1>7 DEF Next, SyncCommand, SyncOne, Crawl, Start, Exit, CreateCredential, SeedSelect,
     SeedSubjects, SeedInsert, SeedComplete, taskVars
<1>8. QED
  BY <1>2, <1>3, <1>4, <1>5, <1>6, <1>7

\* A 404 for the subject itself ends its fetch as not found, whatever else the
\* text of the error holds.
THEOREM MissingReported == Spec => []MissingIsReported
<1>1. Init => Heard
  BY DEF Init, FetchInit, Heard
<1>2. Heard => MissingIsReported
  BY DEF Heard, MissingIsReported
<1>3. QED
  BY <1>1, <1>2, CycleInvariant, HeardKept, PTL DEF Spec

-----------------------------------------------------------------------------
(* Every step of a command brings its end nearer. *)

DescentInv == CycleInv /\ Unfinished(fetch)

\* The steps of the targets that are left, and of a platform at most.
Rest ==
  IF cycle.left = {} THEN 0
  ELSE (Cardinality(cycle.left) - 1) * StepsOfTarget + StepsInHand

OfPlatform == Cardinality(Subjects) * StepsOfTarget

LEMMA StepsOfTargetNat ==
  /\ MostCalls \in Nat \ {0} /\ StepsOfTarget = MostCalls + 3 /\ StepsOfTarget \in Nat
  /\ Cardinality(Subjects) \in Nat /\ OfPlatform \in Nat
<1>1. MaxAttempts * (Metrics + SampleLimit + 5) \in Nat
  BY FetchAssumption
<1>2. MostCalls \in Nat \ {0} /\ StepsOfTarget = MostCalls + 3
  BY <1>1, FetchAssumption DEF MostCalls, StepsOfTarget
<1>3. Cardinality(Subjects) \in Nat
  BY FiniteSubjects, FS_CardinalityType
<1>4. QED
  BY <1>2, <1>3 DEF OfPlatform

LEMMA StepsInHandRange == DescentInv => StepsInHand \in 1 .. StepsOfTarget
<1> SUFFICES ASSUME DescentInv PROVE StepsInHand \in 1 .. StepsOfTarget
  OBVIOUS
<1>1. fetch.call \notin {"idle", "end"} => CallsLeft(fetch) \in 1 .. MostCalls
  <2>1. fetch \in Fetch /\ fetch.call \in Calls \cup {"idle", "end"}
    BY FetchFields DEF DescentInv, CycleInv, FetchInv, FetchTypeOK
  <2>2. QED
    BY <2>1, CallsLeftRange DEF DescentInv
<1>2. QED
  BY <1>1, StepsOfTargetNat DEF StepsInHand

LEMMA LeftFinite ==
  ASSUME CommandOK
  PROVE  /\ IsFiniteSet(cycle.left) /\ Cardinality(cycle.left) \in Nat
         /\ Cardinality(cycle.left) <= Cardinality(Subjects)
         /\ Cardinality(cycle.left) = 0 <=> cycle.left = {}
         /\ \A s \in cycle.left :
              Cardinality(cycle.left \ {s}) = Cardinality(cycle.left) - 1
<1>1. cycle.left \in SUBSET Subjects
  BY CycleFields
<1>2. IsFiniteSet(cycle.left) /\ Cardinality(cycle.left) <= Cardinality(Subjects)
  BY <1>1, FiniteSubjects, FS_Subset
<1>3. QED
  BY <1>2, FS_CardinalityType, FS_EmptySet, FS_RemoveElement

LEMMA RestRange == DescentInv => Rest \in 0 .. OfPlatform
<1> SUFFICES ASSUME DescentInv, cycle.left # {} PROVE Rest \in 0 .. OfPlatform
  BY StepsOfTargetNat DEF Rest
<1> DEFINE n == Cardinality(cycle.left)
           m == Cardinality(Subjects)
           T == StepsOfTarget
           hand == StepsInHand
<1>1. n \in Nat /\ n # 0 /\ n <= m /\ m \in Nat /\ T \in Nat /\ hand \in 1 .. T
  BY LeftFinite, StepsOfTargetNat, StepsInHandRange DEF DescentInv, CycleInv
<1>2. Rest = (n - 1) * T + hand /\ OfPlatform = m * T
  BY DEF Rest, OfPlatform
<1> HIDE DEF n, m, T, hand
<1>3. (n - 1) * T + T = n * T /\ (n - 1) * T \in Nat /\ n * T \in Nat /\ m * T \in Nat
  BY <1>1
<1>4. n * T <= m * T
  BY <1>1
<1> DEFINE before == (n - 1) * T
           all == n * T
           most == m * T
<1> HIDE DEF before, all, most
<1>5. before + hand \in 0 .. most
  BY <1>1, <1>3, <1>4 DEF before, all, most
<1>6. QED
  BY <1>2, <1>5 DEF before, most

LEMMA StepsLeftIs ==
  StepsLeft = IF ~Running THEN 0 ELSE 1 + Len(cycle.queue) * (1 + OfPlatform) + Rest
  BY DEF StepsLeft, Rest, OfPlatform

LEMMA QueueSteps ==
  ASSUME CommandOK
  PROVE  Len(cycle.queue) * (1 + OfPlatform) \in Nat
<1> DEFINE q == Len(cycle.queue)
           d == 1 + OfPlatform
<1>1. q \in Nat /\ d \in Nat
  BY CycleFields, LenProperties, StepsOfTargetNat
<1> HIDE DEF q, d
<1>2. q * d \in Nat
  BY <1>1
<1>3. QED
  BY <1>2 DEF q, d

LEMMA StepsLeftRange == DescentInv => StepsLeft \in Nat /\ (Running => StepsLeft >= 1)
<1> SUFFICES ASSUME DescentInv, Running PROVE StepsLeft \in Nat /\ StepsLeft >= 1
  BY StepsLeftIs
<1> DEFINE other == Len(cycle.queue) * (1 + OfPlatform)
<1>1. other \in Nat
  BY QueueSteps DEF DescentInv, CycleInv
<1>2. Rest \in Nat
  BY RestRange, StepsOfTargetNat
<1>3. StepsLeft = 1 + other + Rest
  BY StepsLeftIs
<1> HIDE DEF other
<1>4. QED
  BY <1>1, <1>2, <1>3

\* The same of the next state.
LEMMA RangesNext ==
  /\ (DescentInv => Rest \in 0 .. OfPlatform)'
  /\ (DescentInv => StepsInHand \in 1 .. StepsOfTarget)'
  /\ (DescentInv => StepsLeft \in Nat /\ (Running => StepsLeft >= 1))'
  /\ (StepsLeft = IF ~Running THEN 0 ELSE 1 + Len(cycle.queue) * (1 + OfPlatform) + Rest)'
  BY RestRange, StepsInHandRange, StepsLeftRange, StepsLeftIs, PTL

Descends == StepsLeft' \in 0 .. StepsLeft - 1

\* The targets that are left have fewer steps to go.
LEMMA RestDescends ==
  ASSUME DescentInv, DescentInv', Running, Running', cycle'.queue = cycle.queue, Rest' < Rest
  PROVE  Descends
<1> DEFINE other == Len(cycle.queue) * (1 + OfPlatform)
<1>1. OfPlatform' = OfPlatform
  BY DEF OfPlatform, StepsOfTarget, MostCalls
<1>2. StepsLeft = 1 + other + Rest /\ StepsLeft' = 1 + other + Rest'
  BY <1>1, StepsLeftIs, RangesNext
<1>3. other \in Nat
  BY QueueSteps DEF DescentInv, CycleInv
<1>4. Rest \in Nat /\ Rest' \in Nat
  BY <1>1, RestRange, RangesNext, StepsOfTargetNat
<1> HIDE DEF other
<1> DEFINE now == Rest
           next == Rest'
<1>5. now \in Nat /\ next \in Nat /\ next < now
  BY <1>4
<1> HIDE DEF now, next
<1>6. 1 + other + next \in 0 .. (1 + other + now) - 1
  BY <1>3, <1>5
<1>7. QED
  BY <1>2, <1>6 DEF Descends, now, next

\* The target in hand has.
LEMMA HandDescends ==
  ASSUME DescentInv, DescentInv', Running, UNCHANGED cycle, cycle.left # {},
         StepsInHand' < StepsInHand
  PROVE  Descends
<1> DEFINE n == Cardinality(cycle.left)
<1>1. StepsOfTarget' = StepsOfTarget
  BY DEF StepsOfTarget, MostCalls
<1>2. /\ Rest = (n - 1) * StepsOfTarget + StepsInHand
      /\ Rest' = (n - 1) * StepsOfTarget + StepsInHand'
  BY <1>1 DEF Rest
<1>3. n \in Nat /\ StepsOfTarget \in Nat
  BY LeftFinite, StepsOfTargetNat DEF DescentInv, CycleInv
<1>4. StepsInHand \in Int /\ StepsInHand' \in Int
  BY <1>1, <1>3, StepsInHandRange, RangesNext
<1>5. (n - 1) * StepsOfTarget \in Int
  BY <1>3
<1> HIDE DEF n
<1>6. Rest' < Rest
  BY <1>2, <1>4, <1>5
<1>7. Running'
  BY DEF Running
<1>8. QED
  BY <1>6, <1>7, RestDescends

\* A target is over, with one fewer left.
LEMMA OverDescends ==
  ASSUME DescentInv, DescentInv', Running, NEW s \in cycle.left, NEW error \in BOOLEAN,
         Over(s, error), fetch'.call = "idle", result' = NoResult
  PROVE  Descends
<1> DEFINE n == Cardinality(cycle.left)
<1>1. /\ cycle'.left = cycle.left \ {s} /\ cycle'.queue = cycle.queue
      /\ cycle'.command = cycle.command /\ cycle'.done = cycle.done
  BY DEF DescentInv, CycleInv, CommandOK, Cycle, Over
<1>2. StepsOfTarget' = StepsOfTarget
  BY DEF StepsOfTarget, MostCalls
<1>3. /\ n \in Nat \ {0} /\ StepsOfTarget \in Nat /\ StepsInHand \in Nat \ {0}
      /\ Cardinality(cycle'.left) = n - 1
  BY <1>1, LeftFinite, StepsOfTargetNat, StepsInHandRange DEF DescentInv, CycleInv
<1>4. StepsInHand' = StepsOfTarget
  BY <1>2 DEF StepsInHand
<1>5. Rest = (n - 1) * StepsOfTarget + StepsInHand
  BY DEF Rest
<1>6. Rest' \in {0, ((n - 1) - 1) * StepsOfTarget + StepsOfTarget}
  BY <1>2, <1>3, <1>4 DEF Rest
<1> HIDE DEF n
<1>7. /\ (n - 1) * StepsOfTarget \in Nat
      /\ ((n - 1) - 1) * StepsOfTarget + StepsOfTarget = (n - 1) * StepsOfTarget
  BY <1>3
<1>8. Rest' < Rest
  BY <1>3, <1>5, <1>6, <1>7
<1>9. Running'
  BY <1>1 DEF Running
<1>10. QED
  BY <1>1, <1>8, <1>9, RestDescends

\* A platform less is before the command, with all of its targets at most.
LEMMA ReadDescends ==
  ASSUME DescentInv, DescentInv', ReadTargets
  PROVE  Descends
<1> DEFINE q == Len(cycle.queue)
<1>1. /\ Running /\ cycle.left = {} /\ cycle.queue # <<>> /\ cycle'.queue = Tail(cycle.queue)
      /\ cycle'.command = cycle.command /\ cycle'.done = cycle.done
  BY DEF ReadTargets, DescentInv, CycleInv, CommandOK, Cycle
<1>2. q \in Nat \ {0} /\ Len(cycle'.queue) = q - 1
  BY <1>1, CycleFields, HeadTailProperties, LenProperties, EmptySeq DEF DescentInv, CycleInv
<1>3. OfPlatform' = OfPlatform /\ OfPlatform \in Nat /\ Running'
  BY <1>1, StepsOfTargetNat DEF OfPlatform, StepsOfTarget, MostCalls, Running
<1>4. Rest = 0 /\ Rest' \in 0 .. OfPlatform
  BY <1>1, <1>3, RangesNext DEF Rest
<1>5. /\ StepsLeft = 1 + q * (1 + OfPlatform) + Rest
      /\ StepsLeft' = 1 + (q - 1) * (1 + OfPlatform) + Rest'
  BY <1>1, <1>2, <1>3, StepsLeftIs, RangesNext
<1> HIDE DEF q
<1>6. /\ q * (1 + OfPlatform) = (q - 1) * (1 + OfPlatform) + (1 + OfPlatform)
      /\ (q - 1) * (1 + OfPlatform) \in Nat
  BY <1>2, <1>3
<1>7. QED
  BY <1>3, <1>4, <1>5, <1>6 DEF Descends

LEMMA SyncDescends ==
  ASSUME DescentInv, DescentInv', Sync, ~EmptyPage
  PROVE  Descends
<1>1. CASE ReadTargets
  BY <1>1, ReadDescends
<1>2. CASE ReadTargetsFails \/ Complete
  <2>1. Running /\ cycle'.done
    BY <1>2 DEF ReadTargetsFails, Complete, DescentInv, CycleInv, CommandOK, Cycle
  <2>2. StepsLeft' = 0
    BY <2>1, RangesNext DEF Running
  <2>3. QED
    BY <2>1, <2>2, StepsLeftRange DEF Descends
<1>3. ASSUME NEW s \in Subjects, RunTarget(s) PROVE Descends
  <2>1. /\ Ready(s) /\ Open(s, Token(s)) /\ Token(s) \in BOOLEAN
        /\ UNCHANGED <<result, cycleVars>>
    BY <1>3 DEF RunTarget, Token
  <2>2. fetch'.call # "idle"
    BY <2>1, OpenInv
  <2>3. /\ Running /\ UNCHANGED cycle /\ cycle.left # {} /\ StepsInHand = StepsOfTarget
        /\ result' = NoResult
    BY <2>1 DEF Ready, cycleVars, StepsInHand
  <2>4. StepsInHand' \in {2, CallsLeft(fetch') + 2}
    BY <2>2, <2>3 DEF StepsInHand
  <2>5. fetch'.call # "end" => CallsLeft(fetch') \in 1 .. MostCalls
    <3>1. fetch' \in Fetch /\ fetch'.call \in Calls \cup {"idle", "end"}
      BY DEF DescentInv, CycleInv, FetchInv, FetchTypeOK, Fetch
    <3>2. QED
      BY <2>2, <3>1, CallsLeftRange DEF DescentInv
  <2>6. StepsInHand' < StepsInHand
    BY <2>2, <2>3, <2>4, <2>5, StepsOfTargetNat DEF StepsInHand
  <2>7. QED
    BY <2>3, <2>6, HandDescends
<1>4. CASE Call
  <2>1. /\ Exchange /\ FetchInv /\ Unfinished(fetch) /\ UNCHANGED <<result, cycleVars>>
    BY <1>4 DEF Call, DescentInv, CycleInv
  <2>2. Nearer /\ fetch.call \in Calls
    BY <2>1, ExchangeNearer, ExchangeFrame
  <2>3. fetch.call \notin {"idle", "end"}
    BY <2>2 DEF Calls, GetJson, FacebookCalls, YouTubeCalls, TikTokCalls, Analytics
  <2>4. /\ Running /\ UNCHANGED cycle /\ cycle.left # {}
        /\ result = NoResult /\ result' = NoResult
    BY <2>1, <2>3 DEF DescentInv, CycleInv, InFlight, cycleVars
  <2>5. StepsInHand = CallsLeft(fetch) + 2
    BY <2>3, <2>4 DEF StepsInHand
  <2>6. CallsLeft(fetch) \in 1 .. MostCalls
    BY <2>1, <2>2, CallsLeftRange DEF FetchInv, FetchTypeOK
  <2>7. CASE fetch'.call = "end"
    <3>1. StepsInHand' = 2
      BY <2>4, <2>7 DEF StepsInHand
    <3>2. QED
      BY <2>4, <2>5, <2>6, <3>1, HandDescends, StepsOfTargetNat
  <2>8. CASE fetch'.call \in Calls /\ CallsLeft(fetch') < CallsLeft(fetch)
    <3>1. fetch'.call \notin {"idle", "end"}
      BY <2>8 DEF Calls, GetJson, FacebookCalls, YouTubeCalls, TikTokCalls, Analytics
    <3>2. StepsInHand' = CallsLeft(fetch') + 2
      BY <2>4, <3>1 DEF StepsInHand
    <3>3. CallsLeft(fetch') \in Int
      <4>1. fetch' \in Fetch /\ Unfinished(fetch')
        BY DEF DescentInv, CycleInv, FetchInv, FetchTypeOK
      <4>2. QED
        BY <2>8, <4>1, CallsLeftRange
    <3>4. StepsInHand' < StepsInHand
      BY <2>5, <2>6, <2>8, <3>2, <3>3
    <3>5. QED
      BY <2>4, <3>4, HandDescends
  <2>9. QED
    BY <2>2, <2>7, <2>8 DEF Nearer
<1>5. CASE Fetched
  <2>1. fetch.call = "end" /\ result' = Result /\ UNCHANGED cycle
    BY <1>5 DEF Fetched, cycleVars
  <2>2. Running /\ cycle.left # {} /\ result = NoResult
    BY <2>1 DEF DescentInv, CycleInv, InFlight
  <2>3. result' # NoResult
    <3>1. Result \in Promise!Results(fetch.subj) /\ fetch.subj \in Subjects
      BY <2>1, ResultPromised DEF DescentInv, CycleInv, FetchInv, CallsFit
    <3>2. QED
      BY <2>1, <3>1, ResultAssumption
  <2>4. StepsInHand = 2 /\ StepsInHand' = 1
    BY <2>1, <2>2, <2>3 DEF StepsInHand
  <2>5. QED
    BY <2>1, <2>2, <2>4, HandDescends
<1>6. ASSUME NEW s \in Subjects, FetchTarget(s) PROVE Descends
  <2>1. /\ Running /\ cycle.left # {} /\ UNCHANGED cycle /\ StepsInHand = StepsOfTarget
        /\ result' \in Promise!Results(s)
    BY <1>6 DEF FetchTarget, Ready, cycleVars, StepsInHand
  <2>2. StepsInHand' = 1
    BY <2>1, ResultAssumption DEF StepsInHand
  <2>3. QED
    BY <2>1, <2>2, HandDescends, StepsOfTargetNat
<1>7. ASSUME NEW s \in Subjects, LookupFails(s) PROVE Descends
  <2>1. Running /\ s \in cycle.left /\ Over(s, TRUE) /\ fetch'.call = "idle" /\ result' = NoResult
    BY <1>7 DEF LookupFails, Ready, taskVars, fetchVars
  <2>2. QED
    BY <2>1, OverDescends
<1>8. CASE Persist \/ PersistFails \/ Return
  <2>1. result # NoResult /\ result' = NoResult /\ fetch' = fetch
    BY <1>8 DEF Persist, PersistFails, Return, Recorded, Has, fetchVars
  <2>2. Running /\ result.subj \in cycle.left /\ fetch'.call = "idle"
    BY <2>1 DEF DescentInv, CycleInv, InFlight
  <2>3. PICK error \in BOOLEAN : Over(result.subj, error)
    BY <1>8 DEF Persist, PersistFails, Return
  <2>4. QED
    BY <2>1, <2>2, <2>3, OverDescends
<1>9. QED
  BY <1>1, <1>2, <1>3, <1>4, <1>5, <1>6, <1>7, <1>8 DEF Sync

\* The other processes do not move the end away.
LEMMA OthersKeep ==
  ASSUME DescentInv, DescentInv', Next, ~Sync, cycle.command # "none"
  PROVE  StepsLeft' \in 0 .. StepsLeft
<1>1. CASE Exit
  <2>1. StepsLeft' = 0
    BY <1>1, RangesNext DEF Exit, NoCommand, Running
  <2>2. QED
    BY <2>1, StepsLeftRange
<1>2. CASE UNCHANGED <<cycle, result, fetch>>
  <2>1. StepsLeft' = StepsLeft
    BY <1>2 DEF StepsLeft, Running, StepsInHand, StepsOfTarget, MostCalls
  <2>2. QED
    BY <2>1, StepsLeftRange
<1>3. ~SyncCommand /\ ~Crawl /\ \A s \in Subjects : ~SyncOne(s)
  BY DEF SyncCommand, Crawl, SyncOne, Start
<1>4. ~Exit => UNCHANGED <<cycle, result, fetch>>
  BY <1>3 DEF Next, CreateCredential, SeedSelect, SeedSubjects, SeedInsert, SeedComplete,
     taskVars, fetchVars, cycleVars
<1>5. QED
  BY <1>1, <1>2, <1>4

\* There is always room in a list that is read, and an insight to ask for.
LEMMA UnfinishedKept == DescentInv /\ [Next]_vars => Unfinished(fetch)'
<1> SUFFICES ASSUME DescentInv, [Next]_vars PROVE Unfinished(fetch')
  OBVIOUS
<1>0. Metrics > 0 /\ Unfinished(Idle)
  BY FetchAssumption DEF Idle, Unfinished
<1>1. CASE UNCHANGED fetch
  BY <1>1 DEF DescentInv
<1>2. ASSUME NEW s \in Subjects, RunTarget(s) PROVE Unfinished(fetch')
  <2>1. /\ fetch'.metric = 0
        /\ fetch'.call \in {FirstCall(PlatformOf[s]), "end"}
    BY <1>2 DEF RunTarget, Open, Idle
  <2>2. FirstCall(PlatformOf[s]) \in {"page", "channel", "user"}
    BY FetchAssumption DEF FirstCall, Platforms
  <2>3. QED
    BY <1>0, <2>1, <2>2 DEF Unfinished
<1>3. CASE Call /\ ~EmptyPage
  BY <1>3, ExchangeNearer DEF Call, DescentInv, CycleInv, Nearer
<1>4. CASE EmptyPage
  <2>1. /\ fetch'.call = fetch.call /\ fetch'.sample = fetch.sample
        /\ fetch'.metric = fetch.metric
    BY <1>4 DEF EmptyPage, DescentInv, CycleInv, FetchInv, FetchTypeOK, Fetch
  <2>2. QED
    BY <2>1 DEF DescentInv, Unfinished
<1>5. CASE Fetched
  BY <1>0, <1>5 DEF Fetched, Close
<1>6. QED
  BY <1>1, <1>2, <1>3, <1>4, <1>5 DEF Next, Sync, SyncCommand, SyncOne, Crawl, Start, Exit,
     CreateCredential, SeedSelect, SeedSubjects, SeedInsert, SeedComplete, ReadTargets,
     ReadTargetsFails, Complete, FetchTarget, LookupFails, Persist, PersistFails, Return,
     vars, taskVars, fetchVars

LEMMA DescentInvariant == Spec => []DescentInv
<1>1. Init => Unfinished(fetch)
  BY FetchAssumption DEF Init, FetchInit, Idle, Unfinished
<1>2. CycleInv /\ Unfinished(fetch) /\ [Next]_vars => Unfinished(fetch)'
  BY UnfinishedKept DEF DescentInv
<1>3. QED
  BY <1>1, <1>2, CycleInvariant, PTL DEF Spec, DescentInv

\* Every step of a command, each exchange with a platform included, brings its end
\* nearer, and nothing that runs beside it moves the end away: but for the empty
\* pages of a playlist, a command takes at most StepsLeft steps.
THEOREM CommandsDescend == Spec => CommandDescends
<1>1. DescentInv /\ DescentInv' /\ [Next]_vars
        => [ ~EmptyPage => /\ Sync => StepsLeft' \in 0 .. StepsLeft - 1
                           /\ cycle.command # "none" => StepsLeft' \in 0 .. StepsLeft ]_vars
  <2> SUFFICES ASSUME DescentInv, DescentInv', Next, ~EmptyPage
               PROVE  /\ Sync => StepsLeft' \in 0 .. StepsLeft - 1
                      /\ cycle.command # "none" => StepsLeft' \in 0 .. StepsLeft
    OBVIOUS
  <2>1. CASE Sync
    <3>1. StepsLeft' \in 0 .. StepsLeft - 1
      BY <2>1, SyncDescends DEF Descends
    <3>2. StepsLeft \in Nat
      BY StepsLeftRange
    <3>3. QED
      BY <3>1, <3>2
  <2>2. CASE ~Sync
    BY <2>2, OthersKeep
  <2>3. QED
    BY <2>1, <2>2
<1>2. QED
  BY <1>1, DescentInvariant, PTL DEF Spec, CommandDescends

-----------------------------------------------------------------------------
(* The promise of a fetch. *)

LEMMA ResultThen ==
  FetchInv /\ fetch.call = "end" => Result \in Promise!Results(fetch.subj)
  BY ResultPromised

LEMMA ResultNext ==
  (FetchInv /\ fetch.call = "end" => Result \in Promise!Results(fetch.subj))'
  BY ResultThen, PTL

\* A step that touches neither the execution nor the result does not touch what
\* is in hand.
LEMMA InHandKept == UNCHANGED taskVars => UNCHANGED InHand
  BY DEF taskVars, fetchVars, InHand, Result, Ages

LEMMA NextDelivers ==
  CycleInv /\ [Next]_vars
    => [(\E s \in Subjects : Promise!Deliver(s)) \/ Promise!Take]_InHand
<1> DEFINE Promised == [(\E s \in Subjects : Promise!Deliver(s)) \/ Promise!Take]_InHand
<1> SUFFICES ASSUME CycleInv, [Next]_vars PROVE Promised
  OBVIOUS
<1>1. CASE UNCHANGED taskVars
  BY <1>1, InHandKept
<1>2. ASSUME NEW s \in Subjects, RunTarget(s) PROVE Promised
  <2>1. /\ Open(s, Token(s)) /\ Token(s) \in BOOLEAN /\ fetch.call = "idle"
        /\ result = NoResult /\ result' = NoResult
    BY <1>2 DEF RunTarget, Ready, Token
  <2>2. FetchInv' /\ fetch'.subj = s
    BY <2>1, OpenInv
  <2>3. InHand = NoResult
    BY <2>1 DEF InHand
  <2>4. CASE fetch'.call = "end"
    <3>1. InHand' \in Promise!Results(s)
      BY <2>2, <2>4, ResultNext DEF InHand
    <3>2. QED
      BY <2>3, <3>1 DEF Promise!Deliver
  <2>5. CASE fetch'.call # "end"
    BY <2>1, <2>3, <2>5 DEF InHand
  <2>6. QED
    BY <2>4, <2>5
<1>3. CASE Call
  <2>1. Exchange /\ FetchInv /\ UNCHANGED result
    BY <1>3 DEF Call, CycleInv
  <2>2. FetchInv' /\ fetch.call \in Calls /\ fetch'.subj = fetch.subj
    BY <2>1, ExchangeInv, ExchangeFrame
  <2>3. fetch.call \notin {"idle", "end"}
    BY <2>2 DEF Calls, GetJson, FacebookCalls, YouTubeCalls, TikTokCalls, Analytics
  <2>4. InHand = NoResult /\ result' = NoResult /\ fetch.subj \in Subjects
    BY <2>1, <2>3 DEF CycleInv, InFlight, InHand, FetchInv, CallsFit
  <2>5. CASE fetch'.call = "end"
    <3>1. InHand' \in Promise!Results(fetch.subj)
      BY <2>2, <2>5, ResultNext DEF InHand
    <3>2. QED
      BY <2>4, <3>1 DEF Promise!Deliver
  <2>6. CASE fetch'.call # "end"
    BY <2>4, <2>6 DEF InHand
  <2>7. QED
    BY <2>5, <2>6
<1>4. CASE Fetched
  <2>1. InHand = Result /\ result' = Result /\ fetch'.call = "idle"
    BY <1>4, CloseInv DEF Fetched, InHand
  <2>2. QED
    BY <2>1 DEF InHand
<1>5. ASSUME NEW s \in Subjects, FetchTarget(s) PROVE Promised
  <2>1. /\ fetch.call = "idle" /\ fetch'.call = "idle" /\ result = NoResult
        /\ result' \in Promise!Results(s)
    BY <1>5 DEF FetchTarget, Ready, fetchVars
  <2>2. QED
    BY <2>1 DEF InHand, Promise!Deliver
<1>6. CASE Persist \/ PersistFails \/ Return
  <2>1. result # NoResult /\ result' = NoResult /\ fetch' = fetch
    BY <1>6 DEF Persist, PersistFails, Return, Recorded, Has, fetchVars
  <2>2. fetch.call = "idle"
    BY <2>1 DEF CycleInv, InFlight
  <2>3. QED
    BY <2>1, <2>2 DEF InHand, Promise!Take
<1>7. CASE UNCHANGED vars
  BY <1>1, <1>7 DEF vars
<1>8. CASE Sync
  <2>1. ReadTargets \/ ReadTargetsFails \/ Complete => UNCHANGED taskVars
    BY DEF ReadTargets, ReadTargetsFails, Complete
  <2>2. \A s \in Subjects : LookupFails(s) => UNCHANGED taskVars
    BY DEF LookupFails
  <2>3. QED
    BY <1>1, <1>2, <1>3, <1>4, <1>5, <1>6, <1>8, <2>1, <2>2 DEF Sync
<1>9. CASE Next /\ ~Sync
  <2>1. UNCHANGED taskVars
    BY <1>9 DEF Next, SyncCommand, SyncOne, Crawl, Start, Exit, CreateCredential, SeedSelect,
       SeedSubjects, SeedInsert, SeedComplete
  <2>2. QED
    BY <1>1, <2>1
<1>10. QED
  BY <1>7, <1>8, <1>9

\* The calls of the clients, retried or not, implement FetchPromise.
THEOREM FetchKeepsPromise == Spec => ImplementsPromise
<1>1. Init => Promise!PromiseInit
  BY DEF Init, FetchInit, Idle, Promise!PromiseInit, InHand
<1>2. CycleInv /\ [Next]_vars
        => [(\E s \in Subjects : Promise!Deliver(s)) \/ Promise!Take]_InHand
  BY NextDelivers
<1>3. QED
  BY <1>1, <1>2, CycleInvariant, PTL DEF Spec, ImplementsPromise, Promise!PromiseSpec
=============================================================================
