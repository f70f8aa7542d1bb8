----------------------------- MODULE Normalizer -----------------------------
(***************************************************************************)
(* What the normalizers make of a platform's answer, as far as anything    *)
(* depends on it: the activity frequency and the status.  A list of posts  *)
(* gives each its age in days, Undated for a post whose time is missing or *)
(* cannot be parsed.  A frequency is in thirtieths of a post per day: the  *)
(* divisor is always ActivityDays, so round(n / 30, 4) is zero only for    *)
(* n = 0 and the count itself says the same.                               *)
(***************************************************************************)
EXTENDS Integers, Sequences, FiniteSets

ActivityDays == 30

Undated == -1

\* The posts of the rolling window.
RecentPosts(ages) == {i \in DOMAIN ages : ages[i] \in 0 .. ActivityDays}

\* _compute_activity_frequency of the three normalizers.
ActivityFrequency(ages) == Cardinality(RecentPosts(ages))

\* post_count: Facebook's is the size of the sample, the others report theirs.
PostCount(platform, reported, ages) ==
  IF platform = "facebook" \/ reported < Len(ages) THEN Len(ages) ELSE reported

\* Fault: no followers or no posts.
StatusOfEither(platform, followers, posts, frequency) ==
  IF \/ followers = 0 \/ posts = 0
     \/ platform # "facebook" /\ frequency = 0
  THEN "inactive" ELSE "active"

\* Only Facebook's pages stay active without a recent post.
StatusOf(platform, followers, posts, frequency) ==
  IF \/ followers = 0 /\ posts = 0
     \/ platform # "facebook" /\ frequency = 0
  THEN "inactive" ELSE "active"
=============================================================================
