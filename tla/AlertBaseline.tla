---------------------------- MODULE AlertBaseline ----------------------------
(***************************************************************************)
(* From the posts of a subject to an alert about its metrics: a sync       *)
(* samples the newest posts and stores their frequency and the followers;  *)
(* an evaluation loads the row of the subject in one session and the       *)
(* snapshots of the window in another, with syncs in between, and compares *)
(* the row with mean and standard deviation of the window.  The arithmetic *)
(* is exact: with n values of sum S, the comparison current >= mean + k *  *)
(* stdev is made on n * current - S and squared.  Rounding of floats is    *)
(* left out.                                                               *)
(***************************************************************************)
EXTENDS Normalizer, Functions

CONSTANTS
  Readings,    \* follower counts
  SampleSize,  \* how many posts a sync asks for
  TickDays,    \* the length of a step of the clock, in days
  Sigmas,      \* threshold of the spike and drop rules
  Quiet,       \* threshold of the silence rule, in thirtieths of a post per day
  Window,      \* window_hours, in steps of the clock
  MaxTime,     \* bound on the clock
  MaxCuts      \* bound on the lists that an error cuts short

MinSnapshots == 3

ASSUME BaselineAssumption ==
  /\ Readings \subseteq Nat /\ Readings # {}
  /\ SampleSize \in Nat \ {0} /\ TickDays \in Nat \ {0}
  /\ Sigmas \in Nat /\ Quiet \in Nat /\ Window \in Nat
  /\ MaxTime \in Nat /\ MaxCuts \in Nat

VARIABLES
  clock,      \* the wall clock
  posts,      \* when the subject has posted
  snapshots,  \* activity_snapshots of the subject
  loaded,     \* the row the evaluation has loaded (a set: {} is none)
  verdict,    \* the rule types an evaluation has just fired, for which reading
              \* and window; the next step forgets it
  cuts        \* history: the instants of syncs that got less of the list

vars == <<clock, posts, snapshots, loaded, verdict, cuts>>

Snapshot == [at : 0 .. MaxTime, followers : Readings, frequency : 0 .. SampleSize]

RuleTypes == {"follower_spike", "follower_drop", "activity_spike", "activity_silence"}

\* The subjects row: the values of the latest snapshot.
Latest == {sn \in snapshots : \A other \in snapshots : other.at <= sn.at}

NoVerdict == [fired |-> {}, reading |-> {}, recent |-> {}]

Init ==
  /\ clock = 0 /\ posts = {}
  /\ snapshots = {} /\ loaded = {}
  /\ verdict = NoVerdict
  /\ cuts = {}

-----------------------------------------------------------------------------

\* The columns of a window, as functions of its snapshots.
Followers(sample) == [sn \in sample |-> sn.followers]
Frequencies(sample) == [sn \in sample |-> sn.frequency]

\* Sum of the squared deviations, times n * n.
Spread(values) ==
  LET n == Cardinality(DOMAIN values)
      total == SumFunction(values)
  IN SumFunction([sn \in DOMAIN values |-> (n * values[sn] - total) * (n * values[sn] - total)])

\* Fault: the deviation of a population, not of a sample.
OutlierOfPopulation(value, values, sign) ==
  LET n == Cardinality(DOMAIN values)
      spread == Spread(values)
      distance == sign * (n * value - SumFunction(values))
  IN /\ spread > 0 /\ distance >= 0
     /\ distance * distance * n >= Sigmas * Sigmas * spread

\* At least Sigmas standard deviations above (sign 1) or below (sign -1) the
\* mean, and never when the deviation is zero.
Outlier(value, values, sign) ==
  LET n == Cardinality(DOMAIN values)
      spread == Spread(values)
      distance == sign * (n * value - SumFunction(values))
  IN /\ spread > 0 /\ distance >= 0
     /\ distance * distance * (n - 1) >= Sigmas * Sigmas * spread

\* Fault: the silence rule fires at its threshold.
FiredAtQuiet(current, recent) ==
  {type \in RuleTypes :
     \/ type = "follower_spike" /\ Outlier(current.followers, Followers(recent), 1)
     \/ type = "activity_silence" /\ current.frequency <= Quiet}

\* The four metric rules, as if one of each is active.
Fired(current, recent) ==
  {type \in RuleTypes :
     \/ type = "follower_spike" /\ Outlier(current.followers, Followers(recent), 1)
     \/ type = "follower_drop" /\ Outlier(current.followers, Followers(recent), -1)
     \/ type = "activity_spike" /\ Outlier(current.frequency, Frequencies(recent), 1)
     \/ type = "activity_silence" /\ current.frequency < Quiet}

-----------------------------------------------------------------------------

\* The newest n posts, with their ages.
Newest(n) == {at \in posts : Cardinality({later \in posts : later > at}) < n}
Sample(n) == [at \in Newest(n) |-> (clock - at) * TickDays]

\* A sync: one snapshot per instant, and the row.  An error that the client
\* takes for the end of the list leaves it fewer posts.
Sync ==
  /\ \A sn \in snapshots : sn.at # clock
  /\ \E n \in Readings, size \in 0 .. SampleSize :
       /\ size # SampleSize => Cardinality(cuts) < MaxCuts
       /\ snapshots' = snapshots \cup {[at |-> clock, followers |-> n,
                                        frequency |-> ActivityFrequency(Sample(size))]}
       /\ cuts' = IF size = SampleSize THEN cuts ELSE cuts \cup {clock}
  /\ verdict' = NoVerdict
  /\ UNCHANGED <<clock, posts, loaded>>

\* _load_subject_and_rules.
Load ==
  /\ loaded = {}
  /\ loaded' = Latest /\ verdict' = NoVerdict
  /\ UNCHANGED <<clock, posts, snapshots, cuts>>

\* compute_baseline and the metric rules; too few snapshots judge nothing.
Judge ==
  /\ \E current \in loaded :
       LET recent == {sn \in snapshots : sn.at >= clock - Window} IN
       verdict' = [fired |-> IF Cardinality(recent) < MinSnapshots THEN {}
                             ELSE Fired(current, recent),
                   reading |-> {current}, recent |-> recent]
  /\ loaded' = {}
  /\ UNCHANGED <<clock, posts, snapshots, cuts>>

\* Time passes, with a new post or without one.
Tick ==
  /\ clock < MaxTime
  /\ clock' = clock + 1
  /\ posts' \in {posts, posts \cup {clock'}}
  /\ verdict' = NoVerdict
  /\ UNCHANGED <<snapshots, loaded, cuts>>

Next == Sync \/ Load \/ Judge \/ Tick

Spec == Init /\ [][Next]_vars

-----------------------------------------------------------------------------
(* Properties. *)

TypeOK ==
  /\ clock \in 0 .. MaxTime /\ posts \subseteq 0 .. clock
  /\ snapshots \subseteq Snapshot
  /\ loaded \subseteq snapshots
  /\ verdict.fired \subseteq RuleTypes
  /\ verdict.reading \subseteq snapshots /\ verdict.recent \subseteq snapshots
  /\ cuts \subseteq 0 .. clock

\* The reading a verdict is about is in its own baseline, so a deviation of
\* Sigmas needs (n - 1)^2 >= Sigmas^2 * n snapshots: at two sigma no window of
\* fewer than six ever fires a spike or a drop, whatever the readings are.
OutlierNeedsHistory ==
  LET n == Cardinality(verdict.recent) IN
  /\ verdict.fired \cap {"follower_spike", "follower_drop", "activity_spike"} # {}
  /\ verdict.reading \subseteq verdict.recent
  => (n - 1) * (n - 1) >= Sigmas * Sigmas * n

\* A subject is reported silent only if it has posted less than the threshold
\* in the thirty days before the sync that is judged, or if that sync did not
\* get the list, or if the sample cannot hold as many posts as the rule asks for.
SilenceForCause ==
  "activity_silence" \in verdict.fired /\ Quiet <= SampleSize
  => \A current \in verdict.reading :
       \/ current.at \in cuts
       \/ Cardinality({at \in posts : /\ at <= current.at
                                      /\ (current.at - at) * TickDays <= ActivityDays}) < Quiet
=============================================================================
