------------------------------- MODULE Timing -------------------------------
(***************************************************************************)
(* When to post (scheduler.rs): the slots recommended from a workspace's   *)
(* past posts, each projected to its next instant in a zone whose clocks   *)
(* jump.                                                                   *)
(*                                                                         *)
(* Time is counted in hours; a day has DayLen of them and a week WeekLen   *)
(* days.  A zone is its first offset and its shifts; a shift is an instant *)
(* and the offset from there on.                                           *)
(***************************************************************************)
EXTENDS Integers, Sequences, FiniteSets, SequencesExt, FiniteSetsExt

CONSTANTS
  DayLen, WeekLen,
  Zone,         \* zones
  Score,        \* engagement of a post
  Platform,     \* platforms
  MinPlatform,  \* posts before anything but the default slots is claimed
  MinFine,      \* posts of one weekday and hour before that slot is trusted
  MaxSlots,     \* slots of an answer
  SampleLimit,  \* rows the recommender reads
  Defaults,     \* the built-in slots
  AnyDay,       \* no weekday
  MaxNow, MaxPosts  \* bounds of the clock and of the posts

VARIABLES
  now,       \* the instant
  zone,      \* the zone of the workspace
  activity   \* its posts, oldest first: when, where, how it did

vars == <<now, zone, activity>>

TypeOK ==
  /\ now \in 0..MaxNow /\ zone \in Zone
  /\ activity \in Seq([at : 0..MaxNow, score : Score, platform : Platform])

Init == now = 0 /\ zone \in Zone /\ activity = <<>>

Tick == now < MaxNow /\ now' = now + 1 /\ UNCHANGED <<zone, activity>>

Publish(score, platform) ==
  /\ Len(activity) < MaxPosts
  /\ activity' = Append(activity, [at |-> now, score |-> score, platform |-> platform])
  /\ UNCHANGED <<now, zone>>

Next == Tick \/ \E score \in Score, platform \in Platform : Publish(score, platform)

Spec == Init /\ [][Next]_vars

-----------------------------------------------------------------------------
(* The clocks of a zone.                                                     *)

\* The offset of the last shift.
OffsetIn(z, t) ==
  LET past == {s \in z.shifts : s.at <= t}
  IN  IF past = {} THEN z.first ELSE (CHOOSE s \in past : \A r \in past : r.at <= s.at).to

Offset(t) == OffsetIn(zone, t)
Local(t) == t + Offset(t)
Date(t) == Local(t) \div DayLen
Hour(t) == Local(t) % DayLen
Weekday(date) == date % WeekLen

\* The instants at which the clocks show this date and hour: two where they are set
\* back over it, none where they are set forward.
Shows(date, hour) ==
  LET wall == date * DayLen + hour
      offsets == {zone.first} \cup {s.to : s \in zone.shifts}
  IN {t \in {wall - o : o \in offsets} : Local(t) = wall}

Nothing == -1

LocalInstantLate(date, hour) ==
  CASE Shows(date, hour) # {} -> Max(Shows(date, hour))
    [] Shows(date, hour) = {} /\ hour + 1 < DayLen /\ Shows(date, hour + 1) # {} -> Min(Shows(date, hour + 1))
    [] OTHER -> Nothing
\* The earlier of two; the next hour of the same date in place of none.
LocalInstant(date, hour) ==
  CASE Shows(date, hour) # {} -> Min(Shows(date, hour))
    [] Shows(date, hour) = {} /\ hour + 1 < DayLen /\ Shows(date, hour + 1) # {} -> Min(Shows(date, hour + 1))
    [] OTHER -> Nothing

\* The walk over local dates from today's: the first that has the weekday and an
\* instant after now; "now" if two weeks have none.
NextOccurrence(day, hour) ==
  LET found == {date \in Date(now)..(Date(now) + 2 * WeekLen) :
                  (day = AnyDay \/ Weekday(date) = day) /\ LocalInstant(date, hour) > now}
  IN IF found = {} THEN now ELSE LocalInstant(Min(found), hour)

-----------------------------------------------------------------------------
(* The recommendation.                                                       *)

\* Posts by their places.  The newest rows are read first and filtered by platform
\* afterwards; no platform is all.
Samples(platforms) ==
  {i \in DOMAIN activity : i > Len(activity) - SampleLimit /\ activity[i].platform \in platforms}

Day(i) == Weekday(Date(activity[i].at))
HourOf(i) == Hour(activity[i].at)

\* The slot of a post by its weekday and hour, or by its hour whatever the day.
SlotOf(basis, i) == <<IF basis = "weekday_hour" THEN Day(i) ELSE AnyDay, HourOf(i)>>

Behind(basis, samples, slot) == {i \in samples : SlotOf(basis, i) = slot}

\* The engagement of some posts, added up.
Total(is) == Cardinality(UNION {{i} \X (1..activity[i].score) : i \in is})

\* A bucket: its slot, its posts, their total.
Bucket(basis, samples, slot) ==
  [slot |-> slot, size |-> Cardinality(Behind(basis, samples, slot)),
   total |-> Total(Behind(basis, samples, slot))]
Buckets(basis, samples) == {Bucket(basis, samples, SlotOf(basis, i)) : i \in samples}

Better(a, b) == a.total * b.size > b.total * a.size
Earlier(a, b) == IF a[1] = b[1] THEN a[2] < b[2] ELSE a[1] < b[1]

\* The order of the answer: the higher mean, then the earlier weekday and hour.
GoesFirstByMean(a, b) == Better(a, b)
GoesFirst(a, b) == Better(a, b) \/ (~Better(b, a) /\ Earlier(a.slot, b.slot))

\* What a stable sort makes of the buckets, in whichever order the hash map gives them.
Rankings(buckets) ==
  {r \in SetToSeqs(buckets) : \A i, j \in DOMAIN r : GoesFirst(r[i], r[j]) => i < j}

Lift(samples, bucket) ==
  bucket.size >= MinFine /\ Total(samples) > 0

Slot(samples, bucket) ==
  [slot |-> bucket.slot, size |-> bucket.size, lift |-> Lift(samples, bucket),
   next |-> NextOccurrence(bucket.slot[1], bucket.slot[2])]

Default(slot) == [slot |-> slot, size |-> 0, lift |-> FALSE, next |-> NextOccurrence(slot[1], slot[2])]

Answer(samples, basis, ranking) ==
  [basis |-> basis,
   slots |-> [i \in 1..Min({MaxSlots, Len(ranking)}) |-> Slot(samples, ranking[i])]]

\* The buckets an answer is made from.
Eligible(basis, samples) ==
  {b \in Buckets(basis, samples) : basis = "weekday_hour" => b.size >= MinFine}

Answers(basis, samples) == {Answer(samples, basis, r) : r \in Rankings(Eligible(basis, samples))}

\* The default slots; or slots that repeated; or hours, whatever the day.
Recommend(samples) ==
  IF Cardinality(samples) < MinPlatform
  THEN {[basis |-> "defaults", slots |-> [i \in DOMAIN Defaults |-> Default(Defaults[i])]]}
  ELSE IF Eligible("weekday_hour", samples) # {} THEN Answers("weekday_hour", samples)
  ELSE Answers("hour_of_day", samples)

-----------------------------------------------------------------------------
\* The first moment after now at which the clocks reach that hour on a date of that
\* weekday, whether they are set forward over it or back (scheduler.rs 803-813); for
\* zones that never skip the last hour of a day.
Instants == 0..(MaxNow + (2 * WeekLen + 3) * DayLen)
Reached(date, hour) == Min({t \in Instants : Local(t) >= date * DayLen + hour})

KeepsLastHours == \A s \in zone.shifts : Offset(s.at) > Offset(s.at - 1) => Hour(s.at) # 0

Dates(day) == {d \in Date(now) - WeekLen..Date(now) + 2 * WeekLen : day = AnyDay \/ Weekday(d) = day}

NextIsFirst ==
  KeepsLastHours =>
    \A day \in {AnyDay} \cup 0..(WeekLen - 1), hour \in 0..(DayLen - 1) :
      NextOccurrence(day, hour) = Min({t \in {Reached(date, hour) : date \in Dates(day)} : t > now})

\* The posts behind a slot, and whether one slot did better than another.
Posts(samples, slot) ==
  {i \in samples : slot[2] = HourOf(i) /\ (slot[1] = AnyDay \/ slot[1] = Day(i))}
Count(samples, slot) == Cardinality(Posts(samples, slot))
Beats(samples, a, b) ==
  Total(Posts(samples, a)) * Count(samples, b) > Total(Posts(samples, b)) * Count(samples, a)

\* What an answer claims of a slot has the posts behind it that its basis says; and no slot
\* left out did better than one in it.
Earned(samples, r) ==
  LET claimed == {r.slots[i].slot : i \in DOMAIN r.slots}
  IN /\ Cardinality(claimed) = Len(r.slots)
     /\ \A i \in DOMAIN r.slots :
          /\ r.slots[i].next > now
          /\ r.slots[i].lift => Count(samples, r.slots[i].slot) >= MinFine
          /\ r.basis # "defaults" => r.slots[i].size = Count(samples, r.slots[i].slot)
     /\ r.basis = "weekday_hour" =>
          /\ \A a \in claimed : Count(samples, a) >= MinFine
          /\ \A b \in {SlotOf("weekday_hour", i) : i \in samples} \ claimed :
               Count(samples, b) >= MinFine =>
                 Cardinality(claimed) = MaxSlots /\ \A a \in claimed : ~Beats(samples, b, a)
     /\ r.basis = "hour_of_day" =>
          \A i \in samples : Count(samples, SlotOf("weekday_hour", i)) < MinFine

\* One answer for the same posts, whatever order a map yields them in, and every slot of it
\* is earned (scheduler.rs 643-659, 725).
SlotsAreEarned ==
  \A platforms \in {{p} : p \in Platform} \cup {Platform} :
    LET samples == Samples(platforms)
    IN  /\ Cardinality(Recommend(samples)) = 1
        /\ \A r \in Recommend(samples) : Earned(samples, r)

-----------------------------------------------------------------------------
(* What the proofs rest on (NodeProofs).                                     *)

\* A zone's clocks gain or lose an hour at a time and no day altogether, and are not set
\* forward twice within a week and a day.
ZoneOk(z) ==
  /\ IsFiniteSet(z.shifts) /\ z.first \in Int /\ \A s \in z.shifts : s.at \in Int /\ s.to \in Int
  /\ \A s, r \in z.shifts : s.at = r.at => s = r
  /\ \A s \in z.shifts : s.to - OffsetIn(z, s.at - 1) \in -1..1
  /\ \A a, b \in {z.first} \cup {s.to : s \in z.shifts} : a - b <= DayLen
  /\ \A s, r \in z.shifts :
       s.at < r.at /\ s.to > OffsetIn(z, s.at - 1) /\ r.to > OffsetIn(z, r.at - 1) =>
         r.at - s.at > (WeekLen + 1) * DayLen

TimingAssumption ==
  /\ DayLen \in Nat \ {0} /\ WeekLen \in Nat \ {0} /\ MaxNow \in Nat
  /\ \A z \in Zone : ZoneOk(z)
  /\ AnyDay \notin 0..(WeekLen - 1)
  /\ Score \subseteq Nat
  /\ {MinPlatform, MinFine, MaxSlots, SampleLimit} \subseteq Nat
  /\ Defaults \in Seq((0..(WeekLen - 1)) \X (0..(DayLen - 1)))
  /\ \A i, j \in DOMAIN Defaults : Defaults[i] = Defaults[j] => i = j
=============================================================================
