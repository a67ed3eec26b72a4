------------------------------ MODULE NodeParts ------------------------------
(***************************************************************************)
(* What a node keeps in its database beside the queue, Workspaces,         *)
(* NodeSettings and Engagement, and when it says to post, Timing.  They    *)
(* share the handlers' pool and no row: each behaviour is one of one of    *)
(* them, while the variables of the others keep their initial values.      *)
(***************************************************************************)
EXTENDS Integers

CONSTANTS
  Home, Others, Identity, None, Starter, MaxCalls,   \* Workspaces
  Secret, NoSecret, Key, NoKey, Keep, MaxEdits,      \* NodeSettings
  Handler,                                           \* both
  History, RefreshBatch, MinAge, MaxTime,            \* Engagement
  DayLen, WeekLen, Zone, Score, Platform,
  MinPlatform, MinFine, MaxSlots, SampleLimit,
  BuiltIn, AnyDay, MaxNow, MaxPosts                  \* Timing

VARIABLES
  which,  \* the part of this behaviour
  owners, rows, markers, handlers, begun, claimant, gone, late, dropped, removed,
  blob, key, up, calls, edits, wanted, knob, crossed,
  hour, activity, posts, drafts, pass, jobs,
  now, zone, published

SpaceVars == <<owners, rows, markers, handlers, begun, claimant, gone, late, dropped, removed>>
SettingVars == <<blob, key, up, calls, edits, wanted, knob, crossed>>
EngagementVars == <<hour, activity, posts, drafts, pass, jobs>>
TimingVars == <<now, zone, published>>
PartVars == <<which, SpaceVars, SettingVars, EngagementVars, TimingVars>>

Work == INSTANCE Workspaces WITH Default <- Home, calls <- handlers
Node == INSTANCE NodeSettings WITH MaxChanges <- MaxEdits, changes <- edits
Snapshots == INSTANCE Engagement WITH Batch <- RefreshBatch, clock <- hour, rows <- activity
Times == INSTANCE Timing WITH activity <- published, Defaults <- BuiltIn

NodeInit == Work!Init /\ Node!Init /\ Snapshots!Init /\ Times!Init

NodeNext ==
  \/ which = "spaces" /\ Work!Next /\ UNCHANGED <<which, SettingVars, EngagementVars, TimingVars>>
  \/ which = "settings" /\ Node!Next /\ UNCHANGED <<which, SpaceVars, EngagementVars, TimingVars>>
  \/ which = "engagement" /\ Snapshots!Next /\ UNCHANGED <<which, SpaceVars, SettingVars, TimingVars>>
  \/ which = "timing" /\ Times!Next /\ UNCHANGED <<which, SpaceVars, SettingVars, EngagementVars>>

NodeSpec == NodeInit /\ [][NodeNext]_PartVars

\* Workspaces: what is deleted stays deleted, and a workspace belongs to whoever claimed it.
SpacesKept == Work!SpacesKept

\* NodeSettings: the credential is that of its last change.
CredentialKept == Node!CredentialKept

\* Engagement: a pass reads no more than it must, and a refresh takes nothing away.
RefreshesHold == Snapshots!RefreshesHold

\* Timing: a slot's next instant is its first.
NextIsFirst == which = "timing" => Times!NextIsFirst

\* Timing: one answer, of the slots that did best, each with the posts behind it that it claims.
SlotsAreEarned == which = "timing" => Times!SlotsAreEarned
=============================================================================
