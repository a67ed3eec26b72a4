---------------------------- MODULE ProviderParts ----------------------------
(***************************************************************************)
(* What lies between the publish runner and the world: the access it       *)
(* publishes with, AgentGrant, and ProviderRegistry, BlueskyThread,        *)
(* ManagedThread, StagedUpload, and the ModelStream an app reads.  They    *)
(* share no state: each behaviour is one of one of them, while the         *)
(* variables of the others keep their initial values.                      *)
(***************************************************************************)
EXTENDS Naturals, Sequences, AgentGrant

CONSTANTS
  Drafts, Posts,                           \* BlueskyThread's drafts, ManagedThread's
  MaxLen, MaxAttempts, MaxRuns,            \* both
  Contents, MaxSize, MaxUploads, MaxUploadRuns,           \* StagedUpload
  Provider, Treg, Fallback, Orders, Reader, TTL, MaxTime, \* ProviderRegistry
  Wires, MaxMessages, MaxTokens                           \* ModelStream

VARIABLES
  which,  \* the part of this behaviour
  \* BlueskyThread and ManagedThread, each in its turn
  draft, edited, late, step, body, at, parent, tries, runs, result,
  repo, session, root, posts, served, via,
  \* StagedUpload
  file, ustep, upload, stored, cut, videos, utries, uruns, uresult,
  \* ProviderRegistry
  clock, cache, call,
  \* ModelStream
  req, wire, got, buffer, items, mode

GrantVars    == <<status, grant, text, editing, run, keyed, clean, latest>>
ThreadVars   == <<draft, edited, late, step, body, at, parent, tries, runs, result>>
BlueskyVars  == <<repo, session, root>>
ManagedVars  == <<posts, served, via>>
UploadVars   == <<file, ustep, upload, stored, cut, videos, utries, uruns, uresult>>
RegistryVars == <<clock, cache, call>>
StreamVars   == <<req, wire, got, buffer, items, mode>>
PartVars == <<which, GrantVars, ThreadVars, BlueskyVars, ManagedVars, UploadVars, RegistryVars, StreamVars>>

Bluesky == INSTANCE BlueskyThread
Managed == INSTANCE ManagedThread WITH Drafts <- Posts
Upload == INSTANCE StagedUpload WITH
  step <- ustep, late <- cut, tries <- utries, runs <- uruns, result <- uresult,
  MaxAttempts <- MaxUploads, MaxRuns <- MaxUploadRuns
Registry == INSTANCE ProviderRegistry
Stream == INSTANCE ModelStream

ProvidersInit ==
  /\ Init /\ Upload!Init /\ Registry!Init /\ Stream!Init
  /\ IF which = "managed"
     THEN Managed!Init /\ repo = <<>> /\ session = "none" /\ root = <<>>
     ELSE Bluesky!Init /\ posts = <<>> /\ served = <<>> /\ via = "none"

ProvidersNext ==
  \/ /\ which = "grant" /\ Next
     /\ UNCHANGED <<which, ThreadVars, BlueskyVars, ManagedVars, UploadVars, RegistryVars, StreamVars>>
  \/ /\ which = "bluesky" /\ Bluesky!Next
     /\ UNCHANGED <<which, GrantVars, ManagedVars, UploadVars, RegistryVars, StreamVars>>
  \/ /\ which = "managed" /\ Managed!Next
     /\ UNCHANGED <<which, GrantVars, BlueskyVars, UploadVars, RegistryVars, StreamVars>>
  \/ /\ which = "upload" /\ Upload!Next
     /\ UNCHANGED <<which, GrantVars, ThreadVars, BlueskyVars, ManagedVars, RegistryVars, StreamVars>>
  \/ /\ which = "registry" /\ Registry!Next
     /\ UNCHANGED <<which, GrantVars, ThreadVars, BlueskyVars, ManagedVars, UploadVars, StreamVars>>
  \/ /\ which = "stream" /\ Stream!Next
     /\ UNCHANGED <<which, GrantVars, ThreadVars, BlueskyVars, ManagedVars, UploadVars, RegistryVars>>

ProvidersSpec == ProvidersInit /\ [][ProvidersNext]_PartVars

\* BlueskyThread: the platform has one chain, and after a success the draft's.
ThreadKept == which = "bluesky" => Bluesky!ThreadKept

\* ManagedThread: Treg sends each segment once, after the one before; a success was sent.
ThreadDelivered == which = "managed" => Managed!ThreadDelivered

\* StagedUpload: a run publishes its video once, and as it was hashed.
OnceAsHashed == Upload!OnceAsHashed

\* ProviderRegistry: no lookup goes by an answer that is too old.
AnswersAreRecent == Registry!AnswersAreRecent

\* ModelStream: where the chunks were cut makes no difference to the app.
ChunkingIsInvisible == Stream!ChunkingIsInvisible
=============================================================================
