----------------------------- MODULE MCProviders -----------------------------
(***************************************************************************)
(* Model checking of ProviderParts.                                        *)
(***************************************************************************)
EXTENDS TLC, ProviderParts

\* Bodies of two or three frames, some of two lines, some with a loose end.
Frames ==
  {<<line, "NL", "NL">> : line \in {"delta", "completed", "error", "bad", "other", "comment"}}
  \cup {<<first, "NL", second, "NL", "NL">> : first \in {"comment", "delta"}, second \in {"delta", "done"}}
Bodies == {a \o b \o c : a \in Frames, b \in Frames,
             c \in {<<>>, <<"done">>, <<"failed", "NL">>, <<"NL", "done", "NL", "NL">>}}

\* Two drafts of different lengths, so that an edit can shorten a thread.
MCDrafts == {<<"a", "b", "c">>, <<"x", "b">>}

\* One thread with media in its second segment, one post that is all media.
Segment(words, media) == [text |-> words, media |-> media]
MCPosts == {<<Segment("a", FALSE), Segment("b", TRUE), Segment("c", FALSE)>>, <<Segment("x", TRUE)>>}

\* Two contents of one size, a longer one, one too long and an empty one.
Content(id, size) == [id |-> id, size |-> size]
MCContents == {Content("a", 1), Content("b", 1), Content("c", 2), Content("d", 3), Content("e", 0)}

MCOrders == {<<"treg", "composio">>}

\* Nothing tells two posts or two agents apart.
Alike == Permutations(Post) \cup Permutations(Agent)

\* Where the others begin, a part begins in one state.
Choice(part, choices, one) == IF which = part THEN choices ELSE {one}

MCInit ==
  /\ which \in {"grant", "stream", "bluesky", "managed", "upload", "registry"}
  /\ keyed \in Choice("grant", BOOLEAN, TRUE)
  /\ clean \in Choice("grant", BOOLEAN, TRUE)
  /\ status \in Choice("grant", [Post -> {"none", "scheduled"}], [p \in Post |-> "none"])
  /\ draft \in IF which = "managed" THEN Posts ELSE Choice("bluesky", Drafts, <<"x", "b">>)
  /\ file \in Choice("upload", Contents, Content("a", 1))
  /\ wire \in Choice("stream", Wires, <<"bad", "NL", "NL", "bad", "NL", "NL">>)
  /\ req \in Choice("stream", Stream!Requests,
                    [messages |-> 1, maxTokens |-> 1, textOk |-> TRUE, hosted |-> TRUE])
  /\ ProvidersInit

MCSpec == MCInit /\ [][ProvidersNext]_PartVars

ASSUME MCProvidersAssumption ==
  /\ Bluesky!DraftsAssumption /\ Managed!DraftsAssumption
  /\ Registry!RegistryAssumption /\ Stream!WiresAssumption
=============================================================================
