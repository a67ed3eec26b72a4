---------------------------- MODULE ModelStream ----------------------------
(***************************************************************************)
(* The model stream an app reads from its host (app-events): a POST that   *)
(* is refused before it is sent or answered with a status, then a body of  *)
(* server-sent frames cut into chunks wherever the network likes.  The     *)
(* client keeps the bytes it has, takes a frame off the front whenever it  *)
(* finds an empty line, and hands the app events until the first one that  *)
(* ends the stream.                                                        *)
(*                                                                         *)
(* Bytes that are not newlines are abstracted to the line they belong to:  *)
(* one token per line, and the token NL for the newline byte.              *)
(***************************************************************************)
EXTENDS Naturals, Sequences, SequencesExt

CONSTANTS Wires,        \* the bodies a host may send: sequences of tokens
          MaxMessages,  \* the most messages a request may hold
          MaxTokens     \* the most output tokens it may ask for

VARIABLES req,      \* the request
          wire,     \* the body the host sends
          got,      \* how many of its tokens have arrived
          buffer,   \* tokens received and not yet taken as a frame
          items,    \* what the app was handed, in order
          mode      \* "new", "open", "over"

vars == <<req, wire, got, buffer, items, mode>>

NL == "NL"

\* What a request holds, one value on each side of every bound.
Requests == [messages  : {0, 1, MaxMessages, MaxMessages + 1},
             maxTokens : {0, 1, MaxTokens, MaxTokens + 1},
             textOk    : BOOLEAN,   \* ids, roles, contents within their limits
             hosted    : BOOLEAN]   \* this process runs under a host

Valid(r) == /\ r.textOk
            /\ r.messages \in 1 .. MaxMessages
            /\ r.maxTokens \in 1 .. MaxTokens

\* Every item but a delta ends the stream.
Delta == "TextDelta"
Ends(item) == item # Delta

-----------------------------------------------------------------------------
(* One frame. *)

\* Where the first of two newlines in a row is, 0 when there is none.
FindBoundary(bytes) ==
  LET Blank == {i \in 1 .. Len(bytes) - 1 : bytes[i] = NL /\ bytes[i + 1] = NL}
  IN  IF Blank = {} THEN 0 ELSE CHOOSE i \in Blank : \A j \in Blank : i <= j

\* The first line that holds data; comments and empty lines hold none.
DataOf(frame) ==
  LET data == SelectSeq(frame, LAMBDA t : t \notin {NL, "comment"})
  IN  IF data = <<>> THEN "none" ELSE data[1]

\* What a frame hands the app: one item, or none when it has no use for it.
Parse(frame) ==
  LET data == DataOf(frame) IN
  CASE data = "delta"                 -> <<Delta>>
    [] data \in {"done", "completed"} -> <<"Completed">>
    [] data \in {"failed", "error"}   -> <<"Failed">>
    [] data = "bad"                   -> <<"ErrProtocol">>
    [] OTHER                          -> <<>>

-----------------------------------------------------------------------------
Init == /\ req \in Requests
        /\ wire \in Wires
        /\ got = 0 /\ buffer = <<>> /\ items = <<>> /\ mode = "new"

\* One last item, and nothing is read after it.
Finish(item) == items' = Append(items, item) /\ mode' = "over"

Open ==
  /\ mode = "new"
  /\ \/ ~Valid(req) /\ Finish("ErrInvalid")
     \/ Valid(req) /\ ~req.hosted /\ Finish("ErrNotHosted")
     \/ /\ Valid(req) /\ req.hosted
        /\ \/ \E e \in {"ErrTransport", "ErrRejected"} : Finish(e)
           \/ mode' = "open" /\ UNCHANGED items
  /\ UNCHANGED <<req, wire, got, buffer>>

\* A faulty form: what was left of the last chunk is forgotten.
BufferedFresh(kept, chunk) == chunk

\* What the buffer holds once a chunk has come.
Buffered(kept, chunk) == kept \o chunk

\* A chunk of any length; asked for only when no whole frame is left.
Chunk ==
  /\ mode = "open" /\ FindBoundary(buffer) = 0
  /\ \E n \in 1 .. Len(wire) - got :
       /\ got' = got + n
       /\ buffer' = Buffered(buffer, SubSeq(wire, got + 1, got + n))
  /\ UNCHANGED <<req, wire, items, mode>>

\* The next frame comes off the buffer with the two newlines behind it.
Frame ==
  LET at == FindBoundary(buffer)
      given == Parse(SubSeq(buffer, 1, at - 1))
  IN  /\ mode = "open" /\ at # 0
      /\ buffer' = SubSeq(buffer, at + 2, Len(buffer))
      /\ items' = items \o given
      /\ mode' = IF \E i \in DOMAIN given : Ends(given[i]) THEN "over" ELSE "open"
      /\ UNCHANGED <<req, wire, got>>

\* The body is over, cleanly or not, before an item that ends the stream.
BodyOver ==
  /\ mode = "open" /\ FindBoundary(buffer) = 0
  /\ \/ got = Len(wire) /\ Finish("ErrProtocol")
     \/ Finish("ErrTransport")
  /\ UNCHANGED <<req, wire, got, buffer>>

Next == Open \/ Chunk \/ Frame \/ BodyOver

Spec == Init /\ [][Next]_vars

-----------------------------------------------------------------------------
(* What the app may rely on. *)

\* One who has the whole body: how far it has read, what that gave, and whether it is done.
Fresh == [pos |-> 0, items |-> <<>>, over |-> FALSE]

\* One frame further, unless it is done or no whole frame is left.
Further(bytes, r) ==
  LET at == FindBoundary(SubSeq(bytes, r.pos + 1, Len(bytes)))
      given == Parse(SubSeq(bytes, r.pos + 1, r.pos + at - 1))
  IN  IF r.over \/ at = 0 THEN r
      ELSE [pos |-> r.pos + at + 1, items |-> r.items \o given,
            over |-> \E i \in DOMAIN given : Ends(given[i])]

\* After each number of frames.
Readings(bytes) == LET read[n \in Nat] == IF n = 0 THEN Fresh ELSE Further(bytes, read[n - 1]) IN read

\* The items a whole body means: split at its blank lines, each frame parsed, up to the
\* first item that ends the stream.  It has fewer frames than tokens.
Meaning(bytes) == Readings(bytes)[Len(bytes)].items

\* However the body was cut into chunks, the app was handed what the part that
\* arrived means and nothing else, save the one error that says it was cut short
\* (ModelStreamClient::stream).
ChunkingIsInvisible ==
  LET whole == Meaning(SubSeq(wire, 1, got)) IN
  /\ mode = "open" => IsPrefix(items, whole)
  /\ mode = "over" /\ got > 0 =>
       \/ items = whole
       \/ \E e \in {"ErrProtocol", "ErrTransport"} : items = Append(whole, e)

-----------------------------------------------------------------------------
(* Why chunks make no difference (ProviderProofs).                           *)

WiresAssumption == \A w \in Wires : w \in Seq(STRING)

Item == {Delta, "Completed", "Failed", "ErrProtocol", "ErrTransport", "ErrInvalid", "ErrNotHosted", "ErrRejected"}

\* r is how far the client is: what it did not take yet is in the buffer, and what it was
\* handed is what r gave, and the one error if it was left with no whole frame.
Reached(r) ==
  /\ r.pos <= got /\ buffer = SubSeq(wire, r.pos + 1, got)
  /\ \/ mode = "open" /\ ~r.over /\ items = r.items
     \/ mode = "over" /\ r.over /\ items = r.items
     \/ /\ mode = "over" /\ ~r.over /\ FindBoundary(buffer) = 0
        /\ \E e \in {"ErrProtocol", "ErrTransport"} : items = Append(r.items, e)

\* The client is where one who has the whole body is after some number of frames.
StreamInv ==
  /\ wire \in Seq(STRING) /\ got \in 0..Len(wire) /\ mode \in {"new", "open", "over"}
  /\ mode = "new" => got = 0 /\ buffer = <<>> /\ items = <<>>
  /\ mode = "open" \/ got > 0 => \E n \in Nat : n <= Readings(wire)[n].pos /\ Reached(Readings(wire)[n])
=============================================================================
