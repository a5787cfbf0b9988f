-------------------------------- MODULE Wire --------------------------------
(***************************************************************************)
(* How the CLI reads a framed answer from a session's port (dap.rs,        *)
(* client.rs, and the probe of attach.rs): it appends what each read gives *)
(* to a buffer and, after each read, checks the sizes and tries to decode. *)
(*                                                                         *)
(* An answer is a header of `head` bytes that declares `size` bytes of     *)
(* body; the peer sends `total` bytes and then closes, resets, or falls    *)
(* silent past the deadline.  `cuts` are the prefixes the reads happen to  *)
(* end at.  No peer sends bytes after its answer.                          *)
(***************************************************************************)
EXTENDS Integers, FiniteSetsExt

CONSTANTS MaxHeader, \* 8192 bytes
          MaxFrame   \* 64 MiB, 1 MiB for the probe

ASSUME WireAssumption ==
  MaxHeader \in Nat /\ MaxFrame \in Nat /\ 0 < MaxHeader /\ MaxHeader < MaxFrame

NoHeader == 0   \* the blank line never comes
BadSize  == -1  \* no Content-Length line, or not a number

\* "stops" and "refusal" are the envelopes of a bridge, "object" any other
\* JSON object, "garbage" what is not JSON or not an object
Bodies == {"stops", "refusal", "object", "garbage"}
Ends   == {"eof", "silent", "reset"}

Whole(p) == p.head # NoHeader /\ p.size # BadSize /\ p.total = p.head + p.size

Peers ==
  {p \in [head : 0 .. MaxHeader + 1, size : BadSize .. MaxFrame - 1, body : Bodies,
          total : 0 .. MaxFrame + 1, end : Ends] :
     /\ p.head # NoHeader /\ p.size # BadSize => p.total <= p.head + p.size
     /\ p.head = NoHeader => p.size = BadSize
     /\ ~Whole(p) => p.body = "garbage"}

HeaderSeen(p, k) == p.head # NoHeader /\ k >= p.head

ValidateLate(p, k) ==
  /\ k <= MaxFrame
  /\ IF HeaderSeen(p, k)
     THEN p.head <= MaxHeader /\ p.size # BadSize /\ p.size <= MaxFrame - p.head
     ELSE k <= MaxHeader

\* validate_frame_size of a buffer of k bytes
ValidFrameSize(p, k) ==
  /\ k <= MaxFrame
  /\ IF HeaderSeen(p, k)
     THEN p.head <= MaxHeader /\ p.size # BadSize /\ p.size <= MaxFrame - p.head
     ELSE k < MaxHeader

\* try_decode_message
Decode(p, k) ==
  IF ~HeaderSeen(p, k) \/ p.size = BadSize \/ k < p.head + p.size THEN "more"
  ELSE IF p.body = "garbage" THEN "corrupt" ELSE "value"

Look(p, k) == IF ValidFrameSize(p, k) THEN Decode(p, k) ELSE "invalid"

\* request: the first prefix that decides, or how the peer ends
Decisive(p, cuts) == {k \in cuts \cup {0, p.total} : Look(p, k) # "more"}
Received(p, cuts) ==
  IF Decisive(p, cuts) = {} THEN p.end ELSE Look(p, Min(Decisive(p, cuts)))

\* probe_session_bridge with valid_breaks_envelope
ProbeVerdict(p, cuts) ==
  LET r == Received(p, cuts)
  IN  IF r = "silent" THEN "unclear"
      ELSE IF r = "value" /\ p.body \in {"stops", "refusal"} THEN "ours"
      ELSE "notOurs"

-----------------------------------------------------------------------------
(* The reference: the same, told from all that the peer sends at once.     *)

InBounds(p) ==
  /\ p.head <= MaxHeader
  /\ p.size # BadSize
  /\ p.head + p.size <= MaxFrame

Meaning(p) ==
  IF p.head = NoHeader \/ p.total < p.head
  THEN IF p.total >= MaxHeader THEN "invalid" ELSE p.end
  ELSE IF ~InBounds(p) THEN "invalid"
  ELSE IF ~Whole(p) THEN p.end
  ELSE IF p.body = "garbage" THEN "corrupt" ELSE "value"

Nature(p) ==
  IF Whole(p) /\ InBounds(p) /\ p.body \in {"stops", "refusal"} THEN "ours"
  ELSE IF Meaning(p) = "silent" THEN "unclear" ELSE "notOurs"
=============================================================================
