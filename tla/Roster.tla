------------------------------- MODULE Roster -------------------------------
(***************************************************************************)
(* How CLI commands judge the sessions they find on disk (attach.rs,       *)
(* close_status.rs, sidecar.rs, forward.rs, paths.rs).  Three judgments of *)
(* one port live side by side: a start that wants an endpoint asks whether *)
(* anything accepts there, or whether the bridge published lately; status  *)
(* and close ask the protocol; forwarding asks nobody.                     *)
(*                                                                         *)
(* A directory is a record of what its files say and of what is at its     *)
(* port.  Old sessions (schema v1) are only shown and closed.              *)
(***************************************************************************)
EXTENDS Integers, Sequences

-----------------------------------------------------------------------------
(* Endpoints.  A numeric host is the sequence of its parts, as inet_aton   *)
(* reads them (each already a number); parts of 128 and more stay below    *)
(* 2^31 only in the last places, and are given there.                      *)

Named == {"localhost", "[::1]", "::ffff:127.0.0.1", "0.0.0.0", "elsewhere"}
Numeric == {<<127, 0, 0, 1>>, <<127, 1>>, <<127, 0, 1>>, <<2130706433>>, <<127, 256, 1>>,
            <<126, 255, 255, 255>>, <<0>>}
Host(spelling, parts) == [spelling |-> spelling, parts |-> parts]
Hosts == {Host(n, <<>>) : n \in Named} \cup {Host("numeric", p) : p \in Numeric}

\* is_unspecified_host
IsUnspecified(h) == h.spelling = "0.0.0.0"

\* inet_aton_loopback: each part but the last is an octet, the last fills up
InetAtonLoopback(p) ==
  /\ Len(p) \in 1 .. 4
  /\ \A i \in 1 .. Len(p) - 1 : p[i] < 256
  /\ Len(p) > 1 => p[Len(p)] < 256 ^ (5 - Len(p))
  /\ IF Len(p) = 1 THEN p[1] \div 256 ^ 3 = 127 ELSE p[1] = 127

\* normalize_attach_host, ip_is_loopback
NormalizeAttachHost(h) ==
  IF \/ h.spelling \in {"localhost", "[::1]", "::ffff:127.0.0.1"}
     \/ h.spelling = "numeric" /\ InetAtonLoopback(h.parts)
  THEN Host("loopback", <<>>) ELSE h

-----------------------------------------------------------------------------
(* A session's directory.                                                  *)

Langs == {"py", "node", "java", "browser"}

\* lang.json: the language, or that it has none or cannot be read
LangFiles == [lang : Langs \cup {"none"}, v2 : BOOLEAN]
\* stops.json: the endpoint of the request ("none" for a launch)
StopsFiles == [readable : BOOLEAN, host : Hosts \cup {Host("none", <<>>)}, v2 : BOOLEAN]
\* session.json, published by the bridge with its kind: whether it has a port
\* (never 0), the marker of schema 2, and a publish of the last two minutes
SessionFiles == [state : {"absent", "corrupt", "whole"}, port : BOOLEAN, v2 : BOOLEAN,
                 recent : BOOLEAN]
\* at the port: the bridge; the bridge, too busy for a probe but in time for a
\* close; the bridge with its accept loop held past the close's deadlines (65 s
\* for the answer, 15 s for its death); the bridge with a full backlog; a
\* stranger that answers; one that is mute; nothing
Listeners == {"bridge", "busy", "held", "full", "stranger", "mute", "refused"}

\* attach_exclusive
AttachExclusive(lang) == lang \in {"py", "node", "java"}

\* sidecar_is_v2, cli_markers_v2
CliMarkersV2(d) == d.lang.v2 /\ d.stops.readable /\ d.stops.v2

Readable(d) == d.session.state = "whole"
HasPort(d) == Readable(d) /\ d.session.port

Accepts(d) == d.at \in {"bridge", "busy", "held", "stranger", "mute"}

\* daemon_alive_in: two connects, then published_recently
DaemonAliveIn(d) == HasPort(d) /\ (Accepts(d) \/ d.session.recent)

\* probe_session_bridge
Probed(d) ==
  CASE d.at = "bridge" -> "ours"
    [] d.at \in {"stranger", "refused"} -> "notOurs"
    [] OTHER -> "unclear"

-----------------------------------------------------------------------------
(* A start that attaches.                                                  *)

\* find_live_endpoint_owner_in, for one directory
OwnsEndpoint(d, host) ==
  /\ d.stops.readable
  /\ d.stops.host.spelling # "none"
  /\ NormalizeAttachHost(d.stops.host) = NormalizeAttachHost(host)
  /\ AttachExclusive(d.lang.lang)
  /\ Readable(d)
  /\ DaemonAliveIn(d)

LiveLegacyOfKnownLang(d) ==
  /\ ~CliMarkersV2(d)
  /\ AttachExclusive(d.lang.lang)
  /\ Readable(d)
  /\ DaemonAliveIn(d)

\* find_live_legacy_sessions_in, for one directory: an unknown language may be
\* an exclusive one
LiveLegacy(d) ==
  /\ ~CliMarkersV2(d)
  /\ d.lang.lang # "browser"
  /\ Readable(d)
  /\ DaemonAliveIn(d)

\* The gates of spawn_in, for a start of `lang` at `host` beside the directory d
AttachGate(lang, host, d) ==
  IF ~AttachExclusive(lang) THEN "passes"
  ELSE IF IsUnspecified(host) THEN "unspecified"
  ELSE IF OwnsEndpoint(d, host) THEN "already-attached"
  ELSE IF LiveLegacy(d) THEN "legacy-live"
  ELSE "passes"

\* A start under the directory's own name: an old one that is proven dead is
\* taken over (legacy_proven_dead).
NameGate(d) ==
  IF d.session.state = "absent" THEN "passes"
  ELSE IF CliMarkersV2(d) THEN "exists"
  ELSE IF HasPort(d) /\ ~DaemonAliveIn(d) THEN "passes"
  ELSE "unsupported"

-----------------------------------------------------------------------------
(* status, close and forwarded commands.                                   *)

\* session_entry
StatusRow(d) ==
  LET current == CliMarkersV2(d) /\ (d.session.state = "absent" \/ (Readable(d) /\ d.session.v2))
      alive   == HasPort(d) /\ (Probed(d) = "ours" \/ (Probed(d) = "unclear" /\ d.session.recent))
  IN  [alive |-> alive,
       unsupported |-> ~current,
       hint |-> ~current \/ (HasPort(d) /\ Probed(d) = "notOurs")]

CloseWedged(d) ==
  IF d.session.state = "absent" THEN {"removed"}
  ELSE IF ~HasPort(d) THEN {"preserved"}
  ELSE IF d.at = "bridge" THEN {"confirmed"}
  ELSE IF Accepts(d) THEN {"preserved"} ELSE {"removed"}

\* close_in, without a start under way: what may come of it.  After an unclear
\* probe the polls decide, each a connect that stays in a backlog that nobody
\* empties: one that fails, against a full backlog as well as a closed port,
\* reads as death.
CloseOutcomes(d) ==
  IF d.session.state = "absent" THEN {"removed"}
  ELSE IF ~HasPort(d) THEN {"preserved"}
  ELSE CASE d.at \in {"bridge", "busy"} -> {"confirmed"}
         [] d.at = "held" -> {"confirmed", "preserved", "removed"}
         [] d.at = "mute" -> {"preserved", "removed"}
         [] OTHER -> {"removed"}

MainOnly(lang) == lang \in {"java", "browser"}

\* normalize_target_for_lang_opt: what is sent as the target, "omitted" by
\* default; or a refusal
NormalizeTarget(lang, target) ==
  IF target = "omitted" THEN "omitted"
  ELSE IF MainOnly(lang) THEN IF target = "main" THEN "omitted" ELSE "refused"
  ELSE target

\* forward_target and stamp_main to a bridge that answers: the target that the
\* response names.  A bridge that knows targets echoes the one it serves,
\* which it picks itself when none is named; main-only bridges name none.
ForwardedTo(d, target, picked) ==
  IF ~CliMarkersV2(d) \/ ~HasPort(d) THEN "refused"
  ELSE LET sent == NormalizeTarget(d.lang.lang, target)
       IN  IF sent = "refused" \/ MainOnly(d.lang.lang) THEN IF sent = "refused" THEN sent ELSE "main"
           ELSE IF sent = "omitted" THEN picked ELSE sent
=============================================================================
