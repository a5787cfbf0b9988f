------------------------------ MODULE Decisions ------------------------------
(***************************************************************************)
(* The decisions a CLI command takes without waiting for anyone, as a      *)
(* component that is asked one question at a time: `question` is what a    *)
(* command meets (an answer's bytes, a command line, a listener, the files *)
(* of a session), `answer` what it makes of it.                            *)
(*                                                                         *)
(* A question carries the truth of the matter with what the program can    *)
(* see of it; the program's definitions get the latter only, and the       *)
(* properties compare the answer with the former.                          *)
(***************************************************************************)
EXTENDS Wire, Identity, StartReport, Roster

CONSTANTS MaxWords,   \* words of a command line
          MaxStrings, \* strings of an identity
          MaxLength   \* length of one

ASSUME DecisionsAssumption == {MaxWords, MaxStrings, MaxLength} \subseteq Nat

\* The passes that the size cap allows itself are enough for the identities
\* there are: with the constants of the code, for some 300 strings.
ASSUME EnoughPasses ==
  MaxStrings * (2 * Gain + FieldCap + Mark) < Gain * MaxPasses

VARIABLES question, answer

vars == <<question, answer>>

Nothing == [kind |-> "none"]

-----------------------------------------------------------------------------
(* What can be asked.                                                      *)

BlankWords == {w \in Word : ~w.holds}
CommandLines(n) == {CommandLine(words) : words \in BoundedSeq(BlankWords, n)}
Lookups == [pid : BOOLEAN, executable : BOOLEAN, cwd : BOOLEAN, argv : CommandLines(2)]
Stored  == [roles : [Roles -> RoleValues], flat : BOOLEAN, pid : BOOLEAN, argv : CommandLines(2)]

\* A session as it is: its language, the host it attaches to, the schema its
\* CLI wrote, whether its bridge has published and when, what is at its port,
\* and which of its files is damaged ("port", "marker": its session.json is
\* whole but lacks that).
Worlds ==
  {w \in [lang : Langs, host : Hosts \cup {Host("none", <<>>)}, version : {1, 2},
          published : BOOLEAN, recent : BOOLEAN, at : Listeners,
          damaged : {"nothing", "lang", "stops", "session", "port", "marker"}] :
     /\ ~IsUnspecified(w.host)
     /\ ~w.published => w.at = "refused" /\ ~w.recent /\ w.damaged \notin {"session", "port", "marker"}
     /\ w.version = 1 => w.published}

\* What its files say.  Old sessions record no endpoint that can be read.
Files(w) ==
  [lang |-> [lang |-> IF w.damaged = "lang" THEN "none" ELSE w.lang,
             v2   |-> w.version = 2 /\ w.damaged # "lang"],
   stops |-> [readable |-> w.damaged # "stops",
              host     |-> IF w.version = 1 THEN Host("none", <<>>) ELSE w.host,
              v2       |-> w.version = 2],
   session |-> [state  |-> IF ~w.published THEN "absent"
                           ELSE IF w.damaged = "session" THEN "corrupt" ELSE "whole",
                port   |-> w.damaged # "port",
                v2     |-> w.version = 2 /\ w.damaged # "marker",
                recent |-> w.recent],
   at |-> w.at]

-----------------------------------------------------------------------------
(* Asking and answering.                                                   *)

Init == question = Nothing /\ answer = Nothing

Idle == question = Nothing

Ask(q, a) ==
  /\ question' = q
  /\ answer' = a

ReadAnswer ==
  /\ Idle
  /\ \E p \in Peers : \E cuts \in SUBSET (1 .. p.total) :
       Ask([kind |-> "read", peer |-> p, cuts |-> cuts],
           [received |-> Received(p, cuts), probe |-> ProbeVerdict(p, cuts)])

ShowCommandLine ==
  /\ Idle
  /\ \E argv \in CommandLines(MaxWords) :
       Ask([kind |-> "words", argv |-> argv],
           [argv |-> RedactArgv(argv), cause |-> SanitizeCause(argv), seed |-> LaunchSeed(argv)])

CapStrings ==
  /\ Idle
  /\ \E lengths \in BoundedSeq(0 .. MaxLength, MaxStrings) :
       Ask([kind |-> "cap", lengths |-> lengths], [lengths |-> CapIdentity(lengths)])

SeedAttach ==
  /\ Idle
  /\ \E loopback \in BOOLEAN, found \in Lookups :
       Ask([kind |-> "seed", loopback |-> loopback, found |-> found], AttachSeed(loopback, found))

EchoStored ==
  /\ Idle
  /\ \E s \in Stored : Ask([kind |-> "echo", stored |-> s], Echo(s))

DiagnoseListener ==
  /\ Idle
  /\ \E before, after \in Views :
       /\ before.local = after.local
       /\ Ask([kind |-> "listener", before |-> before, after |-> after], Diagnose(before, after))

ReportFailure ==
  /\ Idle
  /\ \E endpoint \in BOOLEAN, s \in Schedules :
       /\ Possible(s)
       /\ Ask([kind |-> "failure", endpoint |-> endpoint, schedule |-> s],
              [report |-> Report(endpoint, s)])

JudgeSession ==
  /\ Idle
  /\ \E lang \in Langs, host \in Hosts, w \in Worlds :
       LET d == Files(w)
       IN  \E outcome \in CloseOutcomes(d) :
             Ask([kind |-> "session", lang |-> lang, host |-> host, world |-> w],
                 [attach |-> AttachGate(lang, host, d), sameName |-> NameGate(d),
                  status |-> StatusRow(d), close |-> outcome])

ForwardCommand ==
  /\ Idle
  /\ \E w \in Worlds, target \in {"omitted", "main", "child"}, picked \in {"main", "child"} :
       Ask([kind |-> "forward", world |-> w, target |-> target, picked |-> picked],
           [target |-> ForwardedTo(Files(w), target, picked), status |-> StatusRow(Files(w))])

Finish ==
  /\ question # Nothing
  /\ question' = Nothing
  /\ answer' = Nothing

Next == \/ ReadAnswer \/ ShowCommandLine \/ CapStrings \/ SeedAttach \/ EchoStored
        \/ DiagnoseListener \/ ReportFailure \/ JudgeSession \/ ForwardCommand
        \/ Finish

Spec == Init /\ [][Next]_vars

-----------------------------------------------------------------------------
(* Properties.                                                             *)

\* The CLI's two readers of an answer check and decode after every read.  How
\* the network cuts an answer into reads never changes what they make of it:
\* it is the answer, or the reason there is none, that the whole of the bytes
\* spells, and the probe knows a bridge from a stranger by it.
SegmentationIsInvisible ==
  question.kind = "read" =>
    /\ answer.received = Meaning(question.peer)
    /\ answer.probe = Nature(question.peer)

HoldsNone(words) == \A i \in DOMAIN words : ~words[i].holds

\* What redact_argv cannot see: a secret between a colon and a '='.
HoldsOnlyPadded(words) == \A i \in DOMAIN words : words[i].holds => words[i].shape = "padded"

RolesNamed(s) == \A r \in Roles : s.roles[r] \in {"object", "null"}

\* No secret of a command line is in what is persisted, printed or echoed: in a
\* failure's cause at all, and in a seed, or the identity that an older version
\* stored in the clear, only where a '=' follows the secret's colon (identity.rs
\* :101 splits at the '='); and redacting a second time changes nothing.  Nor is
\* a fact in it that nobody observed: a seed claims no debuggee and names each thing it
\* could not look up, and an identity without the roles names no process.  All
\* of it is within the size caps after the passes that the code allows itself.
SecretsAreHidden ==
  /\ question.kind = "words" =>
       /\ HoldsNone(answer.cause)
       /\ HoldsOnlyPadded(answer.argv) /\ HoldsOnlyPadded(answer.seed.argv)
       /\ RedactArgv(answer.argv) = answer.argv
  /\ question.kind = "cap" => Fits(answer.lengths)
  /\ question.kind = "seed" =>
       /\ HoldsOnlyPadded(answer.argv) /\ answer.debuggee = "unavailable"
       /\ answer.argv = <<>> => {"ownerPid", "argv"} \cap answer.missing # {}
       /\ "ownerPid" \in answer.missing <=> answer.endpoint = "unavailable"
  /\ question.kind = "echo" =>
       /\ HoldsOnlyPadded(answer.argv) /\ Len(answer.argv) <= ArrayCap + 1
       /\ answer.pid \/ answer.argv # <<>> => RolesNamed(question.stored)

\* The same without the exception, as identity.rs:77-78 has it: `key:<v>` masks
\* the value.  TLC refutes it with the one word --token:YWJj==, which
\* redact_argv leaves as it is and sanitize_cause masks.
NoValueEscapes == question.kind = "words" => HoldsNone(answer.argv)

\* The addresses that a connection to a host may reach.
Reaches(h) ==
  CASE h.spelling = "localhost" -> {"127.0.0.1", "::1"}
    [] h.spelling = "[::1]" -> {"::1"}
    [] h.spelling = "::ffff:127.0.0.1" -> {"127.0.0.1"}
    [] h.spelling = "elsewhere" -> {"elsewhere"}
    [] h.spelling = "0.0.0.0" \/ h.parts = <<0>> -> {"127.0.0.1"}
    [] h.parts \in {<<127, 0, 0, 1>>, <<127, 1>>, <<127, 0, 1>>, <<2130706433>>} -> {"127.0.0.1"}
    [] OTHER -> {}

Serves(w) == w.published /\ w.at \in {"bridge", "busy", "held", "full"}

Rival(q) ==
  /\ Serves(q.world)
  /\ AttachExclusive(q.world.lang) /\ AttachExclusive(q.lang)
  /\ Reaches(q.host) \cap Reaches(q.world.host) # {}

\* What the scan cannot see: a bridge with a full backlog whose last publish is
\* old, and a session.json that no program of the repository leaves behind.
Unseen(w) == (w.at = "full" /\ ~w.recent) \/ w.damaged \in {"session", "port"}

UnspecifiedAlias(h) == h.parts = <<0>>

\* A start that attaches passes the ownership scans beside a live session that
\* is attached to the same address only when the scans cannot see it: whatever
\* the spelling of the two hosts, whichever version wrote the files, whichever
\* one of them is damaged.  (Sessions that have not published yet are the
\* business of the endpoint's lock.)
NoRivalPasses ==
  question.kind = "session" =>
    (/\ Rival(question) /\ ~Unseen(question.world)
     /\ ~UnspecifiedAlias(question.host) /\ ~UnspecifiedAlias(question.world.host)
     => answer.attach # "passes")

\* The same without the exception for aliases of 0.0.0.0, that paths.rs:273-275
\* claims for every spelling.  TLC refutes it: "0" is neither loopback nor
\* unspecified for the CLI, and on Linux it reaches 127.0.0.1.
NoSpellingEscapes ==
  question.kind = "session" =>
    (Rival(question) /\ ~Unseen(question.world) => answer.attach # "passes")

Blocked(a) == a.attach \in {"already-attached", "legacy-live"} \/ a.sameName \in {"exists", "unsupported"}

\* Starts, status, close and forwarded commands judge one directory by three
\* different probes; they agree where it matters.  Whatever stops a start can
\* be closed, unless its files are damaged or its port is held by a process
\* that accepts and does not speak before the close gives up; it shows in
\* status, as alive or with a hint, unless that process or a long command keeps
\* the probe waiting; a close that removes the directory unconfirmed has a dead
\* or foreign port behind it, unless the bridge's backlog was full or the polls
\* could fill it.  A command is forwarded to a session that status calls
\* unsupported only when it is session.json alone that lacks the marker
\* (sidecar.rs:45-47 never gates by that file, close_status.rs:288-289 does),
\* and it is not answered for another target than named.
JudgmentsAgree ==
  /\ question.kind = "session" =>
       LET w == question.world
       IN  /\ Blocked(answer) /\ w.at \notin {"mute", "held"} /\ w.damaged \notin {"session", "port"} =>
                answer.close \in {"removed", "confirmed"}
           /\ answer.attach \in {"already-attached", "legacy-live"} =>
                \/ answer.status.alive \/ answer.status.hint
                \/ w.at \in {"mute", "busy", "held"} /\ ~w.recent
           /\ answer.close = "removed" => ~Serves(w) \/ w.at \in {"held", "full"}
  /\ question.kind = "forward" /\ answer.target # "refused" =>
       /\ answer.status.unsupported => question.world.damaged = "marker"
       /\ question.target \in {"omitted", answer.target}

\* What sidecar.rs:59-61 has of every session that status calls unsupported: it
\* is shown, and closed, and spoken to by no other command.  TLC refutes it for
\* a session.json without the marker beside files of the CLI that have it.
UnsupportedIsCloseOnly ==
  question.kind = "forward" /\ answer.target # "refused" => ~answer.status.unsupported

\* The comment in close_status.rs:212-217 has it that a valid session is never
\* deleted on uncertainty.  TLC refutes it: the last check takes a failed
\* connect for death, and a bridge with a full backlog, which the polls
\* themselves fill while its loop is held, turns it away too.
UncertaintyDeletesNothing ==
  question.kind = "session" => ~(answer.close = "removed" /\ Serves(question.world))

Listed(v) == "listening" \in {v.v4, v.v6}

WellFormed(f) == f.text /\ f.v2 /\ f.phase # "none"

\* What a failed attach is told was seen.  A bridge's own account of a failure
\* after the connection stood (a bad breakpoint, an internal error) is passed
\* on word for word, and a malformed one is called that: neither turns into a
\* verdict about the endpoint, except when the file came between the last look
\* for it and the look for the exit, or later than the settle after a session
\* that never answered.  A launch has no endpoint to be blamed.  A verdict
\* that a listener was there rests on one seen, and the confident one that
\* there was none on tables read with nothing in them or an owner nobody may
\* look at.
DiagnosesAreObserved ==
  /\ question.kind = "failure" /\ answer.report = "diagnosed" =>
       LET s == question.schedule
       IN  /\ question.endpoint
           /\ s.error < Never /\ s.file.text =>
                \/ FellBetween(s) \/ TooLate(s)
                \/ WellFormed(s.file) /\ s.file.phase = "transport"
  /\ question.kind = "listener" =>
       LET views == {question.before, question.after}
       IN  /\ answer.code \in {"endpoint-closed-during-attach", "endpoint-rejected"} =>
                \E v \in views : v.local /\ Listed(v)
           /\ answer.sure = "high" =>
                \A v \in views : v.local /\ (Listed(v) => ~v.visible)
                                 /\ {v.v4, v.v6} # {"unreadable"}

\* docs/schema-v2-cleanup.md:27 has it without an exception: a runtime failure
\* is surfaced word for word, never diagnosed.  TLC refutes it: the wait loop
\* finds an exit whose file came after its look for the file.
AccountsAreKept ==
  question.kind = "failure" /\ question.schedule.error < Never =>
    LET f == question.schedule.file
    IN  WellFormed(f) /\ f.phase = "runtime" => answer.report # "diagnosed"

\* attach.rs:61-64: what cannot be read is "unknown", never "not listening".
\* TLC refutes it for a listener whose owner's descriptors are another user's,
\* and for one in the only table that cannot be read.
HighConfidenceIsEarned ==
  question.kind = "listener" /\ answer.sure = "high" =>
    \A v \in {question.before, question.after} :
      ~Listed(v) /\ "unreadable" \notin {v.v4, v.v6}
=============================================================================
