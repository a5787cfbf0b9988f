--------------------------- MODULE DecisionsProofs ---------------------------
(***************************************************************************)
(* The decisions of the CLI, for all sizes of frames and headers, all      *)
(* segmentations of an answer, all schedules of a failed start, every      *)
(* session that may be found on disk, and command lines and identities of  *)
(* any length.                                                             *)
(***************************************************************************)
EXTENDS Decisions, WellFoundedInduction, TLAPS

(* A set of naturals has a least element.                                  *)
LEMMA Least ==
  ASSUME NEW T \in SUBSET Nat, T # {}
  PROVE  Min(T) \in T /\ \A y \in T : Min(T) <= y
<1>1. PICK x \in T : \A y \in T : <<y, x>> \notin OpToRel(<, Nat)
  BY NatLessThanWellFounded, WFMin, Zenon
<1>2. \A y \in T : ~(y < x)
  <2> SUFFICES ASSUME NEW y \in T, y < x PROVE FALSE
    OBVIOUS
  <2>1. <<y, x>> \in OpToRel(<, Nat)
    BY Zenon DEF OpToRel
  <2> QED
    BY <1>1, <2>1
<1>3. \A y \in T : x <= y
  BY <1>2
<1> QED
  BY <1>3 DEF Min

-----------------------------------------------------------------------------
(* A step that leaves a question of some kind has asked it.                *)
LEMMA Asked ==
  ASSUME Next
  PROVE  /\ question'.kind = "read" => ReadAnswer
         /\ question'.kind = "listener" => DiagnoseListener
         /\ question'.kind = "failure" => ReportFailure
         /\ question'.kind = "session" => JudgeSession
         /\ question'.kind = "forward" => ForwardCommand
         /\ question'.kind = "words" => ShowCommandLine
         /\ question'.kind = "cap" => CapStrings
         /\ question'.kind = "seed" => SeedAttach
         /\ question'.kind = "echo" => EchoStored
BY DEF Next, Ask, Nothing, ReadAnswer, ShowCommandLine, CapStrings, SeedAttach, EchoStored,
       DiagnoseListener, ReportFailure, JudgeSession, ForwardCommand, Finish

LEMMA NothingAsked == Init => question.kind = "none"
BY DEF Init, Nothing

-----------------------------------------------------------------------------
(* Reading an answer: a look at a prefix that says more than "more" says   *)
(* what the whole of it means; a look at all of it says "more" when how    *)
(* the peer ends is all there is to say.                                   *)
LEMMA Looks ==
  ASSUME NEW p \in Peers, NEW k \in 0 .. p.total
  PROVE  /\ Look(p, k) # "more" => Look(p, k) = Meaning(p) /\ Meaning(p) \notin Ends
         /\ k = p.total /\ Look(p, k) = "more" => Meaning(p) = p.end
<1>1. /\ p.head \in 0 .. MaxHeader + 1 /\ p.size \in BadSize .. MaxFrame - 1
      /\ p.body \in Bodies /\ p.total \in 0 .. MaxFrame + 1 /\ p.end \in Ends
      /\ p.head # NoHeader /\ p.size # BadSize => p.total <= p.head + p.size
      /\ p.head = NoHeader => p.size = BadSize
      /\ ~Whole(p) => p.body = "garbage"
  BY DEF Peers
<1>2. MaxHeader \in Nat /\ MaxFrame \in Nat /\ 0 < MaxHeader /\ MaxHeader < MaxFrame
  BY WireAssumption
<1>3. CASE p.head = NoHeader
  BY <1>1, <1>2, <1>3
     DEF Look, ValidFrameSize, Decode, HeaderSeen, Meaning, NoHeader, BadSize, Ends
<1>4. CASE p.head # NoHeader /\ ~InBounds(p)
  BY <1>1, <1>2, <1>4
     DEF Look, ValidFrameSize, Decode, HeaderSeen, Meaning, InBounds, NoHeader, BadSize, Ends
<1>5. CASE p.head # NoHeader /\ InBounds(p)
  BY <1>1, <1>2, <1>5
     DEF Look, ValidFrameSize, Decode, HeaderSeen, Meaning, InBounds, Whole, NoHeader, BadSize, Ends
<1> QED
  BY <1>3, <1>4, <1>5

LEMMA ReadsAlike ==
  ASSUME NEW p \in Peers, NEW cuts \in SUBSET (1 .. p.total)
  PROVE  Received(p, cuts) = Meaning(p) /\ ProbeVerdict(p, cuts) = Nature(p)
<1>1. p.total \in Nat /\ p.end \in Ends /\ p.body \in Bodies
  BY DEF Peers
<1>2. \A k \in cuts \cup {0, p.total} : k \in 0 .. p.total
  <2>1. SUFFICES ASSUME NEW k \in cuts \cup {0, p.total} PROVE k \in 0 .. p.total
    OBVIOUS
  <2>2. k \in cuts => k \in 1 .. p.total
    OBVIOUS
  <2> QED
    BY <1>1, <2>1, <2>2
<1>3. Received(p, cuts) = Meaning(p)
  <2>1. CASE Decisive(p, cuts) = {}
    <3>1. Look(p, p.total) = "more" /\ p.total \in 0 .. p.total
      BY <1>1, <2>1 DEF Decisive
    <3> QED
      BY <2>1, <3>1, Looks DEF Received
  <2>2. CASE Decisive(p, cuts) # {}
    <3>1. Decisive(p, cuts) \in SUBSET Nat
      <4>1. 0 .. p.total \subseteq Nat
        BY <1>1
      <4> QED
        BY <1>2, <4>1 DEF Decisive
    <3>2. Min(Decisive(p, cuts)) \in Decisive(p, cuts)
      BY <2>2, <3>1, Least
    <3>3. Look(p, Min(Decisive(p, cuts))) = Meaning(p)
      BY <1>2, <3>2, Looks DEF Decisive
    <3> QED
      BY <2>2, <3>3 DEF Received
  <2> QED
    BY <2>1, <2>2
<1>4. Meaning(p) = "value" <=> p.head # NoHeader /\ InBounds(p) /\ Whole(p) /\ p.body # "garbage"
  BY <1>1, WireAssumption DEF Meaning, Whole, InBounds, NoHeader, BadSize, Ends, Peers
<1> QED
  BY <1>1, <1>3, <1>4 DEF ProbeVerdict, Nature, Whole, Bodies

(* Whatever a peer sends and wherever the network cuts it, the two readers *)
(* of dap.rs and client.rs make of it what the whole of the bytes says.    *)
THEOREM AnswersReadAlike == Spec => []SegmentationIsInvisible
<1>1. Init => SegmentationIsInvisible
  BY NothingAsked DEF SegmentationIsInvisible
<1>2. SegmentationIsInvisible /\ [Next]_vars => SegmentationIsInvisible'
  <2>1. CASE UNCHANGED vars
    BY <2>1 DEF vars, SegmentationIsInvisible
  <2>2. ASSUME ReadAnswer PROVE SegmentationIsInvisible'
    BY <2>2, ReadsAlike DEF ReadAnswer, Ask, SegmentationIsInvisible
  <2> QED
    BY <2>1, <2>2, Asked DEF SegmentationIsInvisible
<1> QED
  BY <1>1, <1>2, PTL DEF Spec

-----------------------------------------------------------------------------
(* A failed start.                                                         *)
LEMMA RoutedToDiagnosis ==
  ASSUME NEW endpoint \in BOOLEAN, NEW f \in ErrorFiles
  PROVE  /\ RouteFailure(endpoint, "unphased") = "diagnosed" => endpoint
         /\ RouteFailure(endpoint, ReadBridgeError(f)) = "diagnosed" =>
              endpoint /\ (f.text => WellFormed(f) /\ f.phase = "transport")
BY DEF RouteFailure, ReadBridgeError, ErrorFiles, Phases, WellFormed

LEMMA FailureObserved ==
  ASSUME NEW endpoint \in BOOLEAN, NEW s \in Schedules, Possible(s),
         Report(endpoint, s) = "diagnosed"
  PROVE  /\ endpoint
         /\ s.error < Never /\ s.file.text =>
              \/ FellBetween(s) \/ TooLate(s)
              \/ WellFormed(s.file) /\ s.file.phase = "transport"
<1> DEFINE k == Min(DecisiveLooks(s))
<1>1. /\ s.error \in Nat /\ s.session \in Nat /\ s.exit \in Nat
      /\ s.file \in ErrorFiles /\ LastLook \in Nat /\ SettleFor \in Nat
  BY StartReportAssumption DEF Schedules, Never
<1>2. DecisiveLooks(s) # {}
  BY DEF Report
<1>3. k \in DecisiveLooks(s) /\ \A j \in DecisiveLooks(s) : k <= j
  <2>1. DecisiveLooks(s) \in SUBSET Nat
    BY <1>1 DEF DecisiveLooks
  <2> QED
    BY <1>2, <2>1, Least
<1>4. k \in 1 .. LastLook /\ Decides(s, k) /\ k % 3 \in 0 .. 2
  BY <1>1, <1>3 DEF DecisiveLooks
<1>5. Report(endpoint, s) =
        IF k % 3 = 1 THEN RouteFailure(endpoint, ReadBridgeError(s.file))
        ELSE IF k % 3 = 0 THEN RouteFailure(endpoint, "unphased")
        ELSE IF s.answered THEN "started"
        ELSE IF s.error <= k + SettleFor
             THEN RouteFailure(endpoint, ReadBridgeError(s.file))
        ELSE IF s.logsSuffice THEN "logs"
        ELSE RouteFailure(endpoint, "unphased")
  BY <1>2 DEF Report
<1>6. k = Min(DecisiveLooks(s))
  OBVIOUS
<1> HIDE DEF k
<1>7. CASE RouteFailure(endpoint, ReadBridgeError(s.file)) = "diagnosed"
  BY <1>1, <1>7, RoutedToDiagnosis
<1>8. CASE k % 3 = 0 /\ RouteFailure(endpoint, "unphased") = "diagnosed"
  <2>1. ASSUME s.error < Never PROVE FellBetween(s)
    <3>1. s.error <= k
      BY <1>1, <1>4, <1>8, <2>1 DEF Decides, Possible
    <3>2. k - 2 \in 1 .. LastLook /\ (k - 2) % 3 = 1 /\ ~(k <= k - 2)
      BY <1>1, <1>4, <1>8
    <3>3. ~Decides(s, k - 2)
      BY <1>3, <3>2 DEF DecisiveLooks
    <3>4. s.error \in {k - 1, k}
      BY <1>1, <1>4, <3>1, <3>2, <3>3 DEF Decides
    <3> QED
      BY <1>3, <1>6, <1>8, <3>4 DEF FellBetween
  <2> QED
    BY <1>8, <2>1, RoutedToDiagnosis, <1>1
<1>9. CASE /\ k % 3 = 2 /\ ~(s.error <= k + SettleFor)
           /\ RouteFailure(endpoint, "unphased") = "diagnosed"
  <2>1. TooLate(s)
    BY <1>1, <1>3, <1>4, <1>6, <1>9 DEF TooLate
  <2> QED
    BY <1>1, <1>9, <2>1, RoutedToDiagnosis
<1> QED
  BY <1>4, <1>5, <1>7, <1>8, <1>9

(* What the tables of /proc showed before and after.                       *)
LEMMA ListenerObserved ==
  ASSUME NEW before \in Views, NEW after \in Views, before.local = after.local
  PROVE  LET said == Diagnose(before, after)
         IN  /\ said.code \in {"endpoint-closed-during-attach", "endpoint-rejected"} =>
                  \E v \in {before, after} : v.local /\ Listed(v)
             /\ said.sure = "high" =>
                  \A v \in {before, after} : v.local /\ (Listed(v) => ~v.visible)
                                             /\ {v.v4, v.v6} # {"unreadable"}
<1> DEFINE pre  == ListenerPresent(before)
           post == ListenerPresent(after)
<1>1. ASSUME NEW v \in Views
      PROVE  /\ ListenerPresent(v) = "yes" => v.local /\ Listed(v)
             /\ ListenerPresent(v) = "no" => v.local /\ (Listed(v) => ~v.visible)
                                             /\ {v.v4, v.v6} # {"unreadable"}
             /\ ListenerPresent(v) \in {"yes", "no", "unknown"}
  BY DEF ListenerPresent, ListenerSourceReadable, PortLookup, ListenInode, Listed
<1>2. /\ Diagnosis(pre, post).code \in {"endpoint-closed-during-attach", "endpoint-rejected"} =>
           "yes" \in {pre, post}
      /\ Diagnosis(pre, post).sure = "high" => pre = "no" /\ post = "no"
  BY DEF Diagnosis
<1> QED
  BY <1>1, <1>2 DEF Diagnose

(* Whenever the error file, the session and the exit of a failed start come *)
(* and whatever /proc shows: the bridge's own account of a failure is not   *)
(* turned into a verdict about the endpoint (but for the two cracks of the  *)
(* wait loop), and a verdict rests on what was seen.                        *)
THEOREM DiagnosesRestOnObservations == Spec => []DiagnosesAreObserved
<1>1. Init => DiagnosesAreObserved
  BY NothingAsked DEF DiagnosesAreObserved
<1>2. DiagnosesAreObserved /\ [Next]_vars => DiagnosesAreObserved'
  <2> SUFFICES ASSUME DiagnosesAreObserved, [Next]_vars PROVE DiagnosesAreObserved'
    OBVIOUS
  <2>1. CASE UNCHANGED vars
    BY <2>1 DEF vars, DiagnosesAreObserved
  <2>2. ASSUME ReportFailure PROVE DiagnosesAreObserved'
    <3>1. PICK endpoint \in BOOLEAN, s \in Schedules :
            /\ Possible(s)
            /\ question' = [kind |-> "failure", endpoint |-> endpoint, schedule |-> s]
            /\ answer' = [report |-> Report(endpoint, s)]
      BY <2>2 DEF ReportFailure, Ask
    <3>2. /\ question'.kind = "failure" /\ question'.endpoint = endpoint
          /\ question'.schedule = s /\ answer'.report = Report(endpoint, s)
      BY <3>1
    <3> QED
      BY <3>1, <3>2, FailureObserved DEF DiagnosesAreObserved
  <2>3. ASSUME DiagnoseListener PROVE DiagnosesAreObserved'
    <3>1. PICK before \in Views, after \in Views :
            /\ before.local = after.local
            /\ question' = [kind |-> "listener", before |-> before, after |-> after]
            /\ answer' = Diagnose(before, after)
      BY <2>3 DEF DiagnoseListener, Ask
    <3>2. /\ question'.kind = "listener" /\ question'.before = before
          /\ question'.after = after /\ answer' = Diagnose(before, after)
      BY <3>1
    <3> QED
      BY <3>1, <3>2, ListenerObserved DEF DiagnosesAreObserved
  <2> QED
    BY <2>1, <2>2, <2>3, Asked DEF DiagnosesAreObserved
<1> QED
  BY <1>1, <1>2, PTL DEF Spec

-----------------------------------------------------------------------------
(* Hosts.                                                                  *)
LEMMA Spelled ==
  /\ InetAtonLoopback(<<127, 0, 0, 1>>) /\ InetAtonLoopback(<<127, 1>>)
  /\ InetAtonLoopback(<<127, 0, 1>>) /\ InetAtonLoopback(<<2130706433>>)
<1>1. 256 ^ 1 = 256 /\ 256 ^ 2 = 65536 /\ 256 ^ 3 = 16777216
  OBVIOUS
<1>2. 2130706433 \div 16777216 = 127
  OBVIOUS
<1>3. InetAtonLoopback(<<127, 0, 0, 1>>)
  BY <1>1 DEF InetAtonLoopback
<1>4. InetAtonLoopback(<<127, 1>>)
  BY <1>1 DEF InetAtonLoopback
<1>5. InetAtonLoopback(<<127, 0, 1>>)
  BY <1>1 DEF InetAtonLoopback
<1>6. InetAtonLoopback(<<2130706433>>)
  BY <1>1, <1>2 DEF InetAtonLoopback
<1> QED
  BY <1>3, <1>4, <1>5, <1>6

LEMMA HostsReach ==
  ASSUME NEW h \in Hosts, ~UnspecifiedAlias(h), ~IsUnspecified(h)
  PROVE  /\ Reaches(h) \subseteq {"127.0.0.1", "::1", "elsewhere"}
         /\ Reaches(h) \cap {"127.0.0.1", "::1"} # {} =>
              NormalizeAttachHost(h) = Host("loopback", <<>>)
         /\ "elsewhere" \in Reaches(h) => h = Host("elsewhere", <<>>)
<1>1. CASE h.spelling \in Named
  <2>1. PICK n \in Named : h = Host(n, <<>>)
    BY <1>1, SMT DEF Hosts, Host, Named
  <2>2. h.spelling = n /\ h.parts = <<>> /\ n # "0.0.0.0"
    BY <2>1, SMT DEF Host, IsUnspecified
  <2>3. Reaches(h) = CASE n = "localhost" -> {"127.0.0.1", "::1"}
                       [] n = "[::1]" -> {"::1"}
                       [] n = "::ffff:127.0.0.1" -> {"127.0.0.1"}
                       [] n = "elsewhere" -> {"elsewhere"}
    BY <2>2, SMT DEF Reaches, Named
  <2>4. n # "elsewhere" => NormalizeAttachHost(h) = Host("loopback", <<>>)
    BY <2>2, SMT DEF NormalizeAttachHost, Named
  <2> QED
    BY <2>1, <2>2, <2>3, <2>4, SMT DEF Named
<1>2. CASE h.spelling \notin Named
  <2>1. PICK q \in Numeric : h = Host("numeric", q)
    BY <1>2 DEF Hosts, Host
  <2>2. h.spelling = "numeric" /\ h.parts = q /\ q # <<0>>
    BY <2>1 DEF Host, UnspecifiedAlias
  <2>3. Reaches(h) = IF q \in {<<127, 0, 0, 1>>, <<127, 1>>, <<127, 0, 1>>, <<2130706433>>}
                     THEN {"127.0.0.1"} ELSE {}
    BY <2>2, SMT DEF Reaches
  <2> QED
    BY <2>2, <2>3, Spelled, SMT DEF NormalizeAttachHost
<1> QED
  BY <1>1, <1>2

LEMMA SameAddressSameName ==
  ASSUME NEW g \in Hosts, ~UnspecifiedAlias(g), ~IsUnspecified(g),
         NEW h \in Hosts, ~UnspecifiedAlias(h), ~IsUnspecified(h),
         Reaches(g) \cap Reaches(h) # {}
  PROVE  NormalizeAttachHost(g) = NormalizeAttachHost(h)
<1>1. PICK x \in Reaches(g) \cap Reaches(h) : TRUE
  OBVIOUS
<1>2. CASE x \in {"127.0.0.1", "::1"}
  BY <1>1, <1>2, HostsReach
<1>3. CASE x = "elsewhere"
  BY <1>1, <1>3, HostsReach
<1> QED
  BY <1>1, <1>2, <1>3, HostsReach

LEMMA NoHostNoReach == Reaches(Host("none", <<>>)) = {} /\ ~IsUnspecified(Host("none", <<>>))
BY SMT DEF Reaches, Host, IsUnspecified

(* What the files of a session that serves say.                            *)
LEMMA LiveFiles ==
  ASSUME NEW w \in Worlds, Serves(w), ~Unseen(w)
  PROVE  /\ Readable(Files(w)) /\ DaemonAliveIn(Files(w))
         /\ w.damaged # "lang" => Files(w).lang.lang = w.lang
         /\ w.damaged = "lang" => Files(w).lang.lang = "none"
         /\ CliMarkersV2(Files(w)) => /\ w.damaged # "lang" /\ Files(w).stops.readable
                                      /\ Files(w).stops.host = w.host
<1> DEFINE d == Files(w)
<1>1. /\ w.published /\ w.at \in {"bridge", "busy", "held", "full"} /\ (w.at = "full" => w.recent)
      /\ w.damaged \notin {"session", "port"} /\ w.version \in {1, 2}
  BY DEF Worlds, Serves, Unseen
<1>2. d.session.state = "whole" /\ d.session.port /\ d.session.recent = w.recent /\ d.at = w.at
  BY <1>1 DEF Files
<1>3. /\ d.lang.lang = IF w.damaged = "lang" THEN "none" ELSE w.lang
      /\ d.lang.v2 = (w.version = 2 /\ w.damaged # "lang")
      /\ d.stops.v2 = (w.version = 2)
      /\ w.version = 2 => d.stops.host = w.host
  <2>1. d.lang.v2 = (w.version = 2 /\ w.damaged # "lang") /\ d.stops.v2 = (w.version = 2)
    BY Zenon DEF Files
  <2>2. w.version = 2 => d.stops.host = w.host
    BY SMT DEF Files
  <2>3. d.lang.lang = IF w.damaged = "lang" THEN "none" ELSE w.lang
    BY Zenon DEF Files
  <2> QED
    BY <2>1, <2>2, <2>3
<1> HIDE DEF d
<1>4. Readable(d) /\ DaemonAliveIn(d)
  BY <1>1, <1>2 DEF Readable, DaemonAliveIn, HasPort, Accepts
<1>5. CliMarkersV2(d) => w.damaged # "lang" /\ d.stops.readable /\ d.stops.host = w.host
  BY <1>3 DEF CliMarkersV2
<1> QED
  BY <1>3, <1>4, <1>5 DEF d

LEMMA RivalsStop ==
  ASSUME NEW lang \in Langs, NEW host \in Hosts, NEW w \in Worlds,
         Serves(w), ~Unseen(w), AttachExclusive(w.lang), AttachExclusive(lang),
         Reaches(host) \cap Reaches(w.host) # {},
         ~UnspecifiedAlias(host), ~UnspecifiedAlias(w.host)
  PROVE  AttachGate(lang, host, Files(w)) # "passes"
<1> DEFINE d == Files(w)
<1>1. CASE IsUnspecified(host)
  BY <1>1 DEF AttachGate
<1>2. CASE ~CliMarkersV2(d)
  <2>1. LiveLegacy(d)
    BY <1>2, LiveFiles DEF LiveLegacy, AttachExclusive
  <2> QED
    BY <2>1 DEF AttachGate
<1>3. CASE ~IsUnspecified(host) /\ CliMarkersV2(d)
  <2>1. w.host \in Hosts /\ ~IsUnspecified(w.host)
    BY NoHostNoReach DEF Worlds
  <2>2. w.host.spelling # "none"
    BY <2>1 DEF Hosts, Host, Named
  <2>3. NormalizeAttachHost(w.host) = NormalizeAttachHost(host)
    BY <1>3, <2>1, SameAddressSameName
  <2>4. OwnsEndpoint(d, host)
    BY <1>3, <2>2, <2>3, LiveFiles DEF OwnsEndpoint
  <2> QED
    BY <2>4 DEF AttachGate
<1> QED
  BY <1>1, <1>2, <1>3

(* No spelling of a host and no state of the files lets a start pass the    *)
(* ownership scans of spawn_in beside a live session at the same address,   *)
(* but for what the property names.                                         *)
THEOREM RivalsAreStopped == Spec => []NoRivalPasses
<1>1. Init => NoRivalPasses
  BY NothingAsked DEF NoRivalPasses
<1>2. NoRivalPasses /\ [Next]_vars => NoRivalPasses'
  <2> SUFFICES ASSUME NoRivalPasses, [Next]_vars PROVE NoRivalPasses'
    OBVIOUS
  <2>1. CASE UNCHANGED vars
    BY <2>1 DEF vars, NoRivalPasses
  <2>2. ASSUME JudgeSession PROVE NoRivalPasses'
    <3>1. PICK lang \in Langs, host \in Hosts, w \in Worlds :
            /\ question' = [kind |-> "session", lang |-> lang, host |-> host, world |-> w]
            /\ answer'.attach = AttachGate(lang, host, Files(w))
      BY <2>2 DEF JudgeSession, Ask
    <3>2. question'.lang = lang /\ question'.host = host /\ question'.world = w
      BY <3>1
    <3> QED
      BY <3>1, <3>2, RivalsStop DEF NoRivalPasses, Rival
  <2> QED
    BY <2>1, <2>2, Asked DEF NoRivalPasses
<1> QED
  BY <1>1, <1>2, PTL DEF Spec

-----------------------------------------------------------------------------
(* Three judgments of one directory.                                       *)
LEMMA SessionJudgments ==
  ASSUME NEW lang \in Langs, NEW host \in Hosts, NEW w \in Worlds,
         NEW outcome \in CloseOutcomes(Files(w))
  PROVE  LET d == Files(w)
             attach == AttachGate(lang, host, d)
             blocked == \/ attach \in {"already-attached", "legacy-live"}
                        \/ NameGate(d) \in {"exists", "unsupported"}
         IN  /\ blocked /\ w.at \notin {"mute", "held"} /\ w.damaged \notin {"session", "port"} =>
                  outcome \in {"removed", "confirmed"}
             /\ attach \in {"already-attached", "legacy-live"} =>
                  \/ StatusRow(d).alive \/ StatusRow(d).hint
                  \/ w.at \in {"mute", "busy", "held"} /\ ~w.recent
             /\ outcome = "removed" => ~Serves(w) \/ w.at \in {"held", "full"}
<1> DEFINE d == Files(w)
<1>0. /\ w.at \in Listeners /\ d.at = w.at /\ d.session.recent = w.recent
      /\ w.recent \in BOOLEAN /\ w.published \in BOOLEAN
      /\ d.session.state = IF ~w.published THEN "absent"
                           ELSE IF w.damaged = "session" THEN "corrupt" ELSE "whole"
      /\ d.session.port = (w.damaged # "port")
  BY DEF Worlds, Files
<1>1. outcome \in CloseOutcomes(d)
  OBVIOUS
<1> HIDE DEF d
<1>2. AttachGate(lang, host, d) \in {"already-attached", "legacy-live"} =>
        Readable(d) /\ DaemonAliveIn(d)
  BY DEF AttachGate, OwnsEndpoint, LiveLegacy
<1>3. w.at \notin {"mute", "held"} /\ w.damaged \notin {"session", "port"} =>
        outcome \in {"removed", "confirmed"}
  BY <1>0, <1>1 DEF CloseOutcomes, HasPort, Readable, Listeners
<1>4. Readable(d) /\ DaemonAliveIn(d) =>
        \/ StatusRow(d).alive \/ StatusRow(d).hint
        \/ w.at \in {"mute", "busy", "held"} /\ ~w.recent
  BY <1>0 DEF StatusRow, Probed, DaemonAliveIn, HasPort, Accepts, Listeners
<1>5. outcome = "removed" => ~Serves(w) \/ w.at \in {"held", "full"}
  BY <1>0, <1>1 DEF CloseOutcomes, HasPort, Readable, Listeners, Serves
<1> QED
  BY <1>2, <1>3, <1>4, <1>5 DEF d

LEMMA ForwardJudgment ==
  ASSUME NEW w \in Worlds, NEW target \in {"omitted", "main", "child"},
         NEW picked \in {"main", "child"},
         ForwardedTo(Files(w), target, picked) # "refused"
  PROVE  /\ StatusRow(Files(w)).unsupported => w.damaged = "marker"
         /\ target \in {"omitted", ForwardedTo(Files(w), target, picked)}
<1> DEFINE d == Files(w)
<1>1. CliMarkersV2(d) /\ HasPort(d)
  BY DEF ForwardedTo
<1>2. w.damaged # "marker" => d.session.v2
  BY <1>1 DEF CliMarkersV2, Files
<1>3. StatusRow(d).unsupported => w.damaged = "marker"
  BY <1>1, <1>2 DEF StatusRow, HasPort
<1>4. target \in {"omitted", ForwardedTo(d, target, picked)}
  BY DEF ForwardedTo, NormalizeTarget
<1> QED
  BY <1>3, <1>4

(* Starts, status, close and forwarded commands judge every directory that  *)
(* may be found in ways that agree: what blocks a start can be closed and   *)
(* shows in status, and nothing is forwarded that status calls unsupported, *)
(* but for what the property names.                                         *)
THEOREM OneDirectoryOneJudgment == Spec => []JudgmentsAgree
<1>1. Init => JudgmentsAgree
  BY NothingAsked DEF JudgmentsAgree
<1>2. JudgmentsAgree /\ [Next]_vars => JudgmentsAgree'
  <2> SUFFICES ASSUME JudgmentsAgree, [Next]_vars PROVE JudgmentsAgree'
    OBVIOUS
  <2>1. CASE UNCHANGED vars
    BY <2>1 DEF vars, JudgmentsAgree, Blocked
  <2>2. ASSUME JudgeSession PROVE JudgmentsAgree'
    <3>a. PICK lang \in Langs, host \in Hosts, w \in Worlds :
            \E outcome \in CloseOutcomes(Files(w)) :
              /\ question' = [kind |-> "session", lang |-> lang, host |-> host, world |-> w]
              /\ answer' = [attach |-> AttachGate(lang, host, Files(w)),
                            sameName |-> NameGate(Files(w)),
                            status |-> StatusRow(Files(w)), close |-> outcome]
      BY <2>2 DEF JudgeSession, Ask
    <3>1. PICK outcome \in CloseOutcomes(Files(w)) :
            /\ question' = [kind |-> "session", lang |-> lang, host |-> host, world |-> w]
            /\ answer' = [attach |-> AttachGate(lang, host, Files(w)),
                          sameName |-> NameGate(Files(w)),
                          status |-> StatusRow(Files(w)), close |-> outcome]
      BY <3>a
    <3>2. /\ question'.kind = "session" /\ question'.world = w
          /\ answer'.attach = AttachGate(lang, host, Files(w))
          /\ answer'.sameName = NameGate(Files(w))
          /\ answer'.status = StatusRow(Files(w)) /\ answer'.close = outcome
      BY <3>1
    <3> QED
      BY <3>2, SessionJudgments DEF JudgmentsAgree, Blocked
  <2>3. ASSUME ForwardCommand PROVE JudgmentsAgree'
    <3>1. PICK w \in Worlds, target \in {"omitted", "main", "child"},
               picked \in {"main", "child"} :
            /\ question' = [kind |-> "forward", world |-> w, target |-> target,
                            picked |-> picked]
            /\ answer' = [target |-> ForwardedTo(Files(w), target, picked),
                          status |-> StatusRow(Files(w))]
      BY <2>3 DEF ForwardCommand, Ask
    <3>2. /\ question'.kind = "forward" /\ question'.world = w /\ question'.target = target
          /\ answer'.target = ForwardedTo(Files(w), target, picked)
          /\ answer'.status = StatusRow(Files(w))
      BY <3>1
    <3> QED
      BY <3>2, ForwardJudgment DEF JudgmentsAgree
  <2> QED
    BY <2>1, <2>2, <2>3, Asked DEF JudgmentsAgree
<1> QED
  BY <1>1, <1>2, PTL DEF Spec

-----------------------------------------------------------------------------
(* Recursion on positions: what the readers of command lines, the size of  *)
(* an identity and the passes of its cap are built on.                     *)

(* What holds at 0 and goes from each position to the next holds at all.   *)
LEMMA Positions ==
  ASSUME NEW N \in Nat, NEW T \in SUBSET (0 .. N), 0 \in T,
         \A n \in 1 .. N : n - 1 \in T => n \in T
  PROVE  \A n \in 0 .. N : n \in T
<1> SUFFICES ASSUME NEW x \in (0 .. N) \ T PROVE FALSE
  OBVIOUS
<1> DEFINE Bad == (0 .. N) \ T
<1>1. Bad \in SUBSET Nat /\ Bad # {}
  OBVIOUS
<1>2. PICK m \in Bad : \A y \in Bad : m <= y
  BY <1>1, Least
<1>3. m \in 1 .. N
  BY <1>2
<1>4. m - 1 \notin Bad
  BY <1>2, <1>3
<1> QED
  BY <1>2, <1>3, <1>4

(* A function may be defined by recursion on its positions.                *)
Runs(f, S, N, base, step) ==
  f \in [0 .. N -> S] /\ f[0] = base /\ \A n \in 1 .. N : f[n] = step[<<f[n - 1], n>>]

LEMMA Recursion ==
  ASSUME NEW S, NEW N \in Nat, NEW base \in S, NEW step \in [S \X (1 .. N) -> S]
  PROVE  \E f : Runs(f, S, N, base, step)
<1> USE DEF Runs
<1> DEFINE T == {n \in 0 .. N : \E f : Runs(f, S, n, base, step)}
<1>1. 0 \in T
  <2> DEFINE f == [i \in 0 .. 0 |-> base]
  <2>1. Runs(f, S, 0, base, step)
    OBVIOUS
  <2> HIDE DEF f, Runs
  <2> QED
    BY <2>1
<1>2. ASSUME NEW n \in 1 .. N, n - 1 \in T PROVE n \in T
  <2>1. PICK f : Runs(f, S, n - 1, base, step)
    <3> HIDE DEF Runs
    <3> QED
      BY <1>2
  <2> DEFINE g == [i \in 0 .. n |-> IF i = n THEN step[<<f[n - 1], n>>] ELSE f[i]]
  <2>2. f[n - 1] \in S
    BY <2>1
  <2>3. g \in [0 .. n -> S]
    BY <2>1, <2>2
  <2>4. g[0] = base /\ g[n] = step[<<g[n - 1], n>>]
    <3>1. {0, n - 1, n} \subseteq 0 .. n /\ 0 # n /\ n - 1 # n /\ f[0] = base
      BY <2>1
    <3>2. g[0] = f[0] /\ g[n - 1] = f[n - 1] /\ g[n] = step[<<f[n - 1], n>>]
      BY <3>1
    <3> HIDE DEF g
    <3> QED
      BY <3>1, <3>2
  <2>5. ASSUME NEW i \in 1 .. n - 1 PROVE g[i] = step[<<g[i - 1], i>>]
    <3>1. i \in 0 .. n /\ i # n /\ i - 1 \in 0 .. n /\ i - 1 # n
      OBVIOUS
    <3>2. g[i] = f[i] /\ g[i - 1] = f[i - 1]
      BY <3>1
    <3>3. f[i] = step[<<f[i - 1], i>>]
      BY <2>1
    <3> HIDE DEF g
    <3> QED
      BY <3>2, <3>3
  <2> HIDE DEF g
  <2>6. ASSUME NEW i \in 1 .. n PROVE g[i] = step[<<g[i - 1], i>>]
    BY <2>4, <2>5
  <2>7. Runs(g, S, n, base, step)
    BY <2>3, <2>4, <2>6
  <2> HIDE DEF Runs
  <2> QED
    BY <2>7
<1>3. N \in T
  <2> HIDE DEF T
  <2>1. T \in SUBSET (0 .. N)
    BY DEF T
  <2> QED
    BY <1>1, <1>2, <2>1, Positions
<1> HIDE DEF Runs
<1> QED
  BY <1>3

-----------------------------------------------------------------------------
(* Redaction, word by word: what is shown of a word, in a text or in an    *)
(* argument list, and whether it arms the next one.                        *)
Shown(text, skip, w) ==
  IF skip /\ ~w.flag THEN Masked ELSE IF text THEN MaskValue(w) ELSE RedactValue(w)

Arms(skip, w) == (~skip \/ w.flag) /\ w.shape = "bare" /\ w.secret

Reading == [out : Seq(Word), skip : BOOLEAN]

Read(text, acc, w) ==
  [out |-> Append(acc.out, Shown(text, acc.skip, w)), skip |-> Arms(acc.skip, w)]

Armed(argv, skip) ==
  skip[0] = FALSE /\ \A n \in 1 .. Len(argv) : skip[n] = Arms(skip[n - 1], argv[n])

Display(text, argv, skip) == [i \in 1 .. Len(argv) |-> Shown(text, skip[i - 1], argv[i])]

LEMMA ShownTyped ==
  ASSUME NEW text \in BOOLEAN, NEW skip \in BOOLEAN, NEW w \in Word
  PROVE  Shown(text, skip, w) \in Word /\ Arms(skip, w) \in BOOLEAN
<1>1. Masked \in Word /\ MaskedIn(w) \in Word
  BY DEF Masked, MaskedIn, Word, Shapes
<1>2. MaskValue(w) \in Word /\ RedactValue(w) \in Word
  BY <1>1 DEF MaskValue, RedactValue
<1> QED
  BY <1>1, <1>2 DEF Shown, Arms

LEMMA ReadTyped ==
  ASSUME NEW text \in BOOLEAN, NEW acc \in Reading, NEW w \in Word
  PROVE  Read(text, acc, w) \in Reading
<1>1. acc.out \in Seq(Word) /\ acc.skip \in BOOLEAN
  BY DEF Reading
<1>2. Append(acc.out, Shown(text, acc.skip, w)) \in Seq(Word) /\ Arms(acc.skip, w) \in BOOLEAN
  BY <1>1, ShownTyped
<1> QED
  BY <1>2 DEF Reading, Read

LEMMA ReadersRead ==
  ASSUME NEW acc \in Reading, NEW w \in Word
  PROVE  /\ RedactWord(acc, w) = Read(FALSE, acc, w)
         /\ MaskBareWord(acc, MaskValue(w)) = Read(TRUE, acc, w)
<1> DEFINE v == MaskValue(w)
<1>0. acc.skip \in BOOLEAN /\ w.flag \in BOOLEAN /\ w.secret \in BOOLEAN /\ w.shape \in Shapes
  BY DEF Reading, Word
<1>1. RedactWord(acc, w) = Read(FALSE, acc, w)
  BY <1>0 DEF RedactWord, Read, Shown, Arms
<1>2. v.flag = w.flag /\ v.secret = w.secret /\ v.shape \in Shapes
      /\ (v.shape = "bare" <=> w.shape = "bare")
  BY <1>0 DEF MaskValue, MaskedIn, Word, Shapes
<1>3. MaskBareWord(acc, v) = Read(TRUE, acc, w)
  <2> HIDE DEF v
  <2>1. CASE acc.skip /\ ~w.flag
    BY <1>0, <1>2, <2>1 DEF MaskBareWord, Read, Shown, Arms
  <2>2. CASE ~(acc.skip /\ ~w.flag)
    <3>1. Shown(TRUE, acc.skip, w) = v
      BY <2>2 DEF Shown, v
    <3>2. Arms(acc.skip, w) = (v.secret /\ v.shape = "bare")
      BY <1>0, <1>2, <2>2 DEF Arms
    <3>3. MaskBareWord(acc, v) = [out |-> Append(acc.out, v), skip |-> v.secret /\ v.shape = "bare"]
      BY <1>2, <2>2 DEF MaskBareWord
    <3> QED
      BY <3>1, <3>2, <3>3 DEF Read
  <2> QED
    BY <2>1, <2>2
<1> QED
  BY <1>1, <1>3

(* Reading a command line from left to right.                              *)
LEMMA ReadThrough ==
  ASSUME NEW text \in BOOLEAN, NEW argv \in Seq(Word), NEW read,
         read[0] = NothingRead,
         \A n \in 1 .. Len(argv) : read[n - 1] \in Reading => read[n] = Read(text, read[n - 1], argv[n])
  PROVE  \E skip \in [0 .. Len(argv) -> BOOLEAN] :
           Armed(argv, skip) /\ read[Len(argv)].out = Display(text, argv, skip)
<1> DEFINE N == Len(argv)
           skip == [n \in 0 .. N |-> read[n].skip]
<1>0. N \in Nat /\ \A n \in 1 .. N : argv[n] \in Word
  OBVIOUS
<1>1. \A n \in 0 .. N : read[n] \in Reading
  <2> DEFINE T == {n \in 0 .. N : read[n] \in Reading}
  <2>1. 0 \in T
    <3>1. NothingRead \in Reading
      <4>1. <<>> \in Seq(Word)
        OBVIOUS
      <4> QED
        BY <4>1 DEF NothingRead, Reading
    <3> QED
      BY <1>0, <3>1
  <2>2. \A n \in 1 .. N : n - 1 \in T => n \in T
    BY <1>0, ReadTyped
  <2>3. \A n \in 0 .. N : n \in T
    <3>1. T \in SUBSET (0 .. N)
      OBVIOUS
    <3> HIDE DEF T
    <3> QED
      BY <1>0, <2>1, <2>2, <3>1, Positions
  <2> QED
    BY <2>3
<1>2. ASSUME NEW n \in 1 .. N
      PROVE  /\ n - 1 \in 0 .. N
             /\ read[n].skip = Arms(read[n - 1].skip, argv[n])
             /\ read[n].out = Append(read[n - 1].out, Shown(text, read[n - 1].skip, argv[n]))
  <2>1. n - 1 \in 0 .. N /\ read[n] = Read(text, read[n - 1], argv[n])
    BY <1>0, <1>1
  <2> QED
    BY <2>1 DEF Read
<1>3. skip \in [0 .. N -> BOOLEAN]
  BY <1>1 DEF Reading
<1>4. Armed(argv, skip)
  <2>1. skip[0] = FALSE
    BY <1>0 DEF NothingRead
  <2>2. \A n \in 1 .. N : skip[n] = Arms(skip[n - 1], argv[n])
    BY <1>0, <1>2
  <2> QED
    BY <2>1, <2>2 DEF Armed
<1>5. \A n \in 0 .. N :
        read[n].out \in Seq(Word) /\ Len(read[n].out) = n
        /\ \A i \in 1 .. n : read[n].out[i] = Shown(text, skip[i - 1], argv[i])
  <2> DEFINE P(n) == /\ Len(read[n].out) = n
                     /\ \A i \in 1 .. n : read[n].out[i] = Shown(text, skip[i - 1], argv[i])
             T == {n \in 0 .. N : P(n)}
  <2>1. 0 \in T
    BY <1>0 DEF NothingRead
  <2>2. ASSUME NEW n \in 1 .. N, n - 1 \in T PROVE n \in T
    <3>1. /\ read[n - 1].out \in Seq(Word) /\ Len(read[n - 1].out) = n - 1
          /\ \A i \in 1 .. n - 1 : read[n - 1].out[i] = Shown(text, skip[i - 1], argv[i])
      BY <1>1, <1>2, <2>2 DEF Reading
    <3>2. read[n].out = Append(read[n - 1].out, Shown(text, skip[n - 1], argv[n]))
      BY <1>0, <1>2
    <3>3. Shown(text, skip[n - 1], argv[n]) \in Word
      BY <1>0, <1>2, <1>3, ShownTyped
    <3> HIDE DEF skip
    <3>4. P(n)
      BY <3>1, <3>2, <3>3
    <3> QED
      BY <3>4
  <2>3. \A n \in 0 .. N : n \in T
    <3>1. T \in SUBSET (0 .. N)
      OBVIOUS
    <3> HIDE DEF T
    <3> QED
      BY <1>0, <2>1, <2>2, <3>1, Positions
  <2> QED
    BY <1>1, <2>3 DEF Reading
<1>6. read[N].out = Display(text, argv, skip)
  <2> HIDE DEF skip
  <2>1. N \in 0 .. N
    BY <1>0
  <2>2. read[N].out \in Seq(Word) /\ Len(read[N].out) = N
        /\ \A i \in 1 .. N : read[N].out[i] = Shown(text, skip[i - 1], argv[i])
    BY <1>5, <2>1
  <2>3. read[N].out = [i \in 1 .. N |-> read[N].out[i]]
    BY <2>2
  <2> QED
    BY <2>2, <2>3 DEF Display
<1> QED
  BY <1>3, <1>4, <1>6

(* The step of a reader as a function of what is read so far.              *)
LEMMA ReadSteps ==
  ASSUME NEW text \in BOOLEAN, NEW argv \in Seq(Word)
  PROVE  \E f \in [0 .. Len(argv) -> Reading] :
           /\ f[0] = NothingRead
           /\ \A n \in 1 .. Len(argv) : f[n] = Read(text, f[n - 1], argv[n])
<1> DEFINE N == Len(argv)
           step == [q \in Reading \X (1 .. N) |-> Read(text, q[1], argv[q[2]])]
<1>1. N \in Nat /\ \A n \in 1 .. N : argv[n] \in Word
  OBVIOUS
<1>2. NothingRead \in Reading
  <2>1. <<>> \in Seq(Word)
    OBVIOUS
  <2> QED
    BY <2>1 DEF NothingRead, Reading
<1>3. step \in [Reading \X (1 .. N) -> Reading]
  BY <1>1, ReadTyped
<1>4. \A acc \in Reading, n \in 1 .. N : step[<<acc, n>>] = Read(text, acc, argv[n])
  OBVIOUS
<1> HIDE DEF step
<1>5. PICK f \in [0 .. N -> Reading] :
        f[0] = NothingRead /\ \A n \in 1 .. N : f[n] = step[<<f[n - 1], n>>]
  <2>1. \E f : Runs(f, Reading, N, NothingRead, step)
    BY <1>1, <1>2, <1>3, Recursion
  <2> QED
    BY <2>1 DEF Runs
<1>6. \A n \in 1 .. N : f[n - 1] \in Reading
  BY <1>1
<1> QED
  BY <1>4, <1>5, <1>6

LEMMA RedactReads ==
  ASSUME NEW argv \in Seq(Word)
  PROVE  \E skip \in [0 .. Len(argv) -> BOOLEAN] :
           Armed(argv, skip) /\ RedactArgv(argv) = Display(FALSE, argv, skip)
<1> DEFINE Reader(f) ==
             f = [n \in 0 .. Len(argv) |->
                    IF n = 0 THEN NothingRead ELSE RedactWord(f[n - 1], argv[n])]
<1>0. Len(argv) \in Nat /\ \A n \in 1 .. Len(argv) : argv[n] \in Word
  OBVIOUS
<1>1. \E f : Reader(f)
  <2>1. PICK f \in [0 .. Len(argv) -> Reading] :
          f[0] = NothingRead /\ \A n \in 1 .. Len(argv) : f[n] = Read(FALSE, f[n - 1], argv[n])
    BY ReadSteps
  <2>2. \A n \in 1 .. Len(argv) : f[n] = RedactWord(f[n - 1], argv[n])
    <3> TAKE n \in 1 .. Len(argv)
    <3>1. f[n - 1] \in Reading
      BY <1>0
    <3> QED
      BY <1>0, <2>1, <3>1, ReadersRead
  <2>3. Reader(f)
    BY <1>0, <2>1, <2>2
  <2> QED
    BY <2>3
<1>2. PICK f : Reader(f) /\ RedactArgv(argv) = f[Len(argv)].out
  BY <1>1 DEF RedactArgv
<1>3. f[0] = NothingRead
  BY <1>0, <1>2
<1>4. ASSUME NEW n \in 1 .. Len(argv), f[n - 1] \in Reading
      PROVE  f[n] = Read(FALSE, f[n - 1], argv[n])
  <2>1. f[n] = RedactWord(f[n - 1], argv[n])
    BY <1>0, <1>2
  <2> QED
    BY <1>0, <1>4, <2>1, ReadersRead
<1> HIDE DEF Reader
<1> QED
  BY <1>2, <1>3, <1>4, ReadThrough

LEMMA SanitizeReads ==
  ASSUME NEW words \in Seq(Word)
  PROVE  \E skip \in [0 .. Len(words) -> BOOLEAN] :
           Armed(words, skip) /\ SanitizeCause(words) = Display(TRUE, words, skip)
<1> DEFINE Reader(f) ==
             f = [n \in 0 .. Len(words) |->
                    IF n = 0 THEN NothingRead ELSE MaskBareWord(f[n - 1], MaskPairs(words)[n])]
<1>0. Len(words) \in Nat /\ \A n \in 1 .. Len(words) : words[n] \in Word
  OBVIOUS
<1>a. ASSUME NEW n \in 1 .. Len(words), NEW acc \in Reading
      PROVE  MaskBareWord(acc, MaskPairs(words)[n]) = Read(TRUE, acc, words[n])
  <2>1. MaskPairs(words)[n] = MaskValue(words[n])
    BY <1>0 DEF MaskPairs
  <2>2. words[n] \in Word
    BY <1>0
  <2> QED
    BY <2>1, <2>2, ReadersRead
<1>1. \E f : Reader(f)
  <2>1. PICK f \in [0 .. Len(words) -> Reading] :
          f[0] = NothingRead /\ \A n \in 1 .. Len(words) : f[n] = Read(TRUE, f[n - 1], words[n])
    BY ReadSteps
  <2>2. \A n \in 1 .. Len(words) : f[n] = MaskBareWord(f[n - 1], MaskPairs(words)[n])
    <3> TAKE n \in 1 .. Len(words)
    <3>1. f[n - 1] \in Reading
      BY <1>0
    <3> QED
      BY <1>a, <2>1, <3>1
  <2>3. Reader(f)
    BY <1>0, <2>1, <2>2
  <2> QED
    BY <2>3
<1>2. PICK f : Reader(f) /\ SanitizeCause(words) = f[Len(words)].out
  BY <1>1 DEF SanitizeCause
<1>3. f[0] = NothingRead
  BY <1>0, <1>2
<1>4. ASSUME NEW n \in 1 .. Len(words), f[n - 1] \in Reading
      PROVE  f[n] = Read(TRUE, f[n - 1], words[n])
  <2>1. f[n] = MaskBareWord(f[n - 1], MaskPairs(words)[n])
    BY <1>0, <1>2
  <2> QED
    BY <1>a, <1>4, <2>1
<1> HIDE DEF Reader
<1> QED
  BY <1>2, <1>3, <1>4, ReadThrough

(* What arms is decided by the words: two readings that start alike and    *)
(* see words that arm alike go alike.                                      *)
LEMMA ArmedAlike ==
  ASSUME NEW N \in Nat, NEW argv, NEW words, Len(argv) = N, Len(words) = N,
         NEW skip \in [0 .. N -> BOOLEAN], NEW other \in [0 .. N -> BOOLEAN],
         Armed(argv, skip), Armed(words, other),
         \A n \in 1 .. N : Arms(skip[n - 1], words[n]) = Arms(skip[n - 1], argv[n])
  PROVE  \A n \in 0 .. N : other[n] = skip[n]
<1> DEFINE T == {n \in 0 .. N : other[n] = skip[n]}
<1>0. /\ skip[0] = FALSE /\ other[0] = FALSE
      /\ \A n \in 1 .. N : /\ skip[n] = Arms(skip[n - 1], argv[n])
                          /\ other[n] = Arms(other[n - 1], words[n])
  BY DEF Armed
<1>1. 0 \in T
  BY <1>0
<1>2. \A n \in 1 .. N : n - 1 \in T => n \in T
  BY <1>0
<1>3. \A n \in 0 .. N : n \in T
  <2>1. T \in SUBSET (0 .. N)
    OBVIOUS
  <2> HIDE DEF T
  <2> QED
    BY <1>1, <1>2, <2>1, Positions
<1> QED
  BY <1>3

LEMMA ShownTwice ==
  ASSUME NEW skip \in BOOLEAN, NEW w \in Word
  PROVE  /\ Shown(FALSE, skip, Shown(FALSE, skip, w)) = Shown(FALSE, skip, w)
         /\ Arms(skip, Shown(FALSE, skip, w)) = Arms(skip, w)
<1>0. w.flag \in BOOLEAN /\ w.secret \in BOOLEAN /\ w.shape \in Shapes
  BY DEF Word
<1>1. CASE skip /\ ~w.flag
  BY <1>1 DEF Shown, Arms, Masked
<1>2. CASE ~(skip /\ ~w.flag) /\ (w.shape = "nested" \/ (w.shape = "valued" /\ w.secret))
  <2> DEFINE v == MaskedIn(w)
  <2>1. v.shape = "valued" /\ v.secret = w.secret /\ v.flag = w.flag
    BY DEF MaskedIn, Word
  <2>2. MaskedIn(v) = v
    BY DEF MaskedIn, Word
  <2>3. Shown(FALSE, skip, w) = v
    BY <1>2 DEF Shown, RedactValue
  <2> HIDE DEF v
  <2>4. Shown(FALSE, skip, v) = v
    BY <1>2, <2>1, <2>2 DEF Shown, RedactValue
  <2>5. Arms(skip, v) = Arms(skip, w)
    BY <1>2, <2>1 DEF Arms
  <2> QED
    BY <2>3, <2>4, <2>5
<1>3. CASE ~(skip /\ ~w.flag) /\ ~(w.shape = "nested" \/ (w.shape = "valued" /\ w.secret))
  BY <1>3 DEF Shown, RedactValue
<1> QED
  BY <1>1, <1>2, <1>3

(* The rule for text is the rule for arguments, but for padded words:      *)
(* sanitize_cause and redact_argv, written apart, show as many words of    *)
(* every command line and the same of each, unless it is a secret name     *)
(* with a '=' after its colon.  That word the text reader masks, and       *)
(* redact_argv masks it only as the value of a flag before it.             *)
THEOREM OneRule ==
  ASSUME NEW argv \in Seq(Word)
  PROVE  LET shown == RedactArgv(argv)
             text  == SanitizeCause(argv)
         IN  /\ DOMAIN shown = 1 .. Len(argv) /\ DOMAIN text = 1 .. Len(argv)
             /\ \A i \in 1 .. Len(argv) :
                  \/ text[i] = shown[i]
                  \/ /\ argv[i].shape = "padded" /\ argv[i].secret
                     /\ shown[i] = argv[i] /\ text[i] = MaskedIn(argv[i])
<1>1. PICK skip \in [0 .. Len(argv) -> BOOLEAN] :
        Armed(argv, skip) /\ RedactArgv(argv) = Display(FALSE, argv, skip)
  BY RedactReads
<1>2. PICK other \in [0 .. Len(argv) -> BOOLEAN] :
        Armed(argv, other) /\ SanitizeCause(argv) = Display(TRUE, argv, other)
  BY SanitizeReads
<1>3. Len(argv) \in Nat
  OBVIOUS
<1>4. \A n \in 0 .. Len(argv) : other[n] = skip[n]
  BY <1>1, <1>2, <1>3, ArmedAlike
<1>5. ASSUME NEW i \in 1 .. Len(argv)
      PROVE  /\ RedactArgv(argv)[i] = Shown(FALSE, skip[i - 1], argv[i])
             /\ SanitizeCause(argv)[i] = Shown(TRUE, skip[i - 1], argv[i])
  <2>1. other[i - 1] = skip[i - 1]
    BY <1>3, <1>4
  <2> QED
    BY <1>1, <1>2, <2>1 DEF Display
<1>6. ASSUME NEW pending, NEW w
      PROVE  \/ Shown(TRUE, pending, w) = Shown(FALSE, pending, w)
             \/ /\ w.shape = "padded" /\ w.secret
                /\ Shown(FALSE, pending, w) = w /\ Shown(TRUE, pending, w) = MaskedIn(w)
  BY DEF Shown, MaskValue, RedactValue
<1>7. DOMAIN RedactArgv(argv) = 1 .. Len(argv) /\ DOMAIN SanitizeCause(argv) = 1 .. Len(argv)
  BY <1>1, <1>2 DEF Display
<1> QED
  BY <1>5, <1>6, <1>7

(* Reading keeps the number of words and shows no secret of a command line  *)
(* that says which of its words hold one, but for padded words in an        *)
(* argument list; and redacting it again does nothing more.                 *)
LEMMA Displays ==
  ASSUME NEW text \in BOOLEAN, NEW argv \in Seq(Word),
         NEW skip \in [0 .. Len(argv) -> BOOLEAN], Armed(argv, skip)
  PROVE  LET out == Display(text, argv, skip)
         IN  /\ out \in Seq(Word) /\ Len(out) = Len(argv) /\ DOMAIN out = 1 .. Len(argv)
             /\ \A i \in 1 .. Len(argv) : out[i] = Shown(text, skip[i - 1], argv[i])
             /\ (\A i \in 1 .. Len(argv) : argv[i].holds = HoldsSecret(argv, i)) =>
                  \A i \in 1 .. Len(argv) : out[i].holds => ~text /\ out[i].shape = "padded"
<1> DEFINE N == Len(argv)
           out == Display(text, argv, skip)
<1>0. N \in Nat /\ \A n \in 1 .. N : argv[n] \in Word
  OBVIOUS
<1>2. \A i \in 1 .. N : i - 1 \in 0 .. N /\ skip[i - 1] \in BOOLEAN
  BY <1>0
<1>3. out \in Seq(Word) /\ Len(out) = N /\ DOMAIN out = 1 .. N
      /\ \A i \in 1 .. N : out[i] = Shown(text, skip[i - 1], argv[i])
  <2>1. \A i \in 1 .. N : Shown(text, skip[i - 1], argv[i]) \in Word
    BY <1>0, <1>2, ShownTyped
  <2>2. out \in [1 .. N -> Word] /\ \A i \in 1 .. N : out[i] = Shown(text, skip[i - 1], argv[i])
    BY <2>1 DEF Display
  <2> HIDE DEF out
  <2> QED
    BY <1>0, <2>2
<1>4. ASSUME \A i \in 1 .. N : argv[i].holds = HoldsSecret(argv, i), NEW i \in 1 .. N,
             Shown(text, skip[i - 1], argv[i]).holds
      PROVE  ~text /\ Shown(text, skip[i - 1], argv[i]).shape = "padded"
  <2>0. /\ argv[i].flag \in BOOLEAN /\ argv[i].secret \in BOOLEAN /\ argv[i].shape \in Shapes
        /\ argv[i] \in Word
    BY <1>0 DEF Word
  <2>1. ~(skip[i - 1] /\ ~argv[i].flag)
    BY <1>4 DEF Shown, Masked
  <2>2. Shown(text, skip[i - 1], argv[i]) = IF text THEN MaskValue(argv[i]) ELSE RedactValue(argv[i])
    BY <2>1 DEF Shown
  <2>3. ~MaskedIn(argv[i]).holds
    BY <2>0 DEF MaskedIn, Word
  <2>4. Shown(text, skip[i - 1], argv[i]) = argv[i] /\ argv[i].holds
    BY <1>4, <2>2, <2>3 DEF MaskValue, RedactValue
  <2>5. ASSUME i > 1, argv[i - 1].flag, argv[i - 1].secret, argv[i - 1].shape = "bare"
        PROVE  skip[i - 1]
    <3>1. i - 1 \in 1 .. N
      BY <1>0, <2>5
    <3> QED
      BY <2>5, <3>1 DEF Armed, Arms
  <2>6. \/ argv[i].shape = "nested"
        \/ argv[i].shape \in {"valued", "padded"} /\ argv[i].secret
    BY <1>4, <2>1, <2>4, <2>5 DEF HoldsSecret
  <2>7. ~(argv[i].shape = "nested" \/ (argv[i].shape = "valued" /\ argv[i].secret))
        /\ ~(text /\ argv[i].shape = "padded" /\ argv[i].secret)
    BY <2>2, <2>3, <2>4 DEF MaskValue, RedactValue
  <2> QED
    BY <2>4, <2>6, <2>7
<1> HIDE DEF out
<1>5. (\A i \in 1 .. N : argv[i].holds = HoldsSecret(argv, i)) =>
        \A i \in 1 .. N : out[i].holds => ~text /\ out[i].shape = "padded"
  BY <1>3, <1>4
<1> QED
  BY <1>3, <1>5 DEF out

LEMMA Redaction ==
  ASSUME NEW argv \in Seq(Word)
  PROVE  /\ RedactArgv(argv) \in Seq(Word) /\ Len(RedactArgv(argv)) = Len(argv)
         /\ (\A i \in 1 .. Len(argv) : argv[i].holds = HoldsSecret(argv, i)) =>
              HoldsOnlyPadded(RedactArgv(argv)) /\ HoldsNone(SanitizeCause(argv))
         /\ RedactArgv(RedactArgv(argv)) = RedactArgv(argv)
<1> DEFINE N == Len(argv)
<1>0. N \in Nat /\ \A n \in 1 .. N : argv[n] \in Word
  OBVIOUS
<1>1. PICK skip \in [0 .. N -> BOOLEAN] :
        Armed(argv, skip) /\ RedactArgv(argv) = Display(FALSE, argv, skip)
  BY RedactReads
<1>2. PICK masks \in [0 .. N -> BOOLEAN] :
        Armed(argv, masks) /\ SanitizeCause(argv) = Display(TRUE, argv, masks)
  BY SanitizeReads
<1> DEFINE out == RedactArgv(argv)
<1>3. /\ out \in Seq(Word) /\ Len(out) = N /\ DOMAIN out = 1 .. N
      /\ \A i \in 1 .. N : out[i] = Shown(FALSE, skip[i - 1], argv[i])
      /\ (\A i \in 1 .. N : argv[i].holds = HoldsSecret(argv, i)) =>
           \A i \in 1 .. N : out[i].holds => out[i].shape = "padded"
  <2> DEFINE shown == Display(FALSE, argv, skip)
  <2>1. /\ shown \in Seq(Word) /\ Len(shown) = N /\ DOMAIN shown = 1 .. N
        /\ \A i \in 1 .. N : shown[i] = Shown(FALSE, skip[i - 1], argv[i])
        /\ (\A i \in 1 .. N : argv[i].holds = HoldsSecret(argv, i)) =>
             \A i \in 1 .. N : shown[i].holds => ~FALSE /\ shown[i].shape = "padded"
    BY <1>1, Displays, Zenon
  <2>2. out = shown
    BY <1>1
  <2> HIDE DEF out, shown
  <2> QED
    BY <2>1, <2>2
<1>4. /\ DOMAIN SanitizeCause(argv) = 1 .. N
      /\ (\A i \in 1 .. N : argv[i].holds = HoldsSecret(argv, i)) =>
           \A i \in 1 .. N : ~SanitizeCause(argv)[i].holds
  <2> DEFINE shown == Display(TRUE, argv, masks)
  <2>1. /\ DOMAIN shown = 1 .. N
        /\ (\A i \in 1 .. N : argv[i].holds = HoldsSecret(argv, i)) =>
             \A i \in 1 .. N : shown[i].holds => ~TRUE /\ shown[i].shape = "padded"
    BY <1>2, Displays, Zenon
  <2>2. SanitizeCause(argv) = shown
    BY <1>2
  <2> HIDE DEF shown
  <2> QED
    BY <2>1, <2>2
<1>5. RedactArgv(out) = out
  <2> HIDE DEF out
  <2>1. PICK other \in [0 .. N -> BOOLEAN] :
          Armed(out, other) /\ RedactArgv(out) = Display(FALSE, out, other)
    BY <1>3, RedactReads
  <2>a. \A i \in 1 .. N : i - 1 \in 0 .. N /\ skip[i - 1] \in BOOLEAN
    BY <1>0
  <2>2. ASSUME NEW i \in 1 .. N
        PROVE  Arms(skip[i - 1], out[i]) = Arms(skip[i - 1], argv[i])
               /\ Shown(FALSE, skip[i - 1], out[i]) = out[i]
    <3>1. out[i] = Shown(FALSE, skip[i - 1], argv[i])
      BY <1>3
    <3> QED
      BY <1>0, <2>a, <3>1, ShownTwice
  <2>3. \A n \in 0 .. N : other[n] = skip[n]
    BY <1>0, <1>1, <1>3, <2>1, <2>2, ArmedAlike
  <2>4. \A i \in 1 .. N : Shown(FALSE, other[i - 1], out[i]) = out[i]
    BY <2>a, <2>2, <2>3
  <2>5. Display(FALSE, out, other) = [i \in 1 .. N |-> out[i]]
    BY <1>3, <2>4 DEF Display
  <2>6. out = [i \in 1 .. N |-> out[i]]
    BY <1>3
  <2> QED
    BY <2>1, <2>5, <2>6
<1>6. (\A i \in 1 .. N : argv[i].holds = HoldsSecret(argv, i)) =>
        HoldsOnlyPadded(out) /\ HoldsNone(SanitizeCause(argv))
  BY <1>3, <1>4 DEF HoldsOnlyPadded, HoldsNone
<1> QED
  BY <1>3, <1>5, <1>6

LEMMA IsSequence ==
  ASSUME NEW S, NEW N \in Nat, NEW f \in [1 .. N -> S]
  PROVE  f \in Seq(S) /\ Len(f) = N
OBVIOUS

-----------------------------------------------------------------------------
(* The size of an identity is a sum.                                       *)
Sums(sum, v) ==
  /\ sum \in [0 .. Len(v) -> Nat] /\ sum[0] = 0
  /\ \A n \in 1 .. Len(v) : sum[n] = sum[n - 1] + v[n]

LEMMA SizeSums ==
  ASSUME NEW v \in Seq(Nat)
  PROVE  \E sum : Sums(sum, v) /\ Size(v) = sum[Len(v)]
<1> DEFINE N == Len(v)
           Adds(f) == f = [n \in 0 .. Len(v) |-> IF n = 0 THEN 0 ELSE f[n - 1] + v[n]]
           step == [q \in Nat \X (1 .. N) |-> q[1] + v[q[2]]]
<1>1. N \in Nat /\ \A n \in 1 .. N : v[n] \in Nat
  OBVIOUS
<1>2. step \in [Nat \X (1 .. N) -> Nat]
  BY <1>1
<1>3. \A a \in Nat, n \in 1 .. N : step[<<a, n>>] = a + v[n]
  OBVIOUS
<1>4. \E f : Adds(f)
  <2> HIDE DEF step
  <2>1. PICK f : Runs(f, Nat, N, 0, step)
    BY <1>1, <1>2, Recursion
  <2>2. f \in [0 .. N -> Nat] /\ f[0] = 0 /\ \A n \in 1 .. N : f[n] = f[n - 1] + v[n]
    <3>1. f \in [0 .. N -> Nat] /\ f[0] = 0 /\ \A n \in 1 .. N : f[n] = step[<<f[n - 1], n>>]
      BY <2>1 DEF Runs
    <3>2. \A n \in 1 .. N : f[n - 1] \in Nat
      <4>1. \A n \in 1 .. N : n - 1 \in 0 .. N
        BY <1>1
      <4> QED
        BY <3>1, <4>1
    <3> QED
      BY <1>3, <3>1, <3>2
  <2>3. Adds(f)
    BY <1>1, <2>2
  <2> QED
    BY <2>3
<1>5. PICK f : Adds(f) /\ Size(v) = f[Len(v)]
  BY <1>4 DEF Size
<1>6. f[0] = 0 /\ \A n \in 1 .. N : f[n] = f[n - 1] + v[n]
  <2>1. \A n \in 0 .. N : f[n] = IF n = 0 THEN 0 ELSE f[n - 1] + v[n]
    BY <1>5
  <2>2. 0 \in 0 .. N /\ \A n \in 1 .. N : n \in 0 .. N /\ n # 0
    BY <1>1
  <2> QED
    BY <2>1, <2>2
<1>7. \A n \in 0 .. N : f[n] \in Nat
  <2> DEFINE T == {n \in 0 .. N : f[n] \in Nat}
  <2>1. 0 \in T /\ T \in SUBSET (0 .. N)
    BY <1>1, <1>6
  <2>2. ASSUME NEW n \in 1 .. N, n - 1 \in T PROVE n \in T
    <3>1. n \in 0 .. N /\ f[n - 1] \in Nat /\ v[n] \in Nat
      BY <1>1, <2>2
    <3> QED
      BY <1>6, <3>1
  <2> HIDE DEF T
  <2>3. \A n \in 0 .. N : n \in T
    BY <1>1, <2>1, <2>2, Positions
  <2> QED
    BY <2>3 DEF T
<1>8. f = [n \in 0 .. N |-> f[n]]
  BY <1>5
<1>9. f \in [0 .. N -> Nat]
  BY <1>7, <1>8
<1> QED
  BY <1>5, <1>6, <1>9 DEF Sums

LEMMA SizeBounded ==
  ASSUME NEW v \in Seq(Nat), NEW K \in Nat, \A i \in 1 .. Len(v) : v[i] <= K
  PROVE  Size(v) \in Nat /\ Size(v) <= Len(v) * K
<1> DEFINE N == Len(v)
<1>1. N \in Nat /\ \A n \in 1 .. N : v[n] \in Nat
  OBVIOUS
<1>2. PICK sum : Sums(sum, v) /\ Size(v) = sum[N]
  BY SizeSums
<1>3. /\ \A n \in 0 .. N : sum[n] \in Nat
      /\ sum[0] = 0 /\ \A n \in 1 .. N : sum[n] = sum[n - 1] + v[n]
  BY <1>2 DEF Sums
<1> DEFINE T == {n \in 0 .. N : sum[n] <= n * K}
<1>4. 0 \in T /\ T \in SUBSET (0 .. N)
  BY <1>1, <1>3
<1>5. ASSUME NEW n \in 1 .. N, n - 1 \in T PROVE n \in T
  <2>1. n \in Nat /\ n - 1 \in 0 .. N /\ sum[n - 1] \in Nat /\ v[n] \in Nat /\ v[n] <= K
    BY <1>1, <1>3
  <2>2. sum[n - 1] <= (n - 1) * K /\ sum[n] = sum[n - 1] + v[n]
    BY <1>3, <1>5
  <2>3. (n - 1) * K + K = n * K /\ (n - 1) * K \in Int /\ n * K \in Int
    BY <2>1
  <2>4. sum[n] <= n * K
    BY <2>1, <2>2, <2>3
  <2> QED
    BY <1>1, <2>4
<1> HIDE DEF T
<1>6. \A n \in 0 .. N : n \in T
  BY <1>1, <1>4, <1>5, Positions
<1>7. N \in 0 .. N
  BY <1>1
<1> QED
  BY <1>2, <1>3, <1>6, <1>7 DEF T

(* A sum that is d short of another stays so when a term is added to both. *)
LEMMA ShortBy ==
  ASSUME NEW a \in Nat, NEW b \in Nat, NEW x \in Nat, NEW y \in Nat, NEW d \in Nat,
         \/ a = b /\ x + d <= y
         \/ a + d <= b /\ x = y
  PROVE  (a + x) + d <= b + y
OBVIOUS

(* One of the strings that loses d characters takes d off the size.        *)
LEMMA SizeDrops ==
  ASSUME NEW v \in Seq(Nat), NEW u \in Seq(Nat), Len(u) = Len(v), NEW d \in Nat,
         NEW i \in 1 .. Len(v), u[i] + d <= v[i],
         \A j \in 1 .. Len(v) : j # i => u[j] = v[j]
  PROVE  Size(u) + d <= Size(v)
<1> DEFINE N == Len(v)
<1>1. N \in Nat /\ i \in Nat /\ i <= N /\ \A n \in 1 .. N : v[n] \in Nat /\ u[n] \in Nat
  OBVIOUS
<1>2. PICK sv : Sums(sv, v) /\ Size(v) = sv[N]
  BY SizeSums
<1>3. PICK su : Sums(su, u) /\ Size(u) = su[N]
  BY SizeSums
<1>4. /\ \A n \in 0 .. N : sv[n] \in Nat /\ su[n] \in Nat
      /\ sv[0] = 0 /\ su[0] = 0
      /\ \A n \in 1 .. N : sv[n] = sv[n - 1] + v[n] /\ su[n] = su[n - 1] + u[n]
  BY <1>2, <1>3 DEF Sums
<1> DEFINE T == {n \in 0 .. N : IF n < i THEN su[n] = sv[n] ELSE su[n] + d <= sv[n]}
<1>5. 0 \in T /\ T \in SUBSET (0 .. N)
  BY <1>1, <1>4
<1>6. ASSUME NEW n \in 1 .. N, n - 1 \in T PROVE n \in T
  <2>0. n - 1 \in 0 .. N /\ n \in 0 .. N
    BY <1>1
  <2>1. /\ sv[n - 1] \in Nat /\ su[n - 1] \in Nat /\ v[n] \in Nat /\ u[n] \in Nat
        /\ sv[n] = sv[n - 1] + v[n] /\ su[n] = su[n - 1] + u[n]
        /\ n # i => u[n] = v[n]
    BY <1>1, <1>4, <2>0
  <2>2. IF n - 1 < i THEN su[n - 1] = sv[n - 1] ELSE su[n - 1] + d <= sv[n - 1]
    BY <1>6
  <2>3. CASE n < i
    BY <1>1, <2>0, <2>1, <2>2, <2>3
  <2>4. CASE n = i
    <3>1. su[n - 1] = sv[n - 1] /\ u[n] + d <= v[n] /\ ~(n < i)
      BY <1>1, <2>2, <2>4
    <3>2. (su[n - 1] + u[n]) + d <= sv[n - 1] + v[n]
      BY <2>1, <3>1, ShortBy
    <3> QED
      BY <2>0, <2>1, <3>1, <3>2
  <2>5. CASE n > i
    <3>1. su[n - 1] + d <= sv[n - 1] /\ u[n] = v[n] /\ ~(n < i)
      BY <1>1, <2>1, <2>2, <2>5
    <3>2. (su[n - 1] + u[n]) + d <= sv[n - 1] + v[n]
      BY <2>1, <3>1, ShortBy
    <3> QED
      BY <2>0, <2>1, <3>1, <3>2
  <2> QED
    BY <1>1, <2>3, <2>4, <2>5
<1> HIDE DEF T
<1>7. \A n \in 0 .. N : n \in T
  BY <1>1, <1>5, <1>6, Positions
<1>8. N \in 0 .. N /\ ~(N < i)
  BY <1>1
<1> QED
  BY <1>2, <1>3, <1>7, <1>8 DEF T

-----------------------------------------------------------------------------
(* What is left to do on strings of these lengths, in characters: a string *)
(* that may stay longer than its mark takes a pass for every Gain          *)
(* characters and up to two more.                                          *)
Worth(n) == IF n <= 1 THEN 0 ELSE IF n <= 1 + Mark THEN Gain ELSE 2 * Gain + n

Effort(strings) == Size([i \in DOMAIN strings |-> Worth(strings[i])])

LEMMA CapNumbers ==
  /\ FieldCap \in Nat /\ TotalCap \in Nat /\ Cut \in Nat /\ Mark \in Nat /\ MaxPasses \in Nat
  /\ Cut > 0 /\ Mark > 0 /\ Gain \in Nat /\ Gain > 0
  /\ MaxStrings \in Nat
  /\ Mark < Cut => Gain = Cut - Mark
  /\ \A n \in Nat : Worth(n) \in Nat
BY IdentityAssumption, DecisionsAssumption DEF Gain, Worth

(* Of strings that are not all a character long, the longest is longer.    *)
LEMMA LongestFound ==
  ASSUME NEW s \in Seq(Nat), ~Incompressible(s)
  PROVE  Longest(s) \in 1 .. Len(s) /\ s[Longest(s)] >= 2
<1> DEFINE N == Len(s)
           Tops(n) == \E i \in 1 .. n : \A j \in 1 .. n : s[j] <= s[i]
           T == {n \in 0 .. N : n = 0 \/ Tops(n)}
<1>1. N \in Nat /\ \A n \in 1 .. N : s[n] \in Nat
  OBVIOUS
<1>2. PICK k \in 1 .. N : ~(s[k] <= 1)
  BY DEF Incompressible
<1>3. ASSUME NEW n \in 1 .. N, n - 1 \in T PROVE n \in T
  <2>1. CASE n = 1
    BY <1>1, <2>1
  <2>2. CASE n # 1
    <3>1. PICK i \in 1 .. n - 1 : \A j \in 1 .. n - 1 : s[j] <= s[i]
      BY <1>3, <2>2
    <3>2. CASE s[n] <= s[i]
      <4>1. i \in 1 .. n /\ \A j \in 1 .. n : s[j] <= s[i]
        BY <1>1, <3>1, <3>2
      <4> QED
        BY <4>1
    <3>3. CASE ~(s[n] <= s[i])
      <4>1. ASSUME NEW j \in 1 .. n PROVE s[j] <= s[n]
        <5>1. j \in 1 .. N /\ i \in 1 .. N /\ (j # n => j \in 1 .. n - 1)
          BY <1>1
        <5>2. s[n] \in Nat /\ s[i] \in Nat /\ s[j] \in Nat
          BY <1>1, <5>1
        <5> QED
          BY <3>1, <3>3, <5>1, <5>2
      <4>2. n \in 1 .. n
        BY <1>1
      <4> QED
        BY <1>1, <4>1, <4>2
    <3> QED
      BY <3>2, <3>3
  <2> QED
    BY <2>1, <2>2
<1>4. 0 \in T /\ T \in SUBSET (0 .. N)
  BY <1>1
<1>5. \A n \in 0 .. N : n \in T
  <2> HIDE DEF T
  <2> QED
    BY <1>1, <1>3, <1>4, Positions
<1>6. \E i \in DOMAIN s : \A j \in DOMAIN s : s[j] <= s[i]
  <2>1. N \in 0 .. N /\ N # 0 /\ DOMAIN s = 1 .. N
    BY <1>1, <1>2
  <2>2. Tops(N)
    BY <1>5, <2>1
  <2> QED
    BY <2>1, <2>2
<1>7. Longest(s) \in DOMAIN s /\ \A j \in DOMAIN s : s[j] <= s[Longest(s)]
  BY <1>6 DEF Longest
<1>8. Longest(s) \in 1 .. N /\ s[k] <= s[Longest(s)]
  BY <1>2, <1>7
<1> QED
  BY <1>1, <1>2, <1>8

(* A pass over strings that do not fit yet gets on by a Gain.              *)
LEMMA PassGains ==
  ASSUME NEW s \in Seq(Nat)
  PROVE  /\ Pass(s) \in Seq(Nat) /\ Len(Pass(s)) = Len(s)
         /\ ~Fits(s) => Effort(Pass(s)) + Gain <= Effort(s)
<1>1. CASE Fits(s)
  BY <1>1 DEF Pass
<1>2. CASE ~Fits(s)
  <2> DEFINE N == Len(s)
             i == Longest(s)
             n == s[i]
             shorter == Truncate(n, IF n > Cut + 1 THEN n - Cut ELSE 1)
             m == IF shorter < n THEN shorter ELSE 1
             r == [s EXCEPT ![i] = m]
  <2>1. i \in 1 .. N /\ n \in Nat /\ n >= 2 /\ N \in Nat /\ \A j \in 1 .. N : s[j] \in Nat
    BY <1>2, LongestFound DEF Fits
  <2>2. Pass(s) = r
    BY <1>2 DEF Pass, ShrinkLongest
  <2> HIDE DEF i, n
  <2>3. m \in Nat /\ Worth(m) + Gain <= Worth(n)
    <3>1. CASE n > Cut + 1
      <4>1. shorter = n - Cut + Mark
        BY <2>1, <3>1, CapNumbers DEF Truncate
      <4>2. CASE Mark < Cut
        BY <2>1, <3>1, <4>1, <4>2, CapNumbers DEF Worth
      <4>3. CASE ~(Mark < Cut)
        <5>1. m = 1
          BY <2>1, <3>1, <4>1, <4>3, CapNumbers
        <5> QED
          BY <2>1, <5>1, CapNumbers DEF Worth
      <4> QED
        BY <4>2, <4>3
    <3>2. CASE ~(n > Cut + 1)
      <4>1. shorter = 1 + Mark
        BY <2>1, <3>2, CapNumbers DEF Truncate
      <4> QED
        BY <2>1, <4>1, CapNumbers DEF Worth
    <3> QED
      BY <3>1, <3>2
  <2> HIDE DEF m
  <2>4. /\ r \in Seq(Nat) /\ Len(r) = N /\ r[i] = m
        /\ \A j \in 1 .. N : j # i => r[j] = s[j]
    BY <2>1, <2>3
  <2> DEFINE v == [j \in DOMAIN s |-> Worth(s[j])]
             u == [j \in DOMAIN r |-> Worth(r[j])]
  <2> HIDE DEF r
  <2>5. /\ DOMAIN s = 1 .. N /\ DOMAIN r = 1 .. N
        /\ \A j \in 1 .. N : r[j] \in Nat
    BY <2>4
  <2>6. v \in [1 .. N -> Nat] /\ u \in [1 .. N -> Nat]
    BY <2>1, <2>5, CapNumbers
  <2>7. v \in Seq(Nat) /\ u \in Seq(Nat) /\ Len(v) = N /\ Len(u) = N
    <3> HIDE DEF v, u
    <3> QED
      BY <2>1, <2>6, IsSequence
  <2>8. v[i] = Worth(n) /\ u[i] = Worth(m)
    BY <2>1, <2>4, <2>5 DEF n
  <2>9. \A j \in 1 .. N : j # i => u[j] = v[j]
    BY <2>4, <2>5
  <2>10. Effort(r) = Size(u) /\ Effort(s) = Size(v)
    BY DEF Effort
  <2> HIDE DEF u, v
  <2>11. Size(u) + Gain <= Size(v)
    BY <2>1, <2>3, <2>7, <2>8, <2>9, SizeDrops, CapNumbers
  <2> QED
    BY <2>2, <2>4, <2>10, <2>11
<1> QED
  BY <1>1, <1>2

(* No field is longer than its cap and the mark, so the passes are enough. *)
LEMMA FieldsCapped ==
  ASSUME NEW s \in Seq(Nat)
  PROVE  /\ CapFields(s) \in Seq(Nat) /\ Len(CapFields(s)) = Len(s)
         /\ Effort(CapFields(s)) \in Nat
         /\ Effort(CapFields(s)) <= Len(s) * (2 * Gain + FieldCap + Mark)
<1> DEFINE N == Len(s)
           K == 2 * Gain + FieldCap + Mark
           r == CapFields(s)
           v == [i \in DOMAIN r |-> Worth(r[i])]
<1>1. N \in Nat /\ DOMAIN s = 1 .. N /\ \A i \in 1 .. N : s[i] \in Nat
  OBVIOUS
<1>2. \A n \in Nat : Truncate(n, FieldCap) \in Nat /\ Truncate(n, FieldCap) <= FieldCap + Mark
  BY CapNumbers DEF Truncate
<1>3. /\ r \in [1 .. N -> Nat] /\ DOMAIN r = 1 .. N
      /\ \A i \in 1 .. N : r[i] \in Nat /\ r[i] <= FieldCap + Mark
  BY <1>1, <1>2 DEF CapFields
<1> HIDE DEF r
<1>4. r \in Seq(Nat) /\ Len(r) = N
  BY <1>1, <1>3, IsSequence
<1>5. K \in Nat /\ \A n \in Nat : n <= FieldCap + Mark => Worth(n) \in Nat /\ Worth(n) <= K
  BY CapNumbers DEF Worth
<1> HIDE DEF K
<1>6. v \in [1 .. N -> Nat] /\ \A i \in 1 .. N : v[i] <= K
  BY <1>3, <1>5
<1>7. Effort(r) = Size(v)
  BY DEF Effort
<1> HIDE DEF v
<1>8. v \in Seq(Nat) /\ Len(v) = N
  BY <1>1, <1>6, IsSequence
<1>9. Size(v) \in Nat /\ Size(v) <= N * K
  BY <1>5, <1>6, <1>8, SizeBounded
<1> QED
  BY <1>4, <1>7, <1>9 DEF r, K

LEMMA CapFits ==
  ASSUME NEW s \in Seq(Nat), Len(s) <= MaxStrings
  PROVE  Fits(CapIdentity(s))
<1> DEFINE Shrinks(f) == f = [n \in 0 .. MaxPasses |->
                                IF n = 0 THEN CapFields(s) ELSE Pass(f[n - 1])]
           step == [q \in Seq(Nat) \X (1 .. MaxPasses) |-> Pass(q[1])]
           E == Effort(CapFields(s))
<1>1. MaxPasses \in Nat /\ Gain \in Nat /\ Gain > 0
  BY CapNumbers
<1>2. step \in [Seq(Nat) \X (1 .. MaxPasses) -> Seq(Nat)]
  BY PassGains
<1>3. \A r \in Seq(Nat), n \in 1 .. MaxPasses : step[<<r, n>>] = Pass(r)
  OBVIOUS
<1>4. \E f : Shrinks(f)
  <2> HIDE DEF step
  <2>1. PICK f : Runs(f, Seq(Nat), MaxPasses, CapFields(s), step)
    BY <1>1, <1>2, Recursion, FieldsCapped
  <2>2. /\ f \in [0 .. MaxPasses -> Seq(Nat)] /\ f[0] = CapFields(s)
        /\ \A n \in 1 .. MaxPasses : f[n] = step[<<f[n - 1], n>>]
    BY <2>1 DEF Runs
  <2>3. \A n \in 1 .. MaxPasses : f[n - 1] \in Seq(Nat)
    <3>1. \A n \in 1 .. MaxPasses : n - 1 \in 0 .. MaxPasses
      BY <1>1
    <3> QED
      BY <2>2, <3>1
  <2>4. \A n \in 1 .. MaxPasses : f[n] = Pass(f[n - 1])
    BY <1>3, <2>2, <2>3
  <2>5. Shrinks(f)
    BY <1>1, <2>2, <2>4
  <2> QED
    BY <2>5
<1>5. PICK f : Shrinks(f) /\ CapIdentity(s) = f[MaxPasses]
  BY <1>4 DEF CapIdentity
<1>6. f[0] = CapFields(s) /\ \A n \in 1 .. MaxPasses : f[n] = Pass(f[n - 1])
  BY <1>1, <1>5
<1> HIDE DEF Shrinks
<1> DEFINE Done(n) == Fits(f[n]) \/ Effort(f[n]) + n * Gain <= E
           T == {n \in 0 .. MaxPasses :
                   f[n] \in Seq(Nat) /\ Len(f[n]) = Len(s) /\ Done(n)}
<1>7. E \in Nat /\ E <= Len(s) * (2 * Gain + FieldCap + Mark)
  BY FieldsCapped
<1>8. \A r \in Seq(Nat) : Effort(r) \in Nat
  <2> TAKE r \in Seq(Nat)
  <2> DEFINE v == [i \in DOMAIN r |-> Worth(r[i])]
  <2>1. Len(r) \in Nat /\ DOMAIN r = 1 .. Len(r) /\ \A i \in 1 .. Len(r) : r[i] \in Nat
    OBVIOUS
  <2>2. v \in [1 .. Len(r) -> Nat]
    BY <2>1, CapNumbers
  <2>3. Effort(r) = Size(v)
    BY DEF Effort
  <2> HIDE DEF v
  <2>4. v \in Seq(Nat) /\ Len(v) \in Nat
    BY <2>1, <2>2, IsSequence
  <2>5. PICK sum : Sums(sum, v) /\ Size(v) = sum[Len(v)]
    BY <2>4, SizeSums
  <2>6. Len(v) \in 0 .. Len(v)
    BY <2>4
  <2> QED
    BY <2>3, <2>5, <2>6 DEF Sums
<1>9. 0 \in T /\ T \in SUBSET (0 .. MaxPasses)
  <2>1. 0 * Gain = 0
    BY <1>1
  <2> QED
    BY <1>1, <1>6, <1>7, <2>1, FieldsCapped
<1>10. ASSUME NEW n \in 1 .. MaxPasses, n - 1 \in T PROVE n \in T
  <2>1. f[n - 1] \in Seq(Nat) /\ Len(f[n - 1]) = Len(s) /\ Done(n - 1) /\ f[n] = Pass(f[n - 1])
    BY <1>6, <1>10
  <2>2. f[n] \in Seq(Nat) /\ Len(f[n]) = Len(s)
    BY <2>1, PassGains
  <2>3. CASE Fits(f[n - 1])
    <3>1. f[n] = f[n - 1]
      BY <2>1, <2>3 DEF Pass
    <3>2. Done(n)
      BY <2>3, <3>1
    <3> HIDE DEF Done
    <3> QED
      BY <1>1, <2>2, <3>2
  <2>4. CASE ~Fits(f[n - 1])
    <3>1. Effort(f[n - 1]) + (n - 1) * Gain <= E
      BY <2>1, <2>4
    <3>2. Effort(f[n]) + Gain <= Effort(f[n - 1])
      BY <2>1, <2>4, PassGains
    <3>3. Effort(f[n]) \in Nat /\ Effort(f[n - 1]) \in Nat
      BY <1>8, <2>1, <2>2
    <3>4. (n - 1) * Gain + Gain = n * Gain /\ (n - 1) * Gain \in Int /\ n * Gain \in Int
      BY <1>1
    <3>5. Done(n)
      BY <1>1, <1>7, <3>1, <3>2, <3>3, <3>4
    <3> HIDE DEF Done
    <3> QED
      BY <1>1, <2>2, <3>5
  <2> QED
    BY <2>3, <2>4
<1>11. MaxPasses \in T
  <2> HIDE DEF T
  <2>1. \A n \in 0 .. MaxPasses : n \in T
    BY <1>1, <1>9, <1>10, Positions
  <2> QED
    BY <1>1, <2>1
<1>12. SUFFICES ASSUME ~Fits(f[MaxPasses]) PROVE FALSE
  BY <1>5
<1>13. Effort(f[MaxPasses]) \in Nat /\ Effort(f[MaxPasses]) + MaxPasses * Gain <= E
  BY <1>8, <1>11, <1>12
<1>14. Len(s) * (2 * Gain + FieldCap + Mark) <= MaxStrings * (2 * Gain + FieldCap + Mark)
  <2> DEFINE K == 2 * Gain + FieldCap + Mark
  <2>1. K \in Nat
    BY CapNumbers
  <2>2. Len(s) \in Nat /\ MaxStrings \in Nat
    BY CapNumbers
  <2> HIDE DEF K
  <2>3. Len(s) * K <= MaxStrings * K
    BY <2>1, <2>2
  <2> QED
    BY <2>3 DEF K
<1>15. Gain * MaxPasses = MaxPasses * Gain
  BY <1>1
<1>16. /\ MaxPasses * Gain \in Int
       /\ Len(s) * (2 * Gain + FieldCap + Mark) \in Int
       /\ MaxStrings * (2 * Gain + FieldCap + Mark) \in Int
  BY CapNumbers
<1> QED
  BY <1>7, <1>13, <1>14, <1>15, <1>16, EnoughPasses

-----------------------------------------------------------------------------
(* What an array keeps under its cap.                                      *)
LEMMA ArrayCapped ==
  ASSUME NEW argv \in Seq(Word), HoldsOnlyPadded(argv)
  PROVE  /\ HoldsOnlyPadded(CapArray(argv)) /\ Len(CapArray(argv)) <= ArrayCap + 1
         /\ CapArray(argv) = <<>> <=> argv = <<>>
<1>0. ArrayCap \in Nat /\ ArrayCap > 0
  BY IdentityAssumption
<1>1. CASE ~(Len(argv) > ArrayCap)
  BY <1>0, <1>1 DEF CapArray
<1>2. CASE Len(argv) > ArrayCap
  <2> DEFINE head == SubSeq(argv, 1, ArrayCap)
             out == Append(head, Masked)
  <2>1. Masked \in Word /\ ~Masked.holds
    BY DEF Masked, Word, Shapes
  <2>2. head \in Seq(Word) /\ Len(head) = ArrayCap /\ \A i \in 1 .. ArrayCap : head[i] = argv[i]
    BY <1>0, <1>2
  <2> HIDE DEF head
  <2>3. /\ out \in Seq(Word) /\ Len(out) = ArrayCap + 1 /\ out[ArrayCap + 1] = Masked
        /\ \A i \in 1 .. ArrayCap : out[i] = head[i]
    BY <1>0, <2>1, <2>2
  <2>4. CapArray(argv) = out
    BY <1>2 DEF CapArray, head
  <2> HIDE DEF out
  <2>5. \A i \in 1 .. ArrayCap : argv[i].holds => argv[i].shape = "padded"
    BY <1>0, <1>2 DEF HoldsOnlyPadded
  <2>6. DOMAIN out = 1 .. ArrayCap + 1
    BY <2>3
  <2>7. HoldsOnlyPadded(out)
    BY <1>0, <2>1, <2>2, <2>3, <2>5, <2>6 DEF HoldsOnlyPadded
  <2>8. out # <<>> /\ argv # <<>>
    BY <1>0, <1>2, <2>3
  <2> QED
    BY <1>0, <2>3, <2>4, <2>7, <2>8
<1> QED
  BY <1>1, <1>2

LEMMA CommandLinesTell ==
  ASSUME NEW n \in Nat, NEW argv \in CommandLines(n)
  PROVE  argv \in Seq(Word) /\ \A i \in 1 .. Len(argv) : argv[i].holds = HoldsSecret(argv, i)
<1>0. PICK words \in BoundedSeq(BlankWords, n) : argv = CommandLine(words)
  BY Zenon DEF CommandLines
<1>1. PICK m \in 0 .. n : words \in [1 .. m -> BlankWords]
  BY Zenon DEF BoundedSeq, SeqOf
<1>2. m \in Nat /\ DOMAIN words = 1 .. m /\ \A i \in 1 .. m : words[i] \in Word
  BY <1>1 DEF BlankWords
<1>3. \A i \in 1 .. m : HoldsSecret(words, i) \in BOOLEAN
  BY DEF HoldsSecret
<1>4. ASSUME NEW i \in 1 .. m
      PROVE  /\ argv[i] \in Word /\ argv[i].holds = HoldsSecret(words, i)
             /\ argv[i].flag = words[i].flag /\ argv[i].secret = words[i].secret
             /\ argv[i].shape = words[i].shape
  <2>1. argv[i] = [words[i] EXCEPT !.holds = HoldsSecret(words, i)]
    BY <1>0, <1>2 DEF CommandLine
  <2> QED
    BY <1>2, <1>3, <2>1 DEF Word
<1>5. argv \in [1 .. m -> Word]
  <2>1. argv = [i \in 1 .. m |-> argv[i]]
    BY <1>0, <1>2 DEF CommandLine
  <2> QED
    BY <1>4, <2>1
<1>6. argv \in Seq(Word) /\ Len(argv) = m
  BY <1>2, <1>5, IsSequence
<1>7. ASSUME NEW i \in 1 .. m PROVE HoldsSecret(argv, i) = HoldsSecret(words, i)
  <2>1. i > 1 => i - 1 \in 1 .. m
    BY <1>2
  <2> QED
    BY <1>4, <2>1 DEF HoldsSecret
<1> QED
  BY <1>4, <1>6, <1>7

LEMMA Displayed ==
  ASSUME NEW n \in Nat, NEW argv \in CommandLines(n)
  PROVE  /\ HoldsOnlyPadded(RedactArgv(argv)) /\ HoldsNone(SanitizeCause(argv))
         /\ RedactArgv(RedactArgv(argv)) = RedactArgv(argv)
         /\ HoldsOnlyPadded(CapArray(RedactArgv(argv)))
         /\ Len(CapArray(RedactArgv(argv))) <= ArrayCap + 1
         /\ CapArray(RedactArgv(argv)) = <<>> => argv = <<>>
<1>1. argv \in Seq(Word) /\ \A i \in 1 .. Len(argv) : argv[i].holds = HoldsSecret(argv, i)
  BY CommandLinesTell
<1>2. /\ RedactArgv(argv) \in Seq(Word) /\ Len(RedactArgv(argv)) = Len(argv)
      /\ HoldsOnlyPadded(RedactArgv(argv)) /\ HoldsNone(SanitizeCause(argv))
      /\ RedactArgv(RedactArgv(argv)) = RedactArgv(argv)
  BY <1>1, Redaction
<1>4. RedactArgv(argv) = <<>> => argv = <<>>
  BY <1>1, <1>2
<1> QED
  BY <1>2, <1>4, ArrayCapped

LEMMA SeedHides ==
  ASSUME NEW loopback \in BOOLEAN, NEW found \in Lookups
  PROVE  LET seed == AttachSeed(loopback, found)
         IN  /\ HoldsOnlyPadded(seed.argv) /\ seed.debuggee = "unavailable"
             /\ seed.argv = <<>> => {"ownerPid", "argv"} \cap seed.missing # {}
             /\ "ownerPid" \in seed.missing <=> seed.endpoint = "unavailable"
<1> DEFINE seed == AttachSeed(loopback, found)
<1>1. found.argv \in CommandLines(2) /\ found.pid \in BOOLEAN
  BY DEF Lookups
<1>2. /\ seed.debuggee = "unavailable"
      /\ seed.endpoint = IF loopback /\ found.pid THEN "os-corroborated" ELSE "unavailable"
      /\ seed.argv = IF loopback /\ found.pid THEN CapArray(RedactArgv(found.argv)) ELSE <<>>
      /\ seed.missing = IF ~loopback THEN {"ownerPid", "executable", "argv", "cwd"}
                        ELSE IF ~found.pid THEN {"ownerPid"}
                        ELSE {f \in {"executable", "cwd"} : ~found[f]} \cup
                             (IF found.argv = <<>> THEN {"argv"} ELSE {})
  BY Zenon DEF AttachSeed
<1>3. HoldsOnlyPadded(<<>>)
  BY DEF HoldsOnlyPadded
<1>4. /\ HoldsOnlyPadded(CapArray(RedactArgv(found.argv)))
      /\ CapArray(RedactArgv(found.argv)) = <<>> => found.argv = <<>>
  BY <1>1, Displayed
<1> HIDE DEF seed
<1>5. CASE loopback /\ found.pid
  <2>1. "ownerPid" \notin {f \in {"executable", "cwd"} : ~found[f]}
    OBVIOUS
  <2>2. seed.missing = {f \in {"executable", "cwd"} : ~found[f]} \cup
                             (IF found.argv = <<>> THEN {"argv"} ELSE {})
    BY <1>2, <1>5
  <2>3. seed.argv = CapArray(RedactArgv(found.argv)) /\ seed.endpoint = "os-corroborated"
    BY <1>2, <1>5
  <2>4. found.argv = <<>> => "argv" \in seed.missing
    BY <2>2
  <2>5. "ownerPid" \notin seed.missing
    BY <2>1, <2>2
  <2> QED
    BY <1>2, <1>4, <2>3, <2>4, <2>5 DEF seed
<1>6. CASE ~(loopback /\ found.pid)
  <2>1. seed.argv = <<>> /\ seed.endpoint = "unavailable" /\ "ownerPid" \in seed.missing
    BY <1>1, <1>2, <1>6
  <2> QED
    BY <1>2, <1>3, <2>1 DEF seed
<1> QED
  BY <1>5, <1>6

LEMMA EchoHides ==
  ASSUME NEW s \in Stored
  PROVE  /\ HoldsOnlyPadded(Echo(s).argv) /\ Len(Echo(s).argv) <= ArrayCap + 1
         /\ Echo(s).pid \/ Echo(s).argv # <<>> => RolesNamed(s)
<1>1. s.argv \in CommandLines(2) /\ s.pid \in BOOLEAN
  BY DEF Stored
<1>2. HoldsOnlyPadded(<<>>) /\ Len(<<>>) <= ArrayCap + 1
  BY IdentityAssumption DEF HoldsOnlyPadded
<1>3. CASE IsLayered(s)
  <2>1. Echo(s).argv = CapArray(RedactArgv(s.argv))
    BY <1>3 DEF Echo
  <2>2. RolesNamed(s)
    BY <1>3 DEF IsLayered, RolesNamed
  <2> QED
    BY <1>1, <2>1, <2>2, Displayed
<1>4. CASE ~IsLayered(s)
  BY <1>2, <1>4 DEF Echo
<1> QED
  BY <1>3, <1>4

(* No secret is in what is persisted, printed or echoed, for command lines  *)
(* of any length, except in padded words of argument lists; redacting twice changes nothing; no seed and no echo      *)
(* claims a fact that nobody observed; and the passes of the size cap end   *)
(* with an identity that fits.                                              *)
THEOREM SecretsStayHidden == Spec => []SecretsAreHidden
<1>1. Init => SecretsAreHidden
  BY NothingAsked DEF SecretsAreHidden
<1>2. SecretsAreHidden /\ [Next]_vars => SecretsAreHidden'
  <2> SUFFICES ASSUME SecretsAreHidden, [Next]_vars PROVE SecretsAreHidden'
    OBVIOUS
  <2>1. CASE UNCHANGED vars
    BY <2>1 DEF vars, SecretsAreHidden, HoldsNone, HoldsOnlyPadded, Fits, RolesNamed
  <2>2. ASSUME ShowCommandLine PROVE SecretsAreHidden'
    <3>1. PICK argv \in CommandLines(MaxWords) :
            /\ question' = [kind |-> "words", argv |-> argv]
            /\ answer' = [argv |-> RedactArgv(argv), cause |-> SanitizeCause(argv),
                          seed |-> LaunchSeed(argv)]
      BY <2>2 DEF ShowCommandLine, Ask
    <3>2. /\ question'.kind = "words" /\ answer'.argv = RedactArgv(argv)
          /\ answer'.cause = SanitizeCause(argv)
          /\ answer'.seed.argv = CapArray(RedactArgv(argv))
      BY <3>1 DEF LaunchSeed
    <3>3. MaxWords \in Nat
      BY DecisionsAssumption
    <3> QED
      BY <3>2, <3>3, Displayed DEF SecretsAreHidden
  <2>3. ASSUME CapStrings PROVE SecretsAreHidden'
    <3>1. PICK lengths \in BoundedSeq(0 .. MaxLength, MaxStrings) :
            /\ question' = [kind |-> "cap", lengths |-> lengths]
            /\ answer' = [lengths |-> CapIdentity(lengths)]
      BY <2>3 DEF CapStrings, Ask
    <3>2. question'.kind = "cap" /\ answer'.lengths = CapIdentity(lengths)
      BY <3>1
    <3>3. lengths \in Seq(Nat) /\ Len(lengths) <= MaxStrings
      <4>1. PICK m \in 0 .. MaxStrings : lengths \in [1 .. m -> 0 .. MaxLength]
        BY <3>1, Zenon DEF BoundedSeq, SeqOf
      <4>2. MaxLength \in Nat /\ MaxStrings \in Nat
        BY DecisionsAssumption
      <4>3. lengths \in [1 .. m -> Nat] /\ m \in Nat /\ m <= MaxStrings
        BY <4>1, <4>2
      <4> QED
        BY <4>3, IsSequence
    <3> QED
      BY <3>2, <3>3, CapFits DEF SecretsAreHidden
  <2>4. ASSUME SeedAttach PROVE SecretsAreHidden'
    <3>1. PICK loopback \in BOOLEAN, found \in Lookups :
            /\ question' = [kind |-> "seed", loopback |-> loopback, found |-> found]
            /\ answer' = AttachSeed(loopback, found)
      BY <2>4 DEF SeedAttach, Ask
    <3>2. question'.kind = "seed" /\ answer' = AttachSeed(loopback, found)
      BY <3>1
    <3> QED
      BY <3>2, SeedHides DEF SecretsAreHidden
  <2>5. ASSUME EchoStored PROVE SecretsAreHidden'
    <3>1. PICK s \in Stored :
            question' = [kind |-> "echo", stored |-> s] /\ answer' = Echo(s)
      BY <2>5 DEF EchoStored, Ask
    <3>2. question'.kind = "echo" /\ question'.stored = s /\ answer' = Echo(s)
      BY <3>1
    <3> QED
      BY <3>2, EchoHides DEF SecretsAreHidden
  <2> QED
    BY <2>1, <2>2, <2>3, <2>4, <2>5, Asked DEF SecretsAreHidden
<1> QED
  BY <1>1, <1>2, PTL DEF Spec
=============================================================================
