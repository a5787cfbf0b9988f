----------------------------- MODULE StartReport -----------------------------
(***************************************************************************)
(* What a failed start tells its user (spawn_lifecycle.rs, attach.rs,      *)
(* identity.rs): the bridge may write error.json with the phase it failed  *)
(* in, publish session.json, or just exit; the CLI looks for each in turn, *)
(* and reports the bridge's message or a diagnosis from whether something  *)
(* listened at the endpoint before and after.                              *)
(*                                                                         *)
(* Time is the CLI's looks: look 3i+1 is for error.json, 3i+2 for          *)
(* session.json, 3i+3 for the exit.  A schedule says before which look     *)
(* each event happens, Never being past the last.                          *)
(***************************************************************************)
EXTENDS Integers, FiniteSets, FiniteSetsExt

CONSTANTS LastLook, \* the deadline
          SettleFor \* looks that settle_for_bridge_error waits (2 s)

ASSUME StartReportAssumption == LastLook \in Nat \ {0} /\ SettleFor \in Nat

Never == LastLook + SettleFor + 1

-----------------------------------------------------------------------------
(* The listener, as /proc shows it.                                        *)

\* A table is unreadable, or shows a loopback listener at the port, or none.
Tables == {"unreadable", "listening", "silent"}

\* `v4` and `v6` are the tables; `visible`: the owner's descriptors can be read
Views == [local : BOOLEAN, v4 : Tables, v6 : Tables, visible : BOOLEAN]

\* tcp_listen_inode_in: an unreadable table is passed over
ListenInode(v) == "listening" \in {v.v4, v.v6}

\* port_lookup, with pid_holding_socket
PortLookup(v) == ListenInode(v) /\ v.visible

ListenerSourceReadable(v) == {v.v4, v.v6} # {"unreadable"}

\* listener_present
ListenerPresent(v) ==
  IF ~v.local \/ ~ListenerSourceReadable(v) THEN "unknown"
  ELSE IF PortLookup(v) THEN "yes" ELSE "no"

\* attach_diagnosis
Diagnosis(pre, post) ==
  IF pre = "yes" /\ post = "no" THEN [code |-> "endpoint-closed-during-attach", sure |-> "medium"]
  ELSE IF pre \in {"yes", "no"} /\ post = "yes"
  THEN [code |-> "endpoint-rejected", sure |-> "medium"]
  ELSE IF pre = "no" /\ post = "no" THEN [code |-> "endpoint-not-listening", sure |-> "high"]
  ELSE [code |-> "endpoint-unreachable", sure |-> "low"]

Diagnose(before, after) == Diagnosis(ListenerPresent(before), ListenerPresent(after))

-----------------------------------------------------------------------------
(* The failure.                                                            *)

Phases == {"transport", "config", "runtime"}

\* error.json: whether it has an error text, the schema's version, a phase
ErrorFiles == [text : BOOLEAN, v2 : BOOLEAN, phase : Phases \cup {"none"}]

\* read_bridge_error: without a text it is no more than a failure; with one, it
\* must be well formed
ReadBridgeError(f) ==
  IF ~f.text THEN "unphased"
  ELSE IF f.v2 /\ f.phase \in Phases THEN f.phase ELSE "corrupt"

\* route_setup_failure after the look for corrupt files: config and runtime
\* failures keep the bridge's words, the rest is diagnosed when there is an
\* endpoint
RouteFailureByText(endpoint, phase) ==
  IF phase = "corrupt" THEN "internal"
  ELSE IF ~endpoint \/ phase = "config" THEN "verbatim" ELSE "diagnosed"

RouteFailure(endpoint, phase) ==
  IF phase = "corrupt" THEN "internal"
  ELSE IF ~endpoint \/ phase \in {"config", "runtime"} THEN "verbatim" ELSE "diagnosed"

\* A schedule: when error.json, session.json and the exit come; whether the
\* first request is answered; whether only logpoints are armed and some logged.
Schedules == [error : 1 .. Never, session : 1 .. Never, exit : 1 .. Never,
              answered : BOOLEAN, logsSuffice : BOOLEAN, file : ErrorFiles]

\* The bridge writes before it exits; one that answers has not failed.
Possible(s) ==
  /\ s.error < Never => s.error <= s.exit
  /\ s.session < Never => s.session <= s.exit
  /\ s.answered => s.error = Never

Decides(s, k) ==
  CASE k % 3 = 1 -> s.error <= k
    [] k % 3 = 2 -> s.session <= k
    [] OTHER     -> s.exit <= k

DecisiveLooks(s) == {k \in 1 .. LastLook : Decides(s, k)}

\* The wait loop of spawn_in, to the report it ends with.
Report(endpoint, s) ==
  IF DecisiveLooks(s) = {} THEN "timeout"
  ELSE LET k == Min(DecisiveLooks(s))
       IN  IF k % 3 = 1 THEN RouteFailure(endpoint, ReadBridgeError(s.file))
           ELSE IF k % 3 = 0 THEN RouteFailure(endpoint, "unphased")
           ELSE IF s.answered THEN "started"
           ELSE IF s.error <= k + SettleFor
                THEN RouteFailure(endpoint, ReadBridgeError(s.file))
           ELSE IF s.logsSuffice THEN "logs"
           ELSE RouteFailure(endpoint, "unphased")

\* The crack of the wait loop: error.json and the exit both come after the look
\* for the file and before the look for the exit.
FellBetween(s) ==
  \E k \in DecisiveLooks(s) : k % 3 = 0 /\ s.error \in {k - 1, k} /\ k = Min(DecisiveLooks(s))

\* error.json came too late for the settle
TooLate(s) ==
  \E k \in DecisiveLooks(s) :
    k % 3 = 2 /\ k = Min(DecisiveLooks(s)) /\ s.error > k + SettleFor
=============================================================================
