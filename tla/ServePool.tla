------------------------------ MODULE ServePool ------------------------------
(***************************************************************************)
(* The Python bridge's server: one accept loop, a bounded pool of handler  *)
(* threads, one request per connection, and the close that ends it all     *)
(* (pybridge.py, `serve` to `main`); with it the CLI's `close`, which asks *)
(* the bridge to end, probes the port, and deletes the directory.          *)
(*                                                                         *)
(* A handler may wait for a stop for up to an hour.  The accept loop       *)
(* pumps the debugger while idle, and reads a frame itself when the pool   *)
(* is full, so both may hold it up.  A section under Session._gate is one  *)
(* step; the teardown and the end of the process run side by side.         *)
(*                                                                         *)
(* A connection stays in the listen backlog until the loop accepts it, be  *)
(* its client long gone.  While the loop is held up, what a close leaves   *)
(* there (its request, its probe, each of its polls) fills the backlog,    *)
(* and the kernel lets the next connect time out.                          *)
(***************************************************************************)
EXTENDS Naturals, FiniteSets

CONSTANTS Call,   \* connections of commands, or of a close that is killed meanwhile
          Closer, \* `close` processes; each has a connection for its request
          Probe,  \* and one for its probe: Probe[c]
          Knock,  \* connections that polls of closes make, and drop
          NoOne,  \* no connection
          Limit,  \* MAX_ACTIVE_HANDLERS
          Backlog \* connections that the kernel keeps for accept (listen)

Conn == Call \cup Closer \cup {Probe[c] : c \in Closer} \cup Knock

ASSUME ServePoolAssumption ==
  /\ Limit \in Nat \ {0} /\ Backlog \in Nat \ {0}
  /\ NoOne \notin Conn
  /\ Call \cap Closer = {} /\ Knock \cap (Call \cup Closer) = {}
  /\ \A c, d \in Closer : /\ Probe[c] \notin Call \cup Closer \cup Knock
                          /\ Probe[c] = Probe[d] => c = d

VARIABLES
  cmd,       \* what each connection carries; "silent": no whole frame comes
  stage,     \* how far the bridge is with each connection
  reply,     \* what a client that awaits it has got back
  pooled,    \* connections admitted to the pool
  loop,      \* where the accept loop is
  active,    \* ServerState.active
  closing,   \* ServerState.closing
  winner,    \* the connection that claimed the close
  listening, \* the server socket is open
  alive,     \* the bridge process runs
  linked,    \* "up", "asked" to disconnect, or "down" with the adapter reaped
  dir,       \* the session's directory: "ours", "removed" by a close, "lost"
  cli        \* where each `close` process is

vars == <<cmd, stage, reply, pooled, loop, active, closing, winner, listening,
          alive, linked, dir, cli>>

server == <<loop, active, closing, winner, listening, alive, linked>>

Commands == {"wait", "silent", "close", "breaks"}
Stages   == {"none", "backlog", "reading", "decoded", "running", "acking",
             "cleaning", "reaping", "ending", "over"}
Replies  == {"none", "answer", "closed", "eof"}
\* "mistaken" reports an unconfirmed close, too: the poll that it took for
\* proof was turned away by a full backlog.
CliSteps == {"idle", "await", "acked", "probe", "verdict", "poll", "confirmed",
             "unconfirmed", "mistaken", "preserved"}

\* With the pool: the counter is the number of connections that handlers have
\* (ServerState); what the loop serves itself never counts, and nothing is
\* released twice or kept.
TypeOK ==
  /\ cmd \in [Conn -> Commands]
  /\ stage \in [Conn -> Stages]
  /\ reply \in [Conn -> Replies]
  /\ pooled \subseteq Conn
  /\ loop \in {"top", "idle", "accept", "overload", "lost", "reap", "return",
               "closed", "exited"}
  /\ active \in 0 .. Limit
  /\ closing \in BOOLEAN /\ listening \in BOOLEAN /\ alive \in BOOLEAN
  /\ winner \in Conn \cup {NoOne}
  /\ linked \in {"up", "asked", "down"}
  /\ dir \in {"ours", "removed", "lost"}
  /\ cli \in [Closer -> CliSteps]
  /\ alive => active = Cardinality({k \in pooled : stage[k] # "over"})

Init ==
  /\ cmd \in [Conn -> Commands]
  /\ \A k \in Conn : cmd[k] \in (IF k \in Call THEN {"wait", "silent", "close"}
                                ELSE IF k \in Closer THEN {"close"}
                                ELSE IF k \in Knock THEN {"silent"}
                                ELSE {"breaks"})
  /\ stage = [k \in Conn |-> "none"]
  /\ reply = [k \in Conn |-> "none"]
  /\ pooled = {}
  /\ loop = "top"
  /\ active = 0
  /\ closing = FALSE
  /\ winner = NoOne
  /\ listening = TRUE /\ alive = TRUE
  /\ linked = "up"
  /\ dir = "ours"
  /\ cli = [c \in Closer |-> "idle"]

\* a blocking command that has registered itself (Session._outstanding)
Outstanding == \E k \in Conn : stage[k] = "running" /\ cmd[k] = "wait"

\* Only what `close` reads of the answers matters; the answer to a client that
\* has given up is dropped.
Awaited(k) ==
  \E c \in Closer : (k = c /\ cli[c] = "await") \/ (k = Probe[c] /\ cli[c] = "verdict")
Answer(k, r) ==
  reply' = [reply EXCEPT ![k] = IF @ = "none" /\ Awaited(k) THEN r ELSE @]
\* the connections of K are reset
Reset(K) ==
  reply' = [k \in Conn |-> IF k \in K /\ reply[k] = "none" /\ Awaited(k) THEN "eof"
                           ELSE reply[k]]
MoveTo(k, s) == stage' = [stage EXCEPT ![k] = s]

-----------------------------------------------------------------------------
(* The accept loop (serve).                                                *)

\* The directory first: without it the loop ends the session itself.
LoopTop ==
  /\ loop = "top"
  /\ \/ /\ dir # "ours"
        /\ closing' = TRUE
        /\ loop' = "lost"
     \/ /\ dir = "ours"
        /\ loop' = IF closing THEN "return" ELSE IF Outstanding THEN "accept" ELSE "idle"
        /\ UNCHANGED closing
  /\ UNCHANGED <<cmd, stage, reply, pooled, active, winner, listening, alive,
                 linked, dir, cli>>

\* however long the pump takes: a child's handshake in it may take 70 s
IdlePump ==
  /\ loop = "idle"
  /\ loop' = "accept"
  /\ UNCHANGED <<cmd, stage, reply, pooled, active, closing, winner, listening,
                 alive, linked, dir, cli>>

\* accept() timed out, or the socket was closed under it
AcceptNone ==
  /\ loop = "accept"
  /\ \A k \in Conn : stage[k] # "backlog"
  /\ loop' = IF listening THEN "top" ELSE "return"
  /\ UNCHANGED <<cmd, stage, reply, pooled, active, closing, winner, listening,
                 alive, linked, dir, cli>>

\* Admit gives the connection to a new handler, or keeps it in the loop when
\* the pool is full.
Admit(k) ==
  IF active < Limit
  THEN /\ active' = active + 1
       /\ pooled' = pooled \cup {k}
       /\ loop' = "top"
       /\ MoveTo(k, "reading")
       /\ UNCHANGED reply
  ELSE /\ loop' = "overload"
       /\ MoveTo(k, "reading")
       /\ UNCHANGED <<active, pooled, reply>>

Accept(k) ==
  /\ loop = "accept" /\ stage[k] = "backlog"
  /\ \/ /\ closing
        /\ Answer(k, "eof")
        /\ MoveTo(k, "over")
        /\ loop' = "return"
        /\ UNCHANGED <<active, pooled>>
     \/ ~closing /\ Admit(k)
  /\ UNCHANGED <<cmd, closing, winner, listening, alive, linked, dir, cli>>

\* The owner-loss path: the loop's own cleanup, in the same two parts.
LostCleanup ==
  /\ \/ loop = "lost" /\ loop' = "reap" /\ linked' = IF linked = "down" THEN linked ELSE "asked"
     \/ loop = "reap" /\ loop' = "return" /\ linked' = "down"
  /\ UNCHANGED <<cmd, stage, reply, pooled, active, closing, winner, listening,
                 alive, dir, cli>>

\* main's `finally` closes the socket: what waits in the backlog is reset.
CloseServer ==
  /\ listening' = FALSE
  /\ stage' = [k \in Conn |-> IF stage[k] = "backlog" THEN "over" ELSE stage[k]]
  /\ Reset({k \in Conn : stage[k] = "backlog"})

Return ==
  /\ loop = "return"
  /\ CloseServer
  /\ loop' = "closed"
  /\ UNCHANGED <<cmd, pooled, active, closing, winner, alive, linked, dir, cli>>

\* The process ends with its daemon threads: every connection is closed.
Exit ==
  /\ loop = "closed"
  /\ loop' = "exited"
  /\ alive' = FALSE
  /\ stage' = [k \in Conn |-> IF stage[k] = "none" THEN "none" ELSE "over"]
  /\ Reset({k \in Conn : stage[k] # "none"})
  /\ UNCHANGED <<cmd, pooled, active, closing, winner, listening, linked, dir, cli>>

-----------------------------------------------------------------------------
(* A connection, served by its handler (_handle_one) or, out of the pool,  *)
(* by the loop (_handle_overload).                                         *)

\* read_frame: a silent client costs its five seconds.
Read(k) ==
  /\ alive /\ stage[k] = "reading" /\ k \in pooled
  /\ \/ /\ cmd[k] = "silent"
        /\ Answer(k, "answer")
        /\ MoveTo(k, "ending")
     \/ /\ cmd[k] # "silent"
        /\ MoveTo(k, "decoded")
        /\ UNCHANGED reply
  /\ UNCHANGED <<server, cmd, pooled, dir, cli>>

ReadOverloadHangsUp(k) ==
  /\ alive /\ stage[k] = "reading" /\ k \notin pooled
  /\ \/ cmd[k] = "close" /\ MoveTo(k, "decoded") /\ UNCHANGED reply
     \/ cmd[k] # "close" /\ Answer(k, "eof") /\ MoveTo(k, "ending")
  /\ UNCHANGED <<server, cmd, pooled, dir, cli>>

ReadOverloadRefusesAll(k) ==
  /\ alive /\ stage[k] = "reading" /\ k \notin pooled
  /\ Answer(k, "answer")
  /\ MoveTo(k, "ending")
  /\ UNCHANGED <<server, cmd, pooled, dir, cli>>

ReadOverload(k) ==
  /\ alive /\ stage[k] = "reading" /\ k \notin pooled
  /\ \/ cmd[k] = "silent" /\ Answer(k, "eof") /\ MoveTo(k, "ending")
     \/ cmd[k] = "close" /\ MoveTo(k, "decoded") /\ UNCHANGED reply
     \/ /\ cmd[k] \notin {"silent", "close"}
        /\ Answer(k, "answer")
        /\ MoveTo(k, "ending")
  /\ UNCHANGED <<server, cmd, pooled, dir, cli>>

DispatchUngated(k) ==
  /\ alive /\ stage[k] = "decoded" /\ cmd[k] # "close"
  /\ MoveTo(k, "running")
  /\ UNCHANGED <<server, reply, cmd, pooled, dir, cli>>

\* dispatch: refused once the session is closing, a close never
Dispatch(k) ==
  /\ alive /\ stage[k] = "decoded" /\ cmd[k] # "close"
  /\ \/ closing /\ Answer(k, "answer") /\ MoveTo(k, "ending")
     \/ ~closing /\ MoveTo(k, "running") /\ UNCHANGED reply
  /\ UNCHANGED <<server, cmd, pooled, dir, cli>>

\* a blocking command ends with a stop, its timeout, or the closed socket
Finish(k) ==
  /\ alive /\ stage[k] = "running"
  /\ Answer(k, "answer")
  /\ MoveTo(k, "ending")
  /\ UNCHANGED <<server, cmd, pooled, dir, cli>>

\* _close_from_conn: the first claims, all are acknowledged
Claim(k) ==
  /\ alive /\ stage[k] = "decoded" /\ cmd[k] = "close"
  /\ winner' = IF closing THEN winner ELSE k
  /\ closing' = TRUE
  /\ MoveTo(k, "acking")
  /\ UNCHANGED <<cmd, reply, pooled, loop, active, listening, alive, linked, dir, cli>>

Acknowledge(k) ==
  /\ alive /\ stage[k] = "acking"
  /\ Answer(k, "closed")
  /\ MoveTo(k, IF winner = k THEN "cleaning" ELSE "ending")
  /\ UNCHANGED <<server, cmd, pooled, dir, cli>>

\* cleanup: the disconnect request, for up to 5 s, then the adapter is reaped
Disconnect(k) ==
  /\ alive /\ stage[k] = "cleaning"
  /\ linked' = IF linked = "down" THEN linked ELSE "asked"
  /\ MoveTo(k, "reaping")
  /\ UNCHANGED <<cmd, reply, pooled, loop, active, closing, winner, listening,
                 alive, dir, cli>>

Reap(k) ==
  /\ alive /\ stage[k] = "reaping"
  /\ linked' = "down"
  /\ listening' = FALSE
  /\ stage' = [j \in Conn |-> IF j = k THEN "ending"
                              ELSE IF stage[j] = "backlog" THEN "over" ELSE stage[j]]
  /\ Reset({j \in Conn : stage[j] = "backlog"})
  /\ UNCHANGED <<cmd, pooled, loop, active, closing, winner, alive, dir, cli>>

\* the handler's `finally`; the loop just goes round
ReleaseByAll(k) ==
  /\ alive /\ stage[k] = "ending"
  /\ MoveTo(k, "over")
  /\ active' = IF active > 0 THEN active - 1 ELSE 0
  /\ pooled' = pooled \ {k}
  /\ loop' = IF k \in pooled THEN loop ELSE "top"
  /\ UNCHANGED <<cmd, reply, closing, winner, listening, alive, linked, dir, cli>>

Release(k) ==
  /\ alive /\ stage[k] = "ending"
  /\ MoveTo(k, "over")
  /\ \/ k \in pooled /\ active' = active - 1 /\ pooled' = pooled \ {k} /\ UNCHANGED loop
     \/ k \notin pooled /\ loop' = "top" /\ UNCHANGED <<active, pooled>>
  /\ UNCHANGED <<cmd, reply, closing, winner, listening, alive, linked, dir, cli>>

-----------------------------------------------------------------------------
(* The clients.                                                            *)

Full == Cardinality({k \in Conn : stage[k] = "backlog"}) >= Backlog

\* Refused when nothing listens; given up, without a verdict, when the backlog
\* stays full for as long as the client tries.
Connect(k) ==
  \/ ~listening /\ MoveTo(k, "over") /\ reply' = [reply EXCEPT ![k] = "eof"]
  \/ listening /\ Full /\ MoveTo(k, "over") /\ UNCHANGED reply
  \/ listening /\ ~Full /\ MoveTo(k, "backlog") /\ UNCHANGED reply

CallConnects(k) ==
  /\ k \in Call /\ stage[k] = "none" /\ listening /\ ~Full
  /\ MoveTo(k, "backlog")
  /\ UNCHANGED <<server, cmd, reply, pooled, dir, cli>>

CloseRequest(c) ==
  /\ cli[c] = "idle" /\ dir = "ours"
  /\ Connect(c)
  /\ cli' = [cli EXCEPT ![c] = "await"]
  /\ UNCHANGED <<server, cmd, pooled, dir>>

\* `closed`, or anything else, or nothing within 65 s
CloseAnswered(c) ==
  /\ cli[c] = "await"
  /\ cli' = [cli EXCEPT ![c] = IF reply[c] = "closed" THEN "acked" ELSE "probe"]
  /\ reply' = [reply EXCEPT ![c] = "none"]
  /\ UNCHANGED <<server, cmd, stage, pooled, dir>>

ProbeRequest(c) ==
  /\ cli[c] = "probe"
  /\ Connect(Probe[c])
  /\ cli' = [cli EXCEPT ![c] = "verdict"]
  /\ UNCHANGED <<server, cmd, pooled, dir>>

\* A closed connection is proof that no bridge serves there; a timeout and
\* any of the bridge's own answers lead to the poll.
ProbeAnswered(c) ==
  /\ cli[c] = "verdict"
  /\ \/ /\ reply[Probe[c]] = "eof"
        /\ cli' = [cli EXCEPT ![c] = "unconfirmed"]
        /\ dir' = IF dir = "ours" THEN "removed" ELSE dir
     \/ /\ reply[Probe[c]] # "eof"
        /\ cli' = [cli EXCEPT ![c] = "poll"]
        /\ UNCHANGED dir
  /\ reply' = [reply EXCEPT ![Probe[c]] = "none"]
  /\ UNCHANGED <<server, cmd, stage, pooled>>

\* For 15 s the close asks by connecting, every 200 ms, whether the port still
\* listens; what it opens it drops, for the bridge to find.
PollConnects(c) ==
  /\ cli[c] \in {"acked", "poll"} /\ listening /\ ~Full
  /\ \E k \in Knock : stage[k] = "none" /\ MoveTo(k, "backlog")
  /\ UNCHANGED <<server, cmd, reply, pooled, dir, cli>>

\* Any failure to connect within 200 ms is taken for the bridge's death.
PollFails(c) ==
  /\ cli[c] \in {"acked", "poll"} /\ (~listening \/ Full)
  /\ cli' = [cli EXCEPT ![c] = IF @ = "acked" THEN "confirmed"
                               ELSE IF listening THEN "mistaken" ELSE "unconfirmed"]
  /\ dir' = IF dir = "ours" THEN "removed" ELSE dir
  /\ UNCHANGED <<server, cmd, stage, reply, pooled>>

\* the deadline, and the directory stays
PollEnds(c) ==
  /\ cli[c] \in {"acked", "poll"}
  /\ cli' = [cli EXCEPT ![c] = "preserved"]
  /\ UNCHANGED <<server, cmd, stage, reply, pooled, dir>>

\* somebody else removes the directory, or a start takes the name
Lose ==
  /\ dir = "ours"
  /\ dir' = "lost"
  /\ UNCHANGED <<server, cmd, stage, reply, pooled, cli>>

-----------------------------------------------------------------------------
Serving(k) ==
  \/ Read(k) \/ ReadOverload(k) \/ Dispatch(k) \/ Claim(k) \/ Acknowledge(k)
  \/ Disconnect(k) \/ Reap(k) \/ Release(k)

Looping ==
  \/ LoopTop \/ IdlePump \/ AcceptNone \/ LostCleanup \/ Return \/ Exit
  \/ \E k \in Conn : Accept(k)

Closing(c) ==
  \/ CloseRequest(c) \/ CloseAnswered(c) \/ ProbeRequest(c) \/ ProbeAnswered(c)
  \/ PollConnects(c) \/ PollFails(c) \/ PollEnds(c)

Next ==
  \/ Looping
  \/ \E k \in Conn : Serving(k) \/ Finish(k) \/ CallConnects(k)
  \/ \E c \in Closer : Closing(c)
  \/ Lose

Spec == Init /\ [][Next]_vars

\* Threads are scheduled and reads have deadlines.  Nothing is assumed of
\* blocking commands: a `wait` may never end.
FairSpec ==
  /\ Spec
  /\ WF_vars(Looping)
  /\ \A k \in Conn : WF_vars(Serving(k))

-----------------------------------------------------------------------------
(* Properties.                                                             *)

\* `close` removes the directory of a bridge only when that bridge is on its
\* way out or has stopped listening (close_in), or when a full backlog turned a
\* poll of an unacknowledged close away: a full pool, a slow loop or a silent
\* rival alone never make it take a live bridge for a stranger.  What it
\* reports as a confirmed close is one, whatever the backlog.
RemovalFollowsClosing ==
  /\ dir = "removed" => closing \/ ~listening \/ \E c \in Closer : cli[c] = "mistaken"
  /\ \A c \in Closer : cli[c] = "confirmed" => closing

\* The same without the exception, as close_status.rs:212-217 has it ("a valid
\* session is never deleted on uncertainty").  TLC refutes it.
LiveBridgesKeepTheirDirectory == dir = "removed" => closing \/ ~listening

\* The bridge is a service as Service promises: nothing begins after the
\* close, one close runs the teardown, a closing bridge stops.
Promise == INSTANCE Service WITH
  Request <- Conn,
  phase   <- IF ~alive THEN "stopped" ELSE IF closing THEN "closing" ELSE "serving",
  running <- {k \in Conn : stage[k] = "running"}
ServesAsPromised == Promise!ServiceSpec

\* A close that reached the port ends the bridge although every handler waits
\* for a stop that never comes, whoever holds the loop ("close can never be
\* starved by admitted handlers"); and a bridge whose directory is gone, be it
\* by a mistaken close, is not left behind: it ends by itself.
ClosesAreServed ==
  /\ \A c \in Closer : (stage[c] = "backlog") ~> ~alive
  /\ (dir # "ours") ~> ~alive

\* "exactly one winner runs the teardown (launch kills its tree, attach
\* detaches)": what the process owes the program it debugs is done when it
\* ends.
TeardownCompletes == ~alive => linked = "down"
=============================================================================
