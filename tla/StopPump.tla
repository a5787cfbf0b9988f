------------------------------- MODULE StopPump -------------------------------
(***************************************************************************)
(* How the Python bridge learns of stops and gives them to the requests    *)
(* that wait for them (pybridge.py, the stop/wait/capture machine).        *)
(*                                                                         *)
(* The debug adapter halts targets and reports it on one connection per    *)
(* target.  Every waiting handler, and the accept loop between requests,   *)
(* pumps all connections: a message is popped under the connection's lock  *)
(* and dispatched later under Session._gate, so a stop may be consumed by  *)
(* anybody.  A park is published by a shared clock (_stop_seq, _park_seq), *)
(* from which the waiter that wants it learns of it.  After a resume, stops *)
(* are held as suspects until the adapter's `continued` event.             *)
(*                                                                         *)
(* A section under _gate, with the adapter requests made in it, is one     *)
(* step.  A park stops all threads of a target; which of them reports it   *)
(* is abstracted.                                                          *)
(***************************************************************************)
EXTENDS Naturals, Sequences, FiniteSets

CONSTANTS Cli,      \* requests that resume, wait or capture, one per handler
          Child,    \* child targets, attached
          Idle,     \* the accept loop, which pumps between requests
          NoOne,    \* a free slot, no target
          MaxHalts, \* how often each target halts
          MaxLoad   \* children that live and requests that come, together

Main   == "main"
Target == Child \cup {Main}
Pumper == Cli \cup {Idle}

ASSUME StopPumpAssumption ==
  /\ Idle \notin Cli /\ NoOne \notin Cli
  /\ Main \notin Child /\ NoOne \notin Target
  /\ MaxHalts \in Nat /\ MaxLoad \in Nat

Stopped(n) == <<"stopped", n>>
Continued  == <<"continued", 0>>
Exited     == <<"exited", 0>>
Event      == {Stopped(n) : n \in 0 .. MaxHalts} \cup {Continued, Exited}
IsStop(m)  == m[1] = "stopped"
Nothing    == <<>>

VARIABLES
  alive,     \* targets that have not exited
  halted,    \* targets whose threads the adapter holds
  halts,     \* number of the last halt of each target
  echoed,    \* targets whose second thread has reported the halt too
  wire,      \* events on each connection, not read yet
  stash,     \* events that a request read while it awaited its response
  suspended, \* targets the bridge takes for parked
  awaiting,  \* targets resumed, whose `continued` has not come
  suspects,  \* stops held meanwhile
  gone,      \* targets the bridge knows to have exited
  seq,       \* the park clock
  parkSeq,   \* its value at the last park of each target
  lastPark,  \* the target of the last park
  outstanding, \* the request that holds each target's slot
  pc,        \* next section of each handler and of the accept loop
  req,       \* the requests
  epoch,     \* the park clock at the start of each wait
  hand,      \* the message popped and not yet dispatched
  got,       \* the park each handler has seen last
  result,    \* the answers
  holes      \* history: which cracks have opened

told    == <<halts, echoed>>
adapter == <<alive, halted, told, wire>>
bridge  == <<stash, suspended, awaiting, suspects, gone>>
clock   == <<seq, parkSeq, lastPark>>
asked   == <<req, epoch>>
vars == <<adapter, bridge, clock, outstanding, pc, asked, hand, got, result, holes>>

Goto(p, label) == pc' = [pc EXCEPT ![p] = label]

(* The section's end for a request that fails; `finally` frees the slot.   *)
Fail(c) == Goto(c, "release") /\ result' = [result EXCEPT ![c] = "error"]
Succeed(c) == Goto(c, "release") /\ result' = [result EXCEPT ![c] = "ok"]

Tgt(c)    == req[c].target
Op(c)     == req[c].op
Resuming  == {"continue", "step"}
Wanted(c) == IF req[c].explicit THEN {Tgt(c)} ELSE Target

(* Main stays a known target after its exit; a child leaves the roster.    *)
Known(t) == t = Main \/ t \notin gone

NoReq == [op |-> "none", target |-> Main, explicit |-> FALSE]
Request == [op : Resuming \cup {"wait", "capture"}, target : Target, explicit : BOOLEAN]

(* A session between requests: all its targets run, or one is parked.      *)
Init ==
  /\ gone \in SUBSET Child
  /\ alive = Target \ gone
  /\ halted \in {{}} \cup {{t} : t \in alive}
  /\ halts = [t \in Target |-> 0]
  /\ echoed = {}
  /\ wire = [t \in Target |-> <<>>]
  /\ stash = [t \in Target |-> <<>>]
  /\ suspended = halted
  /\ awaiting = {}
  /\ suspects = [t \in Target |-> {}]
  /\ seq = Cardinality(halted)
  /\ parkSeq = [t \in Target |-> IF t \in halted THEN 1 ELSE 0]
  /\ lastPark \in IF halted = {} THEN {Main} ELSE halted
  /\ outstanding = [t \in Target |-> NoOne]
  /\ \E asking \in SUBSET Cli :
       /\ Cardinality(asking) + Cardinality(alive \ {Main}) <= MaxLoad
       /\ pc = [p \in Pumper |-> IF p \in asking THEN "idle" ELSE
                                 IF p = Idle THEN "off" ELSE "done"]
  /\ req = [c \in Cli |-> NoReq]
  /\ epoch = [c \in Cli |-> 0]
  /\ hand = [p \in Pumper |-> Nothing]
  /\ got = [c \in Cli |-> NoOne]
  /\ result = [c \in Cli |-> "none"]
  /\ holes = {}

-----------------------------------------------------------------------------
(* The adapter and the debuggee.                                           *)
Send(t, m) == wire' = [wire EXCEPT ![t] = Append(@, m)]

AdapterStep == UNCHANGED <<bridge, clock, outstanding, pc, asked, hand, got, result, holes>>

(* A breakpoint is hit, a step ends.                                       *)
Halt(t) ==
  /\ t \in alive \ halted
  /\ halts[t] < MaxHalts
  /\ halted' = halted \cup {t}
  /\ halts' = [halts EXCEPT ![t] = @ + 1]
  /\ echoed' = echoed \ {t}
  /\ Send(t, Stopped(halts[t] + 1))
  /\ UNCHANGED alive
  /\ AdapterStep

(* A second thread of a halted target reports the same halt.               *)
CoStop(t) ==
  /\ t \in halted \ echoed
  /\ Send(t, Stopped(halts[t]))
  /\ echoed' = echoed \cup {t}
  /\ UNCHANGED <<alive, halted, halts>>
  /\ AdapterStep

Exit(t) ==
  /\ t \in alive \ halted
  /\ alive' = alive \ {t}
  /\ Send(t, Exited)
  /\ UNCHANGED <<halted, told>>
  /\ AdapterStep

(* A request's response follows all that was sent before it: the request   *)
(* stashes that.  The adapter may send `continued` before its response to  *)
(* a resume, after it, or never.                                           *)
Stashed(t) == stash[t] \o wire[t]

AdapterRefuses(t) ==
  /\ stash' = [stash EXCEPT ![t] = Stashed(t)]
  /\ wire' = [wire EXCEPT ![t] = <<>>]
  /\ UNCHANGED halted

(* What is left of a list without its stops.                               *)
WithoutStops(s) ==
  LET kept[n \in 0 .. Len(s)] ==
        IF n = 0 THEN <<>>
        ELSE IF IsStop(s[n]) THEN kept[n - 1] ELSE Append(kept[n - 1], s[n])
  IN  kept[Len(s)]

AdapterResumes(t, dropStops) ==
  /\ t \in alive
  /\ halted' = halted \ {t}
  /\ \E when \in {"before", "after", "never"} :
       LET read == Stashed(t) \o IF when = "before" THEN <<Continued>> ELSE <<>>
       IN /\ stash' = [stash EXCEPT ![t] = IF dropStops THEN WithoutStops(read) ELSE read]
          /\ wire' = [wire EXCEPT ![t] = IF when = "after" THEN <<Continued>> ELSE <<>>]

(* Live reads (context, stack, vars, threads) ask the adapter too.         *)
LiveRead(t) ==
  /\ t \notin gone /\ wire[t] # <<>>
  /\ t \in suspended \/ outstanding[t] = NoOne
  /\ AdapterRefuses(t)
  /\ UNCHANGED <<alive, halted, told, suspended, awaiting, suspects, gone, clock,
                 outstanding, pc, asked, hand, got, result, holes>>

-----------------------------------------------------------------------------
(* dispatch: the target is resolved, in a section of its own; then a busy  *)
(* slot is refused.                                                        *)
Latest == {t \in suspended : \A u \in suspended : parkSeq[u] <= parkSeq[t]}

Submit(c) ==
  /\ pc[c] = "idle"
  /\ \E r \in Request :
       /\ r.explicit \/ r.target \in (IF suspended = {} THEN {Main} ELSE Latest)
       /\ req' = [req EXCEPT ![c] = r]
  /\ Goto(c, "accept")
  /\ UNCHANGED <<adapter, bridge, clock, outstanding, epoch, hand, got, result, holes>>

(* Mutant: a busy slot is taken over.                                      *)
NeverBusy(t) == FALSE

Busy(t) == outstanding[t] # NoOne

Accept(c) ==
  /\ pc[c] = "accept"
  /\ IF Busy(Tgt(c)) \/ Tgt(c) \in gone
     THEN Fail(c) /\ UNCHANGED outstanding
     ELSE /\ outstanding' = [outstanding EXCEPT ![Tgt(c)] = c]
          /\ Goto(c, IF Op(c) \in Resuming THEN "baseline" ELSE "look")
          /\ UNCHANGED result
  /\ UNCHANGED <<adapter, bridge, clock, asked, hand, got, holes>>

(* cmd_wait, cmd_capture: a target already parked is served at once.       *)
Look(c) ==
  /\ pc[c] = "look"
  /\ \/ Tgt(c) \in gone /\ Fail(c)
     \/ Tgt(c) \in suspended \ gone /\ Succeed(c)
     \/ Tgt(c) \notin suspended \cup gone /\ Goto(c, "baseline") /\ UNCHANGED result
  /\ UNCHANGED <<adapter, bridge, clock, outstanding, asked, hand, got, holes>>

(* _pump_start_seq, before the resume or the wait, after the plant of a    *)
(* capture.  A park that lands after the look is not fresh any more.       *)
Baseline(c) ==
  /\ pc[c] = "baseline"
  /\ \/ /\ epoch' = [epoch EXCEPT ![c] = seq]
        /\ Goto(c, IF Op(c) \in Resuming THEN "issue" ELSE "pump")
        /\ holes' = IF Op(c) \notin Resuming /\ Tgt(c) \in suspended
                    THEN holes \cup {"gap"} ELSE holes
        /\ UNCHANGED result
     \/ Op(c) = "capture" /\ Fail(c) /\ UNCHANGED <<epoch, holes>>
  /\ UNCHANGED <<adapter, bridge, clock, outstanding, req, hand, got>>

(* cmd_continue, cmd_step: the request that resumes the target, if it is   *)
(* parked.  It may have been obeyed although it failed.                    *)
IssueResume(c) ==
  /\ pc[c] = "issue"
  /\ LET t == Tgt(c) IN
       \/ /\ t \in gone \/ (t \notin suspended /\ Op(c) = "step")
          /\ Fail(c)
          /\ UNCHANGED <<halted, wire, stash, holes>>
       \/ /\ t \notin gone \cup suspended /\ Op(c) = "continue"
          /\ Goto(c, "begin")
          /\ UNCHANGED <<halted, wire, stash, result, holes>>
       \/ /\ t \in suspended \ gone
          /\ \/ AdapterResumes(t, FALSE) /\ Goto(c, "begin") /\ UNCHANGED <<result, holes>>
             \/ AdapterResumes(t, FALSE) /\ Fail(c) /\ holes' = holes \cup {"late"}
             \/ AdapterRefuses(t) /\ Fail(c) /\ UNCHANGED holes
  /\ UNCHANGED <<alive, told, suspended, awaiting, suspects, gone, clock, outstanding,
                 asked, hand, got>>

(* The message of the target's halt is on its way to be dispatched.        *)
InFlight(t, m, stashed) ==
  \/ \E i \in 1 .. Len(wire[t]) : wire[t][i] = m
  \/ \E i \in 1 .. Len(stashed) : stashed[i] = m
  \/ \E p \in Pumper : hand[p] = <<t, m>>

(* A target that has halted again by now is taken for running.             *)
Swallowed(t, stashed) ==
  IF t \in halted /\ ~InFlight(t, Stopped(halts[t]), stashed) THEN {"swallowed"} ELSE {}

(* An episode ends with stops held, or about to be.                        *)
Stranded(closing) ==
  IF \E t \in closing : \/ suspects[t] # {}
                        \/ \E p \in Pumper : hand[p] # Nothing /\ hand[p][1] = t
  THEN {"stranded"} ELSE {}

(* Mutant: no barrier is raised.                                           *)
NoBarrier(t, was) == awaiting

(* A resume of a parked target waits for `continued`.                      *)
Barrier(t, was) == IF was THEN awaiting \cup {t} ELSE awaiting \ {t}

(* The first section of _resume_and_wait: what is known of the target from *)
(* before the resume is dropped.                                           *)
BeginResume(c) ==
  /\ pc[c] = "begin"
  /\ LET t == Tgt(c)
         was == t \in suspended
         kept == IF was THEN WithoutStops(stash[t]) ELSE stash[t]
     IN \/ ~Known(t) /\ Fail(c)
           /\ UNCHANGED <<stash, suspended, awaiting, suspects, got, holes>>
        \/ /\ Known(t)
           /\ stash' = [stash EXCEPT ![t] = kept]
           /\ suspects' = [suspects EXCEPT ![t] = {}]
           /\ awaiting' = Barrier(t, was)
           /\ suspended' = suspended \ {t}
           /\ got' = [got EXCEPT ![c] = NoOne]
           /\ Goto(c, "pump")
           /\ holes' = holes \cup Swallowed(t, kept)
                             \cup IF was THEN {} ELSE Stranded({t} \cap awaiting)
           /\ UNCHANGED result
  /\ UNCHANGED <<adapter, gone, clock, outstanding, asked, hand>>

-----------------------------------------------------------------------------
(* Pumping: pop under the connection's lock, dispatch under the gate.      *)

(* A message is read while an older one of its target is not dispatched.   *)
Overtakes(p, t, fromWire) ==
  IF (\E q \in Pumper \ {p} : hand[q] # Nothing /\ hand[q][1] = t)
     \/ (fromWire /\ stash[t] # <<>>)
  THEN {"overtaken"} ELSE {}

Pop(p) ==
  /\ pc[p] = "pump" /\ hand[p] = Nothing
  /\ \E t \in Target \ gone :
       \/ /\ stash[t] # <<>>
          /\ hand' = [hand EXCEPT ![p] = <<t, Head(stash[t])>>]
          /\ stash' = [stash EXCEPT ![t] = Tail(@)]
          /\ holes' = holes \cup Overtakes(p, t, FALSE)
          /\ UNCHANGED wire
       \/ /\ wire[t] # <<>>
          /\ hand' = [hand EXCEPT ![p] = <<t, Head(wire[t])>>]
          /\ wire' = [wire EXCEPT ![t] = Tail(@)]
          /\ holes' = holes \cup Overtakes(p, t, TRUE)
          /\ UNCHANGED stash
  /\ UNCHANGED <<alive, halted, told, suspended, awaiting, suspects, gone, clock,
                 outstanding, pc, asked, got, result>>

Raise(p) ==
  IF p = Idle THEN Goto(p, "off") /\ UNCHANGED result ELSE Fail(p)

(* _pump_hit_ok: a park that was not waited for is left alone.             *)
Hit(p, t, otherwise) ==
  /\ Goto(p, IF p = Idle THEN "off" ELSE IF t \in Wanted(p) THEN "served" ELSE otherwise)
  /\ UNCHANGED result

(* Thread-local: the accept loop takes no note.                            *)
SawPark(p, t) == IF p = Idle THEN got ELSE [got EXCEPT ![p] = t]

(* Mutant: the park is stamped, the clock does not advance.                *)
StampOnly(p, t) ==
  /\ parkSeq' = [parkSeq EXCEPT ![t] = seq + 1]
  /\ lastPark' = t
  /\ got' = SawPark(p, t)
  /\ UNCHANGED seq

CommitParkClock(p, t) ==
  /\ seq' = seq + 1
  /\ parkSeq' = [parkSeq EXCEPT ![t] = seq + 1]
  /\ lastPark' = t
  /\ got' = SawPark(p, t)

(* _park_stop: the stack is read, the park published.  Without frames the  *)
(* dispatching thread raises after that, without an answer before it.      *)
ParkStop(p, t, otherwise, cracks) ==
  /\ suspended' = suspended \cup {t}
  /\ \/ /\ t \in halted
        /\ CommitParkClock(p, t)
        /\ Hit(p, t, otherwise)
        /\ holes' = holes \cup cracks
     \/ /\ CommitParkClock(p, t)
        /\ Raise(p)
        /\ holes' = holes \cup cracks
     \/ /\ UNCHANGED <<clock, got>>
        /\ Raise(p)
        /\ holes' = holes \cup cracks \cup {"uncommitted"}

NoPark == UNCHANGED <<suspended, clock, got, pc, result, holes>>

(* Mutant: a stop in a resume episode is dropped, not held.                *)
HoldNothing(t, n) == suspects

(* _note_suspect                                                           *)
NoteSuspect(t, n) == [suspects EXCEPT ![t] = @ \cup {n}]

HandleStopped(p, t, n) ==
  /\ \/ /\ t \in awaiting \ suspended
        /\ suspects' = NoteSuspect(t, n)
        /\ NoPark
     \/ /\ t \in suspended
        /\ UNCHANGED suspects
        /\ NoPark
     \/ /\ t \notin awaiting \cup suspended
        /\ UNCHANGED suspects
        /\ ParkStop(p, t, "pump", {})
  /\ UNCHANGED <<awaiting, gone, stash, wire>>

(* The barrier: suspects are stale, except those of threads that it does   *)
(* not name, which are probed.                                             *)
HandleContinued(p, t) ==
  /\ \/ /\ t \notin awaiting
        /\ UNCHANGED <<awaiting, suspects>>
        /\ NoPark
     \/ /\ t \in awaiting
        /\ awaiting' = awaiting \ {t}
        /\ suspects' = [suspects EXCEPT ![t] = {}]
        /\ \/ NoPark
           \/ suspects[t] # {} /\ t \in halted /\ ParkStop(p, t, "pump", {})
  /\ UNCHANGED <<gone, stash, wire>>

(* The end of main ends the session when no child lives; a child leaves.   *)
HandleExited(p, t) ==
  /\ gone' = gone \cup {t}
  /\ suspended' = suspended \ {t}
  /\ parkSeq' = IF t = Main THEN parkSeq ELSE [parkSeq EXCEPT ![t] = 0]
  /\ stash' = [stash EXCEPT ![t] = <<>>]
  /\ wire' = [wire EXCEPT ![t] = <<>>]
  /\ IF t = Main /\ Child \subseteq gone THEN Raise(p) ELSE UNCHANGED <<pc, result>>
  /\ UNCHANGED <<awaiting, suspects, seq, lastPark, got, holes>>

DispatchPumped(p) ==
  /\ pc[p] = "pump" /\ hand[p] # Nothing
  /\ hand' = [hand EXCEPT ![p] = Nothing]
  /\ LET t == hand[p][1]
         m == hand[p][2]
     IN \/ /\ t \in gone
           /\ NoPark /\ UNCHANGED <<awaiting, suspects, gone, stash, wire>>
        \/ t \notin gone /\ IsStop(m) /\ HandleStopped(p, t, m[2])
        \/ t \notin gone /\ m = Continued /\ HandleContinued(p, t)
        \/ t \notin gone /\ m = Exited /\ HandleExited(p, t)
  /\ UNCHANGED <<alive, halted, told, outstanding, asked>>

-----------------------------------------------------------------------------
(* _shared_park_hit: for an explicit target its own last park, otherwise   *)
(* the last of all.                                                        *)
HandedOff(c) == IF req[c].explicit THEN Tgt(c) ELSE lastPark

(* Mutant: an older park will do.                                          *)
AnyPark(c) == TRUE

FreshPark(c) ==
  (IF req[c].explicit THEN parkSeq[Tgt(c)] ELSE seq) > epoch[c]

SharedParkHit(c) ==
  LET t == HandedOff(c) IN FreshPark(c) /\ Known(t) /\ t \in suspended

TakeHandoff(c) ==
  /\ SharedParkHit(c)
  /\ got' = [got EXCEPT ![c] = HandedOff(c)]
  /\ Goto(c, "served")
  /\ UNCHANGED result

Handoff(c) ==
  /\ pc[c] = "pump" /\ hand[c] = Nothing
  /\ TakeHandoff(c)
  /\ UNCHANGED <<adapter, bridge, clock, outstanding, asked, hand, holes>>

(* _probe_all_suspects: the first held stop whose target is halted parks,  *)
(* others are dropped on the way; a probe may fail.                        *)
Held == {t \in awaiting \ (suspended \cup gone) : suspects[t] # {}}

ProbeAllSuspects(c, otherwise) ==
  /\ \/ \E t \in Held \cap halted : \E dropped \in SUBSET (Held \ {t}) :
          /\ suspects' = [u \in Target |-> IF u \in dropped \cup {t} THEN {} ELSE suspects[u]]
          /\ awaiting' = awaiting \ {t}
          /\ ParkStop(c, t, otherwise,
               IF dropped \cap halted # {} THEN {"unprobed"} ELSE {})
     \/ /\ suspects' = [u \in Target |-> IF u \in Held THEN {} ELSE suspects[u]]
        /\ holes' = holes \cup IF Held \cap halted # {} THEN {"unprobed"} ELSE {}
        /\ Goto(c, otherwise)
        /\ UNCHANGED <<awaiting, suspended, clock, got, result>>
  /\ UNCHANGED <<adapter, stash, gone, outstanding, asked, hand>>

IdleTick(c) ==
  /\ pc[c] = "pump" /\ hand[c] = Nothing
  /\ Held # {}
  /\ ProbeAllSuspects(c, "pump")

(* The deadline: a last probe, the end of all episodes, a last look for a  *)
(* park that somebody else consumed.                                       *)
Deadline(c) ==
  /\ pc[c] = "pump" /\ hand[c] = Nothing
  /\ ProbeAllSuspects(c, "close")

CloseSuspectEpisodes(c) ==
  /\ pc[c] = "close"
  /\ LET closing == awaiting \ (suspended \cup gone) IN
       /\ awaiting' = awaiting \ closing
       /\ holes' = holes \cup Stranded(closing)
  /\ Goto(c, "final")
  /\ UNCHANGED <<adapter, stash, suspended, suspects, gone, clock, outstanding, asked,
                 hand, got, result>>

(* Mutant: no last look.                                                   *)
TimeoutAtOnce(c) ==
  /\ pc[c] = "final"
  /\ Goto(c, "release") /\ result' = [result EXCEPT ![c] = "timeout"]
  /\ UNCHANGED <<adapter, bridge, clock, outstanding, asked, hand, got, holes>>

LastLook(c) ==
  /\ pc[c] = "final"
  /\ \/ TakeHandoff(c)
     \/ /\ ~SharedParkHit(c)
        /\ Goto(c, "release") /\ result' = [result EXCEPT ![c] = "timeout"]
        /\ UNCHANGED got
  /\ UNCHANGED <<adapter, bridge, clock, outstanding, asked, hand, holes>>

(* All sessions are closed.                                                *)
LostAll(c) ==
  /\ pc[c] = "pump" /\ hand[c] = Nothing
  /\ gone = Target
  /\ Fail(c)
  /\ UNCHANGED <<adapter, bridge, clock, outstanding, asked, hand, got, holes>>

-----------------------------------------------------------------------------
(* The target that the answer is about: the park the thread has seen, else *)
(* the last one, else the request's own.                                   *)
ServedTarget(c) ==
  IF Known(got[c]) THEN got[c] ELSE IF Known(lastPark) THEN lastPark ELSE Tgt(c)

Vanished(c) == IF Known(got[c]) THEN {} ELSE {"vanished"}

Serve(c) ==
  /\ pc[c] = "served" /\ Op(c) # "capture"
  /\ \/ Known(ServedTarget(c)) /\ Succeed(c)
     \/ ~Known(ServedTarget(c)) /\ Fail(c)
  /\ got' = [got EXCEPT ![c] = ServedTarget(c)]
  /\ holes' = holes \cup Vanished(c)
  /\ UNCHANGED <<adapter, bridge, clock, outstanding, asked, hand>>

(* cmd_capture resumes what it has collected, in the same section, whoever *)
(* holds the slot of that target.  A resume that fails leaves the park.    *)
CaptureResume(c) ==
  /\ pc[c] = "served" /\ Op(c) = "capture"
  /\ LET t == ServedTarget(c)
         foreign == IF outstanding[t] # c THEN {"foreign"} ELSE {}
         begin == /\ suspects' = [suspects EXCEPT ![t] = {}]
                  /\ awaiting' = Barrier(t, TRUE)
                  /\ suspended' = suspended \ {t}
                  /\ Succeed(c)
     IN \/ ~Known(t) /\ Fail(c)
           /\ holes' = holes \cup Vanished(c)
           /\ UNCHANGED <<halted, wire, stash, suspended, awaiting, suspects>>
        \/ /\ Known(t) /\ t \in suspended
           /\ AdapterResumes(t, TRUE)
           /\ begin
           /\ holes' = holes \cup Vanished(c) \cup foreign
        \/ /\ Known(t) /\ t \in suspended
           /\ AdapterRefuses(t)
           /\ Succeed(c)
           /\ holes' = holes \cup Vanished(c)
           /\ UNCHANGED <<suspended, awaiting, suspects>>
        \/ /\ Known(t) /\ t \notin suspended
           /\ stash' = [stash EXCEPT ![t] = WithoutStops(@)]
           /\ begin
           /\ holes' = holes \cup Vanished(c)
                             \cup Swallowed(t, WithoutStops(stash[t]))
           /\ UNCHANGED <<halted, wire>>
  /\ got' = [got EXCEPT ![c] = ServedTarget(c)]
  /\ UNCHANGED <<alive, told, gone, clock, outstanding, asked, hand>>

(* The end of a handler, and of all it kept for itself.                    *)
Forget(c) ==
  /\ Goto(c, "done")
  /\ req' = [req EXCEPT ![c] = NoReq]
  /\ epoch' = [epoch EXCEPT ![c] = 0]
  /\ got' = [got EXCEPT ![c] = NoOne]

(* Mutant: the slot is not freed.                                          *)
ReleaseNothing(c) ==
  /\ pc[c] = "release"
  /\ Forget(c)
  /\ UNCHANGED <<adapter, bridge, clock, outstanding, hand, result, holes>>

Release(c) ==
  /\ pc[c] = "release"
  /\ outstanding' = [t \in Target |-> IF outstanding[t] = c THEN NoOne ELSE outstanding[t]]
  /\ Forget(c)
  /\ UNCHANGED <<adapter, bridge, clock, hand, result, holes>>

(* serve: the accept loop pumps a while when no slot was taken a moment    *)
(* ago.  (drain_pending, the like of it for `logs`, is left out.)          *)
IdlePump ==
  /\ pc[Idle] = "off"
  /\ \A t \in Target : outstanding[t] = NoOne
  /\ Goto(Idle, "pump")
  /\ UNCHANGED <<adapter, bridge, clock, outstanding, asked, hand, got, result, holes>>

IdleEnd ==
  /\ pc[Idle] = "pump" /\ hand[Idle] = Nothing
  /\ Goto(Idle, "off")
  /\ UNCHANGED <<adapter, bridge, clock, outstanding, asked, hand, got, result, holes>>

-----------------------------------------------------------------------------
Handler(c) ==
  \/ Accept(c) \/ Look(c) \/ Baseline(c) \/ IssueResume(c) \/ BeginResume(c)
  \/ Handoff(c) \/ IdleTick(c) \/ Deadline(c) \/ CloseSuspectEpisodes(c)
  \/ LastLook(c) \/ LostAll(c) \/ Serve(c) \/ CaptureResume(c) \/ Release(c)

Pump(p) == Pop(p) \/ DispatchPumped(p)

Next ==
  \/ \E c \in Cli : Submit(c) \/ Handler(c)
  \/ \E p \in Pumper : Pump(p)
  \/ IdlePump \/ IdleEnd
  \/ \E t \in Target : Halt(t) \/ CoStop(t) \/ Exit(t) \/ LiveRead(t)

Spec == Init /\ [][Next]_vars

(* Threads are scheduled, every wait has a deadline, and the accept loop   *)
(* pumps again and again: it reads what there is before it leaves.         *)
Fairness ==
  /\ \A c \in Cli : WF_vars(Handler(c))
  /\ \A p \in Pumper : WF_vars(DispatchPumped(p))
  /\ SF_vars(Pop(Idle)) /\ SF_vars(IdlePump)

FairSpec == Spec /\ Fairness

-----------------------------------------------------------------------------
(* The variables have their types.                                         *)
TypeOK ==
  /\ halted \subseteq alive /\ alive \subseteq Target
  /\ halts \in [Target -> 0 .. MaxHalts]
  /\ echoed \subseteq Target
  /\ wire \in [Target -> Seq(Event)]
  /\ stash \in [Target -> Seq(Event)]
  /\ suspended \subseteq Target \ gone
  /\ awaiting \subseteq Target
  /\ suspects \in [Target -> SUBSET (0 .. MaxHalts)]
  /\ gone \subseteq Target \ alive
  /\ seq \in Nat
  /\ parkSeq \in [Target -> 0 .. seq]
  /\ lastPark \in Target
  /\ outstanding \in [Target -> Cli \cup {NoOne}]
  /\ pc \in [Pumper -> {"idle", "accept", "look", "baseline", "issue", "begin", "pump",
                        "close", "final", "served", "release", "done", "off"}]
  /\ req \in [Cli -> Request \cup {NoReq}]
  /\ epoch \in [Cli -> 0 .. seq]
  /\ hand \in [Pumper -> {Nothing} \cup (Target \X Event)]
  /\ got \in [Cli -> Target \cup {NoOne}]
  /\ result \in [Cli -> {"none", "ok", "error", "timeout"}]
  /\ holes \subseteq {"gap", "late", "swallowed", "overtaken", "uncommitted",
                      "unprobed", "stranded", "vanished", "foreign"}

(* No halt is forgotten: a halted target is parked, or its stop is on its  *)
(* way, or held until the resume is confirmed.                             *)
NoStopIsLost ==
  holes \cap {"swallowed", "overtaken", "unprobed", "stranded"} = {} =>
    \A t \in halted :
      \/ t \in suspended
      \/ InFlight(t, Stopped(halts[t]), stash[t])
      \/ t \in awaiting /\ halts[t] \in suspects[t]

(* A park is never stale: a target that the bridge takes for parked is     *)
(* halted, but for the moment between its resume and the bookkeeping.      *)
ParksAreReal ==
  holes \cap {"late", "overtaken", "stranded"} = {} =>
    \A t \in suspended : t \in halted \/ \E c \in Cli : pc[c] = "begin" /\ Tgt(c) = t

(* A timeout is honest: the target that an explicit request waited for is  *)
(* not parked, whoever consumed its stop.                                  *)
TimeoutIsHonest ==
  [][\A c \in Cli :
       /\ result'[c] = "timeout" /\ result[c] # "timeout"
       /\ req[c].explicit /\ holes \cap {"gap", "uncommitted"} = {}
       => Tgt(c) \notin suspended]_vars

(* A wait is answered with a park that is newer than its baseline, and of  *)
(* the target that was named.                                              *)
AnswersAreFresh ==
  [][\A c \in Cli :
       /\ pc[c] = "served" /\ result'[c] = "ok" /\ holes' \cap {"vanished"} = {}
       => got'[c] \in Wanted(c) /\ parkSeq[got'[c]] > epoch[c]]_vars

(* A park is undone only by the request that holds the target's slot, or   *)
(* by the target's end.                                                    *)
OnlyTheHolderResumes ==
  [][\A t \in suspended \ suspended' :
       \/ t \in gone'
       \/ "foreign" \in holes'
       \/ outstanding[t] # NoOne /\ pc[outstanding[t]] # pc'[outstanding[t]]]_vars

(* A halt gets published, when no crack has opened.                        *)
StopsArePublished ==
  \A t \in Target :
    t \in halted ~>
      \/ t \in suspended \/ t \notin halted \/ t \in awaiting
      \/ holes \cap {"swallowed", "overtaken", "unprobed", "stranded"} # {}

(* "The moment a stop exists, concurrent waiters and live reads observe    *)
(* it" (protocol.md), also when it lands while its resume is being booked. *)
StopsSurviveTheResume ==
  holes \subseteq {"swallowed"} =>
    \A t \in halted :
      \/ t \in suspended
      \/ InFlight(t, Stopped(halts[t]), stash[t])
      \/ t \in awaiting /\ halts[t] \in suspects[t]

(* "A stack-unavailable failure still publishes the park epoch"            *)
(* (protocol.md).                                                          *)
ParksHaveAnEpoch ==
  \A t \in suspended : parkSeq[t] > 0
=============================================================================
