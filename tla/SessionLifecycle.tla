-------------------------- MODULE SessionLifecycle --------------------------
(***************************************************************************)
(* The life of the session directories under ~/.agent-debugger/sessions:   *)
(* CLI processes that start sessions (spawn_in), CLI processes that close  *)
(* them (close_in), and the bridge daemons between them.  Nobody holds a   *)
(* handle on anything: a directory is found by its path, a bridge by the   *)
(* port in session.json, and every step reads what is there at that time.  *)
(*                                                                         *)
(* A starter spawns at most one bridge, so a starter stands for its bridge *)
(* in owner.json, session.json and error.json.  The startup lock is taken, *)
(* stolen and released in one step each: the file-level protocol under it  *)
(* is module EndpointLock's.  All sessions are of the current schema.      *)
(***************************************************************************)
EXTENDS Naturals, FiniteSets

CONSTANTS Starter,     \* CLI processes running launch or attach
          Closer,      \* CLI processes running close
          Name,        \* session names
          Port,        \* loopback ports the system hands to bridges
          NoOne,       \* no file, no port, nobody
          LongStarts   \* may a start outlive the 300 s bound of its lock

ASSUME SessionLifecycleAssumption ==
  /\ NoOne \notin Starter \cup Closer \cup Name \cup Port
  /\ Starter \cap Closer = {}
  /\ LongStarts \in BOOLEAN

VARIABLES
  lock,      \* the starter whose nonce is in each name's startup lock
  oldLocks,  \* names whose lock is past STARTUP_LOCK_STALE
  dirs,      \* names that have a session directory
  owner,     \* bridge in each directory's owner.json
  sess,      \* bridge that wrote each directory's session.json
  err,       \* bridge that wrote each directory's error.json
  life,      \* each starter's bridge process
  port,      \* the port each bridge bound
  pc,        \* next step of each starter and closer
  name,      \* the session name each works on
  result,    \* what each reported to its caller
  answered,  \* the bridge that answered each starter's first request
  addr,      \* the bridge whose session.json each closer read
  acked,     \* the bridge that acknowledged each closer
  holes      \* history: which cracks have opened

files == <<dirs, owner, sess, err>>
locks == <<lock, oldLocks>>
procs == <<pc, name, result>>
calls == <<answered, addr, acked>>
vars  == <<locks, files, life, port, procs, calls, holes>>

Process == Starter \cup Closer
Ended   == {"done", "dead"}
Running == {"spawned", "setup", "serving", "failing", "closing"}

Goto(p, label) == pc' = [pc EXCEPT ![p] = label]

Alive(b)     == life[b] \in Running
Listening(x) == {b \in Starter : port[b] = x /\ Alive(b)}
HasSession(n) == sess[n] # NoOne

(* The bridge a request to the port in session.json of bridge b reaches.   *)
Reached(b) == Listening(port[b])

(* remove_dir_all on a session directory.                                  *)
RemoveDir(n) ==
  /\ dirs'  = dirs \ {n}
  /\ owner' = [owner EXCEPT ![n] = NoOne]
  /\ sess'  = [sess  EXCEPT ![n] = NoOne]
  /\ err'   = [err   EXCEPT ![n] = NoOne]

(* A bridge's write_file: by path, best effort, with no ownership check.   *)
Published(b) == IF name[b] \in dirs THEN [sess EXCEPT ![name[b]] = b] ELSE sess

-----------------------------------------------------------------------------
Init ==
  /\ lock  = [n \in Name |-> NoOne]
  /\ oldLocks = {}
  /\ dirs  = {}
  /\ owner = [n \in Name |-> NoOne]
  /\ sess  = [n \in Name |-> NoOne]
  /\ err   = [n \in Name |-> NoOne]
  /\ life  = [b \in Starter |-> "none"]
  /\ port  = [b \in Starter |-> NoOne]
  /\ pc    = [p \in Process |-> "idle"]
  /\ name  = [p \in Process |-> NoOne]
  /\ result = [p \in Process |-> "none"]
  /\ answered = [s \in Starter |-> NoOne]
  /\ addr  = [c \in Closer |-> NoOne]
  /\ acked = [c \in Closer |-> NoOne]
  /\ holes = {}

-----------------------------------------------------------------------------
(* Starters: spawn_in.                                                     *)

HolderRuns(n) == lock[n] # NoOne /\ pc[lock[n]] \notin Ended

Stolen(n) == IF HolderRuns(n) THEN holes \cup {"stolen"} ELSE holes

(* acquire_startup_lock: a free lock is taken, a stale one stolen, a fresh *)
(* one is a retryable error.                                               *)
Acquire(s) ==
  /\ pc[s] = "idle"
  /\ \E n \in Name :
       /\ name' = [name EXCEPT ![s] = n]
       /\ \/ /\ lock[n] = NoOne \/ n \in oldLocks
             /\ lock' = [lock EXCEPT ![n] = s]
             /\ oldLocks' = oldLocks \ {n}
             /\ holes' = Stolen(n)
             /\ Goto(s, "check")
             /\ UNCHANGED result
          \/ /\ lock[n] # NoOne /\ n \notin oldLocks
             /\ result' = [result EXCEPT ![s] = "failed"]
             /\ Goto(s, "done")
             /\ UNCHANGED <<locks, holes>>
  /\ UNCHANGED <<files, life, port, calls>>

(* Mutant: a name is taken over whatever it holds.                         *)
CheckNothing(s) ==
  /\ pc[s] = "check"
  /\ Goto(s, "clear")
  /\ UNCHANGED <<locks, files, life, port, name, result, calls, holes>>

(* A published session keeps its name.                                     *)
CheckExists(s) ==
  /\ pc[s] = "check"
  /\ IF HasSession(name[s])
     THEN /\ result' = [result EXCEPT ![s] = "failed"]
          /\ Goto(s, "release")
     ELSE /\ Goto(s, "clear")
          /\ UNCHANGED result
  /\ UNCHANGED <<locks, files, life, port, name, calls, holes>>

ClearDir(s) ==
  /\ pc[s] = "clear"
  /\ RemoveDir(name[s])
  /\ Goto(s, "create")
  /\ UNCHANGED <<locks, life, port, name, result, calls, holes>>

(* create_dir is exclusive; only a bridge of an earlier, killed starter    *)
(* can have made the directory again.                                      *)
CreateDir(s) ==
  /\ pc[s] = "create"
  /\ IF name[s] \in dirs
     THEN /\ result' = [result EXCEPT ![s] = "failed"]
          /\ Goto(s, "release")
          /\ UNCHANGED files
     ELSE /\ dirs' = dirs \cup {name[s]}
          /\ Goto(s, "spawn")
          /\ UNCHANGED <<owner, sess, err, result>>
  /\ UNCHANGED <<locks, life, port, name, calls, holes>>

(* The leftovers go, then setup_bridge writes the intent and spawns; a     *)
(* failure on the way removes the directory.                               *)
SpawnBridge(s) ==
  /\ pc[s] = "spawn"
  /\ sess' = [sess EXCEPT ![name[s]] = NoOne]
  /\ err'  = [err EXCEPT ![name[s]] = NoOne]
  /\ \/ /\ life' = [life EXCEPT ![s] = "spawned"]
        /\ Goto(s, "pollError")
     \/ /\ Goto(s, "remove")
        /\ UNCHANGED life
  /\ UNCHANGED <<locks, dirs, owner, port, name, result, calls, holes>>

(* The wait loop, in its order: error.json, session.json, the child, the   *)
(* deadline, and again.                                                    *)
PollError(s) ==
  /\ pc[s] = "pollError"
  /\ Goto(s, IF err[name[s]] # NoOne THEN "reap" ELSE "pollSession")
  /\ UNCHANGED <<locks, files, life, port, name, result, calls, holes>>

PollSession(s) ==
  /\ pc[s] = "pollSession"
  /\ Goto(s, IF HasSession(name[s]) THEN "forward" ELSE "pollChild")
  /\ UNCHANGED <<locks, files, life, port, name, result, calls, holes>>

PollChild(s) ==
  /\ pc[s] = "pollChild"
  /\ Goto(s, IF life[s] = "dead" THEN "remove" ELSE "pollError")
  /\ UNCHANGED <<locks, files, life, port, name, result, calls, holes>>

(* Mutant: the child is left running.                                      *)
DeadlineUnreaped(s) ==
  /\ pc[s] = "pollChild" /\ life[s] # "dead"
  /\ Goto(s, "remove")
  /\ UNCHANGED <<locks, files, life, port, name, result, calls, holes>>

(* Mutant: the deadline starts again with every poll.                      *)
DeadlineRestarted(s) ==
  /\ pc[s] = "pollChild" /\ life[s] # "dead"
  /\ Goto(s, "pollError")
  /\ UNCHANGED <<locks, files, life, port, name, result, calls, holes>>

Deadline(s) ==
  /\ pc[s] = "pollChild" /\ life[s] # "dead"
  /\ Goto(s, "reap")
  /\ UNCHANGED <<locks, files, life, port, name, result, calls, holes>>

(* The first request goes to the port session.json names now.              *)
Forward(s) ==
  /\ pc[s] = "forward"
  /\ \/ \E b \in Starter :
          /\ HasSession(name[s])
          /\ b \in Reached(sess[name[s]]) /\ life[b] = "serving"
          /\ answered' = [answered EXCEPT ![s] = b]
          /\ result' = [result EXCEPT ![s] = "ok"]
          /\ Goto(s, "release")
     \/ Goto(s, "settle") /\ UNCHANGED <<answered, result>>
  /\ UNCHANGED <<locks, files, life, port, name, addr, acked, holes>>

(* settle_for_bridge_error, then the logs of a target that is gone, else   *)
(* a failed start.                                                         *)
Settle(s) ==
  /\ pc[s] = "settle"
  /\ \/ Goto(s, "reap") /\ UNCHANGED result
     \/ /\ err[name[s]] = NoOne /\ name[s] \in dirs
        /\ result' = [result EXCEPT ![s] = "ok"]
        /\ Goto(s, "release")
  /\ UNCHANGED <<locks, files, life, port, name, calls, holes>>

Reap(s) ==
  /\ pc[s] = "reap"
  /\ life' = [life EXCEPT ![s] = "dead"]
  /\ Goto(s, "remove")
  /\ UNCHANGED <<locks, files, port, name, result, calls, holes>>

RemoveFailed(s) ==
  /\ pc[s] = "remove"
  /\ RemoveDir(name[s])
  /\ result' = [result EXCEPT ![s] = "failed"]
  /\ Goto(s, "release")
  /\ UNCHANGED <<locks, life, port, name, calls, holes>>

(* Mutant: the file of the next holder is as old as the last one's.        *)
UnlockKeepingAge(n) ==
  /\ lock' = [lock EXCEPT ![n] = NoOne]
  /\ UNCHANGED oldLocks

Unlock(n) ==
  /\ lock' = [lock EXCEPT ![n] = NoOne]
  /\ oldLocks' = oldLocks \ {n}

(* release_startup_lock: only its own.                                     *)
ReleaseLock(s) ==
  /\ pc[s] = "release"
  /\ IF lock[name[s]] = s
     THEN Unlock(name[s])
     ELSE UNCHANGED locks
  /\ Goto(s, "done")
  /\ UNCHANGED <<files, life, port, name, result, calls, holes>>

(* The starting CLI is killed; its lock and its bridge stay.               *)
Kill(s) ==
  /\ pc[s] \notin Ended \cup {"idle"}
  /\ Goto(s, "dead")
  /\ holes' = IF life[s] \in {"spawned", "setup"} THEN holes \cup {"orphan"}
              ELSE holes
  /\ UNCHANGED <<locks, files, life, port, name, result, calls>>

GrowOld(n) ==
  /\ lock[n] # NoOne /\ n \notin oldLocks
  /\ LongStarts \/ ~HolderRuns(n)
  /\ oldLocks' = oldLocks \cup {n}
  /\ UNCHANGED <<lock, files, life, port, procs, calls, holes>>

-----------------------------------------------------------------------------
(* Bridges: main, publish_state, serve.                                    *)

BridgeVars == <<locks, procs, calls>>

(* Ports of dead bridges that a session.json, or a closer on its way, still *)
(* takes for the bridge's.                                                  *)
StalePorts == {port[sess[n]] : n \in {m \in Name : HasSession(m)}}
                \cup {port[addr[c]] : c \in {d \in Closer : addr[d] # NoOne}}

(* makedirs, the owner.json claim, the bind to any free port.              *)
ClaimDir(b) ==
  /\ life[b] = "spawned"
  /\ dirs'  = dirs \cup {name[b]}
  /\ owner' = [owner EXCEPT ![name[b]] = b]
  /\ life'  = [life EXCEPT ![b] = "setup"]
  /\ \E x \in Port :
       /\ Listening(x) = {}
       /\ port' = [port EXCEPT ![b] = x]
       /\ holes' = IF x \in StalePorts THEN holes \cup {"reused"} ELSE holes
  /\ UNCHANGED <<sess, err, BridgeVars>>

(* Setup ends: the session is published and served, or the target was lost *)
(* before the first stop, possibly after its death was published.          *)
Publish(b) ==
  /\ life[b] = "setup"
  /\ \/ sess' = Published(b) /\ life' = [life EXCEPT ![b] = "serving"]
     \/ sess' = Published(b) /\ life' = [life EXCEPT ![b] = "failing"]
     \/ UNCHANGED sess /\ life' = [life EXCEPT ![b] = "failing"]
  /\ UNCHANGED <<dirs, owner, err, port, BridgeVars, holes>>

ReportError(b) ==
  /\ life[b] = "failing"
  /\ err' = IF name[b] \in dirs THEN [err EXCEPT ![name[b]] = b] ELSE err
  /\ life' = [life EXCEPT ![b] = "dead"]
  /\ UNCHANGED <<dirs, owner, sess, port, BridgeVars, holes>>

(* Every stop, resume and exit rewrites session.json.                      *)
Republish(b) ==
  /\ life[b] \in {"serving", "closing"}
  /\ sess' = Published(b)
  /\ UNCHANGED <<dirs, owner, err, life, port, BridgeVars, holes>>

AmOwner(b) == name[b] \in dirs /\ owner[name[b]] = b

(* Mutant: only a missing directory is noticed, not a respawned one.       *)
AbandonMissing(b) ==
  /\ life[b] \in {"setup", "serving"}
  /\ name[b] \notin dirs
  /\ life' = [life EXCEPT ![b] = "dead"]
  /\ UNCHANGED <<files, port, BridgeVars, holes>>

(* Both the setup pump and the serve loop quit when the directory is gone  *)
(* or respawned under the name.                                            *)
Abandon(b) ==
  /\ life[b] \in {"setup", "serving"}
  /\ ~AmOwner(b)
  /\ life' = [life EXCEPT ![b] = "dead"]
  /\ UNCHANGED <<files, port, BridgeVars, holes>>

(* Teardown after a close, once, and the listener goes.                    *)
Teardown(b) ==
  /\ life[b] = "closing"
  /\ life' = [life EXCEPT ![b] = "dead"]
  /\ UNCHANGED <<files, port, BridgeVars, holes>>

(* The bridge process is killed or crashes.                                *)
BridgeDies(b) ==
  /\ Alive(b)
  /\ life' = [life EXCEPT ![b] = "dead"]
  /\ UNCHANGED <<files, port, BridgeVars, holes>>

-----------------------------------------------------------------------------
(* Closers: close_in.                                                      *)

CloserVars == <<port, name, answered>>

CloseFails(c) ==
  /\ result' = [result EXCEPT ![c] = "failed"]
  /\ Goto(c, "done")

(* startup_close_gate: a fresh lock over an unpublished directory is a     *)
(* start in progress; a stale one is dropped.                              *)
CloseGate(c) ==
  /\ pc[c] = "idle"
  /\ \E n \in Name :
       /\ name' = [name EXCEPT ![c] = n]
       /\ \/ /\ HasSession(n) \/ lock[n] = NoOne
             /\ Goto(c, "read")
             /\ UNCHANGED <<locks, result, holes>>
          \/ /\ ~HasSession(n) /\ lock[n] # NoOne /\ n \notin oldLocks
             /\ CloseFails(c)
             /\ UNCHANGED <<locks, holes>>
          \/ /\ ~HasSession(n) /\ n \in oldLocks
             /\ Unlock(n)
             /\ holes' = Stolen(n)
             /\ Goto(c, "read")
             /\ UNCHANGED result
  /\ UNCHANGED <<files, life, port, calls>>

ReadSession(c) ==
  /\ pc[c] = "read"
  /\ addr' = [addr EXCEPT ![c] = sess[name[c]]]
  /\ Goto(c, IF HasSession(name[c]) THEN "request" ELSE "final")
  /\ UNCHANGED <<locks, files, life, CloserVars, result, acked, holes>>

(* The close request, to whichever bridge listens on the port by now.  A   *)
(* serving bridge starts its teardown and acknowledges; the request may    *)
(* time out before it is read, the answer may be lost, a bridge in setup   *)
(* never answers, one in teardown may.                                     *)
RequestClose(c) ==
  /\ pc[c] = "request"
  /\ \/ \E b \in Reached(addr[c]) :
          /\ life[b] \in {"serving", "closing"}
          /\ life' = [life EXCEPT ![b] = "closing"]
          /\ \/ /\ acked' = [acked EXCEPT ![c] = b]
                /\ Goto(c, "poll")
             \/ /\ Goto(c, "probe")
                /\ UNCHANGED acked
     \/ /\ Goto(c, "probe")
        /\ UNCHANGED <<life, acked>>
  /\ UNCHANGED <<locks, files, CloserVars, result, addr, holes>>

(* probe_session_bridge: a refused, reset or dropped connection is not our *)
(* bridge; an answer or a timeout leaves the question to the death poll.   *)
Probe(c) ==
  /\ pc[c] = "probe"
  /\ \/ /\ \A b \in Reached(addr[c]) : life[b] = "closing"
        /\ Goto(c, "foreign")
     \/ /\ Reached(addr[c]) # {}
        /\ Goto(c, "poll")
  /\ UNCHANGED <<locks, files, life, CloserVars, result, addr, acked, holes>>

(* A bridge of the name works, or is about to: spawned, in setup, serving. *)
AtWork == {"spawned", "setup", "serving"}

InUse(n) ==
  \E s \in Starter : name[s] = n /\ (life[s] \in AtWork \/ pc[s] = "spawn")

(* A closer deletes a directory in use; worse, one that holds another      *)
(* session than the one it read and closed.                                *)
Deleted(c) ==
  LET n == name[c] IN
  holes \cup (IF InUse(n) THEN {"unclosed"} ELSE {})
        \cup (IF addr[c] # NoOne /\ HasSession(n) /\ life[sess[n]] = "serving"
              THEN {"lost"} ELSE {})

(* remove_dir_after_foreign_probe: the path, whatever it holds by now.     *)
RemoveForeign(c) ==
  /\ pc[c] = "foreign"
  /\ \/ /\ name[c] \in dirs
        /\ RemoveDir(name[c])
        /\ holes' = Deleted(c)
        /\ result' = [result EXCEPT ![c] = "unconfirmed"]
        /\ Goto(c, "done")
     \/ name[c] \notin dirs /\ CloseFails(c) /\ UNCHANGED <<files, holes>>
  /\ UNCHANGED <<locks, life, CloserVars, addr, acked>>

(* Mutant: the listener is not waited for.                                 *)
PollNothing(c) ==
  /\ pc[c] = "poll"
  /\ Goto(c, "final")
  /\ UNCHANGED <<locks, files, life, CloserVars, result, addr, acked, holes>>

(* Mutant: the poll has no deadline.                                       *)
PollForever(c) ==
  /\ pc[c] = "poll"
  /\ Reached(addr[c]) = {}
  /\ Goto(c, "final")
  /\ UNCHANGED <<locks, files, life, CloserVars, result, addr, acked, holes>>

(* The 15 s poll for the listener's end.                                   *)
PollDead(c) ==
  /\ pc[c] = "poll"
  /\ \/ Reached(addr[c]) = {} /\ Goto(c, "final") /\ UNCHANGED result
     \/ Reached(addr[c]) # {} /\ CloseFails(c)
  /\ UNCHANGED <<locks, files, life, CloserVars, addr, acked, holes>>

(* remove_unpublished_dir: the last checks, then the deletion.             *)
FinalCheck(c) ==
  /\ pc[c] = "final"
  /\ LET n == name[c] IN
       IF \/ n \notin dirs
          \/ ~HasSession(n) /\ lock[n] # NoOne
          \/ addr[c] = NoOne /\ HasSession(n)
       THEN CloseFails(c)
       ELSE Goto(c, "delete") /\ UNCHANGED result
  /\ UNCHANGED <<locks, files, life, CloserVars, addr, acked, holes>>

Delete(c) ==
  /\ pc[c] = "delete"
  /\ \/ /\ name[c] \in dirs
        /\ RemoveDir(name[c])
        /\ holes' = Deleted(c)
        /\ result' = [result EXCEPT
             ![c] = IF acked[c] # NoOne THEN "confirmed" ELSE "unconfirmed"]
        /\ Goto(c, "done")
     \/ name[c] \notin dirs /\ CloseFails(c) /\ UNCHANGED <<files, holes>>
  /\ UNCHANGED <<locks, life, CloserVars, addr, acked>>

-----------------------------------------------------------------------------
Start(s) ==
  \/ CheckExists(s) \/ ClearDir(s) \/ CreateDir(s) \/ SpawnBridge(s)
  \/ PollError(s) \/ PollSession(s) \/ PollChild(s) \/ Deadline(s)
  \/ Forward(s) \/ Settle(s) \/ Reap(s) \/ RemoveFailed(s) \/ ReleaseLock(s)

Close(c) ==
  \/ ReadSession(c) \/ RequestClose(c) \/ Probe(c) \/ RemoveForeign(c)
  \/ PollDead(c) \/ FinalCheck(c) \/ Delete(c)

Bridge(b) ==
  \/ ClaimDir(b) \/ Publish(b) \/ ReportError(b) \/ Republish(b)
  \/ Abandon(b) \/ Teardown(b) \/ BridgeDies(b)

Next ==
  \/ \E s \in Starter : Acquire(s) \/ Start(s) \/ Kill(s) \/ Bridge(s)
  \/ \E c \in Closer : CloseGate(c) \/ Close(c)
  \/ \E n \in Name : GrowOld(n)

Spec == Init /\ [][Next]_vars

(* Running processes run.  Every wait of a CLI process has a deadline, and *)
(* a bridge looks at owner.json between the events it waits for.           *)
Fairness ==
  /\ \A s \in Starter :
       /\ WF_vars(Start(s)) /\ SF_vars(Deadline(s))
       /\ WF_vars(Abandon(s)) /\ WF_vars(Teardown(s)) /\ WF_vars(ReportError(s))
  /\ \A c \in Closer : WF_vars(Close(c))

FairSpec == Spec /\ Fairness

-----------------------------------------------------------------------------
StarterPC == {"idle", "check", "clear", "create", "spawn", "pollError",
              "pollSession", "pollChild", "forward", "settle", "reap",
              "remove", "release"}
CloserPC  == {"idle", "read", "request", "probe", "foreign", "poll", "final",
              "delete"}

(* The variables have their types.                                         *)
TypeOK ==
  /\ lock  \in [Name -> Starter \cup {NoOne}]
  /\ oldLocks \subseteq {n \in Name : lock[n] # NoOne}
  /\ dirs  \subseteq Name
  /\ owner \in [Name -> Starter \cup {NoOne}]
  /\ sess  \in [Name -> Starter \cup {NoOne}]
  /\ err   \in [Name -> Starter \cup {NoOne}]
  /\ life  \in [Starter -> Running \cup {"none", "dead"}]
  /\ port  \in [Starter -> Port \cup {NoOne}]
  /\ pc    \in [Process -> StarterPC \cup CloserPC \cup Ended]
  /\ name  \in [Process -> Name \cup {NoOne}]
  /\ result \in [Process -> {"none", "ok", "failed", "confirmed", "unconfirmed"}]
  /\ answered \in [Starter -> Starter \cup {NoOne}]
  /\ addr  \in [Closer -> Starter \cup {NoOne}]
  /\ acked \in [Closer -> Starter \cup {NoOne}]
  /\ holes \subseteq {"stolen", "orphan", "unclosed", "lost", "reused"}

(* A start that reports failure leaves nothing: its bridge is dead and no  *)
(* file of that bridge is in the sessions root, whatever else happened.    *)
FailedStartLeavesNothing ==
  \A s \in Starter :
    pc[s] = "done" /\ result[s] = "failed" =>
      /\ life[s] \in {"none", "dead"}
      /\ \A n \in Name : s \notin {owner[n], sess[n], err[n]}

(* A start that reports success was answered by the bridge it spawned,     *)
(* although it only knows a path and a port.                               *)
AnsweredByOwnBridge ==
  holes = {} => \A s \in Starter : answered[s] \in {s, NoOne}

(* One name never has two bridges at work, however many starts and closes  *)
(* of the name overlap.                                                    *)
OneBridgePerName ==
  holes = {} =>
    \A b, c \in Starter :
      /\ {life[b], life[c]} \subseteq AtWork
      /\ name[b] = name[c]
      => b = c

(* A confirmed close means that the bridge that acknowledged is gone, and  *)
(* that it was a bridge of the closed name.                                *)
ConfirmedCloseIsDead ==
  \A c \in Closer :
    result[c] = "confirmed" =>
      /\ life[acked[c]] = "dead"
      /\ "reused" \notin holes => name[acked[c]] = name[c]

(* A starter never deletes the session of a serving bridge, except its own *)
(* after a failed start: neither when it clears the way nor when it cleans *)
(* up.                                                                     *)
StartSparesLiveSessions ==
  [][\A s \in Starter, n \in Name :
       /\ pc[s] \in {"clear", "remove"} /\ pc'[s] # pc[s]
       /\ n \in dirs \ dirs' /\ holes' = {}
       => sess[n] \in {s, NoOne} \/ life[sess[n]] # "serving"]_vars

(* "A valid session is never deleted on uncertainty" (close_in): a close   *)
(* that read a session deletes no session of a bridge that serves, when no *)
(* other crack is open.                                                    *)
CloseSparesLiveSessions ==
  holes \cap {"stolen", "orphan", "reused"} = {} => "lost" \notin holes

(* "Only a provably stale lock is stolen -- never a live starter's".       *)
LiveStarterKeepsItsLock == "stolen" \notin holes

(* No signal or kill by port: a close ends no bridge of another name.      *)
CloseEndsItsOwnName ==
  \A c \in Closer : acked[c] # NoOne => name[acked[c]] = name[c]

(* A bridge whose directory was removed or respawned ends, even when       *)
(* nobody ever talks to it again.                                          *)
AbandonedBridgeEnds ==
  \A b \in Starter :
    (life[b] = "serving" /\ ~AmOwner(b)) ~> (life[b] = "dead")

(* Every start and every close returns.                                    *)
StartsEnd == \A s \in Starter : (pc[s] = "check") ~> (pc[s] \in Ended)
ClosesEnd == \A c \in Closer : (pc[c] = "read") ~> (pc[c] \in Ended)
=============================================================================
