----------------------- MODULE SessionLifecycleProofs -----------------------
(***************************************************************************)
(* What a failed start and a confirmed close promise, for any number of    *)
(* starters, closers, names and ports, and with locks stolen from live     *)
(* starters, orphaned bridges and deleted directories all allowed.         *)
(***************************************************************************)
EXTENDS SessionLifecycle, TLAPS

(* Every process at work has a name, and a bridge its starter.             *)
Named ==
  /\ \A p \in Process : pc[p] # "idle" => name[p] \in Name
  /\ \A s \in Starter : life[s] # "none" => pc[s] # "idle"

Typed == TypeOK /\ Named

(* A starter that has not spawned has no bridge, one that is about to      *)
(* remove its directory a dead one, one that failed nothing at all; and    *)
(* the files of a bridge are all under its own name.                       *)
BeforeSpawn == {"idle", "check", "clear", "create", "spawn"}

Wrote(s, n) == s \in {owner[n], sess[n], err[n]}

Clean(s) ==
  /\ life[s] \in {"none", "dead"}
  /\ \A n \in Name : ~Wrote(s, n)

StartInv ==
  /\ \A s \in Starter, n \in Name : Wrote(s, n) => name[s] = n /\ life[s] # "none"
  /\ \A s \in Starter : pc[s] \in BeforeSpawn => life[s] = "none"
  /\ \A s \in Starter : pc[s] = "remove" => life[s] \in {"none", "dead"}
  /\ \A s \in Starter :
       pc[s] \in {"release", "done"} /\ result[s] = "failed" => Clean(s)

-----------------------------------------------------------------------------
LEMMA InitTyped == Init => Typed
BY SessionLifecycleAssumption
   DEF Init, Typed, TypeOK, Named, Process, StarterPC, CloserPC, Ended, Running

Holes == {"stolen", "orphan", "unclosed", "lost", "reused"}

LEMMA HolesTyped ==
  ASSUME holes \subseteq Holes
  PROVE  /\ \A s \in Starter : Acquire(s) => holes' \subseteq Holes
         /\ \A c \in Closer : CloseGate(c) => holes' \subseteq Holes
         /\ \A c \in Closer : RemoveForeign(c) => holes' \subseteq Holes
         /\ \A c \in Closer : Delete(c) => holes' \subseteq Holes
<1> USE DEF Holes
<1>1. ASSUME NEW s \in Starter, Acquire(s) PROVE holes' \subseteq Holes
  BY <1>1 DEF Acquire, Stolen
<1>2. ASSUME NEW c \in Closer, CloseGate(c) PROVE holes' \subseteq Holes
  BY <1>2 DEF CloseGate, Stolen
<1>3. ASSUME NEW c \in Closer, RemoveForeign(c) PROVE holes' \subseteq Holes
  BY <1>3 DEF RemoveForeign, Deleted
<1>4. ASSUME NEW c \in Closer, Delete(c) PROVE holes' \subseteq Holes
  BY <1>4 DEF Delete, Deleted
<1> QED
  BY <1>1, <1>2, <1>3, <1>4

(* The variables keep their types.                                         *)
LEMMA TypeStep == Typed /\ [Next]_vars => Typed'
<1> SUFFICES ASSUME Typed, [Next]_vars PROVE Typed'
  OBVIOUS
<1> USE SessionLifecycleAssumption
    DEF Typed, TypeOK, Named, Process, StarterPC, CloserPC, Ended, Running,
        Goto, RemoveDir, Published, Unlock, CloseFails, files, locks, procs,
        calls, BridgeVars, CloserVars, HasSession
<1>1. ASSUME NEW s \in Starter, Acquire(s) PROVE Typed'
  <2>1. holes \subseteq Holes
    BY DEF Holes
  <2>2. holes' \subseteq Holes
    BY <1>1, <2>1, HolesTyped
  <2> QED
    BY <1>1, <2>2 DEF Acquire, Holes
<1>2. ASSUME NEW s \in Starter, CheckExists(s) PROVE Typed'
  BY <1>2 DEF CheckExists
<1>3. ASSUME NEW s \in Starter, ClearDir(s) PROVE Typed'
  BY <1>3 DEF ClearDir
<1>4. ASSUME NEW s \in Starter, CreateDir(s) PROVE Typed'
  BY <1>4 DEF CreateDir
<1>5. ASSUME NEW s \in Starter, SpawnBridge(s) PROVE Typed'
  BY <1>5 DEF SpawnBridge
<1>6. ASSUME NEW s \in Starter, PollError(s) PROVE Typed'
  BY <1>6 DEF PollError
<1>7. ASSUME NEW s \in Starter, PollSession(s) PROVE Typed'
  BY <1>7 DEF PollSession
<1>8. ASSUME NEW s \in Starter, PollChild(s) PROVE Typed'
  BY <1>8 DEF PollChild
<1>9. ASSUME NEW s \in Starter, Deadline(s) PROVE Typed'
  BY <1>9 DEF Deadline
<1>10. ASSUME NEW s \in Starter, Forward(s) PROVE Typed'
  BY <1>10 DEF Forward, Reached, Listening
<1>11. ASSUME NEW s \in Starter, Settle(s) PROVE Typed'
  BY <1>11 DEF Settle
<1>12. ASSUME NEW s \in Starter, Reap(s) PROVE Typed'
  BY <1>12 DEF Reap
<1>13. ASSUME NEW s \in Starter, RemoveFailed(s) PROVE Typed'
  BY <1>13 DEF RemoveFailed
<1>14. ASSUME NEW s \in Starter, ReleaseLock(s) PROVE Typed'
  BY <1>14 DEF ReleaseLock
<1>15. ASSUME NEW s \in Starter, Kill(s) PROVE Typed'
  BY <1>15 DEF Kill
<1>16. ASSUME NEW b \in Starter, ClaimDir(b) PROVE Typed'
  BY <1>16 DEF ClaimDir, Listening, Alive
<1>17. ASSUME NEW b \in Starter, Publish(b) PROVE Typed'
  BY <1>17 DEF Publish
<1>18. ASSUME NEW b \in Starter, ReportError(b) PROVE Typed'
  BY <1>18 DEF ReportError
<1>19. ASSUME NEW b \in Starter, Republish(b) PROVE Typed'
  BY <1>19 DEF Republish
<1>20. ASSUME NEW b \in Starter, Abandon(b) PROVE Typed'
  BY <1>20 DEF Abandon
<1>21. ASSUME NEW b \in Starter, Teardown(b) PROVE Typed'
  BY <1>21 DEF Teardown
<1>22. ASSUME NEW b \in Starter, BridgeDies(b) PROVE Typed'
  BY <1>22 DEF BridgeDies, Alive
<1>23. ASSUME NEW c \in Closer, CloseGate(c) PROVE Typed'
  <2>1. holes \subseteq Holes
    BY DEF Holes
  <2>2. holes' \subseteq Holes
    BY <1>23, <2>1, HolesTyped
  <2> QED
    BY <1>23, <2>2 DEF CloseGate, Holes
<1>24. ASSUME NEW c \in Closer, ReadSession(c) PROVE Typed'
  BY <1>24 DEF ReadSession
<1>25. ASSUME NEW c \in Closer, RequestClose(c) PROVE Typed'
  BY <1>25 DEF RequestClose, Reached, Listening
<1>26. ASSUME NEW c \in Closer, Probe(c) PROVE Typed'
  BY <1>26 DEF Probe
<1>27. ASSUME NEW c \in Closer, RemoveForeign(c) PROVE Typed'
  <2>1. holes \subseteq Holes
    BY DEF Holes
  <2>2. holes' \subseteq Holes
    BY <1>27, <2>1, HolesTyped
  <2> QED
    BY <1>27, <2>2 DEF RemoveForeign, Holes
<1>28. ASSUME NEW c \in Closer, PollDead(c) PROVE Typed'
  BY <1>28 DEF PollDead
<1>29. ASSUME NEW c \in Closer, FinalCheck(c) PROVE Typed'
  BY <1>29 DEF FinalCheck
<1>30. ASSUME NEW c \in Closer, Delete(c) PROVE Typed'
  <2>1. holes \subseteq Holes
    BY DEF Holes
  <2>2. holes' \subseteq Holes
    BY <1>30, <2>1, HolesTyped
  <2> QED
    BY <1>30, <2>2 DEF Delete, Holes
<1>31. ASSUME NEW n \in Name, GrowOld(n) PROVE Typed'
  BY <1>31 DEF GrowOld, HolderRuns
<1>32. ASSUME UNCHANGED vars PROVE Typed'
  BY <1>32 DEF vars
<1> QED
  BY <1>1, <1>2, <1>3, <1>4, <1>5, <1>6, <1>7, <1>8, <1>9, <1>10, <1>11,
     <1>12, <1>13, <1>14, <1>15, <1>16, <1>17, <1>18, <1>19, <1>20, <1>21,
     <1>22, <1>23, <1>24, <1>25, <1>26, <1>27, <1>28, <1>29, <1>30, <1>31,
     <1>32
  DEF Next, Start, Close, Bridge

(* The variables have their types, for any number of processes.            *)
THEOREM TypeCorrect == Spec => []TypeOK
<1>1. Typed => TypeOK
  BY DEF Typed
<1> QED
  BY InitTyped, TypeStep, <1>1, PTL DEF Spec

-----------------------------------------------------------------------------
LEMMA InitStart == Init => StartInv
BY SessionLifecycleAssumption
   DEF Init, StartInv, Wrote, Clean, BeforeSpawn, Process

LEMMA StartStep == Typed /\ StartInv /\ [Next]_vars => StartInv'
<1> SUFFICES ASSUME Typed, StartInv, [Next]_vars PROVE StartInv'
  OBVIOUS
<1> USE SessionLifecycleAssumption
    DEF Typed, TypeOK, Named, StartInv, Wrote, Clean, BeforeSpawn, Process,
        Ended, Running, Goto, RemoveDir, Published, Unlock, CloseFails, files,
        locks, procs, calls, BridgeVars, CloserVars, HasSession
<1>1. ASSUME NEW s \in Starter, Acquire(s) PROVE StartInv'
  BY <1>1 DEF Acquire
<1>2. ASSUME NEW s \in Starter, CheckExists(s) PROVE StartInv'
  BY <1>2 DEF CheckExists
<1>3. ASSUME NEW s \in Starter, ClearDir(s) PROVE StartInv'
  BY <1>3 DEF ClearDir
<1>4. ASSUME NEW s \in Starter, CreateDir(s) PROVE StartInv'
  BY <1>4 DEF CreateDir
<1>5. ASSUME NEW s \in Starter, SpawnBridge(s) PROVE StartInv'
  BY <1>5 DEF SpawnBridge
<1>6. ASSUME NEW s \in Starter, PollError(s) PROVE StartInv'
  BY <1>6 DEF PollError
<1>7. ASSUME NEW s \in Starter, PollSession(s) PROVE StartInv'
  BY <1>7 DEF PollSession
<1>8. ASSUME NEW s \in Starter, PollChild(s) PROVE StartInv'
  BY <1>8 DEF PollChild
<1>9. ASSUME NEW s \in Starter, Deadline(s) PROVE StartInv'
  BY <1>9 DEF Deadline
<1>10. ASSUME NEW s \in Starter, Forward(s) PROVE StartInv'
  BY <1>10 DEF Forward
<1>11. ASSUME NEW s \in Starter, Settle(s) PROVE StartInv'
  BY <1>11 DEF Settle
<1>12. ASSUME NEW s \in Starter, Reap(s) PROVE StartInv'
  BY <1>12 DEF Reap
<1>13. ASSUME NEW s \in Starter, RemoveFailed(s) PROVE StartInv'
  BY <1>13 DEF RemoveFailed
<1>14. ASSUME NEW s \in Starter, ReleaseLock(s) PROVE StartInv'
  BY <1>14 DEF ReleaseLock
<1>15. ASSUME NEW s \in Starter, Kill(s) PROVE StartInv'
  BY <1>15 DEF Kill
<1>16. ASSUME NEW b \in Starter, ClaimDir(b) PROVE StartInv'
  BY <1>16 DEF ClaimDir
<1>17. ASSUME NEW b \in Starter, Publish(b) PROVE StartInv'
  BY <1>17 DEF Publish
<1>18. ASSUME NEW b \in Starter, ReportError(b) PROVE StartInv'
  BY <1>18 DEF ReportError
<1>19. ASSUME NEW b \in Starter, Republish(b) PROVE StartInv'
  BY <1>19 DEF Republish
<1>20. ASSUME NEW b \in Starter, Abandon(b) PROVE StartInv'
  BY <1>20 DEF Abandon
<1>21. ASSUME NEW b \in Starter, Teardown(b) PROVE StartInv'
  BY <1>21 DEF Teardown
<1>22. ASSUME NEW b \in Starter, BridgeDies(b) PROVE StartInv'
  BY <1>22 DEF BridgeDies, Alive
<1>23. ASSUME NEW c \in Closer, CloseGate(c) PROVE StartInv'
  BY <1>23 DEF CloseGate
<1>24. ASSUME NEW c \in Closer, ReadSession(c) PROVE StartInv'
  BY <1>24 DEF ReadSession
<1>25. ASSUME NEW c \in Closer, RequestClose(c) PROVE StartInv'
  BY <1>25 DEF RequestClose
<1>26. ASSUME NEW c \in Closer, Probe(c) PROVE StartInv'
  BY <1>26 DEF Probe
<1>27. ASSUME NEW c \in Closer, RemoveForeign(c) PROVE StartInv'
  BY <1>27 DEF RemoveForeign
<1>28. ASSUME NEW c \in Closer, PollDead(c) PROVE StartInv'
  BY <1>28 DEF PollDead
<1>29. ASSUME NEW c \in Closer, FinalCheck(c) PROVE StartInv'
  BY <1>29 DEF FinalCheck
<1>30. ASSUME NEW c \in Closer, Delete(c) PROVE StartInv'
  BY <1>30 DEF Delete
<1>31. ASSUME NEW n \in Name, GrowOld(n) PROVE StartInv'
  BY <1>31 DEF GrowOld, HolderRuns
<1>32. ASSUME UNCHANGED vars PROVE StartInv'
  BY <1>32 DEF vars
<1> QED
  BY <1>1, <1>2, <1>3, <1>4, <1>5, <1>6, <1>7, <1>8, <1>9, <1>10, <1>11,
     <1>12, <1>13, <1>14, <1>15, <1>16, <1>17, <1>18, <1>19, <1>20, <1>21,
     <1>22, <1>23, <1>24, <1>25, <1>26, <1>27, <1>28, <1>29, <1>30, <1>31,
     <1>32
  DEF Next, Start, Close, Bridge

(* A failed start leaves nothing: its bridge is dead and no file of it is  *)
(* left, whoever else steals its lock, clears its directory or closes it.  *)
THEOREM FailedStart == Spec => []FailedStartLeavesNothing
<1>1. StartInv => FailedStartLeavesNothing
  BY DEF StartInv, FailedStartLeavesNothing, Clean, Wrote
<1> QED
  BY InitTyped, TypeStep, InitStart, StartStep, <1>1, PTL DEF Spec

-----------------------------------------------------------------------------
(* A bound bridge has a port of its own while it lives, and so has every   *)
(* bridge that a session.json or a closer names.  An acknowledged closer   *)
(* waits for the end of the bridge that acknowledged.                      *)
Bound == {"setup", "serving", "failing", "closing"}

Cited(b) == (\E n \in Name : sess[n] = b) \/ (\E c \in Closer : addr[c] = b)

PortInv ==
  /\ \A b \in Starter : life[b] \in Bound => port[b] \in Port
  /\ \A b \in Starter : life[b] \in {"none", "spawned"} => port[b] = NoOne
  /\ \A a, b \in Starter :
       life[a] \in Bound /\ life[b] \in Bound /\ port[a] = port[b] => a = b
  /\ \A b \in Starter : Cited(b) => port[b] \in Port
  /\ \A c \in Closer :
       addr[c] # NoOne => pc[c] \notin {"idle", "read"} /\ name[addr[c]] = name[c]
  /\ \A c \in Closer : pc[c] = "request" => addr[c] # NoOne

AckInv ==
  \A c \in Closer :
    /\ result[c] = "confirmed" => acked[c] # NoOne /\ pc[c] = "done"
    /\ acked[c] # NoOne =>
         /\ addr[c] # NoOne
         /\ port[acked[c]] = port[addr[c]]
         /\ life[acked[c]] \in {"closing", "dead"}
         /\ pc[c] \in {"poll", "final", "delete", "done"}
         /\ pc[c] \in {"final", "delete"} \/ result[c] = "confirmed"
              => life[acked[c]] = "dead"

(* A port cited is not another living bridge's, until one is reused.       *)
ReuseInv ==
  "reused" \notin holes =>
    /\ \A a, b \in Starter :
         Cited(a) /\ life[b] \in Bound /\ port[a] = port[b] => a = b
    /\ \A c \in Closer : acked[c] # NoOne => name[acked[c]] = name[c]

CloseInv == PortInv /\ AckInv /\ ReuseInv

LEMMA InitClose == Init => CloseInv
BY SessionLifecycleAssumption
   DEF Init, CloseInv, PortInv, AckInv, ReuseInv, Bound, Cited, Process

LEMMA PortStep == Typed /\ StartInv /\ PortInv /\ [Next]_vars => PortInv'
<1> SUFFICES ASSUME Typed, StartInv, PortInv, [Next]_vars PROVE PortInv'
  OBVIOUS
<1> USE SessionLifecycleAssumption
    DEF Typed, TypeOK, Named, StartInv, Wrote, CloseInv, PortInv, AckInv,
        ReuseInv, Bound, Cited, Process, Ended, Running, Goto, RemoveDir,
        Published, Unlock, CloseFails, files, locks, procs, calls, BridgeVars,
        CloserVars, HasSession
<1>1. ASSUME NEW s \in Starter, Acquire(s) PROVE PortInv'
  BY <1>1 DEF Acquire, Stolen
<1>2. ASSUME NEW s \in Starter, CheckExists(s) PROVE PortInv'
  BY <1>2 DEF CheckExists
<1>3. ASSUME NEW s \in Starter, ClearDir(s) PROVE PortInv'
  BY <1>3 DEF ClearDir
<1>4. ASSUME NEW s \in Starter, CreateDir(s) PROVE PortInv'
  BY <1>4 DEF CreateDir
<1>5. ASSUME NEW s \in Starter, SpawnBridge(s) PROVE PortInv'
  BY <1>5 DEF SpawnBridge, BeforeSpawn
<1>6. ASSUME NEW s \in Starter, PollError(s) PROVE PortInv'
  BY <1>6 DEF PollError
<1>7. ASSUME NEW s \in Starter, PollSession(s) PROVE PortInv'
  BY <1>7 DEF PollSession
<1>8. ASSUME NEW s \in Starter, PollChild(s) PROVE PortInv'
  BY <1>8 DEF PollChild
<1>9. ASSUME NEW s \in Starter, Deadline(s) PROVE PortInv'
  BY <1>9 DEF Deadline
<1>10. ASSUME NEW s \in Starter, Forward(s) PROVE PortInv'
  BY <1>10 DEF Forward
<1>11. ASSUME NEW s \in Starter, Settle(s) PROVE PortInv'
  BY <1>11 DEF Settle
<1>12. ASSUME NEW s \in Starter, Reap(s) PROVE PortInv'
  BY <1>12 DEF Reap
<1>13. ASSUME NEW s \in Starter, RemoveFailed(s) PROVE PortInv'
  BY <1>13 DEF RemoveFailed
<1>14. ASSUME NEW s \in Starter, ReleaseLock(s) PROVE PortInv'
  BY <1>14 DEF ReleaseLock
<1>15. ASSUME NEW s \in Starter, Kill(s) PROVE PortInv'
  BY <1>15 DEF Kill
<1>16. ASSUME NEW b \in Starter, ClaimDir(b) PROVE PortInv'
  BY <1>16 DEF ClaimDir, Listening, Alive, StalePorts
<1>17. ASSUME NEW b \in Starter, Publish(b) PROVE PortInv'
  BY <1>17 DEF Publish
<1>18. ASSUME NEW b \in Starter, ReportError(b) PROVE PortInv'
  BY <1>18 DEF ReportError
<1>19. ASSUME NEW b \in Starter, Republish(b) PROVE PortInv'
  BY <1>19 DEF Republish
<1>20. ASSUME NEW b \in Starter, Abandon(b) PROVE PortInv'
  BY <1>20 DEF Abandon
<1>21. ASSUME NEW b \in Starter, Teardown(b) PROVE PortInv'
  BY <1>21 DEF Teardown
<1>22. ASSUME NEW b \in Starter, BridgeDies(b) PROVE PortInv'
  BY <1>22 DEF BridgeDies, Alive
<1>23. ASSUME NEW c \in Closer, CloseGate(c) PROVE PortInv'
  BY <1>23 DEF CloseGate, Stolen
<1>24. ASSUME NEW c \in Closer, ReadSession(c) PROVE PortInv'
  BY <1>24 DEF ReadSession
<1>25. ASSUME NEW c \in Closer, RequestClose(c) PROVE PortInv'
  <2>1. UNCHANGED <<sess, addr, port, name>>
    BY <1>25 DEF RequestClose
  <2>2. pc[c] = "request" /\ \E l \in {"poll", "probe"} : pc' = [pc EXCEPT ![c] = l]
    BY <1>25 DEF RequestClose
  <2>3. ASSUME NEW b \in Starter
        PROVE  life'[b] = life[b] \/ (life[b] \in {"serving", "closing"} /\ life'[b] = "closing")
    BY <1>25 DEF RequestClose
  <2> QED
    BY <2>1, <2>2, <2>3
<1>26. ASSUME NEW c \in Closer, Probe(c) PROVE PortInv'
  BY <1>26 DEF Probe
<1>27. ASSUME NEW c \in Closer, RemoveForeign(c) PROVE PortInv'
  BY <1>27 DEF RemoveForeign, Deleted
<1>28. ASSUME NEW c \in Closer, PollDead(c) PROVE PortInv'
  BY <1>28 DEF PollDead, Reached, Listening, Alive
<1>29. ASSUME NEW c \in Closer, FinalCheck(c) PROVE PortInv'
  BY <1>29 DEF FinalCheck
<1>30. ASSUME NEW c \in Closer, Delete(c) PROVE PortInv'
  BY <1>30 DEF Delete, Deleted
<1>31. ASSUME NEW n \in Name, GrowOld(n) PROVE PortInv'
  BY <1>31 DEF GrowOld, HolderRuns
<1>32. ASSUME UNCHANGED vars PROVE PortInv'
  BY <1>32 DEF vars
<1> QED
  BY <1>1, <1>2, <1>3, <1>4, <1>5, <1>6, <1>7, <1>8, <1>9, <1>10, <1>11,
     <1>12, <1>13, <1>14, <1>15, <1>16, <1>17, <1>18, <1>19, <1>20, <1>21,
     <1>22, <1>23, <1>24, <1>25, <1>26, <1>27, <1>28, <1>29, <1>30, <1>31,
     <1>32
  DEF Next, Start, Close, Bridge

LEMMA AckStep == Typed /\ StartInv /\ CloseInv /\ [Next]_vars => AckInv'
<1> SUFFICES ASSUME Typed, StartInv, CloseInv, [Next]_vars PROVE AckInv'
  OBVIOUS
<1> USE SessionLifecycleAssumption
    DEF Typed, TypeOK, Named, StartInv, Wrote, CloseInv, PortInv, AckInv,
        ReuseInv, Bound, Cited, Process, Ended, Running, Goto, RemoveDir,
        Published, Unlock, CloseFails, files, locks, procs, calls, BridgeVars,
        CloserVars, HasSession
<1>1. ASSUME NEW s \in Starter, Acquire(s) PROVE AckInv'
  BY <1>1 DEF Acquire, Stolen
<1>2. ASSUME NEW s \in Starter, CheckExists(s) PROVE AckInv'
  BY <1>2 DEF CheckExists
<1>3. ASSUME NEW s \in Starter, ClearDir(s) PROVE AckInv'
  BY <1>3 DEF ClearDir
<1>4. ASSUME NEW s \in Starter, CreateDir(s) PROVE AckInv'
  BY <1>4 DEF CreateDir
<1>5. ASSUME NEW s \in Starter, SpawnBridge(s) PROVE AckInv'
  BY <1>5 DEF SpawnBridge, BeforeSpawn
<1>6. ASSUME NEW s \in Starter, PollError(s) PROVE AckInv'
  BY <1>6 DEF PollError
<1>7. ASSUME NEW s \in Starter, PollSession(s) PROVE AckInv'
  BY <1>7 DEF PollSession
<1>8. ASSUME NEW s \in Starter, PollChild(s) PROVE AckInv'
  BY <1>8 DEF PollChild
<1>9. ASSUME NEW s \in Starter, Deadline(s) PROVE AckInv'
  BY <1>9 DEF Deadline
<1>10. ASSUME NEW s \in Starter, Forward(s) PROVE AckInv'
  BY <1>10 DEF Forward
<1>11. ASSUME NEW s \in Starter, Settle(s) PROVE AckInv'
  BY <1>11 DEF Settle
<1>12. ASSUME NEW s \in Starter, Reap(s) PROVE AckInv'
  BY <1>12 DEF Reap
<1>13. ASSUME NEW s \in Starter, RemoveFailed(s) PROVE AckInv'
  BY <1>13 DEF RemoveFailed
<1>14. ASSUME NEW s \in Starter, ReleaseLock(s) PROVE AckInv'
  BY <1>14 DEF ReleaseLock
<1>15. ASSUME NEW s \in Starter, Kill(s) PROVE AckInv'
  BY <1>15 DEF Kill
<1>16. ASSUME NEW b \in Starter, ClaimDir(b) PROVE AckInv'
  BY <1>16 DEF ClaimDir, Listening, Alive, StalePorts
<1>17. ASSUME NEW b \in Starter, Publish(b) PROVE AckInv'
  BY <1>17 DEF Publish
<1>18. ASSUME NEW b \in Starter, ReportError(b) PROVE AckInv'
  BY <1>18 DEF ReportError
<1>19. ASSUME NEW b \in Starter, Republish(b) PROVE AckInv'
  BY <1>19 DEF Republish
<1>20. ASSUME NEW b \in Starter, Abandon(b) PROVE AckInv'
  BY <1>20 DEF Abandon
<1>21. ASSUME NEW b \in Starter, Teardown(b) PROVE AckInv'
  BY <1>21 DEF Teardown
<1>22. ASSUME NEW b \in Starter, BridgeDies(b) PROVE AckInv'
  BY <1>22 DEF BridgeDies, Alive
<1>23. ASSUME NEW c \in Closer, CloseGate(c) PROVE AckInv'
  BY <1>23 DEF CloseGate, Stolen
<1>24. ASSUME NEW c \in Closer, ReadSession(c) PROVE AckInv'
  BY <1>24 DEF ReadSession
<1>25. ASSUME NEW c \in Closer, RequestClose(c) PROVE AckInv'
  <2>1. addr[c] \in Starter /\ acked[c] = NoOne
    BY <1>25 DEF RequestClose
  <2>2. ASSUME NEW b \in Reached(addr[c]),
               life[b] \in {"serving", "closing"},
               life' = [life EXCEPT ![b] = "closing"],
               acked' = [acked EXCEPT ![c] = b], pc' = [pc EXCEPT ![c] = "poll"]
        PROVE  AckInv'
    BY <1>25, <2>1, <2>2 DEF RequestClose, Reached, Listening, Alive
  <2>3. ASSUME NEW b \in Reached(addr[c]),
               life[b] \in {"serving", "closing"},
               life' = [life EXCEPT ![b] = "closing"],
               UNCHANGED acked, pc' = [pc EXCEPT ![c] = "probe"]
        PROVE  AckInv'
    BY <1>25, <2>1, <2>3 DEF RequestClose, Reached, Listening, Alive
  <2>4. ASSUME UNCHANGED <<life, acked>>, pc' = [pc EXCEPT ![c] = "probe"]
        PROVE  AckInv'
    BY <1>25, <2>1, <2>4 DEF RequestClose
  <2> QED
    BY <1>25, <2>2, <2>3, <2>4 DEF RequestClose
<1>26. ASSUME NEW c \in Closer, Probe(c) PROVE AckInv'
  BY <1>26 DEF Probe
<1>27. ASSUME NEW c \in Closer, RemoveForeign(c) PROVE AckInv'
  BY <1>27 DEF RemoveForeign, Deleted
<1>28. ASSUME NEW c \in Closer, PollDead(c) PROVE AckInv'
  BY <1>28 DEF PollDead, Reached, Listening, Alive
<1>29. ASSUME NEW c \in Closer, FinalCheck(c) PROVE AckInv'
  BY <1>29 DEF FinalCheck
<1>30. ASSUME NEW c \in Closer, Delete(c) PROVE AckInv'
  BY <1>30 DEF Delete, Deleted
<1>31. ASSUME NEW n \in Name, GrowOld(n) PROVE AckInv'
  BY <1>31 DEF GrowOld, HolderRuns
<1>32. ASSUME UNCHANGED vars PROVE AckInv'
  BY <1>32 DEF vars
<1> QED
  BY <1>1, <1>2, <1>3, <1>4, <1>5, <1>6, <1>7, <1>8, <1>9, <1>10, <1>11,
     <1>12, <1>13, <1>14, <1>15, <1>16, <1>17, <1>18, <1>19, <1>20, <1>21,
     <1>22, <1>23, <1>24, <1>25, <1>26, <1>27, <1>28, <1>29, <1>30, <1>31,
     <1>32
  DEF Next, Start, Close, Bridge

LEMMA ReuseStep == Typed /\ StartInv /\ CloseInv /\ [Next]_vars => ReuseInv'
<1> SUFFICES ASSUME Typed, StartInv, CloseInv, [Next]_vars PROVE ReuseInv'
  OBVIOUS
<1> USE SessionLifecycleAssumption
    DEF Typed, TypeOK, Named, StartInv, Wrote, CloseInv, PortInv, AckInv,
        ReuseInv, Bound, Cited, Process, Ended, Running, Goto, RemoveDir,
        Published, Unlock, CloseFails, files, locks, procs, calls, BridgeVars,
        CloserVars, HasSession
<1>1. ASSUME NEW s \in Starter, Acquire(s) PROVE ReuseInv'
  BY <1>1 DEF Acquire, Stolen
<1>2. ASSUME NEW s \in Starter, CheckExists(s) PROVE ReuseInv'
  BY <1>2 DEF CheckExists
<1>3. ASSUME NEW s \in Starter, ClearDir(s) PROVE ReuseInv'
  BY <1>3 DEF ClearDir
<1>4. ASSUME NEW s \in Starter, CreateDir(s) PROVE ReuseInv'
  BY <1>4 DEF CreateDir
<1>5. ASSUME NEW s \in Starter, SpawnBridge(s) PROVE ReuseInv'
  BY <1>5 DEF SpawnBridge, BeforeSpawn
<1>6. ASSUME NEW s \in Starter, PollError(s) PROVE ReuseInv'
  BY <1>6 DEF PollError
<1>7. ASSUME NEW s \in Starter, PollSession(s) PROVE ReuseInv'
  BY <1>7 DEF PollSession
<1>8. ASSUME NEW s \in Starter, PollChild(s) PROVE ReuseInv'
  BY <1>8 DEF PollChild
<1>9. ASSUME NEW s \in Starter, Deadline(s) PROVE ReuseInv'
  BY <1>9 DEF Deadline
<1>10. ASSUME NEW s \in Starter, Forward(s) PROVE ReuseInv'
  BY <1>10 DEF Forward
<1>11. ASSUME NEW s \in Starter, Settle(s) PROVE ReuseInv'
  BY <1>11 DEF Settle
<1>12. ASSUME NEW s \in Starter, Reap(s) PROVE ReuseInv'
  BY <1>12 DEF Reap
<1>13. ASSUME NEW s \in Starter, RemoveFailed(s) PROVE ReuseInv'
  BY <1>13 DEF RemoveFailed
<1>14. ASSUME NEW s \in Starter, ReleaseLock(s) PROVE ReuseInv'
  BY <1>14 DEF ReleaseLock
<1>15. ASSUME NEW s \in Starter, Kill(s) PROVE ReuseInv'
  BY <1>15 DEF Kill
<1>16. ASSUME NEW b \in Starter, ClaimDir(b) PROVE ReuseInv'
  BY <1>16 DEF ClaimDir, Listening, Alive, StalePorts
<1>17. ASSUME NEW b \in Starter, Publish(b) PROVE ReuseInv'
  BY <1>17 DEF Publish
<1>18. ASSUME NEW b \in Starter, ReportError(b) PROVE ReuseInv'
  BY <1>18 DEF ReportError
<1>19. ASSUME NEW b \in Starter, Republish(b) PROVE ReuseInv'
  BY <1>19 DEF Republish
<1>20. ASSUME NEW b \in Starter, Abandon(b) PROVE ReuseInv'
  BY <1>20 DEF Abandon
<1>21. ASSUME NEW b \in Starter, Teardown(b) PROVE ReuseInv'
  BY <1>21 DEF Teardown
<1>22. ASSUME NEW b \in Starter, BridgeDies(b) PROVE ReuseInv'
  BY <1>22 DEF BridgeDies, Alive
<1>23. ASSUME NEW c \in Closer, CloseGate(c) PROVE ReuseInv'
  BY <1>23 DEF CloseGate, Stolen
<1>24. ASSUME NEW c \in Closer, ReadSession(c) PROVE ReuseInv'
  BY <1>24 DEF ReadSession
<1>25. ASSUME NEW c \in Closer, RequestClose(c) PROVE ReuseInv'
  <2>1. addr[c] \in Starter /\ acked[c] = NoOne
    BY <1>25 DEF RequestClose
  <2>2. ASSUME NEW b \in Reached(addr[c]),
               life[b] \in {"serving", "closing"},
               life' = [life EXCEPT ![b] = "closing"],
               acked' = [acked EXCEPT ![c] = b], pc' = [pc EXCEPT ![c] = "poll"]
        PROVE  ReuseInv'
    BY <1>25, <2>1, <2>2 DEF RequestClose, Reached, Listening, Alive
  <2>3. ASSUME NEW b \in Reached(addr[c]),
               life[b] \in {"serving", "closing"},
               life' = [life EXCEPT ![b] = "closing"],
               UNCHANGED acked, pc' = [pc EXCEPT ![c] = "probe"]
        PROVE  ReuseInv'
    BY <1>25, <2>1, <2>3 DEF RequestClose, Reached, Listening, Alive
  <2>4. ASSUME UNCHANGED <<life, acked>>, pc' = [pc EXCEPT ![c] = "probe"]
        PROVE  ReuseInv'
    BY <1>25, <2>1, <2>4 DEF RequestClose
  <2> QED
    BY <1>25, <2>2, <2>3, <2>4 DEF RequestClose
<1>26. ASSUME NEW c \in Closer, Probe(c) PROVE ReuseInv'
  BY <1>26 DEF Probe
<1>27. ASSUME NEW c \in Closer, RemoveForeign(c) PROVE ReuseInv'
  BY <1>27 DEF RemoveForeign, Deleted
<1>28. ASSUME NEW c \in Closer, PollDead(c) PROVE ReuseInv'
  BY <1>28 DEF PollDead, Reached, Listening, Alive
<1>29. ASSUME NEW c \in Closer, FinalCheck(c) PROVE ReuseInv'
  BY <1>29 DEF FinalCheck
<1>30. ASSUME NEW c \in Closer, Delete(c) PROVE ReuseInv'
  BY <1>30 DEF Delete, Deleted
<1>31. ASSUME NEW n \in Name, GrowOld(n) PROVE ReuseInv'
  BY <1>31 DEF GrowOld, HolderRuns
<1>32. ASSUME UNCHANGED vars PROVE ReuseInv'
  BY <1>32 DEF vars
<1> QED
  BY <1>1, <1>2, <1>3, <1>4, <1>5, <1>6, <1>7, <1>8, <1>9, <1>10, <1>11,
     <1>12, <1>13, <1>14, <1>15, <1>16, <1>17, <1>18, <1>19, <1>20, <1>21,
     <1>22, <1>23, <1>24, <1>25, <1>26, <1>27, <1>28, <1>29, <1>30, <1>31,
     <1>32
  DEF Next, Start, Close, Bridge

(* A confirmed close has ended the bridge that acknowledged it, and unless *)
(* a port was reused in between that bridge was of the closed name.        *)
THEOREM ConfirmedClose == Spec => []ConfirmedCloseIsDead
<1>1. Typed /\ CloseInv => ConfirmedCloseIsDead
  BY DEF Typed, TypeOK, CloseInv, AckInv, ReuseInv, ConfirmedCloseIsDead
<1>2. Typed /\ StartInv /\ CloseInv /\ [Next]_vars => CloseInv'
  BY PortStep, AckStep, ReuseStep DEF CloseInv
<1> QED
  BY InitTyped, TypeStep, InitStart, StartStep, InitClose, <1>1, <1>2,
     PTL DEF Spec

-----------------------------------------------------------------------------
(* As long as no crack has opened, the startup lock does what it is for: a *)
(* start at work holds the lock of its name, so it is the only one; past   *)
(* its check no other bridge of the name is at work, because each of them  *)
(* has a start at work or a session that the check would have seen.        *)
Starting == StarterPC \ {"idle"}
Owning   == Starting \ {"check", "release"}

Exclusive ==
  /\ \A s \in Starter : pc[s] \in Starting => lock[name[s]] = s
  /\ \A s, b \in Starter :
       pc[s] \in Owning /\ name[b] = name[s] /\ life[b] \in AtWork => b = s
  /\ \A a, b \in Starter :
       life[a] \in AtWork /\ life[b] \in AtWork /\ name[a] = name[b] => a = b

Visible ==
  /\ \A b \in Starter : life[b] \in {"setup", "serving"} => name[b] \in dirs
  /\ \A b \in Starter : life[b] = "serving" => sess[name[b]] # NoOne
  /\ \A b \in Starter :
       life[b] \in {"spawned", "setup"} => pc[b] \in Owning \/ sess[name[b]] # NoOne
  /\ \A s \in Starter :
       pc[s] \in {"forward", "settle"} /\ life[s] \in AtWork => sess[name[s]] # NoOne

SoleInv == holes = {} => Exclusive /\ Visible

LEMMA InitSole == Init => SoleInv
BY SessionLifecycleAssumption
   DEF Init, SoleInv, Exclusive, Visible, Process, Starting, Owning, AtWork

LEMMA HolesStay == [Next]_vars => holes \subseteq holes'
<1> USE DEF Stolen, Deleted, files, locks, procs, calls, BridgeVars, CloserVars
<1>1. ASSUME NEW s \in Starter, Acquire(s) PROVE holes \subseteq holes'
  BY <1>1 DEF Acquire
<1>2. ASSUME NEW s \in Starter, CheckExists(s) PROVE holes \subseteq holes'
  BY <1>2 DEF CheckExists
<1>3. ASSUME NEW s \in Starter, ClearDir(s) PROVE holes \subseteq holes'
  BY <1>3 DEF ClearDir
<1>4. ASSUME NEW s \in Starter, CreateDir(s) PROVE holes \subseteq holes'
  BY <1>4 DEF CreateDir
<1>5. ASSUME NEW s \in Starter, SpawnBridge(s) PROVE holes \subseteq holes'
  BY <1>5 DEF SpawnBridge
<1>6. ASSUME NEW s \in Starter, PollError(s) PROVE holes \subseteq holes'
  BY <1>6 DEF PollError
<1>7. ASSUME NEW s \in Starter, PollSession(s) PROVE holes \subseteq holes'
  BY <1>7 DEF PollSession
<1>8. ASSUME NEW s \in Starter, PollChild(s) PROVE holes \subseteq holes'
  BY <1>8 DEF PollChild
<1>9. ASSUME NEW s \in Starter, Deadline(s) PROVE holes \subseteq holes'
  BY <1>9 DEF Deadline
<1>10. ASSUME NEW s \in Starter, Forward(s) PROVE holes \subseteq holes'
  BY <1>10 DEF Forward
<1>11. ASSUME NEW s \in Starter, Settle(s) PROVE holes \subseteq holes'
  BY <1>11 DEF Settle
<1>12. ASSUME NEW s \in Starter, Reap(s) PROVE holes \subseteq holes'
  BY <1>12 DEF Reap
<1>13. ASSUME NEW s \in Starter, RemoveFailed(s) PROVE holes \subseteq holes'
  BY <1>13 DEF RemoveFailed
<1>14. ASSUME NEW s \in Starter, ReleaseLock(s) PROVE holes \subseteq holes'
  BY <1>14 DEF ReleaseLock
<1>15. ASSUME NEW s \in Starter, Kill(s) PROVE holes \subseteq holes'
  BY <1>15 DEF Kill
<1>16. ASSUME NEW b \in Starter, ClaimDir(b) PROVE holes \subseteq holes'
  BY <1>16 DEF ClaimDir
<1>17. ASSUME NEW b \in Starter, Publish(b) PROVE holes \subseteq holes'
  BY <1>17 DEF Publish
<1>18. ASSUME NEW b \in Starter, ReportError(b) PROVE holes \subseteq holes'
  BY <1>18 DEF ReportError
<1>19. ASSUME NEW b \in Starter, Republish(b) PROVE holes \subseteq holes'
  BY <1>19 DEF Republish
<1>20. ASSUME NEW b \in Starter, Abandon(b) PROVE holes \subseteq holes'
  BY <1>20 DEF Abandon
<1>21. ASSUME NEW b \in Starter, Teardown(b) PROVE holes \subseteq holes'
  BY <1>21 DEF Teardown
<1>22. ASSUME NEW b \in Starter, BridgeDies(b) PROVE holes \subseteq holes'
  BY <1>22 DEF BridgeDies
<1>23. ASSUME NEW c \in Closer, CloseGate(c) PROVE holes \subseteq holes'
  BY <1>23 DEF CloseGate
<1>24. ASSUME NEW c \in Closer, ReadSession(c) PROVE holes \subseteq holes'
  BY <1>24 DEF ReadSession
<1>25. ASSUME NEW c \in Closer, RequestClose(c) PROVE holes \subseteq holes'
  BY <1>25 DEF RequestClose
<1>26. ASSUME NEW c \in Closer, Probe(c) PROVE holes \subseteq holes'
  BY <1>26 DEF Probe
<1>27. ASSUME NEW c \in Closer, RemoveForeign(c) PROVE holes \subseteq holes'
  BY <1>27 DEF RemoveForeign
<1>28. ASSUME NEW c \in Closer, PollDead(c) PROVE holes \subseteq holes'
  BY <1>28 DEF PollDead
<1>29. ASSUME NEW c \in Closer, FinalCheck(c) PROVE holes \subseteq holes'
  BY <1>29 DEF FinalCheck
<1>30. ASSUME NEW c \in Closer, Delete(c) PROVE holes \subseteq holes'
  BY <1>30 DEF Delete
<1>31. ASSUME NEW n \in Name, GrowOld(n) PROVE holes \subseteq holes'
  BY <1>31 DEF GrowOld
<1>32. ASSUME UNCHANGED vars PROVE holes \subseteq holes'
  BY <1>32 DEF vars
<1> QED
  BY <1>1, <1>2, <1>3, <1>4, <1>5, <1>6, <1>7, <1>8, <1>9, <1>10, <1>11,
     <1>12, <1>13, <1>14, <1>15, <1>16, <1>17, <1>18, <1>19, <1>20, <1>21,
     <1>22, <1>23, <1>24, <1>25, <1>26, <1>27, <1>28, <1>29, <1>30, <1>31,
     <1>32
  DEF Next, Start, Close, Bridge

LEMMA NotStolen ==
  ASSUME Typed, Exclusive, NEW n \in Name, Stolen(n) = {}
  PROVE  \A s \in Starter : pc[s] \in Starting => name[s] # n
<1> SUFFICES ASSUME NEW s \in Starter, pc[s] \in Starting, name[s] = n PROVE FALSE
  OBVIOUS
<1>1. lock[n] = s /\ lock[n] # NoOne /\ pc[s] \notin Ended
  BY SessionLifecycleAssumption
     DEF Exclusive, Starting, StarterPC, Ended, Typed, TypeOK
<1> QED
  BY <1>1 DEF Stolen, HolderRuns

(* A closer's step that kills nothing may take a directory nobody uses.    *)
LEMMA SpareRemoved ==
  ASSUME Typed, Exclusive, Visible, holes' = {}, NEW c \in Closer,
         UNCHANGED <<lock, name, life>>, \A s \in Starter : pc'[s] = pc[s],
         \/ RemoveDir(name[c]) /\ holes' = Deleted(c)
         \/ UNCHANGED <<dirs, sess>>
  PROVE  Exclusive' /\ Visible'
<1>1. Exclusive'
  BY DEF Exclusive
<1>2. CASE UNCHANGED <<dirs, sess>>
  BY <1>1, <1>2 DEF Visible
<1>3. CASE RemoveDir(name[c]) /\ holes' = Deleted(c)
  <2>1. \A s \in Starter : life[s] \in AtWork => name[s] # name[c]
    BY <1>3 DEF Deleted, InUse
  <2>2. \A s \in Starter : life[s] \in AtWork =>
          (name[s] \in dirs => name[s] \in dirs') /\ sess'[name[s]] = sess[name[s]]
    BY <1>3, <2>1 DEF RemoveDir, Typed, TypeOK, Named
  <2>3. {"spawned", "setup", "serving"} \subseteq AtWork
    BY DEF AtWork
  <2> QED
    BY <1>1, <2>2, <2>3 DEF Visible
<1> QED
  BY <1>2, <1>3

LEMMA SoleStep == Typed /\ StartInv /\ SoleInv /\ [Next]_vars => SoleInv'
<1> SUFFICES ASSUME Typed, StartInv, Exclusive, Visible, [Next]_vars, holes' = {}
             PROVE  Exclusive' /\ Visible'
  BY HolesStay DEF SoleInv
<1> USE SessionLifecycleAssumption
    DEF Typed, TypeOK, Named, StartInv, Exclusive, Visible, Process, Ended,
        Running, Starting, Owning, StarterPC, AtWork, BeforeSpawn, Goto,
        RemoveDir, Published, Unlock, CloseFails, files, locks, procs, calls,
        BridgeVars, CloserVars, HasSession
<1>1. ASSUME NEW s \in Starter, Acquire(s) PROVE Exclusive' /\ Visible'
  <2>1. PICK n \in Name :
          /\ name' = [name EXCEPT ![s] = n] /\ pc[s] = "idle"
          /\ \/ /\ lock' = [lock EXCEPT ![n] = s] /\ holes' = Stolen(n)
                /\ pc' = [pc EXCEPT ![s] = "check"]
             \/ lock' = lock /\ pc' = [pc EXCEPT ![s] = "done"]
          /\ UNCHANGED <<dirs, owner, sess, err, life, port>>
    BY <1>1 DEF Acquire
  <2>2. life[s] = "none"
    BY <2>1
  <2>3. CASE pc' = [pc EXCEPT ![s] = "done"] /\ lock' = lock
    BY <2>1, <2>2, <2>3
  <2>4. CASE /\ lock' = [lock EXCEPT ![n] = s] /\ holes' = Stolen(n)
             /\ pc' = [pc EXCEPT ![s] = "check"]
    <3>1. \A r \in Starter : pc[r] \in Starting => name[r] # n
      BY <2>4, NotStolen
    <3>2. Exclusive'
      BY <2>1, <2>2, <2>4, <3>1
    <3>3. Visible'
      BY <2>1, <2>2, <2>4
    <3> QED
      BY <3>2, <3>3
  <2> QED
    BY <2>1, <2>3, <2>4
<1>2. ASSUME NEW s \in Starter, CheckExists(s) PROVE Exclusive' /\ Visible'
  BY <1>2 DEF CheckExists
<1>3. ASSUME NEW s \in Starter, ClearDir(s) PROVE Exclusive' /\ Visible'
  BY <1>3 DEF ClearDir
<1>4. ASSUME NEW s \in Starter, CreateDir(s) PROVE Exclusive' /\ Visible'
  <2>1. /\ pc[s] = "create" /\ dirs \subseteq dirs'
        /\ \/ pc' = [pc EXCEPT ![s] = "release"]
           \/ pc' = [pc EXCEPT ![s] = "spawn"]
        /\ UNCHANGED <<lock, name, sess, life>>
    BY <1>4 DEF CreateDir
  <2>2. /\ life[s] = "none" /\ pc[s] \in Owning /\ pc'[s] \in {"release", "spawn"}
        /\ \A b \in Starter \ {s} : pc'[b] = pc[b]
    BY <2>1
  <2>3. Exclusive'
    BY <2>1, <2>2
  <2>4. Visible'
    BY <2>1, <2>2
  <2> QED
    BY <2>3, <2>4
<1>5. ASSUME NEW s \in Starter, SpawnBridge(s) PROVE Exclusive' /\ Visible'
  <2>1. /\ pc[s] = "spawn" /\ sess' = [sess EXCEPT ![name[s]] = NoOne]
        /\ \/ life' = [life EXCEPT ![s] = "spawned"] /\ pc' = [pc EXCEPT ![s] = "pollError"]
           \/ life' = life /\ pc' = [pc EXCEPT ![s] = "remove"]
        /\ UNCHANGED <<lock, name, dirs>>
    BY <1>5 DEF SpawnBridge
  <2>2. s \in Process /\ life[s] = "none" /\ pc[s] \in Owning
    BY <2>1
  <2>3. \A b \in Starter : life[b] \in AtWork => name[b] # name[s]
    BY <2>2
  <2>4. \A b \in Starter \ {s} : pc'[b] = pc[b] /\ life'[b] = life[b]
    BY <2>1
  <2>5. /\ pc'[s] \in Owning \ {"forward", "settle"}
        /\ life'[s] \in {"none", "spawned"}
    BY <2>1, <2>2
  <2>6. Exclusive'
    BY <2>1, <2>2, <2>3, <2>4, <2>5
  <2>7. \A b \in Starter \ {s} : life[b] \in AtWork => sess'[name[b]] = sess[name[b]]
    BY <2>1, <2>3
  <2>8. Visible'
    BY <2>1, <2>4, <2>5, <2>7
  <2> QED
    BY <2>6, <2>8
<1>6. ASSUME NEW s \in Starter, PollError(s) PROVE Exclusive' /\ Visible'
  BY <1>6 DEF PollError
<1>7. ASSUME NEW s \in Starter, PollSession(s) PROVE Exclusive' /\ Visible'
  BY <1>7 DEF PollSession
<1>8. ASSUME NEW s \in Starter, PollChild(s) PROVE Exclusive' /\ Visible'
  BY <1>8 DEF PollChild
<1>9. ASSUME NEW s \in Starter, Deadline(s) PROVE Exclusive' /\ Visible'
  BY <1>9 DEF Deadline
<1>10. ASSUME NEW s \in Starter, Forward(s) PROVE Exclusive' /\ Visible'
  BY <1>10 DEF Forward
<1>11. ASSUME NEW s \in Starter, Settle(s) PROVE Exclusive' /\ Visible'
  BY <1>11 DEF Settle
<1>12. ASSUME NEW s \in Starter, Reap(s) PROVE Exclusive' /\ Visible'
  BY <1>12 DEF Reap
<1>13. ASSUME NEW s \in Starter, RemoveFailed(s) PROVE Exclusive' /\ Visible'
  BY <1>13 DEF RemoveFailed
<1>14. ASSUME NEW s \in Starter, ReleaseLock(s) PROVE Exclusive' /\ Visible'
  BY <1>14 DEF ReleaseLock
<1>15. ASSUME NEW s \in Starter, Kill(s) PROVE Exclusive' /\ Visible'
  BY <1>15 DEF Kill
<1>16. ASSUME NEW b \in Starter, ClaimDir(b) PROVE Exclusive' /\ Visible'
  BY <1>16 DEF ClaimDir
<1>17. ASSUME NEW b \in Starter, Publish(b) PROVE Exclusive' /\ Visible'
  BY <1>17 DEF Publish
<1>18. ASSUME NEW b \in Starter, ReportError(b) PROVE Exclusive' /\ Visible'
  BY <1>18 DEF ReportError
<1>19. ASSUME NEW b \in Starter, Republish(b) PROVE Exclusive' /\ Visible'
  BY <1>19 DEF Republish
<1>20. ASSUME NEW b \in Starter, Abandon(b) PROVE Exclusive' /\ Visible'
  BY <1>20 DEF Abandon
<1>21. ASSUME NEW b \in Starter, Teardown(b) PROVE Exclusive' /\ Visible'
  BY <1>21 DEF Teardown
<1>22. ASSUME NEW b \in Starter, BridgeDies(b) PROVE Exclusive' /\ Visible'
  BY <1>22 DEF BridgeDies, Alive
<1>23. ASSUME NEW c \in Closer, CloseGate(c) PROVE Exclusive' /\ Visible'
  <2>1. PICK n \in Name :
          /\ name' = [name EXCEPT ![c] = n]
          /\ \/ pc' = [pc EXCEPT ![c] = "read"]
             \/ pc' = [pc EXCEPT ![c] = "done"]
          /\ \/ lock' = [lock EXCEPT ![n] = NoOne] /\ holes' = Stolen(n)
             \/ lock' = lock
          /\ UNCHANGED <<dirs, owner, sess, err, life, port>>
    BY <1>23 DEF CloseGate
  <2>2. \A p \in Starter : pc'[p] = pc[p] /\ name'[p] = name[p]
    BY <2>1
  <2>3. \A p \in Starter : pc[p] \in Starting => lock'[name[p]] = p
    <3>1. CASE lock' = lock
      BY <3>1
    <3>2. CASE lock' = [lock EXCEPT ![n] = NoOne] /\ holes' = Stolen(n)
      <4>1. \A p \in Starter : pc[p] \in Starting => name[p] # n
        BY <3>2, NotStolen
      <4> QED
        BY <3>2, <4>1
    <3> QED
      BY <2>1, <3>1, <3>2
  <2>4. Exclusive'
    BY <2>1, <2>2, <2>3
  <2>5. Visible'
    BY <2>1, <2>2
  <2> QED
    BY <2>4, <2>5
<1>24. ASSUME NEW c \in Closer, ReadSession(c) PROVE Exclusive' /\ Visible'
  <2>1. UNCHANGED <<lock, name, life, dirs, sess>> /\ \A s \in Starter : pc'[s] = pc[s]
    BY <1>24 DEF ReadSession
  <2> HIDE DEF Typed, Exclusive, Visible
  <2> QED
    BY <2>1, SpareRemoved
<1>25. ASSUME NEW c \in Closer, RequestClose(c) PROVE Exclusive' /\ Visible'
  BY <1>25 DEF RequestClose
<1>26. ASSUME NEW c \in Closer, Probe(c) PROVE Exclusive' /\ Visible'
  <2>1. UNCHANGED <<lock, name, life, dirs, sess>> /\ \A s \in Starter : pc'[s] = pc[s]
    BY <1>26 DEF Probe
  <2> HIDE DEF Typed, Exclusive, Visible
  <2> QED
    BY <2>1, SpareRemoved
<1>27. ASSUME NEW c \in Closer, RemoveForeign(c) PROVE Exclusive' /\ Visible'
  <2>1. /\ UNCHANGED <<lock, name, life>> /\ \A s \in Starter : pc'[s] = pc[s]
        /\ \/ RemoveDir(name[c]) /\ holes' = Deleted(c)
           \/ UNCHANGED <<dirs, sess>>
    BY <1>27 DEF RemoveForeign
  <2> HIDE DEF Typed, Exclusive, Visible
  <2> QED
    BY <2>1, SpareRemoved
<1>28. ASSUME NEW c \in Closer, PollDead(c) PROVE Exclusive' /\ Visible'
  <2>1. UNCHANGED <<lock, name, life, dirs, sess>> /\ \A s \in Starter : pc'[s] = pc[s]
    BY <1>28 DEF PollDead
  <2> HIDE DEF Typed, Exclusive, Visible
  <2> QED
    BY <2>1, SpareRemoved
<1>29. ASSUME NEW c \in Closer, FinalCheck(c) PROVE Exclusive' /\ Visible'
  <2>1. UNCHANGED <<lock, name, life, dirs, sess>> /\ \A s \in Starter : pc'[s] = pc[s]
    BY <1>29 DEF FinalCheck
  <2> HIDE DEF Typed, Exclusive, Visible
  <2> QED
    BY <2>1, SpareRemoved
<1>30. ASSUME NEW c \in Closer, Delete(c) PROVE Exclusive' /\ Visible'
  <2>1. /\ UNCHANGED <<lock, name, life>> /\ \A s \in Starter : pc'[s] = pc[s]
        /\ \/ RemoveDir(name[c]) /\ holes' = Deleted(c)
           \/ UNCHANGED <<dirs, sess>>
    BY <1>30 DEF Delete
  <2> HIDE DEF Typed, Exclusive, Visible
  <2> QED
    BY <2>1, SpareRemoved
<1>31. ASSUME NEW n \in Name, GrowOld(n) PROVE Exclusive' /\ Visible'
  BY <1>31 DEF GrowOld
<1>32. ASSUME UNCHANGED vars PROVE Exclusive' /\ Visible'
  BY <1>32 DEF vars
<1> QED
  BY <1>1, <1>2, <1>3, <1>4, <1>5, <1>6, <1>7, <1>8, <1>9, <1>10, <1>11,
     <1>12, <1>13, <1>14, <1>15, <1>16, <1>17, <1>18, <1>19, <1>20, <1>21,
     <1>22, <1>23, <1>24, <1>25, <1>26, <1>27, <1>28, <1>29, <1>30, <1>31,
     <1>32
  DEF Next, Start, Close, Bridge

(* Until a crack has opened (a lock outlived, a start killed over its young *)
(* bridge, a directory deleted on uncertainty, a port reused), no two       *)
(* bridges of one name are ever at work.                                    *)
THEOREM SoleBridge == Spec => []OneBridgePerName
<1>1. SoleInv => OneBridgePerName
  BY DEF SoleInv, Exclusive, OneBridgePerName
<1> QED
  BY InitTyped, TypeStep, InitStart, StartStep, InitSole, SoleStep, <1>1, PTL DEF Spec

(* Whatever a start is told by the port in session.json is told by its own  *)
(* bridge.                                                                  *)
LEMMA AnswerStep ==
  Typed /\ StartInv /\ CloseInv /\ SoleInv /\ AnsweredByOwnBridge /\ [Next]_vars
    => AnsweredByOwnBridge'
<1> SUFFICES ASSUME Typed, StartInv, CloseInv, Exclusive, AnsweredByOwnBridge,
                    [Next]_vars, holes' = {}, holes = {}
             PROVE  \A s \in Starter : answered'[s] \in {s, NoOne}
  BY HolesStay DEF SoleInv, AnsweredByOwnBridge
<1>1. ASSUME NEW s \in Starter, Forward(s)
      PROVE  \A r \in Starter : answered'[r] \in {r, NoOne}
  <2>1. ASSUME NEW b \in Starter, HasSession(name[s]), b \in Reached(sess[name[s]]),
               life[b] = "serving"
        PROVE  b = s
    <3>1. pc[s] = "forward" /\ name[s] \in Name
      BY <1>1 DEF Forward, Typed, Named, Process
    <3>2. sess[name[s]] \in Starter /\ Cited(sess[name[s]])
      BY <2>1, <3>1 DEF HasSession, Typed, TypeOK, Cited
    <3>3. port[b] = port[sess[name[s]]]
      BY <2>1 DEF Reached, Listening
    <3>4. b = sess[name[s]]
      BY <2>1, <3>2, <3>3 DEF CloseInv, ReuseInv, Bound
    <3>5. name[b] = name[s]
      BY <3>1, <3>2, <3>4 DEF StartInv, Wrote
    <3> QED
      BY <2>1, <3>1, <3>5 DEF Exclusive, Owning, Starting, StarterPC, AtWork
  <2>2. \A r \in Starter : answered[r] \in {r, NoOne}
    BY DEF AnsweredByOwnBridge
  <2> QED
    BY <1>1, <2>1, <2>2 DEF Forward, Typed, TypeOK
<1>2. ASSUME ~ \E s \in Starter : Forward(s)
      PROVE  answered' = answered
  BY <1>2 DEF Next, Start, Close, Bridge, Acquire, CheckExists, ClearDir, CreateDir,
     SpawnBridge, PollError, PollSession, PollChild, Deadline, Settle, Reap,
     RemoveFailed, ReleaseLock, Kill, ClaimDir, Publish, ReportError, Republish,
     Abandon, Teardown, BridgeDies, CloseGate, ReadSession, RequestClose, Probe,
     RemoveForeign, PollDead, FinalCheck, Delete, GrowOld, calls, BridgeVars,
     CloserVars, vars
<1> QED
  BY <1>1, <1>2 DEF AnsweredByOwnBridge

(* A start that reports success was answered by the bridge that it spawned, *)
(* until a crack has opened: path and port lead to no other.                *)
THEOREM OwnBridgeAnswers == Spec => []AnsweredByOwnBridge
<1>1. Init => AnsweredByOwnBridge
  BY DEF Init, AnsweredByOwnBridge
<1>2. Typed /\ StartInv /\ CloseInv /\ [Next]_vars => CloseInv'
  BY PortStep, AckStep, ReuseStep DEF CloseInv
<1> QED
  BY InitTyped, TypeStep, InitStart, StartStep, InitClose, InitSole, SoleStep,
     AnswerStep, <1>1, <1>2, PTL DEF Spec

(* A starter at a removal of its own deletes something in the step it takes *)
(* there only by that removal: no other step of it touches a directory.    *)
LEMMA RemovesByItself ==
  ASSUME Typed, [Next]_vars, NEW s \in Starter, pc[s] \in {"clear", "remove"},
         pc'[s] # pc[s], NEW n \in Name, n \in dirs \ dirs'
  PROVE  ClearDir(s) \/ RemoveFailed(s)
<1> USE SessionLifecycleAssumption DEF Typed, TypeOK, Process, Goto
<1>1. ASSUME NEW r \in Starter, Start(r) PROVE ClearDir(s) \/ RemoveFailed(s)
  <2>1. ClearDir(r) \/ RemoveFailed(r) \/ dirs \subseteq dirs'
    BY <1>1 DEF Start, CheckExists, CreateDir, SpawnBridge, PollError, PollSession,
       PollChild, Deadline, Forward, Settle, Reap, ReleaseLock, files
  <2>2. ClearDir(r) \/ RemoveFailed(r)
    BY <2>1
  <2>3. r = s
    BY <2>2 DEF ClearDir, RemoveFailed
  <2> QED
    BY <2>2, <2>3
<1>2. ASSUME NEW r \in Starter, Acquire(r) \/ Kill(r) PROVE FALSE
  BY <1>2 DEF Acquire, Kill, files
<1>3. ASSUME NEW b \in Starter, Bridge(b) PROVE FALSE
  BY <1>3 DEF Bridge, ClaimDir, Publish, ReportError, Republish, Abandon, Teardown,
     BridgeDies, BridgeVars, procs
<1>4. ASSUME NEW c \in Closer, CloseGate(c) \/ Close(c) PROVE FALSE
  <2>1. pc' = pc \/ \E l \in CloserPC \cup Ended : pc' = [pc EXCEPT ![c] = l]
    BY <1>4 DEF CloseGate, Close, ReadSession, RequestClose, Probe, RemoveForeign,
       PollDead, FinalCheck, Delete, CloseFails, CloserPC, Ended
  <2> QED
    BY <2>1
<1>5. ASSUME NEW m \in Name, GrowOld(m) PROVE FALSE
  BY <1>5 DEF GrowOld, files
<1>6. ASSUME UNCHANGED vars PROVE FALSE
  BY <1>6 DEF vars, files
<1> QED
  BY <1>1, <1>2, <1>3, <1>4, <1>5, <1>6 DEF Next

(* Neither clearing the way nor cleaning up after itself does a start       *)
(* delete the directory of another bridge that serves, until a crack has    *)
(* opened.                                                                  *)
THEOREM StartsSpareSessions == Spec => StartSparesLiveSessions
<1>1. ASSUME Typed, StartInv, SoleInv, [Next]_vars, NEW s \in Starter, NEW n \in Name,
             pc[s] \in {"clear", "remove"}, pc'[s] # pc[s], n \in dirs \ dirs', holes' = {}
      PROVE  sess[n] \in {s, NoOne} \/ life[sess[n]] # "serving"
  <2>1. ClearDir(s) \/ RemoveFailed(s)
    BY <1>1, RemovesByItself
  <2>2. n = name[s]
    BY <1>1, <2>1 DEF ClearDir, RemoveFailed, RemoveDir
  <2>3. ASSUME sess[n] # NoOne, life[sess[n]] = "serving"
        PROVE  sess[n] = s
    <3>1. sess[n] \in Starter /\ name[sess[n]] = name[s]
      BY <1>1, <2>2, <2>3 DEF StartInv, Wrote, Typed, TypeOK
    <3>2. Exclusive
      BY <1>1, HolesStay DEF SoleInv
    <3> QED
      BY <1>1, <2>3, <3>1, <3>2 DEF Exclusive, Owning, Starting, StarterPC, AtWork
  <2> QED
    BY <2>3
<1>2. Typed /\ StartInv /\ SoleInv /\ [Next]_vars =>
        \A s \in Starter, n \in Name :
          /\ pc[s] \in {"clear", "remove"} /\ pc'[s] # pc[s]
          /\ n \in dirs \ dirs' /\ holes' = {}
          => sess[n] \in {s, NoOne} \/ life[sess[n]] # "serving"
  BY <1>1
<1> QED
  BY InitTyped, TypeStep, InitStart, StartStep, InitSole, SoleStep, <1>2, PTL
     DEF Spec, StartSparesLiveSessions

-----------------------------------------------------------------------------
(* Why abandoned bridges end: the look that Abandon takes may come late,   *)
(* it does not come in vain.                                               *)

(* An owner.json is in a directory.                                        *)
OwnersHaveDirs == \A n \in Name : owner[n] # NoOne => n \in dirs

(* How much of its life a bridge has before it.                            *)
LifeLeft(l) ==
  CASE l = "none"    -> 5
    [] l = "spawned" -> 4
    [] l = "setup"   -> 3
    [] l = "serving" -> 2
    [] l = "failing" -> 1
    [] l = "closing" -> 1
    [] l = "dead"    -> 0

(* A bridge that has claimed its directory and lost it never gets it back, *)
(* whoever makes the directory again and whatever is written there; and a  *)
(* bridge never goes back in its life.                                     *)
LostForGood ==
  [][\A b \in Starter :
       /\ life[b] \notin {"none", "spawned"} /\ ~AmOwner(b) => ~AmOwner(b)'
       /\ life'[b] = life[b] \/ LifeLeft(life'[b]) < LifeLeft(life[b])]_vars

(* What a step may do to the directories and their owners ...               *)
Removed == \E n \in Name : RemoveDir(n)
Created == \E n \in Name : dirs' = dirs \cup {n} /\ owner' = owner
Claimed ==
  \E b \in Starter : /\ life[b] = "spawned" /\ name[b] \in Name
                     /\ dirs' = dirs \cup {name[b]}
                     /\ owner' = [owner EXCEPT ![name[b]] = b]

LEMMA DirMoves ==
  ASSUME Typed, [Next]_vars
  PROVE  UNCHANGED <<dirs, owner>> \/ Removed \/ Created \/ Claimed
<1> USE DEF files, BridgeVars, procs, Removed, Created, Claimed
<1>1. ASSUME NEW s \in Starter, ClearDir(s) \/ RemoveFailed(s) PROVE Removed
  BY <1>1 DEF Typed, Named, Process, ClearDir, RemoveFailed
<1>2. ASSUME NEW s \in Starter, CreateDir(s)
      PROVE  UNCHANGED <<dirs, owner>> \/ Created
  BY <1>2 DEF Typed, Named, Process, CreateDir
<1>3. ASSUME NEW s \in Starter, Acquire(s) \/ Kill(s) \/ Start(s),
             ~ClearDir(s), ~RemoveFailed(s), ~CreateDir(s)
      PROVE  UNCHANGED <<dirs, owner>>
  BY <1>3 DEF Acquire, Kill, Start, CheckExists, SpawnBridge, PollError, PollSession,
     PollChild, Deadline, Forward, Settle, Reap, ReleaseLock
<1>4. ASSUME NEW b \in Starter, ClaimDir(b) PROVE Claimed
  BY <1>4 DEF Typed, Named, Process, ClaimDir
<1>5. ASSUME NEW b \in Starter, Bridge(b), ~ClaimDir(b) PROVE UNCHANGED <<dirs, owner>>
  BY <1>5 DEF Bridge, Publish, ReportError, Republish, Abandon, Teardown, BridgeDies
<1>6. ASSUME NEW c \in Closer, RemoveForeign(c) \/ Delete(c)
      PROVE  UNCHANGED <<dirs, owner>> \/ Removed
  BY <1>6 DEF Typed, Named, Process, RemoveForeign, Delete
<1>7. ASSUME NEW c \in Closer, CloseGate(c) \/ Close(c), ~RemoveForeign(c), ~Delete(c)
      PROVE  UNCHANGED <<dirs, owner>>
  BY <1>7 DEF CloseGate, Close, ReadSession, RequestClose, Probe, PollDead, FinalCheck
<1>8. ASSUME NEW n \in Name, GrowOld(n) PROVE UNCHANGED <<dirs, owner>>
  BY <1>8 DEF GrowOld
<1>9. CASE UNCHANGED vars
  BY <1>9 DEF vars
<1> QED
  BY <1>1, <1>2, <1>3, <1>4, <1>5, <1>6, <1>7, <1>8, <1>9 DEF Next

(* ... to the lives of the bridges, ...                                     *)
Lives(b, from, to) == life[b] \in from /\ \E l \in to : life' = [life EXCEPT ![b] = l]

LEMMA LifeMoves ==
  ASSUME Typed, StartInv, [Next]_vars
  PROVE  \/ life' = life
         \/ \E b \in Starter :
              \/ Lives(b, {"none"}, {"spawned"})
              \/ Lives(b, {"spawned"}, {"setup"})
              \/ Lives(b, {"setup"}, {"serving", "failing"})
              \/ Lives(b, {"serving", "closing"}, {"closing"})
              \/ Lives(b, Running \cup {"none", "dead"}, {"dead"})
<1> USE DEF BridgeVars, Lives, Running
<1>1. ASSUME NEW s \in Starter, SpawnBridge(s)
      PROVE  life' = life \/ Lives(s, {"none"}, {"spawned"})
  BY <1>1 DEF StartInv, BeforeSpawn, SpawnBridge
<1>2. ASSUME NEW s \in Starter, Reap(s)
      PROVE  Lives(s, Running \cup {"none", "dead"}, {"dead"})
  BY <1>2 DEF Typed, TypeOK, Reap
<1>3. ASSUME NEW s \in Starter, Acquire(s) \/ Kill(s) \/ Start(s), ~SpawnBridge(s), ~Reap(s)
      PROVE  life' = life
  BY <1>3 DEF Acquire, Kill, Start, CheckExists, ClearDir, CreateDir, PollError,
     PollSession, PollChild, Deadline, Forward, Settle, RemoveFailed, ReleaseLock
<1>4. ASSUME NEW b \in Starter, Bridge(b)
      PROVE  \/ life' = life
             \/ Lives(b, {"spawned"}, {"setup"})
             \/ Lives(b, {"setup"}, {"serving", "failing"})
             \/ Lives(b, Running \cup {"none", "dead"}, {"dead"})
  BY <1>4 DEF Bridge, ClaimDir, Publish, ReportError, Republish, Abandon, Teardown,
     BridgeDies, Alive
<1>5. ASSUME NEW c \in Closer, RequestClose(c)
      PROVE  \/ life' = life
             \/ \E b \in Starter : Lives(b, {"serving", "closing"}, {"closing"})
  BY <1>5 DEF RequestClose, Reached, Listening
<1>6. ASSUME NEW c \in Closer, CloseGate(c) \/ Close(c), ~RequestClose(c)
      PROVE  life' = life
  BY <1>6 DEF CloseGate, Close, ReadSession, Probe, RemoveForeign, PollDead,
     FinalCheck, Delete
<1>7. ASSUME NEW n \in Name, GrowOld(n) PROVE life' = life
  BY <1>7 DEF GrowOld
<1>8. CASE UNCHANGED vars
  BY <1>8 DEF vars
<1> QED
  BY <1>1, <1>2, <1>3, <1>4, <1>5, <1>6, <1>7, <1>8 DEF Next

(* ... and to the names, which are chosen once.                             *)
LEMMA NameMoves ==
  ASSUME [Next]_vars, NEW p \in Process, pc[p] # "idle", Typed
  PROVE  name'[p] = name[p]
<1> USE DEF procs, BridgeVars, CloserVars
<1>1. ASSUME NEW s \in Starter, Acquire(s) PROVE name'[p] = name[p]
  BY <1>1 DEF Acquire, Typed, TypeOK
<1>2. ASSUME NEW s \in Starter, Start(s) \/ Kill(s) PROVE name' = name
  BY <1>2 DEF Kill, Start, CheckExists, ClearDir, CreateDir, SpawnBridge, PollError,
     PollSession, PollChild, Deadline, Forward, Settle, Reap, RemoveFailed, ReleaseLock
<1>3. ASSUME NEW b \in Starter, Bridge(b) PROVE name' = name
  BY <1>3 DEF Bridge, ClaimDir, Publish, ReportError, Republish, Abandon, Teardown,
     BridgeDies
<1>4. ASSUME NEW c \in Closer, CloseGate(c) PROVE name'[p] = name[p]
  BY <1>4 DEF CloseGate, Typed, TypeOK
<1>5. ASSUME NEW c \in Closer, Close(c) PROVE name' = name
  BY <1>5 DEF Close, ReadSession, RequestClose, Probe, RemoveForeign, PollDead,
     FinalCheck, Delete
<1>6. ASSUME NEW n \in Name, GrowOld(n) PROVE name' = name
  BY <1>6 DEF GrowOld
<1>7. CASE UNCHANGED vars
  BY <1>7 DEF vars
<1> QED
  BY <1>1, <1>2, <1>3, <1>4, <1>5, <1>6, <1>7 DEF Next

LEMMA OwnersStep == Typed /\ OwnersHaveDirs /\ [Next]_vars => OwnersHaveDirs'
<1> SUFFICES ASSUME Typed, OwnersHaveDirs, [Next]_vars PROVE OwnersHaveDirs'
  OBVIOUS
<1> QED
  BY DirMoves DEF OwnersHaveDirs, Removed, Created, Claimed, RemoveDir, Typed, TypeOK

(* A bridge whose directory was removed, or respawned under its name, stays *)
(* without it until it ends (owner_token in pybridge.py's serve and setup): *)
(* it need not look at the right moment.                                    *)
THEOREM OwnershipIsLostForGood == Spec => LostForGood
<1>1. Init => OwnersHaveDirs
  BY DEF Init, OwnersHaveDirs
<1>2. ASSUME Typed, StartInv, OwnersHaveDirs, [Next]_vars, NEW b \in Starter
      PROVE  /\ life[b] \notin {"none", "spawned"} /\ ~AmOwner(b) => ~AmOwner(b)'
             /\ life'[b] = life[b] \/ LifeLeft(life'[b]) < LifeLeft(life[b])
  <2>1. ASSUME life[b] \notin {"none", "spawned"}, ~AmOwner(b) PROVE ~AmOwner(b)'
    <3>1. name[b] \in Name /\ name'[b] = name[b] /\ b # NoOne
      BY <1>2, <2>1, NameMoves, SessionLifecycleAssumption DEF Typed, Named, Process
    <3>2. owner[name[b]] # b
      BY <1>2, <2>1, <3>1 DEF AmOwner, OwnersHaveDirs
    <3>3. owner'[name[b]] # b
      BY <1>2, <2>1, <3>1, <3>2, DirMoves
         DEF Removed, Created, Claimed, RemoveDir, Typed, TypeOK
    <3> QED
      BY <3>1, <3>3 DEF AmOwner
  <2>2. life'[b] = life[b] \/ LifeLeft(life'[b]) < LifeLeft(life[b])
    <3>1. life \in [Starter -> Running \cup {"none", "dead"}]
      BY <1>2 DEF Typed, TypeOK
    <3>2. \/ life'[b] = life[b]
          \/ life[b] = "none" /\ life'[b] = "spawned"
          \/ life[b] = "spawned" /\ life'[b] = "setup"
          \/ life[b] = "setup" /\ life'[b] \in {"serving", "failing"}
          \/ life[b] = "serving" /\ life'[b] = "closing"
          \/ life'[b] = "dead"
      BY <1>2, <3>1, LifeMoves DEF Lives
    <3>3. life[b] \in Running \cup {"none", "dead"}
      BY <3>1
    <3> QED
      BY <3>2, <3>3 DEF LifeLeft, Running
  <2> QED
    BY <2>1, <2>2
<1>3. Typed /\ StartInv /\ OwnersHaveDirs /\ [Next]_vars =>
        \A b \in Starter :
          /\ life[b] \notin {"none", "spawned"} /\ ~AmOwner(b) => ~AmOwner(b)'
          /\ life'[b] = life[b] \/ LifeLeft(life'[b]) < LifeLeft(life[b])
  BY <1>2
<1> QED
  BY InitTyped, TypeStep, InitStart, StartStep, <1>1, OwnersStep, <1>3, PTL
     DEF Spec, LostForGood
-----------------------------------------------------------------------------
(* Why every start and every close returns.                                *)
WaitLoop == {"pollError", "pollSession", "pollChild"}

(* The stages a command has before it; the wait loop is one.               *)
StagesAhead(label) ==
  CASE label = "idle"        -> 11
    [] label = "check"       -> 10
    [] label = "clear"       -> 9
    [] label = "create"      -> 8
    [] label = "spawn"       -> 7
    [] label = "pollError"   -> 6
    [] label = "pollSession" -> 6
    [] label = "pollChild"   -> 6
    [] label = "forward"     -> 5
    [] label = "settle"      -> 4
    [] label = "reap"        -> 3
    [] label = "remove"      -> 2
    [] label = "release"     -> 1
    [] label = "read"        -> 6
    [] label = "request"     -> 5
    [] label = "probe"       -> 4
    [] label = "foreign"     -> 3
    [] label = "poll"        -> 3
    [] label = "final"       -> 2
    [] label = "delete"      -> 1
    [] label = "done"        -> 0
    [] label = "dead"        -> 0

Ahead(p)  == StagesAhead(pc[p])
GetsOn(p) == StagesAhead(pc'[p]) < Ahead(p)

(* A round of the wait loop goes by its three looks, and is repeated only  *)
(* while the bridge lives.                                                 *)
GoesRound(p) ==
  \/ pc[p] = "pollError"   /\ pc'[p] = "pollSession"
  \/ pc[p] = "pollSession" /\ pc'[p] = "pollChild"
  \/ pc[p] = "pollChild"   /\ pc'[p] = "pollError" /\ life[p] # "dead"

(* A command never goes back, whatever the others do; each step of its own *)
(* is one ahead, but for the rounds of the wait loop, and the deadline     *)
(* that each round comes by ends them.  A close has no such loop.          *)
CommandsGoOn ==
  [][/\ \A p \in Process : pc'[p] = pc[p] \/ GetsOn(p) \/ GoesRound(p)
     /\ \A s \in Starter : /\ Start(s) => GetsOn(s) \/ GoesRound(s)
                           /\ Deadline(s) \/ Kill(s) => GetsOn(s)
     /\ \A c \in Closer : Close(c) => GetsOn(c)]_vars

OnlyPc(p) == \A q \in Process \ {p} : pc'[q] = pc[q]

LEMMA StartMoves ==
  ASSUME Typed, NEW s \in Starter, Acquire(s) \/ Start(s) \/ Kill(s)
  PROVE  /\ OnlyPc(s)
         /\ GetsOn(s) \/ GoesRound(s)
         /\ Deadline(s) \/ Kill(s) \/ Acquire(s) => GetsOn(s)
<1>1. pc \in [Process -> StarterPC \cup CloserPC \cup Ended] /\ s \in Process
  BY DEF Typed, TypeOK, Process
<1> USE <1>1 DEF OnlyPc, GetsOn, GoesRound, Ahead, StagesAhead, Goto
<1>2. CASE Acquire(s) \/ CheckExists(s) \/ ClearDir(s) \/ CreateDir(s) \/ SpawnBridge(s)
  <2>1. /\ OnlyPc(s)
        /\ \/ pc[s] = "idle" /\ pc'[s] \in {"check", "done"}
           \/ pc[s] = "check" /\ pc'[s] \in {"release", "clear"}
           \/ pc[s] = "clear" /\ pc'[s] = "create"
           \/ pc[s] = "create" /\ pc'[s] \in {"release", "spawn"}
           \/ pc[s] = "spawn" /\ pc'[s] \in {"pollError", "remove"}
    BY <1>2 DEF Acquire, CheckExists, ClearDir, CreateDir, SpawnBridge
  <2>2. GetsOn(s)
    BY <2>1
  <2> HIDE DEF OnlyPc, GetsOn, GoesRound
  <2> QED
    BY <2>1, <2>2
<1>3. CASE PollError(s) \/ PollSession(s) \/ PollChild(s)
  <2>1. /\ OnlyPc(s)
        /\ \/ pc[s] = "pollError" /\ pc'[s] \in {"reap", "pollSession"}
           \/ pc[s] = "pollSession" /\ pc'[s] \in {"forward", "pollChild"}
           \/ pc[s] = "pollChild" /\ pc'[s] = "remove"
           \/ pc[s] = "pollChild" /\ pc'[s] = "pollError" /\ life[s] # "dead"
    BY <1>3 DEF PollError, PollSession, PollChild
  <2>2. GetsOn(s) \/ GoesRound(s)
    BY <2>1
  <2>3. ~Kill(s) /\ ~Acquire(s) /\ ~Deadline(s)
    BY <2>1 DEF Kill, Acquire, Deadline
  <2> QED
    BY <2>1, <2>2, <2>3
<1>4. CASE Deadline(s) \/ Forward(s) \/ Settle(s) \/ Reap(s) \/ RemoveFailed(s) \/ ReleaseLock(s)
  <2>1. /\ OnlyPc(s)
        /\ \/ pc[s] = "pollChild" /\ pc'[s] = "reap"
           \/ pc[s] = "forward" /\ pc'[s] \in {"release", "settle"}
           \/ pc[s] = "settle" /\ pc'[s] \in {"reap", "release"}
           \/ pc[s] = "reap" /\ pc'[s] = "remove"
           \/ pc[s] = "remove" /\ pc'[s] = "release"
           \/ pc[s] = "release" /\ pc'[s] = "done"
    BY <1>4 DEF Deadline, Forward, Settle, Reap, RemoveFailed, ReleaseLock
  <2>2. GetsOn(s)
    BY <2>1
  <2> HIDE DEF OnlyPc, GetsOn, GoesRound
  <2> QED
    BY <2>1, <2>2
<1>5. CASE Kill(s)
  <2>1. OnlyPc(s) /\ pc'[s] = "dead" /\ pc[s] \notin Ended
    BY <1>5 DEF Kill
  <2>2. StagesAhead(pc[s]) > 0
    BY <2>1 DEF StarterPC, CloserPC, Ended
  <2> QED
    BY <2>1, <2>2
<1> QED
  BY <1>2, <1>3, <1>4, <1>5 DEF Start

LEMMA CloseMoves ==
  ASSUME Typed, NEW c \in Closer, CloseGate(c) \/ Close(c)
  PROVE  OnlyPc(c) /\ GetsOn(c)
<1>1. pc \in [Process -> StarterPC \cup CloserPC \cup Ended] /\ c \in Process
  BY DEF Typed, TypeOK, Process
<1>2. /\ OnlyPc(c)
      /\ \/ pc[c] = "idle" /\ pc'[c] \in {"read", "done"}
         \/ pc[c] = "read" /\ pc'[c] \in {"request", "final"}
         \/ pc[c] = "request" /\ pc'[c] \in {"poll", "probe"}
         \/ pc[c] = "probe" /\ pc'[c] \in {"foreign", "poll"}
         \/ pc[c] = "foreign" /\ pc'[c] = "done"
         \/ pc[c] = "poll" /\ pc'[c] \in {"final", "done"}
         \/ pc[c] = "final" /\ pc'[c] \in {"delete", "done"}
         \/ pc[c] = "delete" /\ pc'[c] = "done"
  BY <1>1 DEF OnlyPc, Goto, CloseFails, CloseGate, Close, ReadSession, RequestClose,
     Probe, RemoveForeign, PollDead, FinalCheck, Delete
<1> QED
  BY <1>2 DEF GetsOn, Ahead, StagesAhead

(* Every start and every close has a bounded number of stages before it    *)
(* (spawn_in, close_in), whoever else starts, closes, steals or dies: what *)
(* is left to time is the wait loop and its deadline.                      *)
THEOREM CommandsNeverGoBack == Spec => CommandsGoOn
<1>1. ASSUME Typed, [Next]_vars
      PROVE  /\ \A p \in Process : pc'[p] = pc[p] \/ GetsOn(p) \/ GoesRound(p)
             /\ \A s \in Starter : /\ Start(s) => GetsOn(s) \/ GoesRound(s)
                                   /\ Deadline(s) \/ Kill(s) => GetsOn(s)
             /\ \A c \in Closer : Close(c) => GetsOn(c)
  <2>1. ASSUME NEW p \in Process
        PROVE  pc'[p] = pc[p] \/ GetsOn(p) \/ GoesRound(p)
    <3>1. ASSUME NEW s \in Starter, Acquire(s) \/ Start(s) \/ Kill(s)
          PROVE  pc'[p] = pc[p] \/ GetsOn(p) \/ GoesRound(p)
      BY <1>1, <3>1, StartMoves DEF OnlyPc
    <3>2. ASSUME NEW c \in Closer, CloseGate(c) \/ Close(c)
          PROVE  pc'[p] = pc[p] \/ GetsOn(p) \/ GoesRound(p)
      BY <1>1, <3>2, CloseMoves DEF OnlyPc
    <3>3. ASSUME NEW b \in Starter, Bridge(b) PROVE pc' = pc
      BY <3>3 DEF Bridge, ClaimDir, Publish, ReportError, Republish, Abandon, Teardown,
         BridgeDies, BridgeVars, procs
    <3>4. ASSUME NEW n \in Name, GrowOld(n) PROVE pc' = pc
      BY <3>4 DEF GrowOld, procs
    <3>5. CASE UNCHANGED vars
      BY <3>5 DEF vars, procs
    <3> QED
      BY <1>1, <3>1, <3>2, <3>3, <3>4, <3>5 DEF Next
  <2> QED
    BY <1>1, <2>1, StartMoves, CloseMoves DEF Start
<1>2. Typed /\ [Next]_vars =>
             /\ \A p \in Process : pc'[p] = pc[p] \/ GetsOn(p) \/ GoesRound(p)
             /\ \A s \in Starter : /\ Start(s) => GetsOn(s) \/ GoesRound(s)
                                   /\ Deadline(s) \/ Kill(s) => GetsOn(s)
             /\ \A c \in Closer : Close(c) => GetsOn(c)
  BY <1>1
<1> QED
  BY InitTyped, TypeStep, <1>2, PTL DEF Spec, CommandsGoOn
=============================================================================
