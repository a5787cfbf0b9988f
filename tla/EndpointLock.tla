---------------------------- MODULE EndpointLock ----------------------------
(***************************************************************************)
(* The endpoint reservation of `attach` (src/src/session/locks.rs) as the  *)
(* CLI processes that race for one endpoint execute it: one file-system    *)
(* call per step.  All processes of Proc attach to the same normalized     *)
(* language/host/port, so they share one lock path.                        *)
(*                                                                         *)
(* The file system is modelled by inodes, because the protocol lives on    *)
(* the difference between a path and a file: rename moves an inode away    *)
(* from the path while its creator still writes through the open handle.   *)
(* A process creates at most two inodes at the path: its claim, and the    *)
(* copy it restores after detaching somebody else's fresh record.  A       *)
(* record's bytes are its nonce, unique per process, so a process stands   *)
(* for its own record and NoBytes for a file created and not yet written.  *)
(***************************************************************************)
EXTENDS Naturals, FiniteSets

CONSTANTS Proc,        \* CLI processes attaching to the one endpoint
          NoInode,     \* nothing at a path
          NoBytes,     \* the content of a file nobody has written yet
          MaxTries     \* rename attempts of one quarantine (3 in the code)

ASSUME EndpointLockAssumption ==
  /\ NoBytes \notin Proc
  /\ NoInode \notin Proc \X {"claim", "restore"}
  /\ MaxTries \in Nat \ {0}

Inode == Proc \X {"claim", "restore"}
ClaimOf(p)   == <<p, "claim">>
RestoreOf(p) == <<p, "restore">>

VARIABLES
  pc,      \* next file-system call of each process
  path,    \* the inode at the lock path
  body,    \* bytes of every inode
  age,     \* mtime of the record at the path, against the two bounds
  quar,    \* the inode in each process's quarantine file
  seen,    \* the bytes each process judged stale, or carries to a restore
  tries,   \* rename attempts made by each process
  sess,    \* the bridge of each process and the session it publishes
  holes    \* history: which cracks in the reservation have opened

vars == <<pc, path, body, age, quar, seen, tries, sess, holes>>

(* A process is past its ownership gate, with a bridge of its own coming   *)
(* up or up, until it starts to release its guard.                         *)
Proceeding == {"spawn", "handshake"}
Ended      == {"done", "dead"}

Bytes == Proc \cup {NoBytes}
Empty == path = NoInode

Goto(p, label) == pc' = [pc EXCEPT ![p] = label]

Attached == {p \in Proc : sess[p] # "none"}

-----------------------------------------------------------------------------
Init ==
  /\ pc    = [p \in Proc |-> "start"]
  /\ path  = NoInode
  /\ body  = [i \in Inode |-> NoBytes]
  /\ age   = "fresh"
  /\ quar  = [p \in Proc |-> NoInode]
  /\ seen  = [p \in Proc |-> NoBytes]
  /\ tries = [p \in Proc |-> 0]
  /\ sess  = [p \in Proc |-> "none"]
  /\ holes = {}

(* Mutant: create in place of create_new.                                  *)
CreateOver(inode) ==
  /\ path' = inode
  /\ age'  = "fresh"

(* OpenOptions::create_new on the lock path.                               *)
CreateNew(inode) ==
  /\ Empty
  /\ path' = inode
  /\ age'  = "fresh"

(* First claim: the path is free, or the record in it must be judged.      *)
Claim(p) ==
  /\ pc[p] = "start"
  /\ \/ /\ CreateNew(ClaimOf(p))
        /\ Goto(p, "write")
     \/ /\ ~Empty
        /\ Goto(p, "snapshot")
        /\ UNCHANGED <<path, age>>
  /\ UNCHANGED <<body, quar, seen, tries, sess, holes>>

(* write_lock_record: a failed write unlinks whatever is at the path.      *)
WriteRecord(p) ==
  /\ pc[p] = "write"
  /\ \/ /\ body' = [body EXCEPT ![ClaimOf(p)] = p]
        /\ Goto(p, "scan")
        /\ UNCHANGED <<path, age>>
     \/ /\ path' = NoInode
        /\ age'  = "fresh"
        /\ Goto(p, "done")
        /\ UNCHANGED body
  /\ UNCHANGED <<quar, seen, tries, sess, holes>>

(* reclaim_stale_lock, first half: the bytes.  A record that stays         *)
(* unreadable fails closed.                                                *)
ReadRecord(p) ==
  /\ pc[p] = "snapshot"
  /\ \/ /\ Empty
        /\ Goto(p, "reclaim")
        /\ UNCHANGED seen
     \/ /\ ~Empty
        /\ seen' = [seen EXCEPT ![p] = body[path]]
        /\ Goto(p, "judge")
     \/ /\ Goto(p, "done")
        /\ UNCHANGED seen
  /\ UNCHANGED <<path, body, age, quar, tries, sess, holes>>

(* lock_snapshot_is_stale over the bytes read before and the mtime of      *)
(* whatever is at the path now: past the bound, or past the grace with a   *)
(* recorded holder that is provably dead.                                  *)
SnapshotIsStale(raw) ==
  \/ age = "old"
  \/ /\ age = "grace"
     /\ raw \in Proc
     /\ pc[raw] \in Ended

(* Mutant: a record that is not stale is waited for.                       *)
JudgeWaiting(p) ==
  /\ pc[p] = "judge"
  /\ Goto(p, IF Empty THEN "reclaim"
             ELSE IF SnapshotIsStale(seen[p]) THEN "verify" ELSE "snapshot")
  /\ UNCHANGED <<path, body, age, quar, seen, tries, sess, holes>>

Judge(p) ==
  /\ pc[p] = "judge"
  /\ \/ Empty /\ Goto(p, "reclaim")
     \/ ~Empty /\ SnapshotIsStale(seen[p]) /\ Goto(p, "verify")
     \/ ~Empty /\ ~SnapshotIsStale(seen[p]) /\ Goto(p, "done")
     \/ Goto(p, "done")
  /\ UNCHANGED <<path, body, age, quar, seen, tries, sess, holes>>

(* quarantine_verified: the record must still be the one judged.           *)
Verify(p) ==
  /\ pc[p] = "verify"
  /\ \/ Empty /\ Goto(p, "reclaim")
     \/ ~Empty /\ body[path] = seen[p] /\ Goto(p, "detach")
     \/ ~Empty /\ body[path] # seen[p] /\ Goto(p, "done")
     \/ Goto(p, "done")
  /\ UNCHANGED <<path, body, age, quar, seen, tries, sess, holes>>

(* The record in a file is that of a process that still runs: its nonce,   *)
(* or a file its creator is about to fill.                                 *)
OfLiveProcess(inode) ==
  \/ body[inode] \in Proc /\ pc[body[inode]] \notin Ended
  \/ body[inode] = NoBytes /\ pc[inode[1]] \notin Ended

(* Mutant: one attempt too many.                                           *)
MayRetryOnceMore(p) == tries[p] < MaxTries

MayRetry(p) == tries[p] + 1 < MaxTries

(* detach_to_quarantine: the rename takes whatever is at the path now.  A  *)
(* transient rename fault verifies afresh, MaxTries times.                 *)
Detach(p) ==
  /\ pc[p] = "detach"
  /\ \/ /\ Empty
        /\ Goto(p, "reclaim")
        /\ UNCHANGED <<path, age, quar, tries, holes>>
     \/ /\ ~Empty
        /\ quar' = [quar EXCEPT ![p] = path]
        /\ path' = NoInode
        /\ age'  = "fresh"
        /\ holes' = IF OfLiveProcess(path) THEN holes \cup {"detached"}
                    ELSE holes
        /\ Goto(p, "reconcile")
        /\ UNCHANGED tries
     \/ /\ tries' = [tries EXCEPT ![p] = @ + 1]
        /\ Goto(p, IF MayRetry(p) THEN "verify" ELSE "done")
        /\ UNCHANGED <<path, age, quar, holes>>
  /\ UNCHANGED <<body, seen, sess>>

(* reconcile_quarantine: the judged bytes are dropped; other bytes go back *)
(* to a free path and are dropped when a newer claim has landed there.     *)
DropQuarantine(p) == quar' = [quar EXCEPT ![p] = NoInode]

Reconcile(p) ==
  /\ pc[p] = "reconcile"
  /\ \/ /\ DropQuarantine(p)
        /\ Goto(p, "reclaim")
     \/ /\ body[quar[p]] # seen[p]
        /\ Empty
        /\ Goto(p, "refetch")
        /\ UNCHANGED quar
     \/ /\ body[quar[p]] # seen[p]
        /\ ~Empty
        /\ DropQuarantine(p)
        /\ Goto(p, "done")
  /\ UNCHANGED <<path, body, age, seen, tries, sess, holes>>

(* restore_quarantine_bytes: copy the bytes, create the file exclusively,  *)
(* fill it; then the quarantine file goes.                                 *)
Refetch(p) ==
  /\ pc[p] = "refetch"
  /\ seen' = [seen EXCEPT ![p] = body[quar[p]]]
  /\ Goto(p, "restore")
  /\ UNCHANGED <<path, body, age, quar, tries, sess, holes>>

Restore(p) ==
  /\ pc[p] = "restore"
  /\ \/ /\ CreateNew(RestoreOf(p))
        /\ Goto(p, "fill")
        /\ UNCHANGED quar
     \/ /\ ~Empty
        /\ DropQuarantine(p)
        /\ Goto(p, "done")
        /\ UNCHANGED <<path, age>>
  /\ UNCHANGED <<body, seen, tries, sess, holes>>

Fill(p) ==
  /\ pc[p] = "fill"
  /\ \/ /\ body' = [body EXCEPT ![RestoreOf(p)] = seen[p]]
        /\ UNCHANGED <<path, age>>
     \/ /\ path' = NoInode
        /\ age'  = "fresh"
        /\ UNCHANGED body
  /\ DropQuarantine(p)
  /\ Goto(p, "done")
  /\ UNCHANGED <<seen, tries, sess, holes>>

(* Second and last claim, after a reclaim that left no stale record.       *)
Reclaim(p) ==
  /\ pc[p] = "reclaim"
  /\ \/ CreateNew(ClaimOf(p)) /\ Goto(p, "write")
     \/ ~Empty /\ Goto(p, "done") /\ UNCHANGED <<path, age>>
  /\ UNCHANGED <<body, quar, seen, tries, sess, holes>>

-----------------------------------------------------------------------------
(* Mutant: no look for a session that owns the endpoint.                   *)
ScanNothing(p) ==
  /\ pc[p] = "scan"
  /\ Goto(p, "recheck")
  /\ UNCHANGED <<path, body, age, quar, seen, tries, sess, holes>>

(* spawn_in under the reservation: a published live session of another     *)
(* process owns the endpoint; else the nonce is verified once more, then   *)
(* the bridge is spawned.  A path that is momentarily free is polled, then *)
(* given up.                                                               *)
Scan(p) ==
  /\ pc[p] = "scan"
  /\ Goto(p, IF \E q \in Proc \ {p} : sess[q] = "published"
             THEN "release" ELSE "recheck")
  /\ UNCHANGED <<path, body, age, quar, seen, tries, sess, holes>>

StillHolds(p) ==
  /\ pc[p] = "recheck"
  /\ \/ ~Empty /\ body[path] = p /\ Goto(p, "spawn")
     \/ ~Empty /\ body[path] # p /\ Goto(p, "release")
     \/ Empty /\ Goto(p, "release")
  /\ UNCHANGED <<path, body, age, quar, seen, tries, sess, holes>>

SpawnBridge(p) ==
  /\ pc[p] = "spawn"
  /\ \/ /\ sess' = [sess EXCEPT ![p] = "attached"]
        /\ Goto(p, "handshake")
     \/ /\ Goto(p, "release")
        /\ UNCHANGED sess
  /\ UNCHANGED <<path, body, age, quar, seen, tries, holes>>

(* The bridge writes session.json, with or without its CLI alive.          *)
Publish(p) ==
  /\ sess[p] = "attached"
  /\ sess' = [sess EXCEPT ![p] = "published"]
  /\ UNCHANGED <<pc, path, body, age, quar, seen, tries, holes>>

(* The wait loop ends: the published session answers, or the setup failed  *)
(* and the bridge is reaped and its dir removed.                           *)
EndHandshake(p) ==
  /\ pc[p] = "handshake"
  /\ \/ sess[p] = "published" /\ UNCHANGED sess
     \/ sess' = [sess EXCEPT ![p] = "none"]
  /\ Goto(p, "release")
  /\ UNCHANGED <<path, body, age, quar, seen, tries, holes>>

(* The session ends: closed, or its target is gone.                        *)
EndSession(p) ==
  /\ sess[p] = "published"
  /\ pc[p] \in Ended
  /\ sess' = [sess EXCEPT ![p] = "none"]
  /\ UNCHANGED <<pc, path, body, age, quar, seen, tries, holes>>

(* release_endpoint_lock reads the record, then unlinks the path.          *)
CheckMine(p) ==
  /\ pc[p] = "release"
  /\ Goto(p, IF ~Empty /\ body[path] = p THEN "unlink" ELSE "done")
  /\ UNCHANGED <<path, body, age, quar, seen, tries, sess, holes>>

Unlink(p) ==
  /\ pc[p] = "unlink"
  /\ path' = NoInode
  /\ age'  = "fresh"
  /\ Goto(p, "done")
  /\ UNCHANGED <<body, quar, seen, tries, sess, holes>>

-----------------------------------------------------------------------------
(* The process is killed.  A bridge it had spawned lives on, and until it  *)
(* publishes nothing but the dead process's record speaks for it.          *)
Crash(p) ==
  /\ pc[p] \notin Ended
  /\ Goto(p, "dead")
  /\ holes' = IF sess[p] = "attached" THEN holes \cup {"orphan"} ELSE holes
  /\ UNCHANGED <<path, body, age, quar, seen, tries, sess>>

(* The record at the path ages.  A record reaches the two-hour bound only  *)
(* when it is not of a live process: an attach is bounded by --timeout,    *)
(* one hour at most, and no other step waits.                              *)
GrowOld ==
  /\ ~Empty
  /\ \/ age = "fresh" /\ age' = "grace"
     \/ age = "grace" /\ ~OfLiveProcess(path) /\ age' = "old"
  /\ UNCHANGED <<pc, path, body, quar, seen, tries, sess, holes>>

-----------------------------------------------------------------------------
Step(p) ==
  \/ Claim(p) \/ WriteRecord(p)
  \/ ReadRecord(p) \/ Judge(p) \/ Verify(p) \/ Detach(p) \/ Reconcile(p)
  \/ Refetch(p) \/ Restore(p) \/ Fill(p) \/ Reclaim(p)
  \/ Scan(p) \/ StillHolds(p) \/ SpawnBridge(p) \/ EndHandshake(p)
  \/ CheckMine(p) \/ Unlink(p)

Next ==
  \/ \E p \in Proc : Step(p) \/ Publish(p) \/ EndSession(p) \/ Crash(p)
  \/ GrowOld

Spec == Init /\ [][Next]_vars

(* A process that is not killed keeps running: the scheduler runs it and   *)
(* every call it makes is bounded by a timeout of its own.                 *)
Fairness == \A p \in Proc : WF_vars(Step(p))
FairSpec == Spec /\ Fairness

-----------------------------------------------------------------------------
PC == {"start", "write", "snapshot", "judge", "verify", "detach",
       "reconcile", "refetch", "restore", "fill", "reclaim", "scan",
       "recheck", "spawn", "handshake", "release", "unlink", "done", "dead"}

(* The variables have their types.                                         *)
TypeOK ==
  /\ pc    \in [Proc -> PC]
  /\ path  \in Inode \cup {NoInode}
  /\ body  \in [Inode -> Bytes]
  /\ age   \in {"fresh", "grace", "old"}
  /\ quar  \in [Proc -> Inode \cup {NoInode}]
  /\ seen  \in [Proc -> Bytes]
  /\ tries \in [Proc -> 0 .. MaxTries]
  /\ sess  \in [Proc -> {"none", "attached", "published"}]
  /\ holes \subseteq {"detached", "orphan"}

(* "Exactly one starter proceeds" (locks.rs): while no reclaimer's rename  *)
(* has taken a running process's record away, two live processes are never *)
(* both past their ownership gate.                                         *)
OneStarterProceeds ==
  "detached" \notin holes =>
    \A p, q \in Proc : pc[p] \in Proceeding /\ pc[q] \in Proceeding => p = q

(* At most one bridge is attached to the endpoint, unless one of the two   *)
(* cracks opened: the rename of a running process's record, or a CLI       *)
(* killed between its bridge's attach and the bridge's first publish.      *)
OneBridgePerEndpoint ==
  holes = {} => \A p, q \in Attached : p = q

(* Releasing the guard never deletes another process's record, although    *)
(* the record is read in one step and the path unlinked in the next.       *)
ReleaseOnlyOwn ==
  [][\A p \in Proc :
       (pc[p] = "unlink" /\ pc'[p] = "done" /\ "detached" \notin holes)
         => (~Empty => body[path] = p)]_vars

(* The unqualified claim of still_holds_endpoint: "this admits exactly one *)
(* bridge per endpoint even when a rival detached around us", for two live *)
(* starters.                                                               *)
ExactlyOneStarter ==
  \A p, q \in Proc : pc[p] \in Proceeding /\ pc[q] \in Proceeding => p = q

(* A claim is "never a wait": every live process gets to its handshake or  *)
(* to its end, whatever its rivals do and wherever they die.               *)
ClaimResolves ==
  \A p \in Proc : (pc[p] = "snapshot") ~> (pc[p] \in Proceeding \cup Ended)
=============================================================================
