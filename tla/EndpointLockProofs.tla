------------------------- MODULE EndpointLockProofs -------------------------
(***************************************************************************)
(* The endpoint reservation admits one starter and one bridge, for every   *)
(* number of processes and rename attempts, while no running process's     *)
(* record is renamed away from under it.                                   *)
(***************************************************************************)
EXTENDS EndpointLock, TLAPS

(* Rename attempts stay within the bound.                                  *)
TriesBounded == \A p \in Proc : pc[p] \notin Ended => tries[p] < MaxTries

(* From its claim to its release a process's own inode is at the path.     *)
Owning == {"write", "scan", "recheck", "spawn", "handshake", "release",
           "unlink"}

OwnsPath ==
  "detached" \notin holes =>
    \A p \in Proc :
      /\ pc[p] \in Owning => path = ClaimOf(p)
      /\ pc[p] = "fill" => path = RestoreOf(p)

(* A claim holds nothing but its creator's nonce, from the write on; a     *)
(* restored copy is empty until its creator ends.                          *)
BodyOwned ==
  \A p \in Proc :
    /\ body[ClaimOf(p)] \in {p, NoBytes}
    /\ pc[p] \in Owning \ {"write"} => body[ClaimOf(p)] = p
    /\ pc[p] \notin Ended => body[RestoreOf(p)] = NoBytes

(* A process that reconciles has a file in its quarantine.                 *)
QuarantineHeld ==
  \A p \in Proc : pc[p] \in {"reconcile", "refetch"} => quar[p] \in Inode

(* From the scan of the published sessions on, a starter is alone with the *)
(* endpoint; only the handshake hides a bridge from that scan.             *)
BridgeAlone ==
  holes = {} =>
    /\ \A p \in Proc : sess[p] = "attached" => pc[p] = "handshake"
    /\ \A p, q \in Proc :
         pc[p] \in {"recheck", "spawn", "handshake"} /\ p # q
           => sess[q] = "none"
    /\ \A p, q \in Attached : p = q

Inv == TypeOK /\ TriesBounded /\ OwnsPath /\ BodyOwned /\ QuarantineHeld
         /\ BridgeAlone

-----------------------------------------------------------------------------
LEMMA InodeFacts ==
  ASSUME NEW p \in Proc, NEW q \in Proc
  PROVE  /\ ClaimOf(p) \in Inode /\ RestoreOf(p) \in Inode
         /\ ClaimOf(p) # RestoreOf(q)
         /\ ClaimOf(p) # NoInode /\ RestoreOf(p) # NoInode
         /\ (ClaimOf(p) = ClaimOf(q)) => (p = q)
         /\ (RestoreOf(p) = RestoreOf(q)) => (p = q)
         /\ ClaimOf(p)[1] = p /\ RestoreOf(p)[1] = p
         /\ p # NoBytes
BY EndpointLockAssumption DEF Inode, ClaimOf, RestoreOf

LEMMA InitInv == Init => Inv
<1> SUFFICES ASSUME Init PROVE Inv
  OBVIOUS
<1>1. TypeOK
  BY EndpointLockAssumption DEF Init, TypeOK, PC, Bytes
<1>2. TriesBounded
  BY EndpointLockAssumption DEF Init, TriesBounded
<1>3. OwnsPath
  BY DEF Init, OwnsPath, Owning
<1>4. BodyOwned /\ QuarantineHeld
  BY InodeFacts DEF Init, BodyOwned, QuarantineHeld, Owning
<1>5. BridgeAlone
  BY DEF Init, BridgeAlone, Attached
<1> QED
  BY <1>1, <1>2, <1>3, <1>4, <1>5 DEF Inv

(* The variables keep their types and the rename attempts their bound.     *)
LEMMA TypeStep == Inv /\ [Next]_vars => TypeOK' /\ TriesBounded'
<1> SUFFICES ASSUME Inv, [Next]_vars PROVE TypeOK' /\ TriesBounded'
  OBVIOUS
<1> USE EndpointLockAssumption, InodeFacts
    DEF Inv, TypeOK, TriesBounded, PC, Bytes, Ended, Goto, Empty, CreateNew,
        DropQuarantine
<1>1. ASSUME NEW p \in Proc, Claim(p) PROVE TypeOK' /\ TriesBounded'
  <2>1. /\ pc[p] = "start" /\ tries' = tries
        /\ \E l \in {"write", "snapshot"} : pc' = [pc EXCEPT ![p] = l]
    BY <1>1 DEF Claim
  <2>2. TypeOK'
    BY <1>1 DEF Claim
  <2>3. TriesBounded'
    BY <2>1
  <2> QED
    BY <2>2, <2>3
<1>2. ASSUME NEW p \in Proc, WriteRecord(p) PROVE TypeOK' /\ TriesBounded'
  <2>1. /\ pc[p] = "write" /\ tries' = tries /\ ClaimOf(p) \in Inode
        /\ \/ /\ body' = [body EXCEPT ![ClaimOf(p)] = p] /\ pc' = [pc EXCEPT ![p] = "scan"]
              /\ UNCHANGED <<path, age>>
           \/ /\ path' = NoInode /\ age' = "fresh" /\ pc' = [pc EXCEPT ![p] = "done"]
              /\ UNCHANGED body
        /\ UNCHANGED <<quar, seen, sess, holes>>
    BY <1>2 DEF WriteRecord
  <2>2. TypeOK'
    BY <2>1
  <2>3. TriesBounded'
    BY <2>1
  <2> QED
    BY <2>2, <2>3
<1>3. ASSUME NEW p \in Proc, ReadRecord(p) PROVE TypeOK' /\ TriesBounded'
  <2>1. /\ pc[p] = "snapshot" /\ tries' = tries
        /\ \E l \in {"reclaim", "judge", "done"} : pc' = [pc EXCEPT ![p] = l]
    BY <1>3 DEF ReadRecord
  <2>2. TypeOK'
    BY <1>3 DEF ReadRecord
  <2>3. TriesBounded'
    BY <2>1
  <2> QED
    BY <2>2, <2>3
<1>4. ASSUME NEW p \in Proc, Judge(p) PROVE TypeOK' /\ TriesBounded'
  <2>1. /\ pc[p] = "judge" /\ tries' = tries
        /\ \E l \in {"reclaim", "verify", "done"} : pc' = [pc EXCEPT ![p] = l]
    BY <1>4 DEF Judge
  <2>2. TypeOK'
    BY <1>4 DEF Judge
  <2>3. TriesBounded'
    BY <2>1
  <2> QED
    BY <2>2, <2>3
<1>5. ASSUME NEW p \in Proc, Verify(p) PROVE TypeOK' /\ TriesBounded'
  <2>1. /\ pc[p] = "verify" /\ tries' = tries
        /\ \E l \in {"reclaim", "detach", "done"} : pc' = [pc EXCEPT ![p] = l]
    BY <1>5 DEF Verify
  <2>2. TypeOK'
    BY <1>5 DEF Verify
  <2>3. TriesBounded'
    BY <2>1
  <2> QED
    BY <2>2, <2>3
<1>6. ASSUME NEW p \in Proc, Detach(p) PROVE TypeOK' /\ TriesBounded'
  <2>0. pc[p] = "detach" /\ UNCHANGED <<body, seen, sess>>
    BY <1>6 DEF Detach, MayRetry
  <2>1. CASE Goto(p, "reclaim") /\ UNCHANGED <<path, age, quar, tries, holes>>
    BY <2>0, <2>1
  <2>2. CASE /\ quar' = [quar EXCEPT ![p] = path]
             /\ path' = NoInode /\ age' = "fresh" /\ Goto(p, "reconcile")
             /\ holes' \subseteq holes \cup {"detached"} /\ UNCHANGED tries
    BY <2>0, <2>2
  <2>3. CASE /\ tries' = [tries EXCEPT ![p] = @ + 1]
             /\ Goto(p, IF tries[p] + 1 < MaxTries THEN "verify" ELSE "done")
             /\ UNCHANGED <<path, age, quar, holes>>
    <3>1. tries[p] + 1 \in 0 .. MaxTries
      BY <2>0
    <3>2. tries' \in [Proc -> 0 .. MaxTries]
      BY <2>3, <3>1
    <3>3. TypeOK'
      BY <2>0, <2>3, <3>2
    <3>4. ASSUME NEW q \in Proc, pc'[q] \notin Ended
          PROVE  tries'[q] < MaxTries
      <4>1. CASE q = p
        BY <2>3, <3>4, <4>1
      <4>2. CASE q # p
        BY <2>3, <3>4, <4>2
      <4> QED
        BY <4>1, <4>2
    <3> QED
      BY <3>3, <3>4
  <2> QED
    BY <1>6, <2>1, <2>2, <2>3 DEF Detach, MayRetry
<1>7. ASSUME NEW p \in Proc, Reconcile(p) PROVE TypeOK' /\ TriesBounded'
  BY <1>7 DEF Reconcile
<1>8. ASSUME NEW p \in Proc, Refetch(p) PROVE TypeOK' /\ TriesBounded'
  BY <1>8 DEF Refetch, QuarantineHeld
<1>9. ASSUME NEW p \in Proc, Restore(p) PROVE TypeOK' /\ TriesBounded'
  <2>1. /\ pc[p] = "restore" /\ tries' = tries
        /\ \E l \in {"fill", "done"} : pc' = [pc EXCEPT ![p] = l]
    BY <1>9 DEF Restore
  <2>2. TypeOK'
    BY <1>9 DEF Restore
  <2>3. TriesBounded'
    BY <2>1
  <2> QED
    BY <2>2, <2>3
<1>10. ASSUME NEW p \in Proc, Fill(p) PROVE TypeOK' /\ TriesBounded'
  <2>1. TypeOK'
    BY <1>10 DEF Fill
  <2>2. TriesBounded'
    BY <1>10 DEF Fill
  <2> QED
    BY <2>1, <2>2
<1>11. ASSUME NEW p \in Proc, Reclaim(p) PROVE TypeOK' /\ TriesBounded'
  <2>1. /\ pc[p] = "reclaim" /\ tries' = tries
        /\ \E l \in {"write", "done"} : pc' = [pc EXCEPT ![p] = l]
    BY <1>11 DEF Reclaim
  <2>2. TypeOK'
    BY <1>11 DEF Reclaim
  <2>3. TriesBounded'
    BY <2>1
  <2> QED
    BY <2>2, <2>3
<1>12. ASSUME NEW p \in Proc, Scan(p) PROVE TypeOK' /\ TriesBounded'
  BY <1>12 DEF Scan
<1>13. ASSUME NEW p \in Proc, StillHolds(p) PROVE TypeOK' /\ TriesBounded'
  BY <1>13 DEF StillHolds
<1>14. ASSUME NEW p \in Proc, SpawnBridge(p) PROVE TypeOK' /\ TriesBounded'
  BY <1>14 DEF SpawnBridge
<1>15. ASSUME NEW p \in Proc, EndHandshake(p) PROVE TypeOK' /\ TriesBounded'
  BY <1>15 DEF EndHandshake
<1>16. ASSUME NEW p \in Proc, CheckMine(p) PROVE TypeOK' /\ TriesBounded'
  BY <1>16 DEF CheckMine
<1>17. ASSUME NEW p \in Proc, Unlink(p) PROVE TypeOK' /\ TriesBounded'
  BY <1>17 DEF Unlink
<1>18. ASSUME NEW p \in Proc, Publish(p) \/ EndSession(p)
       PROVE TypeOK' /\ TriesBounded'
  <2>1. CASE Publish(p)
    BY <2>1 DEF Publish
  <2>2. CASE EndSession(p)
    BY <2>2 DEF EndSession
  <2> QED
    BY <1>18, <2>1, <2>2
<1>19. ASSUME NEW p \in Proc, Crash(p) PROVE TypeOK' /\ TriesBounded'
  BY <1>19 DEF Crash
<1>20. ASSUME GrowOld PROVE TypeOK' /\ TriesBounded'
  BY <1>20 DEF GrowOld
<1>21. CASE UNCHANGED vars
  BY <1>21 DEF vars
<1> QED
  BY <1>1, <1>2, <1>3, <1>4, <1>5, <1>6, <1>7, <1>8, <1>9, <1>10, <1>11,
     <1>12, <1>13, <1>14, <1>15, <1>16, <1>17, <1>18, <1>19, <1>20, <1>21
     DEF Next, Step

(* Only the creator of an inode writes into it, and a copy is filled by    *)
(* the step that ends its creator.                                         *)
LEMMA BodyStep == Inv /\ [Next]_vars => BodyOwned'
<1> SUFFICES ASSUME Inv, [Next]_vars, NEW r \in Proc
             PROVE  /\ body'[ClaimOf(r)] \in {r, NoBytes}
                    /\ pc'[r] \in Owning \ {"write"} => body'[ClaimOf(r)] = r
                    /\ pc'[r] \notin Ended => body'[RestoreOf(r)] = NoBytes
  BY DEF BodyOwned
<1> DEFINE Goal == /\ body'[ClaimOf(r)] \in {r, NoBytes}
                   /\ pc'[r] \in Owning \ {"write"} => body'[ClaimOf(r)] = r
                   /\ pc'[r] \notin Ended => body'[RestoreOf(r)] = NoBytes
<1> USE InodeFacts DEF Inv, TypeOK, BodyOwned, Ended, Goto, Owning
<1>1. ASSUME NEW p \in Proc, WriteRecord(p) PROVE Goal
  BY <1>1 DEF WriteRecord
<1>2. ASSUME NEW p \in Proc, Fill(p) PROVE Goal
  BY <1>2 DEF Fill
<1>3. CASE /\ UNCHANGED body
           /\ pc[r] \in Ended => pc'[r] \in Ended
           /\ pc'[r] \in Owning \ {"write"} => pc[r] \in Owning \ {"write"}
  BY <1>3
<1>4. ASSUME NEW p \in Proc,
             Step(p) \/ Publish(p) \/ EndSession(p) \/ Crash(p),
             ~WriteRecord(p), ~Fill(p)
      PROVE  /\ UNCHANGED body
             /\ pc[r] \in Ended => pc'[r] \in Ended
             /\ pc'[r] \in Owning \ {"write"} => pc[r] \in Owning \ {"write"}
  BY <1>4 DEF Step, Claim, ReadRecord, Judge, Verify, Detach, Reconcile,
      Refetch, Restore, Reclaim, Scan, StillHolds, SpawnBridge, EndHandshake,
      CheckMine, Unlink, Publish, EndSession, Crash
<1>5. CASE GrowOld \/ UNCHANGED vars
  BY <1>5 DEF GrowOld, vars
<1> QED
  BY <1>1, <1>2, <1>3, <1>4, <1>5 DEF Next

(* A rename fills the quarantine that the two steps after it read.         *)
LEMMA QuarantineStep == Inv /\ [Next]_vars => QuarantineHeld'
<1> SUFFICES ASSUME Inv, [Next]_vars, NEW r \in Proc,
                    pc'[r] \in {"reconcile", "refetch"}
             PROVE  quar'[r] \in Inode
  BY DEF QuarantineHeld
<1> USE DEF Inv, TypeOK, QuarantineHeld, Goto, Empty, DropQuarantine
<1>1. ASSUME NEW p \in Proc, Detach(p) PROVE quar'[r] \in Inode
  BY <1>1 DEF Detach
<1>2. ASSUME NEW p \in Proc, Reconcile(p) PROVE quar'[r] \in Inode
  BY <1>2 DEF Reconcile
<1>3. ASSUME NEW p \in Proc, Restore(p) \/ Fill(p) PROVE quar'[r] \in Inode
  BY <1>3 DEF Restore, Fill
<1>4. CASE UNCHANGED quar
            /\ (pc[r] = pc'[r] \/ pc'[r] \notin {"reconcile", "refetch"})
  BY <1>4
<1>5. ASSUME NEW p \in Proc,
             Step(p) \/ Publish(p) \/ EndSession(p) \/ Crash(p),
             ~Detach(p), ~Reconcile(p), ~Restore(p), ~Fill(p)
      PROVE  UNCHANGED quar
               /\ (pc[r] = pc'[r] \/ pc'[r] \notin {"reconcile", "refetch"})
  BY <1>5 DEF Step, Claim, WriteRecord, ReadRecord, Judge, Verify, Refetch,
      Reclaim, Scan, StillHolds, SpawnBridge, EndHandshake, CheckMine, Unlink,
      Publish, EndSession, Crash
<1>6. CASE GrowOld \/ UNCHANGED vars
  BY <1>6 DEF GrowOld, vars
<1> QED
  BY <1>1, <1>2, <1>3, <1>4, <1>5, <1>6 DEF Next

(* A crack in the reservation stays on record.                             *)
LEMMA HolesGrow == [Next]_vars => holes \subseteq holes'
<1> SUFFICES ASSUME [Next]_vars PROVE holes \subseteq holes'
  OBVIOUS
<1>1. ASSUME NEW p \in Proc, Detach(p) PROVE holes \subseteq holes'
  BY <1>1 DEF Detach
<1>2. ASSUME NEW p \in Proc, Crash(p) PROVE holes \subseteq holes'
  BY <1>2 DEF Crash
<1>3. ASSUME NEW p \in Proc, Step(p) \/ Publish(p) \/ EndSession(p), ~Detach(p)
      PROVE  UNCHANGED holes
  BY <1>3 DEF Step, Claim, WriteRecord, ReadRecord, Judge, Verify, Reconcile,
      Refetch, Restore, Fill, Reclaim, Scan, StillHolds, SpawnBridge,
      EndHandshake, CheckMine, Unlink, Publish, EndSession
<1>4. CASE GrowOld \/ UNCHANGED vars
  BY <1>4 DEF GrowOld, vars
<1> QED
  BY <1>1, <1>2, <1>3, <1>4 DEF Next

(* A process's inode leaves the path by its own steps only, or by a rename *)
(* of the running process's record.                                        *)
LEMMA OwnsStep == Inv /\ [Next]_vars => OwnsPath'
<1> SUFFICES ASSUME Inv, [Next]_vars, "detached" \notin holes',
                    NEW r \in Proc
             PROVE  /\ pc'[r] \in Owning => path' = ClaimOf(r)
                    /\ pc'[r] = "fill" => path' = RestoreOf(r)
  BY DEF OwnsPath
<1> DEFINE Goal == /\ pc'[r] \in Owning => path' = ClaimOf(r)
                   /\ pc'[r] = "fill" => path' = RestoreOf(r)
<1>0. "detached" \notin holes
  BY HolesGrow
<1> USE <1>0, InodeFacts
    DEF Inv, TypeOK, OwnsPath, Owning, Goto, Empty, CreateNew
<1>1. ASSUME NEW p \in Proc, Claim(p) PROVE Goal
  BY <1>1 DEF Claim
<1>2. ASSUME NEW p \in Proc, WriteRecord(p) PROVE Goal
  BY <1>2 DEF WriteRecord
<1>3. ASSUME NEW p \in Proc, Detach(p) PROVE Goal
  <2>1. CASE UNCHANGED path
    BY <1>3, <2>1 DEF Detach
  <2>2. CASE ~Empty /\ path' = NoInode /\ Goto(p, "reconcile")
    <3>1. ~OfLiveProcess(path)
      BY <1>3, <2>2 DEF Detach
    <3>2. ASSUME pc[r] \in Owning PROVE FALSE
      BY <3>1, <3>2 DEF OfLiveProcess, BodyOwned, Ended
    <3>3. ASSUME pc[r] = "fill" PROVE FALSE
      BY <3>1, <3>3 DEF OfLiveProcess, BodyOwned, Ended
    <3> QED
      BY <2>2, <3>2, <3>3
  <2> QED
    BY <1>3, <2>1, <2>2 DEF Detach
<1>4. ASSUME NEW p \in Proc, Restore(p) PROVE Goal
  BY <1>4 DEF Restore
<1>5. ASSUME NEW p \in Proc, Fill(p) PROVE Goal
  BY <1>5 DEF Fill
<1>6. ASSUME NEW p \in Proc, Reclaim(p) PROVE Goal
  BY <1>6 DEF Reclaim
<1>7. ASSUME NEW p \in Proc, Unlink(p) PROVE Goal
  BY <1>7 DEF Unlink
<1>8. ASSUME NEW p \in Proc,
             ReadRecord(p) \/ Judge(p) \/ Verify(p) \/ Reconcile(p)
               \/ Refetch(p) \/ Scan(p) \/ StillHolds(p)
      PROVE  Goal
  BY <1>8 DEF ReadRecord, Judge, Verify, Reconcile, Refetch, Scan, StillHolds
<1>9. ASSUME NEW p \in Proc,
             SpawnBridge(p) \/ EndHandshake(p) \/ CheckMine(p) \/ Publish(p)
               \/ EndSession(p) \/ Crash(p)
      PROVE  Goal
  BY <1>9 DEF SpawnBridge, EndHandshake, CheckMine, Publish, EndSession, Crash
<1>10. CASE GrowOld \/ UNCHANGED vars
  BY <1>10 DEF GrowOld, vars
<1> QED
  BY <1>1, <1>2, <1>3, <1>4, <1>5, <1>6, <1>7, <1>8, <1>9, <1>10
     DEF Next, Step

(* A bridge comes up only under the claim, after a scan that found nobody, *)
(* and outlives the claim only when published.                             *)
LEMMA BridgeStep == Inv /\ [Next]_vars => BridgeAlone'
<1> SUFFICES ASSUME Inv, [Next]_vars, holes' = {}
             PROVE  BridgeAlone'
  BY DEF BridgeAlone
<1>0. holes = {}
  BY HolesGrow
<1> USE <1>0, InodeFacts
    DEF Inv, TypeOK, OwnsPath, Owning, BridgeAlone, Attached, Goto
<1>1. ASSUME NEW p \in Proc, Scan(p) PROVE BridgeAlone'
  BY <1>1 DEF Scan
<1>2. ASSUME NEW p \in Proc, StillHolds(p) PROVE BridgeAlone'
  BY <1>2 DEF StillHolds
<1>3. ASSUME NEW p \in Proc, SpawnBridge(p) PROVE BridgeAlone'
  BY <1>3 DEF SpawnBridge
<1>4. ASSUME NEW p \in Proc, Publish(p) PROVE BridgeAlone'
  BY <1>4 DEF Publish
<1>5. ASSUME NEW p \in Proc, EndHandshake(p) PROVE BridgeAlone'
  BY <1>5 DEF EndHandshake
<1>6. ASSUME NEW p \in Proc, EndSession(p) PROVE BridgeAlone'
  BY <1>6 DEF EndSession
<1>7. ASSUME NEW p \in Proc, Crash(p) PROVE BridgeAlone'
  BY <1>7 DEF Crash
<1>8. CASE /\ UNCHANGED sess
           /\ \A r \in Proc :
                /\ pc[r] = "handshake" => pc'[r] = "handshake"
                /\ pc'[r] \in {"recheck", "spawn", "handshake"} => pc'[r] = pc[r]
  BY <1>8
<1>9. ASSUME NEW p \in Proc, Step(p), ~Scan(p), ~StillHolds(p),
             ~SpawnBridge(p), ~EndHandshake(p)
      PROVE  /\ UNCHANGED sess
             /\ \A r \in Proc :
                  /\ pc[r] = "handshake" => pc'[r] = "handshake"
                  /\ pc'[r] \in {"recheck", "spawn", "handshake"}
                       => pc'[r] = pc[r]
  BY <1>9 DEF Step, Claim, WriteRecord, ReadRecord, Judge, Verify, Detach,
      Reconcile, Refetch, Restore, Fill, Reclaim, CheckMine, Unlink
<1>10. CASE GrowOld \/ UNCHANGED vars
  BY <1>10 DEF GrowOld, vars
<1> QED
  BY <1>1, <1>2, <1>3, <1>4, <1>5, <1>6, <1>7, <1>8, <1>9, <1>10 DEF Next, Step

LEMMA InvInductive == Spec => []Inv
<1>1. Inv /\ [Next]_vars => Inv'
  BY TypeStep, BodyStep, OwnsStep, QuarantineStep, BridgeStep DEF Inv
<1> QED
  BY InitInv, <1>1, PTL DEF Spec

-----------------------------------------------------------------------------
(* Every variable of the reservation keeps its type.                       *)
THEOREM TypeCorrect == Spec => []TypeOK
<1>1. Inv => TypeOK
  BY DEF Inv
<1> QED
  BY InvInductive, <1>1, PTL

(* Exactly one starter proceeds, whatever crashes and steals happen, while *)
(* no running process's record is renamed away.                            *)
THEOREM OneStarter == Spec => []OneStarterProceeds
<1>1. Inv => OneStarterProceeds
  BY InodeFacts DEF Inv, OwnsPath, OneStarterProceeds, Proceeding, Owning
<1> QED
  BY InvInductive, <1>1, PTL

(* Two bridges are never attached to the one endpoint, whatever crashes    *)
(* and steals happen, while neither crack has opened.                      *)
THEOREM OneBridge == Spec => []OneBridgePerEndpoint
<1>1. Inv => OneBridgePerEndpoint
  BY DEF Inv, BridgeAlone, OneBridgePerEndpoint
<1> QED
  BY InvInductive, <1>1, PTL

(* The release of the guard unlinks no record but the process's own.       *)
THEOREM ReleaseIsSafe == Spec => ReleaseOnlyOwn
<1>1. Inv /\ [Next]_vars =>
        [\A p \in Proc :
           (pc[p] = "unlink" /\ pc'[p] = "done" /\ "detached" \notin holes)
             => (~Empty => body[path] = p)]_vars
  BY DEF Inv, OwnsPath, BodyOwned, Owning
<1> QED
  BY InvInductive, <1>1, PTL DEF Spec, ReleaseOnlyOwn
-----------------------------------------------------------------------------
(* A claim is "never a wait" (locks.rs), with a number: how many calls a   *)
(* process has before it at most.  Every call to come counts one, and      *)
(* every rename that may still be tried again two, itself and the look     *)
(* before it.                                                              *)
CallsAfter(label) ==
  CASE label = "start"     -> 14
    [] label = "snapshot"  -> 13
    [] label = "judge"     -> 12
    [] label = "verify"    -> 11
    [] label = "detach"    -> 10
    [] label = "reconcile" -> 9
    [] label = "reclaim"   -> 8
    [] label = "write"     -> 7
    [] label = "scan"      -> 6
    [] label = "recheck"   -> 5
    [] label = "spawn"     -> 4
    [] label = "handshake" -> 3
    [] label = "refetch"   -> 3
    [] label = "release"   -> 2
    [] label = "restore"   -> 2
    [] label = "unlink"    -> 1
    [] label = "fill"      -> 1
    [] label = "done"      -> 0
    [] label = "dead"      -> 0

BeforeRename == {"start", "snapshot", "judge", "verify", "detach"}

CallsLeft(p) ==
  CallsAfter(pc[p])
    + IF pc[p] \in BeforeRename THEN 2 * (MaxTries - 1 - tries[p]) ELSE 0

(* Never more than a number that knows nothing of the rivals, and none     *)
(* exactly at the end.                                                     *)
CallsBounded ==
  \A p \in Proc :
    /\ CallsLeft(p) \in 0 .. 12 + 2 * MaxTries
    /\ CallsLeft(p) = 0 <=> pc[p] \in Ended

(* Each call of its own brings a process nearer to its end, and nothing a  *)
(* rival does, no crash and no aging record takes it further away.         *)
CallsCountDown ==
  [][\A p \in Proc :
       /\ Step(p) => CallsLeft(p)' < CallsLeft(p)
       /\ CallsLeft(p)' <= CallsLeft(p)]_vars

LEMMA Bounded == Inv => CallsBounded
<1> SUFFICES ASSUME Inv, NEW p \in Proc
             PROVE  /\ CallsLeft(p) \in 0 .. 12 + 2 * MaxTries
                    /\ CallsLeft(p) = 0 <=> pc[p] \in Ended
  BY DEF CallsBounded
<1>1. /\ pc[p] \in PC /\ tries[p] \in 0 .. MaxTries /\ MaxTries \in Nat \ {0}
      /\ pc[p] \notin Ended => tries[p] < MaxTries
  BY EndpointLockAssumption DEF Inv, TypeOK, TriesBounded
<1> QED
  BY <1>1 DEF CallsLeft, CallsAfter, BeforeRename, PC, Ended

(* What a step does to its process: where it goes from where.              *)
LEMMA StepGoes ==
  ASSUME Inv, NEW p \in Proc, Step(p)
  PROVE  CallsLeft(p)' < CallsLeft(p)
<1>1. /\ pc[p] \in PC /\ tries[p] \in 0 .. MaxTries /\ MaxTries \in Nat \ {0}
      /\ pc[p] \notin Ended => tries[p] < MaxTries
      /\ pc \in [Proc -> PC] /\ tries \in [Proc -> 0 .. MaxTries]
  BY EndpointLockAssumption DEF Inv, TypeOK, TriesBounded
<1>2. CASE Detach(p)
  <2>1. \/ pc'[p] \in {"reclaim", "reconcile", "done"} /\ tries' = tries
        \/ pc'[p] = "verify" /\ tries'[p] = tries[p] + 1 /\ tries[p] + 1 < MaxTries
        \/ pc'[p] = "done"
    BY <1>1, <1>2 DEF Detach, Goto, MayRetry
  <2>2. pc[p] = "detach"
    BY <1>2 DEF Detach
  <2> QED
    BY <1>1, <2>1, <2>2 DEF CallsLeft, CallsAfter, BeforeRename, Ended
<1>3. CASE ~Detach(p)
  <2>1. tries' = tries
    BY <1>3 DEF Step, Claim, WriteRecord, ReadRecord, Judge, Verify, Reconcile,
        Refetch, Restore, Fill, Reclaim, Scan, StillHolds, SpawnBridge,
        EndHandshake, CheckMine, Unlink
  <2>2. \/ pc[p] = "start" /\ pc'[p] \in {"write", "snapshot"}
        \/ pc[p] = "snapshot" /\ pc'[p] \in {"reclaim", "judge", "done"}
        \/ pc[p] = "judge" /\ pc'[p] \in {"reclaim", "verify", "done"}
        \/ pc[p] = "verify" /\ pc'[p] \in {"reclaim", "detach", "done"}
        \/ pc[p] = "reconcile" /\ pc'[p] \in {"reclaim", "refetch", "done"}
        \/ pc[p] = "reclaim" /\ pc'[p] \in {"write", "done"}
        \/ pc[p] = "write" /\ pc'[p] \in {"scan", "done"}
        \/ pc[p] = "refetch" /\ pc'[p] = "restore"
        \/ pc[p] = "restore" /\ pc'[p] \in {"fill", "done"}
        \/ pc[p] \in {"fill", "unlink"} /\ pc'[p] = "done"
        \/ pc[p] = "scan" /\ pc'[p] \in {"recheck", "release"}
        \/ pc[p] = "recheck" /\ pc'[p] \in {"spawn", "release"}
        \/ pc[p] = "spawn" /\ pc'[p] \in {"handshake", "release"}
        \/ pc[p] = "handshake" /\ pc'[p] = "release"
        \/ pc[p] = "release" /\ pc'[p] \in {"unlink", "done"}
    BY <1>1, <1>3 DEF Step, Claim, WriteRecord, ReadRecord, Judge, Verify,
        Reconcile, Refetch, Restore, Fill, Reclaim, Scan, StillHolds,
        SpawnBridge, EndHandshake, CheckMine, Unlink, Goto
  <2> QED
    BY <1>1, <2>1, <2>2 DEF CallsLeft, CallsAfter, BeforeRename, Ended
<1> QED
  BY <1>2, <1>3

(* A step of another process, and what is no process's step, leave a       *)
(* process where it is or kill it.                                         *)
LEMMA OthersKeep ==
  ASSUME Inv, [Next]_vars, NEW p \in Proc, ~Step(p)
  PROVE  (pc'[p] = pc[p] /\ tries'[p] = tries[p]) \/ pc'[p] = "dead"
<1>1. pc \in [Proc -> PC] /\ tries \in [Proc -> 0 .. MaxTries]
  BY DEF Inv, TypeOK
<1>2. ASSUME NEW q \in Proc \ {p}, Step(q)
      PROVE  pc'[p] = pc[p] /\ tries'[p] = tries[p]
  BY <1>1, <1>2 DEF Step, Claim, WriteRecord, ReadRecord, Judge, Verify, Detach,
      Reconcile, Refetch, Restore, Fill, Reclaim, Scan, StillHolds,
      SpawnBridge, EndHandshake, CheckMine, Unlink, Goto
<1>3. ASSUME NEW q \in Proc, Publish(q) \/ EndSession(q) \/ Crash(q)
      PROVE  (pc'[p] = pc[p] /\ tries'[p] = tries[p]) \/ pc'[p] = "dead"
  BY <1>1, <1>3 DEF Publish, EndSession, Crash, Goto
<1>4. CASE GrowOld \/ UNCHANGED vars
  BY <1>4 DEF GrowOld, vars
<1> QED
  BY <1>2, <1>3, <1>4 DEF Next

(* A process has a bounded number of calls before it at any time, for any  *)
(* number of rivals: the bound depends on the tries of a rename only.      *)
THEOREM BoundedCalls == Spec => []CallsBounded
  BY Bounded, InvInductive, PTL

(* No loop of the claim can be prolonged by a rival: with weak fairness,   *)
(* which is TLC's part, every claim resolves.                              *)
THEOREM NeverAWait == Spec => CallsCountDown
<1>1. ASSUME Inv, [Next]_vars, Inv', NEW p \in Proc
      PROVE  /\ Step(p) => CallsLeft(p)' < CallsLeft(p)
             /\ CallsLeft(p)' <= CallsLeft(p)
  <2>1. CallsLeft(p) \in Nat /\ CallsLeft(p)' \in Nat
    <3>1. Inv' => CallsBounded'
      BY Bounded, PTL
    <3> QED
      BY <1>1, <3>1, Bounded, EndpointLockAssumption DEF CallsBounded
  <2>2. Step(p) => CallsLeft(p)' < CallsLeft(p)
    BY <1>1, StepGoes
  <2>3. ASSUME pc'[p] = pc[p], tries'[p] = tries[p]
        PROVE  CallsLeft(p)' = CallsLeft(p)
    BY <2>3 DEF CallsLeft, CallsAfter
  <2>4. ASSUME pc'[p] = "dead"
        PROVE  CallsLeft(p)' = 0
    BY <2>4 DEF CallsLeft, CallsAfter, BeforeRename
  <2>5. \/ CallsLeft(p)' < CallsLeft(p)
        \/ CallsLeft(p)' = CallsLeft(p)
        \/ CallsLeft(p)' = 0
    BY <1>1, <2>2, <2>3, <2>4, OthersKeep
  <2>6. ASSUME NEW m \in Nat, NEW n \in Nat, m < n \/ m = n \/ m = 0
        PROVE  m <= n
    BY <2>6
  <2> QED
    BY <2>1, <2>2, <2>5, <2>6
<1>2. Inv /\ Inv' /\ [Next]_vars =>
        [\A p \in Proc :
           /\ Step(p) => CallsLeft(p)' < CallsLeft(p)
           /\ CallsLeft(p)' <= CallsLeft(p)]_vars
  BY <1>1
<1> QED
  BY InvInductive, <1>2, PTL DEF Spec, CallsCountDown
=============================================================================
