--------------------------- MODULE ServePoolProofs ---------------------------
(***************************************************************************)
(* The Python bridge's server, for any number of clients, of closes, and   *)
(* of handlers in the pool: the pool's counter is exact, a close removes   *)
(* the directory of a bridge that is not closing only when a full backlog  *)
(* turns its poll away, and every step of the server is a step of the      *)
(* abstract service or none.                                               *)
(***************************************************************************)
EXTENDS ServePool, FiniteSetTheorems, TLAPS

(* The types without the counter's meaning.                                *)
Typed ==
  /\ cmd \in [Conn -> Commands]
  /\ stage \in [Conn -> Stages]
  /\ reply \in [Conn -> Replies]
  /\ pooled \subseteq Conn
  /\ loop \in {"top", "idle", "accept", "overload", "lost", "reap", "return",
               "closed", "exited"}
  /\ active \in 0 .. Limit
  /\ closing \in BOOLEAN /\ listening \in BOOLEAN /\ alive \in BOOLEAN
  /\ winner \in Conn \cup {NoOne}
  /\ linked \in {"up", "asked", "down"}
  /\ dir \in {"ours", "removed", "lost"}
  /\ cli \in [Closer -> CliSteps]

(* Every connection of the pool has a live handler, so the pool is what    *)
(* `active` counts; it is finite however many clients there are.           *)
Handled == {"reading", "decoded", "running", "acking", "cleaning", "reaping", "ending"}

PoolExact ==
  /\ IsFiniteSet(pooled)
  /\ alive => /\ \A k \in pooled : stage[k] \in Handled
              /\ active = Cardinality(pooled)

(* What leads to the end of the process: a closed socket, a close under    *)
(* way, the loop on its way out, each only when the session is closing.    *)
ClosingFirst ==
  /\ ~listening => closing
  /\ loop \in {"lost", "reap", "return", "closed", "exited"} => closing
  /\ \A k \in Conn : stage[k] \in {"acking", "cleaning", "reaping"} => closing
  /\ ~closing => winner = NoOne
  /\ ~alive => loop = "exited" /\ closing

(* A probe that finds its connection closed has met a bridge on its way    *)
(* out: the server hangs up on silent clients only, and a probe speaks.    *)
ProbesSpeak == \A c \in Closer : cmd[c] = "close" /\ cmd[Probe[c]] = "breaks"
EofIsTheEnd == \A k \in Conn : reply[k] = "eof" => closing \/ cmd[k] = "silent"

(* An acknowledgement is of a session that is closing.                     *)
AcksAreOfClosing ==
  /\ \A k \in Conn : reply[k] = "closed" => closing
  /\ \A c \in Closer : cli[c] = "acked" => closing

(* A close's connection is new to the bridge until the close makes it.      *)
NotYetMade ==
  \A c \in Closer : /\ cli[c] = "idle" => stage[c] = "none"
                    /\ cli[c] \in {"idle", "await", "probe"} => stage[Probe[c]] = "none"

Inv == Typed /\ PoolExact /\ ClosingFirst /\ ProbesSpeak /\ EofIsTheEnd
        /\ AcksAreOfClosing /\ NotYetMade /\ RemovalFollowsClosing

-----------------------------------------------------------------------------
LEMMA ProbesAreConnections ==
  /\ Closer \subseteq Conn
  /\ \A c \in Closer : Probe[c] \in Conn
BY DEF Conn

LEMMA InitInv == Init => Inv
<1> SUFFICES ASSUME Init PROVE Inv
  OBVIOUS
<1>1. Typed
  <2>1. active \in 0 .. Limit /\ winner \in Conn \cup {NoOne} /\ pooled \subseteq Conn
    BY ServePoolAssumption DEF Init
  <2>2. stage \in [Conn -> Stages] /\ reply \in [Conn -> Replies]
        /\ cli \in [Closer -> CliSteps]
    BY DEF Init, Stages, Replies, CliSteps
  <2> QED
    BY <2>1, <2>2 DEF Init, Typed
<1>2. PoolExact
  BY FS_EmptySet DEF Init, PoolExact
<1>3. ClosingFirst /\ EofIsTheEnd /\ AcksAreOfClosing /\ RemovalFollowsClosing
  BY ProbesAreConnections
     DEF Init, ClosingFirst, EofIsTheEnd, AcksAreOfClosing, RemovalFollowsClosing
<1>4. ProbesSpeak
  BY ServePoolAssumption, ProbesAreConnections DEF Init, ProbesSpeak
<1>5. NotYetMade
  BY ProbesAreConnections DEF Init, NotYetMade
<1> QED
  BY <1>1, <1>2, <1>3, <1>4, <1>5 DEF Inv

(* A live bridge that has a connection in the pool counts it.              *)
LEMMA PoolCounts ==
  ASSUME Inv, alive, NEW k \in pooled
  PROVE  active \in Nat /\ active > 0
<1>1. active \in Nat /\ IsFiniteSet(pooled) /\ active = Cardinality(pooled)
  BY ServePoolAssumption DEF Inv, Typed, PoolExact
<1> QED
  BY <1>1, FS_EmptySet

(* The variables keep their types.                                         *)
LEMMA TypeStep == Inv /\ [Next]_vars => Typed'
<1> SUFFICES ASSUME Inv, [Next]_vars PROVE Typed'
  OBVIOUS
<1> USE ServePoolAssumption
    DEF Inv, Typed, Commands, Stages, Replies, CliSteps, server, MoveTo, Answer,
        Reset, Connect, CloseServer, Admit
<1>1. CASE LoopTop
  BY <1>1 DEF LoopTop
<1>2. CASE IdlePump
  BY <1>2 DEF IdlePump
<1>3. CASE AcceptNone
  BY <1>3 DEF AcceptNone
<1>4. CASE LostCleanup
  BY <1>4 DEF LostCleanup
<1>5. CASE Return
  BY <1>5 DEF Return
<1>6. CASE Exit
  BY <1>6 DEF Exit
<1>7. CASE Lose
  BY <1>7 DEF Lose
<1>8. ASSUME NEW k \in Conn, Accept(k) PROVE Typed'
  BY <1>8 DEF Accept
<1>9. ASSUME NEW k \in Conn, Read(k) PROVE Typed'
  BY <1>9 DEF Read
<1>10. ASSUME NEW k \in Conn, ReadOverload(k) PROVE Typed'
  BY <1>10 DEF ReadOverload
<1>11. ASSUME NEW k \in Conn, Dispatch(k) PROVE Typed'
  BY <1>11 DEF Dispatch
<1>12. ASSUME NEW k \in Conn, Claim(k) PROVE Typed'
  BY <1>12 DEF Claim
<1>13. ASSUME NEW k \in Conn, Acknowledge(k) PROVE Typed'
  BY <1>13 DEF Acknowledge
<1>14. ASSUME NEW k \in Conn, Disconnect(k) PROVE Typed'
  BY <1>14 DEF Disconnect
<1>15. ASSUME NEW k \in Conn, Reap(k) PROVE Typed'
  BY <1>15 DEF Reap
<1>16. ASSUME NEW k \in Conn, Release(k) PROVE Typed'
  <2>1. k \in pooled => active > 0
    BY <1>16, PoolCounts DEF Release
  <2> QED
    BY <1>16, <2>1 DEF Release
<1>17. ASSUME NEW k \in Conn, Finish(k) PROVE Typed'
  BY <1>17 DEF Finish
<1>18. ASSUME NEW k \in Conn, CallConnects(k) PROVE Typed'
  BY <1>18 DEF CallConnects
<1>19. ASSUME NEW c \in Closer, CloseRequest(c) PROVE Typed'
  BY <1>19, ProbesAreConnections DEF CloseRequest
<1>20. ASSUME NEW c \in Closer, CloseAnswered(c) PROVE Typed'
  BY <1>20, ProbesAreConnections DEF CloseAnswered
<1>21. ASSUME NEW c \in Closer, ProbeRequest(c) PROVE Typed'
  BY <1>21, ProbesAreConnections DEF ProbeRequest
<1>22. ASSUME NEW c \in Closer, ProbeAnswered(c) PROVE Typed'
  BY <1>22, ProbesAreConnections DEF ProbeAnswered
<1>23. ASSUME NEW c \in Closer, PollConnects(c) PROVE Typed'
  <2>1. PICK k \in Knock : stage' = [stage EXCEPT ![k] = "backlog"]
    BY <1>23 DEF PollConnects
  <2>2. stage' \in [Conn -> Stages]
    BY <2>1
  <2>3. UNCHANGED <<cmd, reply, pooled, loop, active, closing, winner, listening,
                    alive, linked, dir, cli>>
    BY <1>23 DEF PollConnects
  <2> QED
    BY <2>2, <2>3
<1>24. ASSUME NEW c \in Closer, PollFails(c) PROVE Typed'
  BY <1>24, ProbesAreConnections DEF PollFails
<1>25. ASSUME NEW c \in Closer, PollEnds(c) PROVE Typed'
  BY <1>25, ProbesAreConnections DEF PollEnds
<1>26. CASE UNCHANGED vars
  BY <1>26 DEF vars
<1> QED
  BY <1>1, <1>2, <1>3, <1>4, <1>5, <1>6, <1>7, <1>8, <1>9, <1>10, <1>11, <1>12,
     <1>13, <1>14, <1>15, <1>16, <1>17, <1>18, <1>19, <1>20, <1>21, <1>22,
     <1>23, <1>24, <1>25, <1>26
  DEF Next, Looping, Serving, Closing

(* The pool: a connection enters it from the backlog and leaves it when its *)
(* handler ends.                                                            *)
LEMMA PoolStep == Inv /\ [Next]_vars => PoolExact'
<1> SUFFICES ASSUME Inv, [Next]_vars PROVE PoolExact'
  OBVIOUS
<1> USE DEF Inv, Typed, PoolExact, Handled, NotYetMade, server, MoveTo, Answer, Reset, Connect, CloseServer
<1>1. CASE LoopTop
  BY <1>1 DEF LoopTop
<1>2. CASE IdlePump
  BY <1>2 DEF IdlePump
<1>3. CASE AcceptNone
  BY <1>3 DEF AcceptNone
<1>4. CASE LostCleanup
  BY <1>4 DEF LostCleanup
<1>5. CASE Return
  BY <1>5 DEF Return
<1>6. CASE Exit
  BY <1>6 DEF Exit
<1>7. CASE Lose
  BY <1>7 DEF Lose
<1>8. ASSUME NEW k \in Conn, Accept(k) PROVE PoolExact'
  <2>1. CASE pooled' = pooled
    BY <1>8, <2>1 DEF Accept, Admit
  <2>2. CASE pooled' = pooled \cup {k} /\ active' = active + 1 /\ stage[k] = "backlog"
    <3>1. k \notin pooled \/ ~alive
      BY <2>2
    <3>2. IsFiniteSet(pooled') /\ (k \notin pooled => Cardinality(pooled') = Cardinality(pooled) + 1)
      BY <2>2, FS_AddElement
    <3>3. alive' = alive /\ stage' = [stage EXCEPT ![k] = "reading"]
      BY <1>8, <2>2 DEF Accept, Admit
    <3>4. alive => \A j \in pooled' : stage'[j] \in Handled
      BY <2>2, <3>3
    <3> QED
      BY <2>2, <3>1, <3>2, <3>3, <3>4
  <2> QED
    BY <1>8, <2>1, <2>2 DEF Accept, Admit
<1>9. ASSUME NEW k \in Conn, Read(k) PROVE PoolExact'
  BY <1>9 DEF Read
<1>10. ASSUME NEW k \in Conn, ReadOverload(k) PROVE PoolExact'
  BY <1>10 DEF ReadOverload
<1>11. ASSUME NEW k \in Conn, Dispatch(k) PROVE PoolExact'
  BY <1>11 DEF Dispatch
<1>12. ASSUME NEW k \in Conn, Claim(k) PROVE PoolExact'
  BY <1>12 DEF Claim
<1>13. ASSUME NEW k \in Conn, Acknowledge(k) PROVE PoolExact'
  BY <1>13 DEF Acknowledge
<1>14. ASSUME NEW k \in Conn, Disconnect(k) PROVE PoolExact'
  BY <1>14 DEF Disconnect
<1>15. ASSUME NEW k \in Conn, Reap(k) PROVE PoolExact'
  BY <1>15 DEF Reap
<1>16. ASSUME NEW k \in Conn, Release(k) PROVE PoolExact'
  BY <1>16, FS_RemoveElement DEF Release
<1>17. ASSUME NEW k \in Conn, Finish(k) PROVE PoolExact'
  BY <1>17 DEF Finish
<1>18. ASSUME NEW k \in Conn, CallConnects(k) PROVE PoolExact'
  BY <1>18 DEF CallConnects
<1>19. ASSUME NEW c \in Closer, CloseRequest(c) PROVE PoolExact'
  BY <1>19, ProbesAreConnections DEF CloseRequest
<1>20. ASSUME NEW c \in Closer, CloseAnswered(c) PROVE PoolExact'
  BY <1>20, ProbesAreConnections DEF CloseAnswered
<1>21. ASSUME NEW c \in Closer, ProbeRequest(c) PROVE PoolExact'
  BY <1>21, ProbesAreConnections DEF ProbeRequest
<1>22. ASSUME NEW c \in Closer, ProbeAnswered(c) PROVE PoolExact'
  BY <1>22, ProbesAreConnections DEF ProbeAnswered
<1>23. ASSUME NEW c \in Closer, PollConnects(c) PROVE PoolExact'
  BY <1>23, ProbesAreConnections DEF PollConnects
<1>24. ASSUME NEW c \in Closer, PollFails(c) PROVE PoolExact'
  BY <1>24, ProbesAreConnections DEF PollFails
<1>25. ASSUME NEW c \in Closer, PollEnds(c) PROVE PoolExact'
  BY <1>25, ProbesAreConnections DEF PollEnds
<1>26. CASE UNCHANGED vars
  BY <1>26 DEF vars
<1> QED
  BY <1>1, <1>2, <1>3, <1>4, <1>5, <1>6, <1>7, <1>8, <1>9, <1>10, <1>11, <1>12,
     <1>13, <1>14, <1>15, <1>16, <1>17, <1>18, <1>19, <1>20, <1>21, <1>22,
     <1>23, <1>24, <1>25, <1>26
  DEF Next, Looping, Serving, Closing

(* Nothing that ends the process happens before the close.                 *)
LEMMA ClosingStep == Inv /\ [Next]_vars => ClosingFirst'
<1> SUFFICES ASSUME Inv, [Next]_vars PROVE ClosingFirst'
  OBVIOUS
<1> USE DEF Inv, Typed, ClosingFirst, server, MoveTo, Answer, Reset, Connect,
            CloseServer, Admit
<1>1. CASE LoopTop
  BY <1>1 DEF LoopTop
<1>2. CASE IdlePump
  BY <1>2 DEF IdlePump
<1>3. CASE AcceptNone
  BY <1>3 DEF AcceptNone
<1>4. CASE LostCleanup
  BY <1>4 DEF LostCleanup
<1>5. CASE Return
  BY <1>5 DEF Return
<1>6. CASE Exit
  BY <1>6 DEF Exit
<1>7. CASE Lose
  BY <1>7 DEF Lose
<1>8. ASSUME NEW k \in Conn, Accept(k) PROVE ClosingFirst'
  BY <1>8 DEF Accept
<1>9. ASSUME NEW k \in Conn, Read(k) PROVE ClosingFirst'
  BY <1>9 DEF Read
<1>10. ASSUME NEW k \in Conn, ReadOverload(k) PROVE ClosingFirst'
  BY <1>10 DEF ReadOverload
<1>11. ASSUME NEW k \in Conn, Dispatch(k) PROVE ClosingFirst'
  BY <1>11 DEF Dispatch
<1>12. ASSUME NEW k \in Conn, Claim(k) PROVE ClosingFirst'
  BY <1>12 DEF Claim
<1>13. ASSUME NEW k \in Conn, Acknowledge(k) PROVE ClosingFirst'
  BY <1>13 DEF Acknowledge
<1>14. ASSUME NEW k \in Conn, Disconnect(k) PROVE ClosingFirst'
  BY <1>14 DEF Disconnect
<1>15. ASSUME NEW k \in Conn, Reap(k) PROVE ClosingFirst'
  BY <1>15 DEF Reap
<1>16. ASSUME NEW k \in Conn, Release(k) PROVE ClosingFirst'
  BY <1>16 DEF Release
<1>17. ASSUME NEW k \in Conn, Finish(k) PROVE ClosingFirst'
  BY <1>17 DEF Finish
<1>18. ASSUME NEW k \in Conn, CallConnects(k) PROVE ClosingFirst'
  BY <1>18 DEF CallConnects
<1>19. ASSUME NEW c \in Closer, CloseRequest(c) PROVE ClosingFirst'
  BY <1>19, ProbesAreConnections DEF CloseRequest
<1>20. ASSUME NEW c \in Closer, CloseAnswered(c) PROVE ClosingFirst'
  BY <1>20, ProbesAreConnections DEF CloseAnswered
<1>21. ASSUME NEW c \in Closer, ProbeRequest(c) PROVE ClosingFirst'
  BY <1>21, ProbesAreConnections DEF ProbeRequest
<1>22. ASSUME NEW c \in Closer, ProbeAnswered(c) PROVE ClosingFirst'
  BY <1>22, ProbesAreConnections DEF ProbeAnswered
<1>23. ASSUME NEW c \in Closer, PollConnects(c) PROVE ClosingFirst'
  BY <1>23, ProbesAreConnections DEF PollConnects
<1>24. ASSUME NEW c \in Closer, PollFails(c) PROVE ClosingFirst'
  BY <1>24, ProbesAreConnections DEF PollFails
<1>25. ASSUME NEW c \in Closer, PollEnds(c) PROVE ClosingFirst'
  BY <1>25, ProbesAreConnections DEF PollEnds
<1>26. CASE UNCHANGED vars
  BY <1>26 DEF vars
<1> QED
  BY <1>1, <1>2, <1>3, <1>4, <1>5, <1>6, <1>7, <1>8, <1>9, <1>10, <1>11, <1>12,
     <1>13, <1>14, <1>15, <1>16, <1>17, <1>18, <1>19, <1>20, <1>21, <1>22,
     <1>23, <1>24, <1>25, <1>26
  DEF Next, Looping, Serving, Closing

(* A connection is made by the close whose it is.                          *)
LEMMA ConnectionStep == Inv /\ [Next]_vars => NotYetMade'
<1> SUFFICES ASSUME Inv, [Next]_vars PROVE NotYetMade'
  OBVIOUS
<1> USE ServePoolAssumption, ProbesAreConnections
    DEF Inv, Typed, NotYetMade, server, MoveTo, Answer, Reset, Connect, CloseServer,
        Admit
<1>1. CASE LoopTop
  BY <1>1 DEF LoopTop
<1>2. CASE IdlePump
  BY <1>2 DEF IdlePump
<1>3. CASE AcceptNone
  BY <1>3 DEF AcceptNone
<1>4. CASE LostCleanup
  BY <1>4 DEF LostCleanup
<1>5. CASE Return
  BY <1>5 DEF Return
<1>6. CASE Exit
  BY <1>6 DEF Exit
<1>7. CASE Lose
  BY <1>7 DEF Lose
<1>8. ASSUME NEW k \in Conn, Accept(k) PROVE NotYetMade'
  BY <1>8 DEF Accept
<1>9. ASSUME NEW k \in Conn, Read(k) PROVE NotYetMade'
  BY <1>9 DEF Read
<1>10. ASSUME NEW k \in Conn, ReadOverload(k) PROVE NotYetMade'
  BY <1>10 DEF ReadOverload
<1>11. ASSUME NEW k \in Conn, Dispatch(k) PROVE NotYetMade'
  BY <1>11 DEF Dispatch
<1>12. ASSUME NEW k \in Conn, Claim(k) PROVE NotYetMade'
  BY <1>12 DEF Claim
<1>13. ASSUME NEW k \in Conn, Acknowledge(k) PROVE NotYetMade'
  BY <1>13 DEF Acknowledge
<1>14. ASSUME NEW k \in Conn, Disconnect(k) PROVE NotYetMade'
  BY <1>14 DEF Disconnect
<1>15. ASSUME NEW k \in Conn, Reap(k) PROVE NotYetMade'
  BY <1>15 DEF Reap
<1>16. ASSUME NEW k \in Conn, Release(k) PROVE NotYetMade'
  BY <1>16 DEF Release
<1>17. ASSUME NEW k \in Conn, Finish(k) PROVE NotYetMade'
  BY <1>17 DEF Finish
<1>18. ASSUME NEW k \in Conn, CallConnects(k) PROVE NotYetMade'
  BY <1>18 DEF CallConnects
<1>19. ASSUME NEW c \in Closer, CloseRequest(c) PROVE NotYetMade'
  BY <1>19 DEF CloseRequest
<1>20. ASSUME NEW c \in Closer, CloseAnswered(c) PROVE NotYetMade'
  BY <1>20 DEF CloseAnswered
<1>21. ASSUME NEW c \in Closer, ProbeRequest(c) PROVE NotYetMade'
  BY <1>21 DEF ProbeRequest
<1>22. ASSUME NEW c \in Closer, ProbeAnswered(c) PROVE NotYetMade'
  BY <1>22 DEF ProbeAnswered
<1>23. ASSUME NEW c \in Closer, PollConnects(c) PROVE NotYetMade'
  BY <1>23 DEF PollConnects
<1>24. ASSUME NEW c \in Closer, PollFails(c) PROVE NotYetMade'
  BY <1>24 DEF PollFails
<1>25. ASSUME NEW c \in Closer, PollEnds(c) PROVE NotYetMade'
  BY <1>25 DEF PollEnds
<1>26. CASE UNCHANGED vars
  BY <1>26 DEF vars
<1> QED
  BY <1>1, <1>2, <1>3, <1>4, <1>5, <1>6, <1>7, <1>8, <1>9, <1>10, <1>11, <1>12,
     <1>13, <1>14, <1>15, <1>16, <1>17, <1>18, <1>19, <1>20, <1>21, <1>22,
     <1>23, <1>24, <1>25, <1>26
  DEF Next, Looping, Serving, Closing

(* What a close reads off a closed connection.                             *)
LEMMA ReplyStep ==
  Inv /\ [Next]_vars => ProbesSpeak' /\ EofIsTheEnd'
<1> DEFINE Goal == ProbesSpeak /\ EofIsTheEnd
<1> SUFFICES ASSUME Inv, [Next]_vars PROVE Goal'
  OBVIOUS
<1> USE DEF Inv, Typed, ClosingFirst, ProbesSpeak, EofIsTheEnd, server,
            MoveTo, Answer, Reset, Connect, CloseServer, Admit
<1>1. CASE LoopTop
  BY <1>1 DEF LoopTop
<1>2. CASE IdlePump
  BY <1>2 DEF IdlePump
<1>3. CASE AcceptNone
  BY <1>3 DEF AcceptNone
<1>4. CASE LostCleanup
  BY <1>4 DEF LostCleanup
<1>5. CASE Return
  BY <1>5 DEF Return
<1>6. CASE Exit
  BY <1>6 DEF Exit
<1>7. CASE Lose
  BY <1>7 DEF Lose
<1>8. ASSUME NEW k \in Conn, Accept(k) PROVE Goal'
  BY <1>8 DEF Accept
<1>9. ASSUME NEW k \in Conn, Read(k) PROVE Goal'
  BY <1>9 DEF Read
<1>10. ASSUME NEW k \in Conn, ReadOverload(k) PROVE Goal'
  BY <1>10 DEF ReadOverload
<1>11. ASSUME NEW k \in Conn, Dispatch(k) PROVE Goal'
  BY <1>11 DEF Dispatch
<1>12. ASSUME NEW k \in Conn, Claim(k) PROVE Goal'
  BY <1>12 DEF Claim
<1>13. ASSUME NEW k \in Conn, Acknowledge(k) PROVE Goal'
  BY <1>13 DEF Acknowledge
<1>14. ASSUME NEW k \in Conn, Disconnect(k) PROVE Goal'
  BY <1>14 DEF Disconnect
<1>15. ASSUME NEW k \in Conn, Reap(k) PROVE Goal'
  BY <1>15 DEF Reap
<1>16. ASSUME NEW k \in Conn, Release(k) PROVE Goal'
  BY <1>16 DEF Release
<1>17. ASSUME NEW k \in Conn, Finish(k) PROVE Goal'
  BY <1>17 DEF Finish
<1>18. ASSUME NEW k \in Conn, CallConnects(k) PROVE Goal'
  BY <1>18 DEF CallConnects
<1>19. ASSUME NEW c \in Closer, CloseRequest(c) PROVE Goal'
  BY <1>19, ProbesAreConnections DEF CloseRequest
<1>20. ASSUME NEW c \in Closer, CloseAnswered(c) PROVE Goal'
  BY <1>20, ProbesAreConnections DEF CloseAnswered
<1>21. ASSUME NEW c \in Closer, ProbeRequest(c) PROVE Goal'
  BY <1>21, ProbesAreConnections DEF ProbeRequest
<1>22. ASSUME NEW c \in Closer, ProbeAnswered(c) PROVE Goal'
  BY <1>22, ProbesAreConnections DEF ProbeAnswered
<1>23. ASSUME NEW c \in Closer, PollConnects(c) PROVE Goal'
  BY <1>23, ProbesAreConnections DEF PollConnects
<1>24. ASSUME NEW c \in Closer, PollFails(c) PROVE Goal'
  BY <1>24, ProbesAreConnections DEF PollFails
<1>25. ASSUME NEW c \in Closer, PollEnds(c) PROVE Goal'
  BY <1>25, ProbesAreConnections DEF PollEnds
<1>26. CASE UNCHANGED vars
  BY <1>26 DEF vars
<1> QED
  BY <1>1, <1>2, <1>3, <1>4, <1>5, <1>6, <1>7, <1>8, <1>9, <1>10, <1>11, <1>12,
     <1>13, <1>14, <1>15, <1>16, <1>17, <1>18, <1>19, <1>20, <1>21, <1>22,
     <1>23, <1>24, <1>25, <1>26
  DEF Next, Looping, Serving, Closing

(* What a close makes of answers and of failed connects.                   *)
LEMMA RemovalStep ==
  Inv /\ [Next]_vars => AcksAreOfClosing' /\ RemovalFollowsClosing'
<1> DEFINE Goal == AcksAreOfClosing /\ RemovalFollowsClosing
<1> SUFFICES ASSUME Inv, [Next]_vars PROVE Goal'
  OBVIOUS
<1> USE DEF Inv, Typed, ClosingFirst, ProbesSpeak, EofIsTheEnd, AcksAreOfClosing,
            RemovalFollowsClosing, server,
            MoveTo, Answer, Reset, Connect, CloseServer, Admit
<1>1. CASE LoopTop
  BY <1>1 DEF LoopTop
<1>2. CASE IdlePump
  BY <1>2 DEF IdlePump
<1>3. CASE AcceptNone
  BY <1>3 DEF AcceptNone
<1>4. CASE LostCleanup
  BY <1>4 DEF LostCleanup
<1>5. CASE Return
  BY <1>5 DEF Return
<1>6. CASE Exit
  BY <1>6 DEF Exit
<1>7. CASE Lose
  BY <1>7 DEF Lose
<1>8. ASSUME NEW k \in Conn, Accept(k) PROVE Goal'
  BY <1>8 DEF Accept
<1>9. ASSUME NEW k \in Conn, Read(k) PROVE Goal'
  BY <1>9 DEF Read
<1>10. ASSUME NEW k \in Conn, ReadOverload(k) PROVE Goal'
  BY <1>10 DEF ReadOverload
<1>11. ASSUME NEW k \in Conn, Dispatch(k) PROVE Goal'
  BY <1>11 DEF Dispatch
<1>12. ASSUME NEW k \in Conn, Claim(k) PROVE Goal'
  BY <1>12 DEF Claim
<1>13. ASSUME NEW k \in Conn, Acknowledge(k) PROVE Goal'
  BY <1>13 DEF Acknowledge
<1>14. ASSUME NEW k \in Conn, Disconnect(k) PROVE Goal'
  BY <1>14 DEF Disconnect
<1>15. ASSUME NEW k \in Conn, Reap(k) PROVE Goal'
  BY <1>15 DEF Reap
<1>16. ASSUME NEW k \in Conn, Release(k) PROVE Goal'
  BY <1>16 DEF Release
<1>17. ASSUME NEW k \in Conn, Finish(k) PROVE Goal'
  BY <1>17 DEF Finish
<1>18. ASSUME NEW k \in Conn, CallConnects(k) PROVE Goal'
  BY <1>18 DEF CallConnects
<1>19. ASSUME NEW c \in Closer, CloseRequest(c) PROVE Goal'
  BY <1>19, ProbesAreConnections DEF CloseRequest
<1>20. ASSUME NEW c \in Closer, CloseAnswered(c) PROVE Goal'
  BY <1>20, ProbesAreConnections DEF CloseAnswered
<1>21. ASSUME NEW c \in Closer, ProbeRequest(c) PROVE Goal'
  BY <1>21, ProbesAreConnections DEF ProbeRequest
<1>22. ASSUME NEW c \in Closer, ProbeAnswered(c) PROVE Goal'
  BY <1>22, ProbesAreConnections DEF ProbeAnswered
<1>23. ASSUME NEW c \in Closer, PollConnects(c) PROVE Goal'
  BY <1>23, ProbesAreConnections DEF PollConnects
<1>24. ASSUME NEW c \in Closer, PollFails(c) PROVE Goal'
  BY <1>24, ProbesAreConnections DEF PollFails
<1>25. ASSUME NEW c \in Closer, PollEnds(c) PROVE Goal'
  BY <1>25, ProbesAreConnections DEF PollEnds
<1>26. CASE UNCHANGED vars
  BY <1>26 DEF vars
<1> QED
  BY <1>1, <1>2, <1>3, <1>4, <1>5, <1>6, <1>7, <1>8, <1>9, <1>10, <1>11, <1>12,
     <1>13, <1>14, <1>15, <1>16, <1>17, <1>18, <1>19, <1>20, <1>21, <1>22,
     <1>23, <1>24, <1>25, <1>26
  DEF Next, Looping, Serving, Closing

LEMMA Inductive == Spec => []Inv
<1>1. Inv /\ [Next]_vars => Inv'
  BY TypeStep, PoolStep, ClosingStep, ConnectionStep, ReplyStep, RemovalStep DEF Inv
<1> QED
  BY InitInv, <1>1, PTL DEF Spec

(* The pool's counter is the number of connections that live handlers have  *)
(* (ServerState.active): nothing is released twice or kept.                 *)
THEOREM PoolCountExact == Spec => []TypeOK
<1>1. Inv => TypeOK
  <2> SUFFICES ASSUME Inv PROVE TypeOK
    OBVIOUS
  <2>1. alive => {k \in pooled : stage[k] # "over"} = pooled
    BY DEF Inv, PoolExact, Handled
  <2> QED
    BY <2>1 DEF Inv, Typed, PoolExact, TypeOK
<1> QED
  BY Inductive, <1>1, PTL

(* `close` removes the directory only of a bridge that is on its way out,   *)
(* unless a full backlog turned its poll away, and reports as confirmed     *)
(* only the close of a closing bridge (close_in, the probe and the polls    *)
(* that follow the request), for any backlog and any number of polls.       *)
THEOREM RemovalSafe == Spec => []RemovalFollowsClosing
<1>1. Inv => RemovalFollowsClosing
  BY DEF Inv
<1> QED
  BY Inductive, <1>1, PTL

-----------------------------------------------------------------------------
(* The refinement: what each step of the server is to the service.          *)

LEMMA InitPromise == Init => Promise!ServiceInit
BY DEF Init, Promise!ServiceInit

(* The commands that run, after a step that moves one connection.           *)
LEMMA MoveRuns ==
  ASSUME Inv, NEW k \in Conn, NEW s \in Stages, MoveTo(k, s)
  PROVE  {j \in Conn : stage'[j] = "running"} =
           IF s = "running" THEN {j \in Conn : stage[j] = "running"} \cup {k}
           ELSE {j \in Conn : stage[j] = "running"} \ {k}
BY DEF Inv, Typed, MoveTo

(* A step that leaves the process, the claim and the commands alone.         *)
Quiet == /\ alive' = alive /\ closing' = closing /\ winner' = winner
         /\ {k \in Conn : stage'[k] = "running"} = {k \in Conn : stage[k] = "running"}

LEMMA QuietStutters == Quiet => UNCHANGED Promise!serviceVars
BY DEF Quiet, Promise!serviceVars

LEMMA StepPromise ==
  Inv /\ [Next]_vars => [Promise!ServiceNext]_(Promise!serviceVars)
<1> DEFINE Step == [Promise!ServiceNext]_(Promise!serviceVars)
<1> SUFFICES ASSUME Inv, [Next]_vars PROVE Step
  OBVIOUS
<1>1. CASE LoopTop
  <2>1. CASE closing' # closing
    <3>1. ~closing /\ closing' /\ alive /\ alive' /\ winner = NoOne /\ winner' = NoOne
          /\ stage' = stage
      BY <1>1, <2>1 DEF LoopTop, Inv, Typed, ClosingFirst
    <3>2. Promise!Close(NoOne)
      BY <3>1 DEF Promise!Close
    <3> QED
      BY <3>2 DEF Promise!ServiceNext
  <2>2. CASE closing' = closing
    BY <1>1, <2>2, QuietStutters DEF LoopTop, Quiet
  <2> QED
    BY <2>1, <2>2
<1>2. CASE IdlePump
  BY <1>2, QuietStutters DEF IdlePump, Quiet
<1>3. CASE AcceptNone
  BY <1>3, QuietStutters DEF AcceptNone, Quiet
<1>4. CASE LostCleanup
  BY <1>4, QuietStutters DEF LostCleanup, Quiet
<1>5. CASE Return
  BY <1>5, QuietStutters DEF Return, Quiet, CloseServer, Inv, Typed
<1>6. CASE Exit
  <2>1. closing /\ alive /\ ~alive' /\ winner' = winner
    BY <1>6 DEF Exit, Inv, ClosingFirst
  <2>2. {k \in Conn : stage'[k] = "running"} = {}
    BY <1>6 DEF Exit
  <2>3. Promise!Stop
    BY <2>1, <2>2 DEF Promise!Stop
  <2> QED
    BY <2>3 DEF Promise!ServiceNext
<1>7. CASE Lose
  BY <1>7, QuietStutters DEF Lose, Quiet, server
<1>8. ASSUME NEW k \in Conn, Accept(k) PROVE Step
  BY <1>8, QuietStutters DEF Accept, Admit, MoveTo, Quiet, Inv, Typed
<1>9. ASSUME NEW k \in Conn, Read(k) PROVE Step
  BY <1>9, QuietStutters DEF Read, MoveTo, Quiet, server, Inv, Typed
<1>10. ASSUME NEW k \in Conn, ReadOverload(k) PROVE Step
  BY <1>10, QuietStutters DEF ReadOverload, MoveTo, Quiet, server, Inv, Typed
<1>11. ASSUME NEW k \in Conn, Dispatch(k) PROVE Step
  <2>1. CASE closing
    BY <1>11, <2>1, QuietStutters DEF Dispatch, MoveTo, Quiet, server, Inv, Typed
  <2>2. CASE ~closing
    <3>1. MoveTo(k, "running") /\ alive /\ UNCHANGED <<alive, closing, winner>>
      BY <1>11, <2>2 DEF Dispatch, server
    <3>2. Promise!Begin(k)
      BY <2>2, <3>1, MoveRuns DEF Promise!Begin, Stages
    <3> QED
      BY <3>2 DEF Promise!ServiceNext
  <2> QED
    BY <2>1, <2>2
<1>12. ASSUME NEW k \in Conn, Claim(k) PROVE Step
  <2>1. {j \in Conn : stage'[j] = "running"} = {j \in Conn : stage[j] = "running"}
    BY <1>12 DEF Claim, MoveTo, Inv, Typed
  <2>2. CASE closing
    BY <1>12, <2>1, <2>2, QuietStutters DEF Claim, Quiet, Inv, Typed
  <2>3. CASE ~closing
    <3>1. alive /\ alive' /\ closing' /\ winner' = k
      BY <1>12, <2>3 DEF Claim
    <3>2. Promise!Close(k)
      BY <2>1, <2>3, <3>1 DEF Promise!Close
    <3> QED
      BY <3>2 DEF Promise!ServiceNext
  <2> QED
    BY <2>2, <2>3
<1>13. ASSUME NEW k \in Conn, Acknowledge(k) PROVE Step
  BY <1>13, QuietStutters DEF Acknowledge, MoveTo, Quiet, server, Inv, Typed
<1>14. ASSUME NEW k \in Conn, Disconnect(k) PROVE Step
  BY <1>14, QuietStutters DEF Disconnect, MoveTo, Quiet, Inv, Typed
<1>15. ASSUME NEW k \in Conn, Reap(k) PROVE Step
  BY <1>15, QuietStutters DEF Reap, Quiet, Inv, Typed
<1>16. ASSUME NEW k \in Conn, Release(k) PROVE Step
  BY <1>16, QuietStutters DEF Release, MoveTo, Quiet, Inv, Typed
<1>17. ASSUME NEW k \in Conn, Finish(k) PROVE Step
  <2>1. MoveTo(k, "ending") /\ alive /\ UNCHANGED <<alive, closing, winner>>
    BY <1>17 DEF Finish, server
  <2>2. Promise!Finish(k)
    BY <2>1, MoveRuns DEF Promise!Finish, Stages
  <2> QED
    BY <2>2 DEF Promise!ServiceNext
<1>18. ASSUME NEW k \in Conn, CallConnects(k) PROVE Step
  BY <1>18, QuietStutters DEF CallConnects, MoveTo, Quiet, server, Inv, Typed
<1>19. ASSUME NEW c \in Closer, CloseRequest(c) PROVE Step
  BY <1>19, QuietStutters, ProbesAreConnections
     DEF CloseRequest, Connect, MoveTo, Quiet, server, Inv, Typed, NotYetMade
<1>20. ASSUME NEW c \in Closer, CloseAnswered(c) PROVE Step
  BY <1>20, QuietStutters DEF CloseAnswered, Quiet, server
<1>21. ASSUME NEW c \in Closer, ProbeRequest(c) PROVE Step
  BY <1>21, QuietStutters, ProbesAreConnections
     DEF ProbeRequest, Connect, MoveTo, Quiet, server, Inv, Typed, NotYetMade
<1>22. ASSUME NEW c \in Closer, ProbeAnswered(c) PROVE Step
  BY <1>22, QuietStutters DEF ProbeAnswered, Quiet, server
<1>23. ASSUME NEW c \in Closer, PollConnects(c) PROVE Step
  BY <1>23, QuietStutters DEF PollConnects, MoveTo, Quiet, server, Inv, Typed
<1>24. ASSUME NEW c \in Closer, PollFails(c) PROVE Step
  BY <1>24, QuietStutters DEF PollFails, Quiet, server
<1>25. ASSUME NEW c \in Closer, PollEnds(c) PROVE Step
  BY <1>25, QuietStutters DEF PollEnds, Quiet, server
<1>26. CASE UNCHANGED vars
  BY <1>26, QuietStutters DEF vars, Quiet
<1> QED
  BY <1>1, <1>2, <1>3, <1>4, <1>5, <1>6, <1>7, <1>8, <1>9, <1>10, <1>11, <1>12,
     <1>13, <1>14, <1>15, <1>16, <1>17, <1>18, <1>19, <1>20, <1>21, <1>22,
     <1>23, <1>24, <1>25, <1>26
  DEF Next, Looping, Serving, Closing

(* The bridge's server keeps every safety promise of a service (serve,      *)
(* dispatch, _close_from_conn): no command begins once it closes, the first *)
(* close has the teardown and no later one takes it over, and it stops only *)
(* after a close.                                                           *)
THEOREM ServesSafely == Spec => Promise!ServiceSafety
BY InitPromise, StepPromise, Inductive, PTL DEF Spec, Promise!ServiceSafety

-----------------------------------------------------------------------------
(* A connection that the loop serves itself, out of the pool.              *)
Overload(k) == k \notin pooled /\ stage[k] \in Handled

(* "close can never be starved by admitted handlers" (serve): when the     *)
(* loop serves a connection itself it is one, and that one never waits for *)
(* the program it debugs.                                                  *)
LoopInv ==
  alive =>
    /\ \A k \in Conn : Overload(k) =>
         /\ loop = "overload"
         /\ stage[k] # "running"
         /\ stage[k] = "decoded" => cmd[k] = "close"
    /\ \A j, k \in Conn : Overload(j) /\ Overload(k) => j = k
    /\ loop = "overload" => \E k \in Conn : Overload(k)
    /\ loop # "exited"

LEMMA LoopStep == Inv /\ LoopInv /\ [Next]_vars => LoopInv'
<1> SUFFICES ASSUME Inv, LoopInv, [Next]_vars PROVE LoopInv'
  OBVIOUS
<1> USE DEF Inv, Typed, PoolExact, NotYetMade, LoopInv, Overload, Handled, server,
            MoveTo, Answer, Reset, Connect, CloseServer
<1>1. CASE LoopTop
  BY <1>1 DEF LoopTop
<1>2. CASE IdlePump
  BY <1>2 DEF IdlePump
<1>3. CASE AcceptNone
  BY <1>3 DEF AcceptNone
<1>4. CASE LostCleanup
  BY <1>4 DEF LostCleanup
<1>5. CASE Return
  BY <1>5 DEF Return
<1>6. CASE Exit
  BY <1>6 DEF Exit
<1>7. CASE Lose
  BY <1>7 DEF Lose
<1>8. ASSUME NEW k \in Conn, Accept(k) PROVE LoopInv'
  BY <1>8 DEF Accept, Admit
<1>9. ASSUME NEW k \in Conn, Read(k) PROVE LoopInv'
  BY <1>9 DEF Read
<1>10. ASSUME NEW k \in Conn, ReadOverload(k) PROVE LoopInv'
  BY <1>10 DEF ReadOverload
<1>11. ASSUME NEW k \in Conn, Dispatch(k) PROVE LoopInv'
  BY <1>11 DEF Dispatch
<1>12. ASSUME NEW k \in Conn, Claim(k) PROVE LoopInv'
  BY <1>12 DEF Claim
<1>13. ASSUME NEW k \in Conn, Acknowledge(k) PROVE LoopInv'
  BY <1>13 DEF Acknowledge
<1>14. ASSUME NEW k \in Conn, Disconnect(k) PROVE LoopInv'
  BY <1>14 DEF Disconnect
<1>15. ASSUME NEW k \in Conn, Reap(k) PROVE LoopInv'
  BY <1>15 DEF Reap
<1>16. ASSUME NEW k \in Conn, Release(k) PROVE LoopInv'
  BY <1>16 DEF Release
<1>17. ASSUME NEW k \in Conn, Finish(k) PROVE LoopInv'
  BY <1>17 DEF Finish
<1>18. ASSUME NEW k \in Conn, CallConnects(k) PROVE LoopInv'
  BY <1>18 DEF CallConnects
<1>19. ASSUME NEW c \in Closer, CloseRequest(c) PROVE LoopInv'
  BY <1>19, ProbesAreConnections DEF CloseRequest
<1>20. ASSUME NEW c \in Closer, CloseAnswered(c) PROVE LoopInv'
  BY <1>20, ProbesAreConnections DEF CloseAnswered
<1>21. ASSUME NEW c \in Closer, ProbeRequest(c) PROVE LoopInv'
  BY <1>21, ProbesAreConnections DEF ProbeRequest
<1>22. ASSUME NEW c \in Closer, ProbeAnswered(c) PROVE LoopInv'
  BY <1>22, ProbesAreConnections DEF ProbeAnswered
<1>23. ASSUME NEW c \in Closer, PollConnects(c) PROVE LoopInv'
  BY <1>23, ProbesAreConnections DEF PollConnects
<1>24. ASSUME NEW c \in Closer, PollFails(c) PROVE LoopInv'
  BY <1>24, ProbesAreConnections DEF PollFails
<1>25. ASSUME NEW c \in Closer, PollEnds(c) PROVE LoopInv'
  BY <1>25, ProbesAreConnections DEF PollEnds
<1>26. CASE UNCHANGED vars
  BY <1>26 DEF vars
<1> QED
  BY <1>1, <1>2, <1>3, <1>4, <1>5, <1>6, <1>7, <1>8, <1>9, <1>10, <1>11, <1>12,
     <1>13, <1>14, <1>15, <1>16, <1>17, <1>18, <1>19, <1>20, <1>21, <1>22,
     <1>23, <1>24, <1>25, <1>26
  DEF Next, Looping, Serving, Closing

(* While the process lives its loop goes round, or serves one connection   *)
(* that has a step of its own to take: it never hangs on a handler, on a   *)
(* client, or on the program it debugs.                                    *)
LoopNeverHangs ==
  alive =>
    \/ loop \in {"top", "idle", "accept", "lost", "reap", "return", "closed"}
    \/ /\ loop = "overload"
       /\ \E k \in Conn :
            /\ Overload(k) /\ \A j \in Conn : Overload(j) => j = k
            /\ stage[k] # "running"
            /\ stage[k] = "decoded" => cmd[k] = "close"

(* "close can never be starved by admitted handlers" (pybridge.py, serve): *)
(* for any size of the pool and any number of waiting handlers, nothing    *)
(* keeps the loop from the connection of a close.                          *)
THEOREM LoopAlwaysGoesOn == Spec => []LoopNeverHangs
<1>1. Init => LoopInv
  BY DEF Init, LoopInv, Overload, Handled
<1>2. Inv /\ LoopInv => LoopNeverHangs
  BY DEF Inv, Typed, LoopInv, LoopNeverHangs
<1> QED
  BY Inductive, <1>1, LoopStep, <1>2, PTL DEF Spec

(* How far a connection is.                                                *)
Far(s) ==
  CASE s = "none"     -> 0
    [] s = "backlog"  -> 1
    [] s = "reading"  -> 2
    [] s = "decoded"  -> 3
    [] s = "running"  -> 4
    [] s = "acking"   -> 4
    [] s = "cleaning" -> 5
    [] s = "reaping"  -> 6
    [] s = "ending"   -> 7
    [] s = "over"     -> 8

Later(k) == Far(stage[k]) < Far(stage'[k])
Onwards  == \A k \in Conn : stage'[k] = stage[k] \/ Later(k)

(* No connection goes back, every step of a handler takes its connection   *)
(* further, and a round of the loop takes one from the backlog, if there   *)
(* is one.                                                                 *)
RoundsServe ==
  [][/\ Onwards
     /\ \A k \in Conn : Serving(k) \/ Finish(k) => Later(k)
     /\ loop = "accept" /\ loop' # "accept" =>
          \/ \A k \in Conn : stage[k] # "backlog"
          \/ \E k \in Conn : stage[k] = "backlog" /\ Later(k)]_vars

LEMMA ServingLater ==
  ASSUME Inv, LoopInv, NEW k \in Conn, Serving(k) \/ Finish(k)
  PROVE  Later(k) /\ Onwards /\ (loop = "accept" => loop' = "accept")
<1> USE DEF Inv, Typed, MoveTo, server, Later, Onwards, Far
<1>1. CASE Read(k) \/ ReadOverload(k)
  BY <1>1 DEF Read, ReadOverload
<1>2. CASE Dispatch(k) \/ Claim(k)
  BY <1>2 DEF Dispatch, Claim
<1>3. CASE Acknowledge(k) \/ Disconnect(k)
  BY <1>3 DEF Acknowledge, Disconnect
<1>4. CASE Reap(k)
  BY <1>4 DEF Reap
<1>5. CASE Release(k)
  <2>1. stage[k] = "ending" /\ (loop' = loop \/ Overload(k)) /\ alive
    BY <1>5 DEF Release, Overload, Handled
  <2>2. loop = "accept" => loop' = "accept"
    BY <2>1 DEF LoopInv
  <2> QED
    BY <1>5, <2>2 DEF Release
<1>6. CASE Finish(k)
  BY <1>6 DEF Finish
<1> QED
  BY <1>1, <1>2, <1>3, <1>4, <1>5, <1>6 DEF Serving

(* Whatever else happens.                                                  *)
LEMMA OthersOnwards ==
  ASSUME Inv, [Next]_vars, \A k \in Conn : ~Serving(k) /\ ~Finish(k)
  PROVE  /\ Onwards
         /\ loop = "accept" /\ loop' # "accept" =>
              \/ \A k \in Conn : stage[k] # "backlog"
              \/ \E k \in Conn : stage[k] = "backlog" /\ Later(k)
<1> USE DEF Inv, Typed, NotYetMade, MoveTo, Connect, CloseServer, server, Later, Onwards, Far
<1>1. CASE LoopTop \/ IdlePump \/ AcceptNone \/ LostCleanup
  BY <1>1 DEF LoopTop, IdlePump, AcceptNone, LostCleanup
<1>2. CASE Return \/ Exit
  <2>1. \A k \in Conn : stage'[k] \in {stage[k], "over"}
    BY <1>2 DEF Return, Exit
  <2>2. \A k \in Conn : stage[k] # "over" => Far(stage[k]) < Far("over")
    BY DEF Stages
  <2> HIDE DEF Far
  <2> QED
    BY <1>2, <2>1, <2>2 DEF Return, Exit
<1>3. ASSUME NEW k \in Conn, Accept(k)
      PROVE  Onwards /\ stage[k] = "backlog" /\ Later(k)
  BY <1>3 DEF Accept, Admit
<1>4. ASSUME NEW k \in Conn, CallConnects(k) PROVE Onwards /\ loop' = loop
  BY <1>4 DEF CallConnects
<1>5. ASSUME NEW c \in Closer, CloseRequest(c) \/ ProbeRequest(c)
      PROVE  Onwards /\ loop' = loop
  BY <1>5, ProbesAreConnections DEF CloseRequest, ProbeRequest
<1>6. ASSUME NEW c \in Closer, CloseAnswered(c) \/ ProbeAnswered(c) \/ PollConnects(c)
                               \/ PollFails(c) \/ PollEnds(c)
      PROVE  Onwards /\ loop' = loop
  BY <1>6 DEF CloseAnswered, ProbeAnswered, PollConnects, PollFails, PollEnds
<1>7. CASE Lose \/ UNCHANGED vars
  BY <1>7 DEF Lose, vars
<1> QED
  BY <1>1, <1>2, <1>3, <1>4, <1>5, <1>6, <1>7 DEF Next, Looping, Closing

(* The loop never goes round in vain: while a close waits in the backlog,  *)
(* every round takes a connection out of it, and every connection that was *)
(* taken gets to its end, or to a wait in its own handler.                 *)
THEOREM NoRoundInVain == Spec => RoundsServe
<1>1. Init => LoopInv
  BY DEF Init, LoopInv, Overload, Handled
<1>2. ASSUME Inv, LoopInv, [Next]_vars
      PROVE  /\ Onwards
             /\ \A k \in Conn : Serving(k) \/ Finish(k) => Later(k)
             /\ loop = "accept" /\ loop' # "accept" =>
                  \/ \A k \in Conn : stage[k] # "backlog"
                  \/ \E k \in Conn : stage[k] = "backlog" /\ Later(k)
  BY <1>2, ServingLater, OthersOnwards
<1>3. Inv /\ LoopInv /\ [Next]_vars =>
             /\ Onwards
             /\ \A k \in Conn : Serving(k) \/ Finish(k) => Later(k)
             /\ loop = "accept" /\ loop' # "accept" =>
                  \/ \A k \in Conn : stage[k] # "backlog"
                  \/ \E k \in Conn : stage[k] = "backlog" /\ Later(k)
  BY <1>2
<1> QED
  BY Inductive, <1>1, LoopStep, <1>3, PTL DEF Spec, RoundsServe
=============================================================================
