---------------------------- MODULE StopPumpProofs ----------------------------
(***************************************************************************)
(* That the stop machine keeps its kinds, that a timeout is honest, that   *)
(* an answer is about a fresh park of a target that was asked for, and     *)
(* that only the holder of a target's slot undoes its park: for any number *)
(* of requests, children and halts.                                        *)
(***************************************************************************)
EXTENDS StopPump, SequenceTheorems, FiniteSetTheorems, WellFoundedInduction, TLAPS

(* Sections in which a request holds its target's slot.                    *)
Holding == {"look", "baseline", "issue", "begin", "pump", "close", "final", "served"}

(* What a handler knows of its request.                                    *)
Asked(c) ==
  /\ pc[c] \notin {"idle", "done"} => req[c] \in Request
  /\ pc[c] \in Holding => outstanding[Tgt(c)] = c
  /\ pc[c] \notin {"release", "done"} => result[c] = "none"
  /\ pc[c] = "served" => got[c] \in Wanted(c)

(* No exit of a living target is on its way.                               *)
Living == Event \ {Exited}

ExitsAreReal ==
  \A t \in alive :
    /\ wire[t] \in Seq(Living) /\ stash[t] \in Seq(Living)
    /\ \A p \in Pumper : hand[p] # <<t, Exited>>

Typed == TypeOK /\ ExitsAreReal /\ \A c \in Cli : Asked(c)

(* While a request waits for a target that it named, a park of that target *)
(* is newer than its baseline: there is none from before, and a new one is *)
(* published.                                                              *)
Waits(c) ==
  /\ pc[c] \in {"pump", "close", "final"} /\ req[c].explicit
  /\ holes \cap {"gap", "uncommitted"} = {}
  => (Tgt(c) \in suspended => parkSeq[Tgt(c)] > epoch[c])

(* What a request is about to answer with is newer than its baseline.      *)
Serves(c) == pc[c] = "served" /\ Known(got[c]) => parkSeq[got[c]] > epoch[c]

(* The clock is the last park's, while that target is known.               *)
LastIsLatest == Known(lastPark) => parkSeq[lastPark] = seq

FreshInv == LastIsLatest /\ \A c \in Cli : Waits(c) /\ Serves(c)

-----------------------------------------------------------------------------
(* Removing the stops from a list leaves a list of what is no stop.        *)
LEMMA LeastNumber ==
  ASSUME NEW T \in SUBSET Nat, T # {}
  PROVE  \E x \in T : \A y \in T : x <= y
<1>1. PICK x \in T : \A y \in T : <<y, x>> \notin OpToRel(<, Nat)
  BY NatLessThanWellFounded, WFMin, Zenon
<1>2. \A y \in T : ~(y < x)
  <2> SUFFICES ASSUME NEW y \in T, y < x PROVE FALSE
    OBVIOUS
  <2>1. <<y, x>> \in OpToRel(<, Nat)
    BY Zenon DEF OpToRel
  <2> QED
    BY <1>1, <2>1
<1> QED
  BY <1>2

(* One step of the filter: the rest of a prefix from that of a shorter one. *)
Kept(s, f, n) ==
  IF n = 0 THEN <<>>
  ELSE IF IsStop(s[n]) THEN f[n - 1] ELSE Append(f[n - 1], s[n])

LEMMA WithoutStopsTyped ==
  ASSUME NEW E, NEW s \in Seq(E)
  PROVE  WithoutStops(s) \in Seq({m \in E : ~IsStop(m)})
<1> DEFINE R == {m \in E : ~IsStop(m)}
           Filters(f, n) == \A i \in 0 .. n : f[i] = Kept(s, f, i) /\ f[i] \in Seq(R)
           Bad == {n \in 0 .. Len(s) : ~ \E f : f = [i \in 0 .. n |-> f[i]] /\ Filters(f, n)}
<1>1. Len(s) \in Nat /\ \A i \in 1 .. Len(s) : s[i] \in E
  OBVIOUS
<1>2. Bad = {}
  <2> SUFFICES ASSUME Bad # {} PROVE FALSE
    OBVIOUS
  <2>0. Bad \in SUBSET Nat
    BY <1>1
  <2>1. PICK n \in Bad : \A m \in Bad : n <= m
    <3> HIDE DEF Bad
    <3> QED
      BY <2>0, LeastNumber
  <2>a. n \in 0 .. Len(s) /\ n \in Nat
    BY <1>1, <2>1
  <2>2. CASE n = 0
    <3> DEFINE f == [i \in 0 .. 0 |-> <<>>]
    <3>1. f = [i \in 0 .. n |-> f[i]] /\ Filters(f, n)
      BY <2>2 DEF Kept
    <3> HIDE DEF f
    <3> QED
      BY <3>1
  <2>3. CASE n # 0
    <3>1. n - 1 \in 0 .. Len(s) /\ n - 1 \notin Bad /\ n \in 1 .. Len(s)
      <4> HIDE DEF Bad
      <4>1. n \in 1 .. Len(s) /\ n - 1 \in 0 .. Len(s) /\ ~(n <= n - 1)
        BY <1>1, <2>a, <2>3
      <4> QED
        BY <2>1, <4>1
    <3> HIDE DEF Filters
    <3>2. PICK f : f = [i \in 0 .. n - 1 |-> f[i]] /\ Filters(f, n - 1)
      BY <3>1
    <3> USE DEF Filters
    <3> DEFINE g == [i \in 0 .. n |-> IF i = n THEN Kept(s, f, n) ELSE f[i]]
    <3>3. f[n - 1] \in Seq(R)
      <4>1. n - 1 \in 0 .. n - 1
        BY <1>1, <3>1
      <4> HIDE DEF R
      <4> QED
        BY <3>2, <4>1
    <3>4. Kept(s, f, n) \in Seq(R)
      <4>1. s[n] \in E
        BY <1>1, <3>1
      <4>2. ~IsStop(s[n]) => s[n] \in R
        BY <4>1
      <4> HIDE DEF R
      <4>3. CASE IsStop(s[n])
        BY <2>3, <3>3, <4>3 DEF Kept
      <4>4. CASE ~IsStop(s[n])
        BY <2>3, <3>3, <4>2, <4>4, AppendProperties DEF Kept
      <4> QED
        BY <4>3, <4>4
    <3>5. \A i \in 0 .. n : g[i] = Kept(s, g, i) /\ g[i] \in Seq(R)
      <4> TAKE i \in 0 .. n
      <4>1. CASE i = n
        <5>1. g[n - 1] = f[n - 1]
          BY <3>1
        <5> QED
          BY <2>3, <3>1, <3>4, <4>1, <5>1 DEF Kept
      <4>2. CASE i # n
        <5>1. i \in 0 .. n - 1 /\ g[i] = f[i]
          BY <3>1, <4>2
        <5>2. f[i] = Kept(s, f, i) /\ f[i] \in Seq(R)
          BY <3>2, <5>1
        <5>3. i # 0 => g[i - 1] = f[i - 1]
          BY <3>1, <5>1
        <5> QED
          BY <5>1, <5>2, <5>3 DEF Kept
      <4> QED
        BY <4>1, <4>2
    <3>6. g = [i \in 0 .. n |-> g[i]]
      OBVIOUS
    <3> HIDE DEF g
    <3> QED
      BY <3>5, <3>6
  <2> QED
    BY <2>2, <2>3
<1> DEFINE Filter(f) == f = [i \in 0 .. Len(s) |-> Kept(s, f, i)]
<1>3. \E f : Filter(f)
  <2>1. Len(s) \in 0 .. Len(s)
    BY <1>1
  <2>2. PICK f : f = [i \in 0 .. Len(s) |-> f[i]] /\ Filters(f, Len(s))
    <3> HIDE DEF Filters
    <3> QED
      BY <1>2, <2>1
  <2>3. \A i \in 0 .. Len(s) : f[i] = Kept(s, f, i)
    BY <2>2
  <2> HIDE DEF Filters
  <2>4. f = [i \in 0 .. Len(s) |-> Kept(s, f, i)]
    BY <2>2, <2>3
  <2> QED
    BY <2>4
<1>4. PICK f : Filter(f) /\ WithoutStops(s) = f[Len(s)]
  BY <1>3 DEF WithoutStops, Kept
<1> DEFINE Wrong == {n \in 0 .. Len(s) : f[n] \notin Seq(R)}
<1>5. Wrong = {}
  <2> SUFFICES ASSUME Wrong # {} PROVE FALSE
    OBVIOUS
  <2>0. Wrong \in SUBSET Nat
    BY <1>1
  <2>1. PICK n \in Wrong : \A m \in Wrong : n <= m
    <3> HIDE DEF Wrong
    <3> QED
      BY <2>0, LeastNumber
  <2>2. n \in 0 .. Len(s) /\ f[n] = Kept(s, f, n) /\ f[n] \notin Seq(R)
    BY <1>4, <2>1
  <2>3. CASE n = 0
    <3>1. f[n] = <<>>
      BY <2>2, <2>3 DEF Kept
    <3> HIDE DEF R
    <3> QED
      BY <2>2, <3>1
  <2>4. CASE n # 0
    <3>1. n - 1 \in 0 .. Len(s) /\ n - 1 \notin Wrong /\ n \in 1 .. Len(s)
      <4>1. n \in 1 .. Len(s) /\ n - 1 \in 0 .. Len(s) /\ ~(n <= n - 1)
        BY <1>1, <2>2, <2>4
      <4> HIDE DEF Wrong
      <4> QED
        BY <2>1, <4>1
    <3>2. f[n - 1] \in Seq(R) /\ s[n] \in E
      BY <1>1, <3>1
    <3>3. ~IsStop(s[n]) => s[n] \in R
      BY <3>2
    <3> HIDE DEF R
    <3>4. Kept(s, f, n) \in Seq(R)
      <4>1. CASE IsStop(s[n])
        BY <2>4, <3>2, <4>1 DEF Kept
      <4>2. CASE ~IsStop(s[n])
        BY <2>4, <3>2, <3>3, <4>2, AppendProperties DEF Kept
      <4> QED
        BY <4>1, <4>2
    <3> QED
      BY <2>2, <3>4
  <2> QED
    BY <2>3, <2>4
<1> QED
  BY <1>1, <1>4, <1>5

LEMMA EventParts ==
  /\ \A n \in 0 .. MaxHalts : Stopped(n) \in Living
  /\ Continued \in Living
  /\ Exited \in Event
  /\ Living \subseteq Event
  /\ \A m \in Event : IsStop(m) => m[2] \in 0 .. MaxHalts
  /\ \A m \in Event : IsStop(m) \/ m = Continued \/ m = Exited
BY DEF Living, Event, Stopped, Continued, Exited, IsStop

LEMMA LivingListed == \A s \in Seq(Living) : s \in Seq(Event)
BY EventParts

LEMMA StopsDropped ==
  /\ \A s \in Seq(Event) : WithoutStops(s) \in Seq(Event)
  /\ \A s \in Seq(Living) : WithoutStops(s) \in Seq(Living)
<1>1. ASSUME NEW E, NEW s \in Seq(E) PROVE WithoutStops(s) \in Seq(E)
  <2>1. {m \in E : ~IsStop(m)} \subseteq E
    OBVIOUS
  <2>2. WithoutStops(s) \in Seq({m \in E : ~IsStop(m)})
    BY <1>1, WithoutStopsTyped
  <2> QED
    BY <2>1, <2>2
<1> QED
  BY <1>1

Sections == {"idle", "accept", "look", "baseline", "issue", "begin", "pump",
             "close", "final", "served", "release", "done", "off"}
Cracks == {"gap", "late", "swallowed", "overtaken", "uncommitted",
           "unprobed", "stranded", "vanished", "foreign"}

(* What the handlers know, by the step of one of them.                     *)
LEMMA AskedOthers ==
  ASSUME Typed, NEW c \in Cli, TypeOK', ExitsAreReal', Asked(c)',
         \A d \in Cli \ {c} : /\ pc'[d] = pc[d] /\ req'[d] = req[d]
                              /\ result'[d] = result[d] /\ got'[d] = got[d],
         \A t \in Target : outstanding[t] \in Cli \ {c} => outstanding'[t] = outstanding[t]
  PROVE  Typed'
<1>1. ASSUME NEW d \in Cli \ {c} PROVE Asked(d)'
  <2>1. Tgt(d)' = Tgt(d) /\ Wanted(d)' = Wanted(d)
    BY DEF Tgt, Wanted
  <2>2. pc[d] \in Holding => Tgt(d) \in Target
    BY DEF Typed, Asked, Holding, Request, Tgt
  <2> QED
    BY <2>1, <2>2 DEF Typed, Asked
<1> QED
  BY <1>1 DEF Typed

LEMMA AskedSame ==
  ASSUME Typed, TypeOK', ExitsAreReal', UNCHANGED <<outstanding, req, result, got>>,
         \A d \in Cli : pc'[d] = pc[d]
  PROVE  Typed'
<1>1. ASSUME NEW d \in Cli PROVE Asked(d)'
  BY DEF Typed, Asked, Tgt, Wanted
<1> QED
  BY <1>1 DEF Typed

(* What a pumping step may do to the handlers.                             *)
Pumped(p) ==
  /\ seq' \in Nat /\ seq <= seq' /\ parkSeq' \in [Target -> 0 .. seq'] /\ lastPark' \in Target
  /\ got' \in [Cli -> Target \cup {NoOne}]
  /\ pc' \in [Pumper -> Sections]
  /\ result' \in [Cli -> {"none", "ok", "error", "timeout"}]
  /\ holes' \subseteq Cracks
  /\ \A c \in Cli \ {p} : pc'[c] = pc[c] /\ result'[c] = result[c] /\ got'[c] = got[c]
  /\ p \in Cli =>
       /\ pc'[p] \in {"pump", "close", "served", "release"}
       /\ pc'[p] = "served" => got'[p] \in Wanted(p)
       /\ pc'[p] # "release" => result'[p] = result[p]

LEMMA PumpedTyped ==
  ASSUME Typed, NEW p \in Pumper, pc[p] = "pump", Pumped(p),
         UNCHANGED <<alive, halts, echoed, outstanding, req, epoch>>,
         halted' \subseteq alive,
         wire' \in [Target -> Seq(Event)], stash' \in [Target -> Seq(Event)],
         suspended' \subseteq Target \ gone', gone' \subseteq Target \ alive,
         awaiting' \subseteq Target, suspects' \in [Target -> SUBSET (0 .. MaxHalts)],
         hand' \in [Pumper -> {Nothing} \cup (Target \X Event)], ExitsAreReal'
  PROVE  Typed'
<1>1. epoch' \in [Cli -> 0 .. seq']
  <2>1. epoch' = epoch /\ epoch \in [Cli -> 0 .. seq] /\ seq \in Nat
    BY DEF Typed, TypeOK
  <2>2. seq' \in Nat /\ seq <= seq'
    BY DEF Pumped
  <2>3. 0 .. seq \subseteq 0 .. seq'
    BY <2>1, <2>2
  <2> QED
    BY <2>1, <2>3
<1>2. TypeOK'
  <2>1. /\ alive \subseteq Target /\ halts \in [Target -> 0 .. MaxHalts] /\ echoed \subseteq Target
        /\ outstanding \in [Target -> Cli \cup {NoOne}] /\ req \in [Cli -> Request \cup {NoReq}]
    BY DEF Typed, TypeOK
  <2>2. /\ pc' \in [Pumper -> {"idle", "accept", "look", "baseline", "issue", "begin", "pump",
                                "close", "final", "served", "release", "done", "off"}]
        /\ holes' \subseteq {"gap", "late", "swallowed", "overtaken", "uncommitted",
                             "unprobed", "stranded", "vanished", "foreign"}
        /\ seq' \in Nat /\ parkSeq' \in [Target -> 0 .. seq'] /\ lastPark' \in Target
        /\ got' \in [Cli -> Target \cup {NoOne}]
        /\ result' \in [Cli -> {"none", "ok", "error", "timeout"}]
    BY DEF Pumped, Sections, Cracks
  <2> QED
    BY <1>1, <2>1, <2>2 DEF TypeOK
<1>3. CASE p \in Cli
  <2>1. Asked(p)'
    BY <1>3 DEF Typed, Asked, Pumped, Holding, Tgt, Wanted
  <2> QED
    BY <1>2, <1>3, <2>1, AskedOthers DEF Pumped
<1>4. CASE p \notin Cli
  <2>1. /\ result \in [Cli -> {"none", "ok", "error", "timeout"}]
        /\ result' \in [Cli -> {"none", "ok", "error", "timeout"}]
        /\ got \in [Cli -> Target \cup {NoOne}] /\ got' \in [Cli -> Target \cup {NoOne}]
        /\ \A c \in Cli : pc'[c] = pc[c] /\ result'[c] = result[c] /\ got'[c] = got[c]
    BY <1>4 DEF Typed, TypeOK, Pumped
  <2>2. result' = result /\ got' = got
    BY <2>1
  <2> QED
    BY <1>2, <2>1, <2>2, AskedSame
<1> QED
  BY <1>3, <1>4

LEMMA HandlersAlone ==
  ASSUME Typed, NEW p \in Pumper, pc[p] = "pump",
         UNCHANGED <<seq, parkSeq, lastPark, got, pc, result>>, holes' \subseteq Cracks
  PROVE  Pumped(p)
BY DEF Pumped, Typed, TypeOK, Sections, Cracks

LEMMA RaiseTyped ==
  ASSUME Typed, NEW p \in Pumper, Raise(p)
  PROVE  /\ pc' \in [Pumper -> Sections]
         /\ result' \in [Cli -> {"none", "ok", "error", "timeout"}]
         /\ \A c \in Cli \ {p} : pc'[c] = pc[c] /\ result'[c] = result[c]
         /\ p \in Cli => pc'[p] = "release"
<1>1. /\ pc \in [Pumper -> Sections]
      /\ result \in [Cli -> {"none", "ok", "error", "timeout"}]
  BY DEF Typed, TypeOK, Sections
<1>2. CASE p = Idle
  <2>1. pc' = [pc EXCEPT ![p] = "off"] /\ result' = result /\ p \notin Cli
    BY <1>2, StopPumpAssumption DEF Raise, Goto
  <2>2. pc' \in [Pumper -> Sections]
    BY <1>1, <2>1 DEF Sections
  <2> QED
    BY <1>1, <2>1, <2>2 DEF Pumper
<1>3. CASE p # Idle
  <2>1. p \in Cli /\ pc' = [pc EXCEPT ![p] = "release"] /\ result' = [result EXCEPT ![p] = "error"]
    BY <1>3 DEF Raise, Fail, Goto, Pumper
  <2> QED
    BY <1>1, <2>1 DEF Sections
<1> QED
  BY <1>2, <1>3

LEMMA ParkStopTyped ==
  ASSUME Typed, NEW p \in Pumper, pc[p] = "pump", NEW t \in Target \ gone,
         NEW otherwise \in {"pump", "close"}, NEW cracks \in SUBSET {"unprobed"},
         ParkStop(p, t, otherwise, cracks)
  PROVE  Pumped(p) /\ suspended' = suspended \cup {t}
<1>1. /\ seq \in Nat /\ parkSeq \in [Target -> 0 .. seq] /\ lastPark \in Target
      /\ got \in [Cli -> Target \cup {NoOne}] /\ pc \in [Pumper -> Sections]
      /\ result \in [Cli -> {"none", "ok", "error", "timeout"}] /\ holes \subseteq Cracks
  BY DEF Typed, TypeOK, Sections, Cracks
<1>2. holes' \subseteq Cracks
  BY <1>1 DEF ParkStop, Cracks
<1>3. ASSUME CommitParkClock(p, t)
      PROVE  /\ seq' \in Nat /\ seq <= seq' /\ parkSeq' \in [Target -> 0 .. seq']
             /\ lastPark' \in Target /\ got' \in [Cli -> Target \cup {NoOne}]
             /\ \A c \in Cli \ {p} : got'[c] = got[c]
             /\ p \in Cli /\ p # Idle => got'[p] = t
  <2>1. seq' = seq + 1 /\ parkSeq' = [parkSeq EXCEPT ![t] = seq + 1] /\ lastPark' = t
    BY <1>3 DEF CommitParkClock
  <2>2. parkSeq' \in [Target -> 0 .. seq']
    BY <1>1, <2>1
  <2>3. got' = got \/ got' = [got EXCEPT ![p] = t]
    BY <1>3 DEF CommitParkClock, SawPark
  <2>4. p # Idle => got' = [got EXCEPT ![p] = t]
    BY <1>3 DEF CommitParkClock, SawPark
  <2> QED
    BY <1>1, <2>1, <2>2, <2>3, <2>4
<1>4. CASE CommitParkClock(p, t) /\ Hit(p, t, otherwise)
  <2>1. /\ result' = result
        /\ pc' = [pc EXCEPT ![p] = IF p = Idle THEN "off"
                                   ELSE IF t \in Wanted(p) THEN "served" ELSE otherwise]
    BY <1>4 DEF Hit, Goto
  <2>2. pc' \in [Pumper -> Sections]
    BY <1>1, <2>1 DEF Sections
  <2>3. p \in Cli => p # Idle
    BY StopPumpAssumption
  <2>4. p \in Cli => /\ pc'[p] \in {"pump", "close", "served", "release"}
                     /\ pc'[p] = "served" => t \in Wanted(p)
    BY <1>1, <2>1, <2>3
  <2>5. \A c \in Cli \ {p} : pc'[c] = pc[c]
    BY <1>1, <2>1
  <2> QED
    BY <1>1, <1>2, <1>3, <1>4, <2>1, <2>2, <2>3, <2>4, <2>5 DEF Pumped, ParkStop
<1>5. CASE CommitParkClock(p, t) /\ Raise(p)
  BY <1>1, <1>2, <1>3, <1>5, RaiseTyped DEF Pumped, ParkStop
<1>6. CASE UNCHANGED <<clock, got>> /\ Raise(p)
  BY <1>1, <1>2, <1>6, RaiseTyped DEF Pumped, ParkStop, clock
<1> QED
  BY <1>4, <1>5, <1>6 DEF ParkStop

(* What the adapter makes of a request.                                    *)
LEMMA AnsweredTyped ==
  ASSUME Typed, NEW t \in Target, NEW drop \in BOOLEAN,
         AdapterRefuses(t) \/ AdapterResumes(t, drop)
  PROVE  /\ wire' \in [Target -> Seq(Event)] /\ stash' \in [Target -> Seq(Event)]
         /\ \A u \in alive : wire'[u] \in Seq(Living) /\ stash'[u] \in Seq(Living)
         /\ halted' \subseteq halted
<1>1. /\ wire \in [Target -> Seq(Event)] /\ stash \in [Target -> Seq(Event)]
      /\ \A u \in alive : wire[u] \in Seq(Living) /\ stash[u] \in Seq(Living)
  BY DEF Typed, TypeOK, ExitsAreReal
<1>2. /\ Stashed(t) \in Seq(Event)
      /\ t \in alive => Stashed(t) \in Seq(Living)
  BY <1>1, ConcatProperties DEF Stashed
<1>3. <<>> \in Seq(Living) /\ <<Continued>> \in Seq(Living)
  BY EventParts
<1>4. ASSUME NEW read, NEW rest \in Seq(Living), read \in Seq(Event),
             t \in alive => read \in Seq(Living),
             stash' = [stash EXCEPT ![t] = read], wire' = [wire EXCEPT ![t] = rest]
      PROVE  /\ wire' \in [Target -> Seq(Event)] /\ stash' \in [Target -> Seq(Event)]
             /\ \A u \in alive : wire'[u] \in Seq(Living) /\ stash'[u] \in Seq(Living)
  BY <1>1, <1>4, LivingListed DEF Typed, TypeOK
<1>5. CASE AdapterRefuses(t)
  BY <1>2, <1>3, <1>4, <1>5 DEF AdapterRefuses
<1>6. CASE AdapterResumes(t, drop)
  <2>1. t \in alive /\ halted' \subseteq halted
    BY <1>6 DEF AdapterResumes
  <2>2. PICK when \in {"before", "after", "never"} :
          LET read == Stashed(t) \o IF when = "before" THEN <<Continued>> ELSE <<>>
          IN /\ stash' = [stash EXCEPT ![t] = IF drop THEN WithoutStops(read) ELSE read]
             /\ wire' = [wire EXCEPT ![t] = IF when = "after" THEN <<Continued>> ELSE <<>>]
    BY <1>6 DEF AdapterResumes
  <2> DEFINE read == Stashed(t) \o IF when = "before" THEN <<Continued>> ELSE <<>>
  <2>3. read \in Seq(Living)
    BY <1>2, <1>3, <2>1, ConcatProperties
  <2>4. (IF drop THEN WithoutStops(read) ELSE read) \in Seq(Living)
    BY <2>3, StopsDropped
  <2>5. (IF when = "after" THEN <<Continued>> ELSE <<>>) \in Seq(Living)
    BY <1>3
  <2> QED
    BY <1>4, <2>1, <2>2, <2>4, <2>5, LivingListed
<1> QED
  BY <1>5, <1>6 DEF AdapterRefuses

LEMMA InitTyped == Init => Typed
<1> SUFFICES ASSUME Init PROVE Typed
  OBVIOUS
<1>1. alive \subseteq Target /\ gone = Target \ alive
  BY StopPumpAssumption DEF Init, Target
<1>2. /\ halted \subseteq alive
      /\ \/ halted = {} /\ seq = 0
         \/ (\E t \in alive : halted = {t}) /\ seq = 1
  <2>1. halted \in {{}} \cup {{t} : t \in alive} /\ seq = Cardinality(halted)
    BY DEF Init
  <2>2. CASE halted = {}
    BY <2>1, <2>2, FS_EmptySet
  <2>3. CASE halted # {}
    <3>1. PICK t \in alive : halted = {t}
      BY <2>1, <2>3
    <3> QED
      BY <2>1, <3>1, FS_Singleton
  <2> QED
    BY <2>2, <2>3
<1>3. parkSeq \in [Target -> 0 .. seq] /\ lastPark \in Target
  BY <1>1, <1>2 DEF Init, Target
<1>4. TypeOK
  BY <1>1, <1>2, <1>3, StopPumpAssumption DEF Init, TypeOK, Target, Pumper
<1>5. ExitsAreReal
  <2>1. \A t \in alive : wire[t] = <<>> /\ stash[t] = <<>>
    BY <1>1 DEF Init
  <2>2. \A p \in Pumper, t \in alive : hand[p] # <<t, Exited>>
    BY DEF Init, Nothing
  <2>3. <<>> \in Seq(Living)
    OBVIOUS
  <2> QED
    BY <2>1, <2>2, <2>3 DEF ExitsAreReal
<1>6. \A c \in Cli : Asked(c)
  BY StopPumpAssumption DEF Init, Asked, Holding, Pumper
<1> QED
  BY <1>4, <1>5, <1>6 DEF Typed

LEMMA ProbeTyped ==
  ASSUME Typed, NEW c \in Cli, pc[c] = "pump", NEW otherwise \in {"pump", "close"},
         ProbeAllSuspects(c, otherwise),
         UNCHANGED <<alive, halted, halts, echoed, wire, stash, gone, outstanding, req, epoch, hand>>
  PROVE  Typed'
<1>1. c \in Pumper /\ TypeOK
  BY DEF Pumper, Typed
<1>2. ExitsAreReal'
  BY DEF Typed, ExitsAreReal
<1>3. CASE \E t \in Held \cap halted : \E dropped \in SUBSET (Held \ {t}) :
             /\ suspects' = [u \in Target |-> IF u \in dropped \cup {t} THEN {} ELSE suspects[u]]
             /\ awaiting' = awaiting \ {t}
             /\ ParkStop(c, t, otherwise, IF dropped \cap halted # {} THEN {"unprobed"} ELSE {})
  <2>1. PICK t \in Held \cap halted : \E dropped \in SUBSET (Held \ {t}) :
             /\ suspects' = [u \in Target |-> IF u \in dropped \cup {t} THEN {} ELSE suspects[u]]
             /\ awaiting' = awaiting \ {t}
             /\ ParkStop(c, t, otherwise, IF dropped \cap halted # {} THEN {"unprobed"} ELSE {})
    BY <1>3
  <2>2. PICK dropped \in SUBSET (Held \ {t}) :
             /\ suspects' = [u \in Target |-> IF u \in dropped \cup {t} THEN {} ELSE suspects[u]]
             /\ awaiting' = awaiting \ {t}
             /\ ParkStop(c, t, otherwise, IF dropped \cap halted # {} THEN {"unprobed"} ELSE {})
    BY <2>1
  <2>3. t \in Target \ gone
    BY <1>1 DEF Held, TypeOK
  <2>4. (IF dropped \cap halted # {} THEN {"unprobed"} ELSE {}) \in SUBSET {"unprobed"}
    OBVIOUS
  <2>5. Pumped(c) /\ suspended' = suspended \cup {t}
    BY <1>1, <2>2, <2>3, <2>4, ParkStopTyped
  <2>6. /\ suspects' \in [Target -> SUBSET (0 .. MaxHalts)] /\ awaiting' \subseteq Target
        /\ suspended' \subseteq Target \ gone'
    BY <1>1, <2>2, <2>3, <2>5 DEF TypeOK
  <2> QED
    BY <1>1, <1>2, <2>5, <2>6, PumpedTyped DEF TypeOK
<1>4. CASE /\ suspects' = [u \in Target |-> IF u \in Held THEN {} ELSE suspects[u]]
           /\ holes' = holes \cup IF Held \cap halted # {} THEN {"unprobed"} ELSE {}
           /\ Goto(c, otherwise)
           /\ UNCHANGED <<awaiting, suspended, clock, got, result>>
  <2>1. /\ pc' = [pc EXCEPT ![c] = otherwise] /\ holes' \subseteq Cracks
        /\ suspects' \in [Target -> SUBSET (0 .. MaxHalts)]
    BY <1>1, <1>4 DEF Goto, Cracks, TypeOK
  <2>2. Pumped(c)
    BY <1>1, <1>4, <2>1 DEF Pumped, TypeOK, clock, Sections
  <2> QED
    BY <1>1, <1>2, <1>4, <2>1, <2>2, PumpedTyped DEF TypeOK
<1> QED
  BY <1>3, <1>4 DEF ProbeAllSuspects

LEMMA PopTyped ==
  ASSUME Typed, NEW p \in Pumper, Pop(p)
  PROVE  Typed'
<1>1. TypeOK /\ ExitsAreReal
  BY DEF Typed
<1>2. PICK t \in Target \ gone :
        \/ /\ stash[t] # <<>>
           /\ hand' = [hand EXCEPT ![p] = <<t, Head(stash[t])>>]
           /\ stash' = [stash EXCEPT ![t] = Tail(@)]
           /\ holes' = holes \cup Overtakes(p, t, FALSE)
           /\ UNCHANGED wire
        \/ /\ wire[t] # <<>>
           /\ hand' = [hand EXCEPT ![p] = <<t, Head(wire[t])>>]
           /\ wire' = [wire EXCEPT ![t] = Tail(@)]
           /\ holes' = holes \cup Overtakes(p, t, TRUE)
           /\ UNCHANGED stash
  BY DEF Pop
<1>3. holes' \subseteq Cracks
  BY <1>1, <1>2 DEF Overtakes, Cracks, TypeOK
<1>4. Pumped(p)
  BY <1>3, HandlersAlone DEF Pop, clock
<1>5. PICK s \in Seq(Event) :
        /\ s # <<>> /\ hand' = [hand EXCEPT ![p] = <<t, Head(s)>>]
        /\ t \in alive => s \in Seq(Living)
        /\ \/ s = stash[t] /\ stash' = [stash EXCEPT ![t] = Tail(s)] /\ wire' = wire
           \/ s = wire[t] /\ wire' = [wire EXCEPT ![t] = Tail(s)] /\ stash' = stash
  BY <1>1, <1>2 DEF TypeOK, ExitsAreReal
<1>6. Head(s) \in Event /\ Tail(s) \in Seq(Event)
  BY <1>5, HeadTailProperties
<1>7. t \in alive => Head(s) \in Living /\ Tail(s) \in Seq(Living)
  BY <1>5, HeadTailProperties
<1>8. /\ hand' \in [Pumper -> {Nothing} \cup (Target \X Event)]
      /\ wire' \in [Target -> Seq(Event)] /\ stash' \in [Target -> Seq(Event)]
  <2>1. /\ wire \in [Target -> Seq(Event)] /\ stash \in [Target -> Seq(Event)]
        /\ hand \in [Pumper -> {Nothing} \cup (Target \X Event)]
    BY <1>1 DEF TypeOK
  <2>2. <<t, Head(s)>> \in Target \X Event
    BY <1>6
  <2> QED
    BY <1>5, <1>6, <2>1, <2>2
<1>9. ExitsAreReal'
  <2>1. \A u \in alive : wire'[u] \in Seq(Living) /\ stash'[u] \in Seq(Living)
    <3>1. /\ wire \in [Target -> Seq(Event)] /\ stash \in [Target -> Seq(Event)]
          /\ alive \subseteq Target
          /\ \A u \in alive : wire[u] \in Seq(Living) /\ stash[u] \in Seq(Living)
      BY <1>1 DEF TypeOK, ExitsAreReal
    <3>2. /\ wire' = wire \/ wire' = [wire EXCEPT ![t] = Tail(s)]
          /\ stash' = stash \/ stash' = [stash EXCEPT ![t] = Tail(s)]
      BY <1>5
    <3> QED
      BY <1>7, <3>1, <3>2
  <2>2. \A u \in alive, q \in Pumper : hand'[q] # <<u, Exited>>
    <3>1. t \in alive => Head(s) # Exited
      BY <1>7 DEF Living
    <3>2. hand'[p] = <<t, Head(s)>> /\ \A q \in Pumper \ {p} : hand'[q] = hand[q]
      BY <1>1, <1>5 DEF TypeOK
    <3>3. \A u \in alive, q \in Pumper : hand[q] # <<u, Exited>>
      BY <1>1 DEF ExitsAreReal
    <3> QED
      BY <3>1, <3>2, <3>3
  <2>3. alive' = alive
    BY DEF Pop
  <2> QED
    BY <2>1, <2>2, <2>3 DEF ExitsAreReal
<1>10. /\ pc[p] = "pump"
       /\ UNCHANGED <<alive, halted, halts, echoed, suspended, awaiting, suspects, gone,
                      outstanding, req, epoch>>
  BY DEF Pop, told, asked
<1> QED
  BY <1>1, <1>4, <1>8, <1>9, <1>10, PumpedTyped DEF TypeOK

LEMMA DispatchTyped ==
  ASSUME Typed, NEW p \in Pumper, DispatchPumped(p)
  PROVE  Typed'
<1>1. TypeOK /\ ExitsAreReal
  BY DEF Typed
<1>2. PICK t \in Target, m \in Event :
        /\ hand[p] = <<t, m>> /\ hand[p][1] = t /\ hand[p][2] = m
        /\ pc[p] = "pump" /\ hand' = [hand EXCEPT ![p] = Nothing]
        /\ UNCHANGED <<alive, halted, halts, echoed, outstanding, req, epoch>>
  <2>1. /\ hand[p] \in Target \X Event /\ pc[p] = "pump" /\ hand' = [hand EXCEPT ![p] = Nothing]
        /\ UNCHANGED <<alive, halted, halts, echoed, outstanding, req, epoch>>
    BY <1>1 DEF DispatchPumped, TypeOK, told, asked
  <2>2. PICK t \in Target, m \in Event : hand[p] = <<t, m>>
    BY <2>1
  <2> QED
    BY <2>1, <2>2
<1>3. hand' \in [Pumper -> {Nothing} \cup (Target \X Event)]
  BY <1>1, <1>2 DEF TypeOK
<1>4. \A u \in alive, q \in Pumper : hand'[q] # <<u, Exited>>
  BY <1>1, <1>2 DEF TypeOK, ExitsAreReal, Nothing
<1>5. ASSUME UNCHANGED <<wire, stash>> PROVE ExitsAreReal'
  BY <1>1, <1>2, <1>4, <1>5 DEF ExitsAreReal
<1>6. CASE NoPark /\ UNCHANGED <<awaiting, suspects, gone, stash, wire>>
  <2>1. Pumped(p)
    BY <1>1, <1>2, <1>6, HandlersAlone DEF NoPark, clock, TypeOK, Cracks
  <2> QED
    BY <1>1, <1>2, <1>3, <1>5, <1>6, <2>1, PumpedTyped DEF TypeOK, NoPark
<1>7. CASE t \notin gone /\ IsStop(m) /\ HandleStopped(p, t, m[2])
  <2>1. m[2] \in 0 .. MaxHalts
    BY <1>2, <1>7, EventParts
  <2>2. /\ UNCHANGED <<awaiting, gone, stash, wire>>
        /\ \/ NoPark /\ (suspects' = suspects \/ suspects' = [suspects EXCEPT ![t] = @ \cup {m[2]}])
           \/ suspects' = suspects /\ ParkStop(p, t, "pump", {})
    BY <1>7 DEF HandleStopped, NoteSuspect
  <2>3. Pumped(p) /\ suspended' \subseteq Target \ gone
    <3>1. CASE NoPark
      BY <1>1, <1>2, <3>1, HandlersAlone DEF NoPark, clock, TypeOK, Cracks
    <3>2. CASE ParkStop(p, t, "pump", {})
      BY <1>1, <1>2, <1>7, <3>2, ParkStopTyped DEF TypeOK
    <3> QED
      BY <2>2, <3>1, <3>2
  <2>4. suspects' \in [Target -> SUBSET (0 .. MaxHalts)]
    <3>1. suspects \in [Target -> SUBSET (0 .. MaxHalts)]
      BY <1>1 DEF TypeOK
    <3>2. suspects[t] \cup {m[2]} \in SUBSET (0 .. MaxHalts)
      BY <2>1, <3>1
    <3> QED
      BY <2>2, <3>1, <3>2
  <2> QED
    BY <1>1, <1>2, <1>3, <1>5, <2>2, <2>3, <2>4, PumpedTyped DEF TypeOK
<1>8. CASE t \notin gone /\ HandleContinued(p, t)
  <2>1. /\ UNCHANGED <<gone, stash, wire>> /\ awaiting' \subseteq awaiting
        /\ suspects' = suspects \/ suspects' = [suspects EXCEPT ![t] = {}]
        /\ NoPark \/ ParkStop(p, t, "pump", {})
    BY <1>8 DEF HandleContinued
  <2>2. Pumped(p) /\ suspended' \subseteq Target \ gone
    <3>1. CASE NoPark
      BY <1>1, <1>2, <3>1, HandlersAlone DEF NoPark, clock, TypeOK, Cracks
    <3>2. CASE ParkStop(p, t, "pump", {})
      BY <1>1, <1>2, <1>8, <3>2, ParkStopTyped DEF TypeOK
    <3> QED
      BY <2>1, <3>1, <3>2
  <2>3. suspects' \in [Target -> SUBSET (0 .. MaxHalts)] /\ awaiting' \subseteq Target
    BY <1>1, <1>2, <2>1 DEF TypeOK
  <2> QED
    BY <1>1, <1>2, <1>3, <1>5, <2>1, <2>2, <2>3, PumpedTyped DEF TypeOK
<1>9. CASE m = Exited /\ HandleExited(p, t)
  <2>1. t \notin alive
    BY <1>1, <1>2, <1>9 DEF ExitsAreReal
  <2>2. /\ gone' = gone \cup {t} /\ suspended' = suspended \ {t}
        /\ parkSeq' = parkSeq \/ parkSeq' = [parkSeq EXCEPT ![t] = 0]
        /\ stash' = [stash EXCEPT ![t] = <<>>] /\ wire' = [wire EXCEPT ![t] = <<>>]
        /\ Raise(p) \/ UNCHANGED <<pc, result>>
        /\ UNCHANGED <<awaiting, suspects, seq, lastPark, got, holes>>
    BY <1>9 DEF HandleExited
  <2>3. /\ wire' \in [Target -> Seq(Event)] /\ stash' \in [Target -> Seq(Event)]
        /\ \A u \in alive : wire'[u] = wire[u] /\ stash'[u] = stash[u]
    <3>1. <<>> \in Seq(Event)
      OBVIOUS
    <3> QED
      BY <1>1, <1>2, <2>1, <2>2, <3>1 DEF TypeOK
  <2>4. ExitsAreReal'
    BY <1>1, <1>2, <1>4, <2>3 DEF ExitsAreReal
  <2>5. parkSeq' \in [Target -> 0 .. seq] /\ seq \in Nat
    <3>1. parkSeq \in [Target -> 0 .. seq] /\ seq \in Nat /\ 0 \in 0 .. seq
      BY <1>1 DEF TypeOK
    <3> QED
      BY <2>2, <3>1
  <2>6. Pumped(p)
    <3>1. /\ got \in [Cli -> Target \cup {NoOne}] /\ lastPark \in Target /\ holes \subseteq Cracks
          /\ pc \in [Pumper -> Sections] /\ result \in [Cli -> {"none", "ok", "error", "timeout"}]
      BY <1>1 DEF TypeOK, Sections, Cracks
    <3>2. CASE Raise(p)
      BY <2>2, <2>5, <3>1, <3>2, RaiseTyped DEF Pumped
    <3>3. CASE UNCHANGED <<pc, result>>
      BY <1>2, <2>2, <2>5, <3>1, <3>3 DEF Pumped
    <3> QED
      BY <2>2, <3>2, <3>3
  <2>7. suspended' \subseteq Target \ gone' /\ gone' \subseteq Target \ alive
    BY <1>1, <2>1, <2>2 DEF TypeOK
  <2>8. /\ halted \subseteq alive /\ awaiting \subseteq Target
        /\ suspects \in [Target -> SUBSET (0 .. MaxHalts)]
    BY <1>1 DEF TypeOK
  <2> QED
    BY <1>2, <1>3, <2>2, <2>3, <2>4, <2>6, <2>7, <2>8, PumpedTyped
<1> QED
  BY <1>2, <1>6, <1>7, <1>8, <1>9 DEF DispatchPumped

(* A section of one handler that leaves the pump's data alone, or ends      *)
(* episodes.                                                               *)
Section(c, l, r, g, q, e) ==
  /\ pc' = [pc EXCEPT ![c] = l] /\ result' = [result EXCEPT ![c] = r]
  /\ got' = [got EXCEPT ![c] = g] /\ req' = [req EXCEPT ![c] = q]
  /\ epoch' = [epoch EXCEPT ![c] = e]
  /\ awaiting' \subseteq awaiting /\ holes' \subseteq Cracks
  /\ UNCHANGED <<alive, halted, halts, echoed, wire, stash, suspended, suspects, gone,
                 seq, parkSeq, lastPark, hand>>

LEMMA SectionTyped ==
  ASSUME Typed, NEW c \in Cli, NEW l \in Sections,
         NEW r \in {"none", "ok", "error", "timeout"}, NEW g \in Target \cup {NoOne},
         NEW q \in Request \cup {NoReq}, NEW e \in 0 .. seq,
         Section(c, l, r, g, q, e),
         outstanding' \in [Target -> Cli \cup {NoOne}],
         \A t \in Target : outstanding[t] \in Cli \ {c} => outstanding'[t] = outstanding[t],
         l \notin {"idle", "done"} => q \in Request,
         l \in Holding => outstanding'[q.target] = c,
         l \notin {"release", "done"} => r = "none",
         l = "served" => g \in Wanted(c)'
  PROVE  Typed'
<1>1. TypeOK /\ ExitsAreReal /\ c \in Pumper
  BY DEF Typed, Pumper
<1>2. /\ pc \in [Pumper -> Sections] /\ result \in [Cli -> {"none", "ok", "error", "timeout"}]
      /\ got \in [Cli -> Target \cup {NoOne}] /\ req \in [Cli -> Request \cup {NoReq}]
      /\ epoch \in [Cli -> 0 .. seq] /\ awaiting \subseteq Target
  BY <1>1 DEF TypeOK, Sections
<1>3. /\ pc' \in [Pumper -> Sections] /\ result' \in [Cli -> {"none", "ok", "error", "timeout"}]
      /\ got' \in [Cli -> Target \cup {NoOne}] /\ req' \in [Cli -> Request \cup {NoReq}]
      /\ epoch' \in [Cli -> 0 .. seq'] /\ awaiting' \subseteq Target
  BY <1>1, <1>2 DEF Section
<1>4. TypeOK'
  BY <1>1, <1>3 DEF TypeOK, Section, Sections, Cracks
<1>5. ExitsAreReal'
  BY <1>1 DEF ExitsAreReal, Section
<1>6. /\ pc'[c] = l /\ result'[c] = r /\ got'[c] = g /\ req'[c] = q
      /\ \A d \in Cli \ {c} : /\ pc'[d] = pc[d] /\ req'[d] = req[d]
                              /\ result'[d] = result[d] /\ got'[d] = got[d]
  BY <1>1, <1>2, StopPumpAssumption DEF Pumper, Section
<1>7. Asked(c)'
  BY <1>6 DEF Asked, Tgt
<1> QED
  BY <1>4, <1>5, <1>6, <1>7, AskedOthers

(* What a handler's section may count on.                                  *)
LEMMA SectionFacts ==
  ASSUME Typed, NEW c \in Cli
  PROVE  /\ pc \in [Pumper -> Sections] /\ pc[c] \in Sections
         /\ result[c] \in {"none", "ok", "error", "timeout"}
         /\ result = [result EXCEPT ![c] = result[c]]
         /\ got[c] \in Target \cup {NoOne} /\ got = [got EXCEPT ![c] = got[c]]
         /\ req[c] \in Request \cup {NoReq} /\ req = [req EXCEPT ![c] = req[c]]
         /\ epoch[c] \in 0 .. seq /\ epoch = [epoch EXCEPT ![c] = epoch[c]]
         /\ outstanding \in [Target -> Cli \cup {NoOne}]
         /\ holes \subseteq Cracks /\ awaiting \subseteq Target
         /\ lastPark \in Target
         /\ pc[c] \notin {"idle", "done"} => /\ req[c] \in Request /\ Tgt(c) \in Target
                                           /\ Wanted(c) \subseteq Target
         /\ pc[c] \in Holding => outstanding[req[c].target] = c
         /\ pc[c] \notin {"release", "done"} => result[c] = "none"
         /\ pc[c] = "served" => got[c] \in Wanted(c)
<1>1. TypeOK /\ Asked(c) /\ c \in Pumper
  BY DEF Typed, Pumper
<1>2. /\ pc \in [Pumper -> Sections] /\ result \in [Cli -> {"none", "ok", "error", "timeout"}]
      /\ got \in [Cli -> Target \cup {NoOne}] /\ req \in [Cli -> Request \cup {NoReq}]
      /\ epoch \in [Cli -> 0 .. seq] /\ awaiting \subseteq Target /\ holes \subseteq Cracks
      /\ outstanding \in [Target -> Cli \cup {NoOne}] /\ lastPark \in Target
  BY <1>1 DEF TypeOK, Sections, Cracks
<1>3. req[c] \in Request => Tgt(c) \in Target /\ Wanted(c) \subseteq Target
  BY DEF Request, Tgt, Wanted
<1>4. /\ result = [result EXCEPT ![c] = result[c]] /\ got = [got EXCEPT ![c] = got[c]]
      /\ req = [req EXCEPT ![c] = req[c]] /\ epoch = [epoch EXCEPT ![c] = epoch[c]]
  BY <1>2
<1> QED
  BY <1>1, <1>2, <1>3, <1>4 DEF Asked, Tgt

(* The types, step by step.                                                *)
LEMMA HandlerTyped ==
  ASSUME Typed, NEW c \in Cli,
         \/ Submit(c) \/ Accept(c) \/ Look(c) \/ Baseline(c) \/ Handoff(c)
         \/ CloseSuspectEpisodes(c) \/ LastLook(c) \/ LostAll(c) \/ Serve(c) \/ Release(c)
  PROVE  Typed'
<1> USE DEF Goto, Fail, Succeed, adapter, told, bridge, clock, asked
<1>0. /\ result[c] \in {"none", "ok", "error", "timeout"} /\ result = [result EXCEPT ![c] = result[c]]
      /\ got[c] \in Target \cup {NoOne} /\ got = [got EXCEPT ![c] = got[c]]
      /\ req[c] \in Request \cup {NoReq} /\ req = [req EXCEPT ![c] = req[c]]
      /\ epoch[c] \in 0 .. seq /\ epoch = [epoch EXCEPT ![c] = epoch[c]]
      /\ holes \subseteq Cracks
  BY SectionFacts
<1>a. /\ outstanding \in [Target -> Cli \cup {NoOne}]
      /\ pc[c] \notin {"idle", "done"} => req[c] \in Request /\ Tgt(c) \in Target
      /\ pc[c] \in Holding => outstanding[req[c].target] = c
      /\ pc[c] \notin {"release", "done"} => result[c] = "none"
  BY SectionFacts
<1>b. /\ "release" \in Sections /\ "release" \notin Holding
      /\ "done" \in Sections /\ "done" \notin Holding
  BY DEF Sections, Holding
<1>c. outstanding' = outstanding =>
        /\ outstanding' \in [Target -> Cli \cup {NoOne}]
        /\ \A t \in Target : outstanding[t] \in Cli \ {c} => outstanding'[t] = outstanding[t]
  BY <1>a
<1>d. /\ result[c] \in {"none", "ok", "error", "timeout"} /\ got[c] \in Target \cup {NoOne}
      /\ req[c] \in Request \cup {NoReq} /\ epoch[c] \in 0 .. seq
  BY <1>0
<1>1. CASE Submit(c)
  <2>1. PICK q \in Request : req' = [req EXCEPT ![c] = q]
    BY <1>1 DEF Submit
  <2>2. Section(c, "accept", result[c], got[c], q, epoch[c]) /\ outstanding' = outstanding
    BY <1>0, <1>1, <2>1 DEF Submit, Section
  <2>3. result[c] = "none"
    BY <1>1, <1>a DEF Submit
  <2>4. "accept" \in Sections /\ "accept" \notin Holding
    BY DEF Sections, Holding
  <2> QED
    BY <1>d, <1>c, <2>2, <2>3, <2>4, SectionTyped
<1>2. CASE Accept(c)
  <2>1. req[c] \in Request /\ result[c] = "none" /\ Tgt(c) \in Target
    BY <1>2, <1>a DEF Accept
  <2>2. CASE Busy(Tgt(c)) \/ Tgt(c) \in gone
    <3>1. Section(c, "release", "error", got[c], req[c], epoch[c]) /\ outstanding' = outstanding
      BY <1>0, <1>2, <2>2 DEF Accept, Section
    <3> QED
      BY <1>d, <1>c, <1>b, <2>1, <3>1, SectionTyped
  <2>3. CASE ~(Busy(Tgt(c)) \/ Tgt(c) \in gone)
    <3>1. PICK l \in {"baseline", "look"} : pc' = [pc EXCEPT ![c] = l]
      BY <1>2, <2>3 DEF Accept
    <3>2. /\ Section(c, l, "none", got[c], req[c], epoch[c])
          /\ outstanding' = [outstanding EXCEPT ![Tgt(c)] = c] /\ outstanding[Tgt(c)] = NoOne
      BY <1>0, <1>2, <2>1, <2>3, <3>1 DEF Accept, Busy, Section
    <3>3. /\ outstanding' \in [Target -> Cli \cup {NoOne}] /\ outstanding'[req[c].target] = c
          /\ \A t \in Target : outstanding[t] \in Cli \ {c} => outstanding'[t] = outstanding[t]
      BY <1>a, <2>1, <3>2, StopPumpAssumption DEF Tgt
    <3>4. l \in Sections /\ l # "served"
      BY DEF Sections
    <3> QED
      BY <1>d, <2>1, <3>2, <3>3, <3>4, SectionTyped
  <2> QED
    BY <2>2, <2>3
<1>3. CASE Look(c)
  <2>1. req[c] \in Request /\ result[c] = "none" /\ outstanding[req[c].target] = c
    BY <1>3, <1>a DEF Look, Holding
  <2>2. outstanding' = outstanding
        /\ \/ Section(c, "release", "ok", got[c], req[c], epoch[c])
           \/ Section(c, "release", "error", got[c], req[c], epoch[c])
           \/ Section(c, "baseline", "none", got[c], req[c], epoch[c])
    BY <1>0, <1>3, <2>1 DEF Look, Section
  <2>3. "baseline" \in Sections
    BY DEF Sections
  <2>4. CASE Section(c, "baseline", "none", got[c], req[c], epoch[c])
    BY <1>d, <1>c, <2>1, <2>2, <2>3, <2>4, SectionTyped
  <2>5. CASE \E r \in {"ok", "error"} : Section(c, "release", r, got[c], req[c], epoch[c])
    BY <1>d, <1>c, <1>b, <2>1, <2>2, <2>5, SectionTyped
  <2> QED
    BY <2>2, <2>4, <2>5
<1>4. CASE Baseline(c)
  <2>1. req[c] \in Request /\ result[c] = "none" /\ outstanding[req[c].target] = c
    BY <1>4, <1>a DEF Baseline, Holding
  <2>2. holes' \subseteq Cracks
    BY <1>0, <1>4 DEF Baseline, Cracks
  <2>3. /\ outstanding' = outstanding
        /\ \/ Section(c, "issue", "none", got[c], req[c], seq)
           \/ Section(c, "pump", "none", got[c], req[c], seq)
           \/ Section(c, "release", "error", got[c], req[c], epoch[c])
    BY <1>0, <1>4, <2>1, <2>2 DEF Baseline, Section
  <2>4. seq \in 0 .. seq
    BY DEF Typed, TypeOK
  <2>5. "issue" \in Sections /\ "pump" \in Sections
    BY DEF Sections
  <2> QED
    BY <1>d, <1>c, <1>b, <2>1, <2>3, <2>4, <2>5, SectionTyped
<1>5. CASE Handoff(c) \/ LastLook(c)
  <2>1. req[c] \in Request /\ result[c] = "none" /\ outstanding[req[c].target] = c
    BY <1>5, <1>a DEF Handoff, LastLook, Holding
  <2>2. HandedOff(c) \in Target /\ HandedOff(c) \in Wanted(c)
    <3>1. lastPark \in Target
      BY SectionFacts
    <3> QED
      BY <2>1, <3>1 DEF HandedOff, Tgt, Wanted, Request
  <2>3. /\ outstanding' = outstanding /\ req' = req
        /\ \/ Section(c, "served", "none", HandedOff(c), req[c], epoch[c])
           \/ Section(c, "release", "timeout", got[c], req[c], epoch[c])
    BY <1>0, <1>5, <2>1 DEF Handoff, LastLook, TakeHandoff, Section
  <2>4. Wanted(c)' = Wanted(c)
    BY <2>3 DEF Wanted, Tgt
  <2>5. "served" \in Sections
    BY DEF Sections
  <2>6. CASE Section(c, "served", "none", HandedOff(c), req[c], epoch[c])
    BY <1>d, <1>c, <2>1, <2>2, <2>3, <2>4, <2>5, <2>6, SectionTyped
  <2>7. CASE Section(c, "release", "timeout", got[c], req[c], epoch[c])
    BY <1>d, <1>c, <1>b, <2>1, <2>3, <2>7, SectionTyped
  <2> QED
    BY <2>3, <2>6, <2>7
<1>6. CASE CloseSuspectEpisodes(c)
  <2>1. req[c] \in Request /\ result[c] = "none" /\ outstanding[req[c].target] = c
    BY <1>6, <1>a DEF CloseSuspectEpisodes, Holding
  <2>2. holes' \subseteq Cracks
    BY <1>0, <1>6 DEF CloseSuspectEpisodes, Stranded, Cracks
  <2>3. Section(c, "final", "none", got[c], req[c], epoch[c]) /\ outstanding' = outstanding
    BY <1>0, <1>6, <2>1, <2>2 DEF CloseSuspectEpisodes, Section
  <2>4. "final" \in Sections
    BY DEF Sections
  <2> QED
    BY <1>d, <1>c, <2>1, <2>3, <2>4, SectionTyped
<1>7. CASE LostAll(c)
  <2>1. req[c] \in Request
    BY <1>7, <1>a DEF LostAll
  <2>2. Section(c, "release", "error", got[c], req[c], epoch[c]) /\ outstanding' = outstanding
    BY <1>0, <1>7 DEF LostAll, Section
  <2> QED
    BY <1>d, <1>c, <1>b, <2>1, <2>2, SectionTyped
<1>8. CASE Serve(c)
  <2>1. req[c] \in Request /\ Tgt(c) \in Target
    BY <1>8, <1>a DEF Serve
  <2>2. ServedTarget(c) \in Target \cup {NoOne}
    <3>1. lastPark \in Target
      BY SectionFacts
    <3> QED
      BY <1>0, <2>1, <3>1 DEF ServedTarget
  <2>3. holes' \subseteq Cracks
    BY <1>0, <1>8 DEF Serve, Vanished, Cracks
  <2>4. outstanding' = outstanding
        /\ \/ Section(c, "release", "ok", ServedTarget(c), req[c], epoch[c])
           \/ Section(c, "release", "error", ServedTarget(c), req[c], epoch[c])
    BY <1>0, <1>8, <2>3 DEF Serve, Section
  <2> QED
    BY <1>d, <1>c, <1>b, <2>1, <2>2, <2>4, SectionTyped
<1>9. CASE Release(c)
  <2>1. /\ Section(c, "done", result[c], NoOne, NoReq, 0)
        /\ outstanding' = [t \in Target |-> IF outstanding[t] = c THEN NoOne ELSE outstanding[t]]
    BY <1>0, <1>9 DEF Release, Forget, Section
  <2>2. /\ outstanding' \in [Target -> Cli \cup {NoOne}]
        /\ \A t \in Target : outstanding[t] \in Cli \ {c} => outstanding'[t] = outstanding[t]
    BY <1>a, <2>1
  <2>3. 0 \in 0 .. seq
    BY DEF Typed, TypeOK
  <2>4. /\ result[c] \in {"none", "ok", "error", "timeout"} /\ NoReq \in Request \cup {NoReq}
        /\ NoOne \in Target \cup {NoOne}
    BY <1>0
  <2>5. PICK r \in {"none", "ok", "error", "timeout"}, g \in Target \cup {NoOne},
             q \in Request \cup {NoReq}, e \in 0 .. seq : Section(c, "done", r, g, q, e)
    BY <2>1, <2>3, <2>4
  <2> QED
    BY <1>b, <2>2, <2>5, SectionTyped
<1> QED
  BY <1>1, <1>2, <1>3, <1>4, <1>5, <1>6, <1>7, <1>8, <1>9

(* A section of a handler that has the adapter resume its target, or books *)
(* that it has.                                                            *)
Resumes(c, l, r, g) ==
  /\ pc' = [pc EXCEPT ![c] = l] /\ result' = [result EXCEPT ![c] = r]
  /\ got' = [got EXCEPT ![c] = g]
  /\ halted' \subseteq halted /\ suspended' \subseteq suspended /\ holes' \subseteq Cracks
  /\ UNCHANGED <<alive, halts, echoed, gone, seq, parkSeq, lastPark, outstanding, req,
                 epoch, hand>>

Listed ==
  /\ wire' \in [Target -> Seq(Event)] /\ stash' \in [Target -> Seq(Event)]
  /\ \A u \in alive : wire'[u] \in Seq(Living) /\ stash'[u] \in Seq(Living)

LEMMA ListedSame == Typed /\ UNCHANGED <<wire, stash>> => Listed
BY DEF Typed, TypeOK, ExitsAreReal, Listed

LEMMA ResumesTyped ==
  ASSUME Typed, NEW c \in Cli, NEW l \in {"begin", "pump", "release"},
         NEW r \in {"none", "ok", "error"}, NEW g \in Target \cup {NoOne},
         Resumes(c, l, r, g), Listed, pc[c] \in Holding,
         l # "release" => r = "none",
         awaiting' \subseteq Target, suspects' \in [Target -> SUBSET (0 .. MaxHalts)]
  PROVE  Typed'
<1>1. TypeOK /\ ExitsAreReal /\ c \in Pumper
  BY DEF Typed, Pumper
<1>2. /\ pc \in [Pumper -> Sections] /\ result \in [Cli -> {"none", "ok", "error", "timeout"}]
      /\ got \in [Cli -> Target \cup {NoOne}]
  BY <1>1 DEF TypeOK, Sections
<1>3. /\ pc' \in [Pumper -> Sections] /\ result' \in [Cli -> {"none", "ok", "error", "timeout"}]
      /\ got' \in [Cli -> Target \cup {NoOne}]
  <2>1. l \in Sections
    BY DEF Sections
  <2> QED
    BY <1>1, <1>2, <2>1 DEF Resumes
<1>4. TypeOK'
  BY <1>1, <1>3 DEF TypeOK, Resumes, Listed, Sections, Cracks
<1>5. ExitsAreReal'
  BY <1>1 DEF ExitsAreReal, Resumes, Listed
<1>6. /\ pc'[c] = l /\ result'[c] = r /\ got'[c] = g /\ req'[c] = req[c]
      /\ \A d \in Cli \ {c} : /\ pc'[d] = pc[d] /\ req'[d] = req[d]
                              /\ result'[d] = result[d] /\ got'[d] = got[d]
  BY <1>1, <1>2, StopPumpAssumption DEF Pumper, Resumes
<1>7. req[c] \in Request /\ outstanding[Tgt(c)] = c
  BY DEF Typed, Asked, Holding
<1>8. Asked(c)'
  BY <1>6, <1>7 DEF Asked, Tgt, Resumes
<1> QED
  BY <1>4, <1>5, <1>6, <1>8, AskedOthers DEF Resumes

(* A step of the adapter or of the accept loop.                            *)
LEMMA OutsideTyped ==
  ASSUME Typed, alive' \subseteq alive, halted' \subseteq alive',
         halts' \in [Target -> 0 .. MaxHalts], echoed' \subseteq Target,
         wire' \in [Target -> Seq(Event)], stash' \in [Target -> Seq(Event)],
         \A u \in alive' : wire'[u] \in Seq(Living) /\ stash'[u] \in Seq(Living),
         pc' \in [Pumper -> Sections], \A d \in Cli : pc'[d] = pc[d],
         UNCHANGED <<suspended, awaiting, suspects, gone, seq, parkSeq, lastPark, outstanding,
                     req, epoch, hand, got, result, holes>>
  PROVE  Typed'
<1>1. TypeOK /\ ExitsAreReal
  BY DEF Typed
<1>2. TypeOK'
  BY <1>1 DEF TypeOK, Sections
<1>3. ExitsAreReal'
  BY <1>1 DEF ExitsAreReal
<1> QED
  BY <1>2, <1>3, AskedSame

LEMMA Moved ==
  ASSUME Typed, NEW c \in Cli
  PROVE  /\ result = [result EXCEPT ![c] = result[c]] /\ got = [got EXCEPT ![c] = got[c]]
         /\ got[c] \in Target \cup {NoOne} /\ holes \subseteq Cracks
         /\ awaiting \subseteq Target /\ suspects \in [Target -> SUBSET (0 .. MaxHalts)]
         /\ pc[c] \in Holding => /\ req[c] \in Request /\ Tgt(c) \in Target
                                /\ result[c] = "none"
BY SectionFacts DEF Holding, Typed, TypeOK

LEMMA IssueTyped ==
  ASSUME Typed, NEW c \in Cli, IssueResume(c)
  PROVE  Typed'
<1>1. pc[c] \in Holding
  BY DEF IssueResume, Holding
<1>2. Tgt(c) \in Target /\ result[c] = "none"
  BY <1>1, Moved
<1>3. /\ UNCHANGED <<halted, wire, stash>> \/ AdapterRefuses(Tgt(c))
           \/ AdapterResumes(Tgt(c), FALSE)
      /\ holes' = holes \/ holes' = holes \cup {"late"}
      /\ \/ pc' = [pc EXCEPT ![c] = "begin"] /\ result' = result
         \/ pc' = [pc EXCEPT ![c] = "release"] /\ result' = [result EXCEPT ![c] = "error"]
      /\ UNCHANGED <<alive, halts, echoed, suspended, awaiting, suspects, gone, seq, parkSeq,
                     lastPark, outstanding, req, epoch, hand, got>>
  BY DEF IssueResume, Goto, Fail, clock, asked, told
<1>4. Listed /\ halted' \subseteq halted
  BY <1>2, <1>3, AnsweredTyped, ListedSame DEF Listed
<1>5. holes' \subseteq Cracks
  BY <1>3, Moved DEF Cracks
<1>6. \/ Resumes(c, "begin", "none", got[c])
      \/ Resumes(c, "release", "error", got[c])
  BY <1>2, <1>3, <1>4, <1>5, Moved DEF Resumes
<1>7. /\ awaiting' \subseteq Target /\ suspects' \in [Target -> SUBSET (0 .. MaxHalts)]
      /\ got[c] \in Target \cup {NoOne}
  BY <1>3, Moved
<1> QED
  BY <1>1, <1>4, <1>6, <1>7, ResumesTyped

LEMMA BeginTyped ==
  ASSUME Typed, NEW c \in Cli, BeginResume(c)
  PROVE  Typed'
<1>1. pc[c] \in Holding
  BY DEF BeginResume, Holding
<1>2. Tgt(c) \in Target /\ result[c] = "none" /\ holes \subseteq Cracks
  BY <1>1, Moved
<1>3. CASE ~Known(Tgt(c)) /\ Fail(c) /\ UNCHANGED <<stash, suspended, awaiting, suspects, got, holes>>
  <2>1. Resumes(c, "release", "error", got[c]) /\ UNCHANGED <<wire, stash, awaiting, suspects>>
    BY <1>2, <1>3, Moved DEF BeginResume, Resumes, Fail, Goto, adapter, told, clock, asked
  <2>2. Listed /\ awaiting' \subseteq Target /\ suspects' \in [Target -> SUBSET (0 .. MaxHalts)]
        /\ got[c] \in Target \cup {NoOne}
    BY <2>1, ListedSame, Moved
  <2> QED
    BY <1>1, <2>1, <2>2, ResumesTyped
<1>4. CASE ~(~Known(Tgt(c)) /\ Fail(c) /\ UNCHANGED <<stash, suspended, awaiting, suspects, got, holes>>)
  <2>a. PICK kept : kept = IF Tgt(c) \in suspended THEN WithoutStops(stash[Tgt(c)])
                           ELSE stash[Tgt(c)]
    OBVIOUS
  <2>1. /\ stash' = [stash EXCEPT ![Tgt(c)] = kept]
        /\ suspects' = [suspects EXCEPT ![Tgt(c)] = {}]
        /\ awaiting' = Barrier(Tgt(c), Tgt(c) \in suspended)
        /\ suspended' = suspended \ {Tgt(c)}
        /\ got' = [got EXCEPT ![c] = NoOne]
        /\ Goto(c, "pump") /\ result' = result
        /\ holes' = holes \cup Swallowed(Tgt(c), kept)
                           \cup IF Tgt(c) \in suspended THEN {}
                                ELSE Stranded({Tgt(c)} \cap awaiting)
    BY <1>4, <2>a DEF BeginResume
  <2>2. /\ wire' = wire
        /\ UNCHANGED <<alive, halted, halts, echoed, gone, seq, parkSeq, lastPark, outstanding,
                       req, epoch, hand>>
    BY DEF BeginResume, adapter, told, clock, asked
  <2>3. Listed
    <3>1. /\ wire \in [Target -> Seq(Event)] /\ stash \in [Target -> Seq(Event)]
          /\ \A u \in alive : wire[u] \in Seq(Living) /\ stash[u] \in Seq(Living)
      BY DEF Typed, TypeOK, ExitsAreReal
    <3>2. kept \in Seq(Event)
      BY <1>2, <2>a, <3>1, StopsDropped
    <3>3. Tgt(c) \in alive => kept \in Seq(Living)
      BY <1>2, <2>a, <3>1, StopsDropped
    <3> QED
      BY <1>2, <2>1, <2>2, <3>1, <3>2, <3>3 DEF Listed
  <2>4. holes' \subseteq Cracks
    <3>1. /\ Swallowed(Tgt(c), kept) \subseteq Cracks
          /\ Stranded({Tgt(c)} \cap awaiting) \subseteq Cracks
      BY DEF Swallowed, Stranded, Cracks
    <3> QED
      BY <1>2, <2>1, <3>1
  <2>5. awaiting' \subseteq Target /\ suspects' \in [Target -> SUBSET (0 .. MaxHalts)]
    BY <1>2, <2>1, Moved DEF Barrier
  <2>6. Resumes(c, "pump", "none", NoOne)
    BY <1>2, <2>1, <2>2, <2>4, Moved DEF Resumes, Goto
  <2> QED
    BY <1>1, <2>3, <2>5, <2>6, ResumesTyped
<1> QED
  BY <1>3, <1>4

LEMMA CaptureTyped ==
  ASSUME Typed, NEW c \in Cli, CaptureResume(c)
  PROVE  Typed'
<1>1. pc[c] \in Holding /\ pc[c] = "served"
  BY DEF CaptureResume, Holding
<1>2. /\ Tgt(c) \in Target /\ result[c] = "none" /\ holes \subseteq Cracks
      /\ ServedTarget(c) \in Target
  BY <1>1, SectionFacts DEF ServedTarget, Holding
<1>3. PICK t \in Target : t = ServedTarget(c)
  BY <1>2
<1>4. /\ \/ UNCHANGED <<halted, wire, stash>>
         \/ AdapterRefuses(t)
         \/ AdapterResumes(t, TRUE)
         \/ stash' = [stash EXCEPT ![t] = WithoutStops(stash[t])] /\ UNCHANGED <<halted, wire>>
      /\ \/ UNCHANGED <<suspended, awaiting, suspects>>
         \/ /\ suspects' = [suspects EXCEPT ![t] = {}]
            /\ awaiting' = Barrier(t, TRUE)
            /\ suspended' = suspended \ {t}
  BY <1>3 DEF CaptureResume
<1>5. /\ Fail(c) \/ Succeed(c)
      /\ got' = [got EXCEPT ![c] = t]
      /\ UNCHANGED <<alive, halts, echoed, gone, seq, parkSeq, lastPark, outstanding, req, epoch,
                     hand>>
  BY <1>3 DEF CaptureResume, told, clock, asked
<1>6. holes' \subseteq Cracks
  <2>1. /\ Vanished(c) \subseteq Cracks
        /\ Swallowed(t, WithoutStops(stash[t])) \subseteq Cracks
        /\ {"foreign"} \subseteq Cracks
    BY DEF Vanished, Swallowed, Cracks
  <2>2. \/ holes' = holes \cup Vanished(c)
        \/ holes' = holes \cup Vanished(c) \cup {"foreign"}
        \/ holes' = holes \cup Vanished(c) \cup {}
        \/ holes' = holes \cup Vanished(c) \cup Swallowed(t, WithoutStops(stash[t]))
    BY <1>3 DEF CaptureResume
  <2> QED
    BY <1>2, <2>1, <2>2
<1>7. Listed /\ halted' \subseteq halted
  <2>1. CASE AdapterRefuses(t) \/ AdapterResumes(t, TRUE)
    BY <2>1, AnsweredTyped DEF Listed
  <2>2. CASE UNCHANGED <<halted, wire, stash>>
    BY <2>2, ListedSame
  <2>3. CASE stash' = [stash EXCEPT ![t] = WithoutStops(stash[t])] /\ UNCHANGED <<halted, wire>>
    <3>1. /\ wire \in [Target -> Seq(Event)] /\ stash \in [Target -> Seq(Event)]
          /\ \A u \in alive : wire[u] \in Seq(Living) /\ stash[u] \in Seq(Living)
      BY DEF Typed, TypeOK, ExitsAreReal
    <3>2. WithoutStops(stash[t]) \in Seq(Event)
      BY <3>1, StopsDropped
    <3>3. t \in alive => WithoutStops(stash[t]) \in Seq(Living)
      BY <3>1, StopsDropped
    <3> QED
      BY <2>3, <3>1, <3>2, <3>3 DEF Listed
  <2> QED
    BY <1>4, <2>1, <2>2, <2>3
<1>8. awaiting' \subseteq Target /\ suspects' \in [Target -> SUBSET (0 .. MaxHalts)]
      /\ suspended' \subseteq suspended
  BY <1>2, <1>4, Moved DEF Barrier
<1>9. Resumes(c, "release", "error", t) \/ Resumes(c, "release", "ok", t)
  BY <1>5, <1>6, <1>7, <1>8 DEF Resumes, Fail, Succeed, Goto
<1> QED
  BY <1>1, <1>7, <1>8, <1>9, ResumesTyped

LEMMA TypeStep == Typed /\ [Next]_vars => Typed'
<1> SUFFICES ASSUME Typed, [Next]_vars PROVE Typed'
  OBVIOUS
<1>0. /\ halted \subseteq alive /\ alive \subseteq Target /\ echoed \subseteq Target
      /\ halts \in [Target -> 0 .. MaxHalts]
      /\ wire \in [Target -> Seq(Event)] /\ stash \in [Target -> Seq(Event)]
      /\ \A u \in alive : wire[u] \in Seq(Living) /\ stash[u] \in Seq(Living)
      /\ pc \in [Pumper -> Sections]
  BY DEF Typed, TypeOK, ExitsAreReal, Sections
<1> USE DEF AdapterStep, bridge, clock, asked, adapter, told
<1>1. ASSUME NEW c \in Cli, IdleTick(c) \/ Deadline(c) PROVE Typed'
  <2>1. pc[c] = "pump" /\ (ProbeAllSuspects(c, "pump") \/ ProbeAllSuspects(c, "close"))
    BY <1>1 DEF IdleTick, Deadline
  <2>2. UNCHANGED <<alive, halted, halts, echoed, wire, stash, gone, outstanding, req, epoch, hand>>
    BY <2>1 DEF ProbeAllSuspects
  <2> QED
    BY <2>1, <2>2, ProbeTyped
<1>2. CASE IdlePump \/ IdleEnd
  <2>1. PICK l \in {"pump", "off"} : pc' = [pc EXCEPT ![Idle] = l]
    BY <1>2 DEF IdlePump, IdleEnd, Goto
  <2>2. pc' \in [Pumper -> Sections] /\ \A d \in Cli : pc'[d] = pc[d]
    BY <1>0, <2>1, StopPumpAssumption DEF Sections, Pumper
  <2>3. UNCHANGED <<alive, halted, halts, echoed, wire, stash, suspended, awaiting, suspects, gone,
                    seq, parkSeq, lastPark, outstanding, req, epoch, hand, got, result, holes>>
    BY <1>2 DEF IdlePump, IdleEnd
  <2> QED
    BY <1>0, <2>2, <2>3, OutsideTyped
<1>3. ASSUME NEW t \in Target, Halt(t) PROVE Typed'
  <2>1. /\ t \in alive \ halted /\ halts[t] < MaxHalts /\ halted' = halted \cup {t}
        /\ halts' = [halts EXCEPT ![t] = @ + 1] /\ echoed' = echoed \ {t}
        /\ wire' = [wire EXCEPT ![t] = Append(@, Stopped(halts[t] + 1))]
        /\ UNCHANGED <<alive, stash, suspended, awaiting, suspects, gone, seq, parkSeq, lastPark,
                       outstanding, pc, req, epoch, hand, got, result, holes>>
    BY <1>3 DEF Halt, Send
  <2>2. halts[t] + 1 \in 0 .. MaxHalts
    BY <1>0, <2>1, StopPumpAssumption
  <2>3. Stopped(halts[t] + 1) \in Living /\ Stopped(halts[t] + 1) \in Event
    BY <2>2, EventParts
  <2>4. wire' \in [Target -> Seq(Event)] /\ \A u \in alive : wire'[u] \in Seq(Living)
    BY <1>0, <2>1, <2>3, AppendProperties
  <2>5. halts' \in [Target -> 0 .. MaxHalts]
    BY <1>0, <2>1, <2>2
  <2> QED
    BY <1>0, <2>1, <2>4, <2>5, OutsideTyped
<1>4. ASSUME NEW t \in Target, CoStop(t) PROVE Typed'
  <2>1. /\ echoed' = echoed \cup {t}
        /\ wire' = [wire EXCEPT ![t] = Append(@, Stopped(halts[t]))]
        /\ UNCHANGED <<alive, halted, halts, stash, suspended, awaiting, suspects, gone, seq, parkSeq,
                       lastPark, outstanding, pc, req, epoch, hand, got, result, holes>>
    BY <1>4 DEF CoStop, Send
  <2>2. Stopped(halts[t]) \in Living /\ Stopped(halts[t]) \in Event
    BY <1>0, EventParts
  <2>3. wire' \in [Target -> Seq(Event)] /\ \A u \in alive : wire'[u] \in Seq(Living)
    BY <1>0, <2>1, <2>2, AppendProperties
  <2> QED
    BY <1>0, <2>1, <2>3, OutsideTyped
<1>5. ASSUME NEW t \in Target, Exit(t) PROVE Typed'
  <2>1. /\ t \in alive \ halted /\ alive' = alive \ {t}
        /\ wire' = [wire EXCEPT ![t] = Append(@, Exited)]
        /\ UNCHANGED <<halted, halts, echoed, stash, suspended, awaiting, suspects, gone, seq, parkSeq,
                       lastPark, outstanding, pc, req, epoch, hand, got, result, holes>>
    BY <1>5 DEF Exit, Send
  <2>2. wire' \in [Target -> Seq(Event)] /\ \A u \in alive' : wire'[u] \in Seq(Living)
    BY <1>0, <2>1, EventParts, AppendProperties
  <2> QED
    BY <1>0, <2>1, <2>2, OutsideTyped
<1>6. ASSUME NEW t \in Target, LiveRead(t) PROVE Typed'
  <2>1. /\ AdapterRefuses(t)
        /\ UNCHANGED <<alive, halted, halts, echoed, suspended, awaiting, suspects, gone, seq, parkSeq,
                       lastPark, outstanding, pc, req, epoch, hand, got, result, holes>>
    BY <1>6 DEF LiveRead
  <2>2. /\ wire' \in [Target -> Seq(Event)] /\ stash' \in [Target -> Seq(Event)]
        /\ \A u \in alive : wire'[u] \in Seq(Living) /\ stash'[u] \in Seq(Living)
    BY <2>1, AnsweredTyped
  <2> QED
    BY <1>0, <2>1, <2>2, OutsideTyped
<1>7. CASE UNCHANGED vars
  BY <1>0, <1>7, OutsideTyped DEF vars
<1> QED
  BY <1>1, <1>2, <1>3, <1>4, <1>5, <1>6, <1>7, HandlerTyped, IssueTyped, BeginTyped,
     CaptureTyped, PopTyped, DispatchTyped
     DEF Next, Handler, Pump

THEOREM PumpTyped == Spec => []TypeOK
<1>1. Init => Typed
  BY InitTyped
<1>2. Typed /\ [Next]_vars => Typed'
  BY TypeStep
<1>3. Typed => TypeOK
  BY DEF Typed
<1> QED
  BY <1>1, <1>2, <1>3, PTL DEF Spec

-----------------------------------------------------------------------------
(* What a step may do to the park clock: rest, publish a park, park without *)
(* publishing, or take a target that left off the records.                 *)
Rests == UNCHANGED <<seq, parkSeq, lastPark, gone>> /\ suspended' \subseteq suspended

Commits(t) ==
  /\ seq' = seq + 1 /\ parkSeq' = [parkSeq EXCEPT ![t] = seq + 1] /\ lastPark' = t
  /\ gone' = gone /\ suspended' = suspended \cup {t}

Misses(t) ==
  /\ UNCHANGED <<seq, parkSeq, lastPark, gone>> /\ suspended' = suspended \cup {t}
  /\ "uncommitted" \in holes'

Leaves(t) ==
  /\ UNCHANGED <<seq, lastPark>> /\ gone' = gone \cup {t} /\ suspended' = suspended \ {t}
  /\ parkSeq' = IF t = Main THEN parkSeq ELSE [parkSeq EXCEPT ![t] = 0]

Clocked ==
  /\ holes \subseteq holes'
  /\ Rests \/ \E t \in Target : Commits(t) \/ Misses(t) \/ Leaves(t)

Waiting == {"pump", "close", "final"}

(* A handler that neither begins to wait nor comes to its answer.          *)
Steady(d) ==
  \/ pc'[d] \notin Waiting \cup {"served"}
  \/ /\ pc[d] \in Waiting /\ pc'[d] \in Waiting
     /\ req'[d] = req[d] /\ epoch'[d] = epoch[d]
  \/ /\ pc[d] = "served" /\ pc'[d] = "served"
     /\ req'[d] = req[d] /\ epoch'[d] = epoch[d] /\ got'[d] = got[d]

LEMMA ClockTypes ==
  ASSUME Typed
  PROVE  /\ seq \in Nat /\ parkSeq \in [Target -> 0 .. seq] /\ lastPark \in Target
         /\ suspended \subseteq Target \ gone
         /\ \A d \in Cli : epoch[d] \in 0 .. seq
         /\ \A d \in Cli : pc[d] \notin {"idle", "done"} => Tgt(d) \in Target
         /\ \A d \in Cli : pc[d] = "served" => got[d] \in Target /\ got[d] \in Wanted(d)
<1>1. ASSUME NEW d \in Cli
      PROVE  /\ pc[d] \notin {"idle", "done"} => Tgt(d) \in Target
             /\ pc[d] = "served" => got[d] \in Target /\ got[d] \in Wanted(d)
  BY SectionFacts
<1> QED
  BY <1>1 DEF Typed, TypeOK

LEMMA LastStep ==
  ASSUME Typed, Clocked, LastIsLatest
  PROVE  LastIsLatest'
<1>1. CASE Rests \/ \E t \in Target : Misses(t)
  BY <1>1 DEF Rests, Misses, LastIsLatest, Known
<1>2. ASSUME NEW t \in Target, Commits(t) PROVE LastIsLatest'
  BY <1>2, ClockTypes DEF Commits, LastIsLatest
<1>3. ASSUME NEW t \in Target, Leaves(t) PROVE LastIsLatest'
  BY <1>3, ClockTypes DEF Leaves, LastIsLatest, Known
<1> QED
  BY <1>1, <1>2, <1>3 DEF Clocked

LEMMA SteadyFresh ==
  ASSUME Typed, Clocked, FreshInv, NEW d \in Cli, Steady(d)
  PROVE  Waits(d)' /\ Serves(d)'
<1>1. CASE pc'[d] \notin Waiting \cup {"served"}
  BY <1>1 DEF Waiting, Waits, Serves
<1>2. CASE /\ pc[d] \in Waiting /\ pc'[d] \in Waiting
           /\ req'[d] = req[d] /\ epoch'[d] = epoch[d]
  <2>1. Serves(d)'
    BY <1>2 DEF Waiting, Serves
  <2>2. SUFFICES ASSUME req[d].explicit, holes' \cap {"gap", "uncommitted"} = {},
                        Tgt(d) \in suspended'
                 PROVE  parkSeq'[Tgt(d)] > epoch[d]
    BY <1>2, <2>1 DEF Waits, Tgt
  <2>3. /\ holes \cap {"gap", "uncommitted"} = {} /\ "uncommitted" \notin holes'
        /\ epoch[d] \in 0 .. seq /\ Tgt(d) \in Target
    BY <1>2, <2>2, ClockTypes DEF Clocked, Waiting
  <2>4. Tgt(d) \in suspended => parkSeq[Tgt(d)] > epoch[d]
    BY <1>2, <2>2, <2>3 DEF FreshInv, Waits, Waiting
  <2>5. CASE Rests
    BY <2>2, <2>4, <2>5 DEF Rests
  <2>6. ASSUME NEW t \in Target, Commits(t) PROVE parkSeq'[Tgt(d)] > epoch[d]
    BY <2>2, <2>3, <2>4, <2>6, ClockTypes DEF Commits
  <2>7. ASSUME NEW t \in Target, Leaves(t) PROVE parkSeq'[Tgt(d)] > epoch[d]
    BY <2>2, <2>3, <2>4, <2>7, ClockTypes DEF Leaves
  <2> QED
    BY <2>3, <2>5, <2>6, <2>7 DEF Clocked, Misses
<1>3. CASE /\ pc[d] = "served" /\ pc'[d] = "served"
           /\ req'[d] = req[d] /\ epoch'[d] = epoch[d] /\ got'[d] = got[d]
  <2>1. Waits(d)'
    BY <1>3 DEF Waits
  <2>2. SUFFICES ASSUME Known(got[d])' PROVE parkSeq'[got[d]] > epoch[d]
    BY <1>3, <2>1 DEF Serves, Known
  <2>3. got[d] \in Target /\ epoch[d] \in 0 .. seq
    BY <1>3, ClockTypes
  <2>4. got[d] = Main \/ got[d] \notin gone'
    BY <1>3, <2>2 DEF Known
  <2>5. Known(got[d])
    BY <2>4 DEF Known, Clocked, Rests, Commits, Misses, Leaves
  <2>6. parkSeq[got[d]] > epoch[d]
    BY <1>3, <2>5 DEF FreshInv, Serves
  <2>7. CASE Rests \/ \E t \in Target : Misses(t)
    BY <2>6, <2>7 DEF Rests, Misses
  <2>8. ASSUME NEW t \in Target, Commits(t) PROVE parkSeq'[got[d]] > epoch[d]
    BY <2>3, <2>6, <2>8, ClockTypes DEF Commits
  <2>9. ASSUME NEW t \in Target, Leaves(t) PROVE parkSeq'[got[d]] > epoch[d]
    BY <2>3, <2>4, <2>6, <2>9, ClockTypes DEF Leaves
  <2> QED
    BY <2>7, <2>8, <2>9 DEF Clocked
<1> QED
  BY <1>1, <1>2, <1>3 DEF Steady

(* A park, as it is seen by the handler that dispatched it.                *)
LEMMA ParkClocked ==
  ASSUME Typed, NEW p \in Pumper, NEW t \in Target, NEW otherwise \in Waiting, NEW cracks,
         ParkStop(p, t, otherwise, cracks), gone' = gone
  PROVE  /\ Clocked
         /\ \A d \in Cli \ {p} : pc'[d] = pc[d] /\ got'[d] = got[d]
         /\ p \in Cli => \/ pc'[p] \in {otherwise, "release"}
                         \/ pc'[p] = "served" /\ got'[p] = t /\ Commits(t)
<1>1. /\ pc \in [Pumper -> Sections] /\ got \in [Cli -> Target \cup {NoOne}]
  BY DEF Typed, TypeOK, Sections
<1>2. suspended' = suspended \cup {t} /\ holes \subseteq holes'
  BY DEF ParkStop
<1>3. p \in Cli => p # Idle
  BY StopPumpAssumption
<1>4. CASE CommitParkClock(p, t) /\ Hit(p, t, otherwise)
  <2>1. Commits(t)
    BY <1>2, <1>4 DEF Commits, CommitParkClock
  <2>2. /\ pc' = [pc EXCEPT ![p] = IF p = Idle THEN "off"
                                   ELSE IF t \in Wanted(p) THEN "served" ELSE otherwise]
        /\ p = Idle => got' = got
        /\ p # Idle => got' = [got EXCEPT ![p] = t]
    BY <1>4 DEF CommitParkClock, Hit, Goto, SawPark
  <2>3. Clocked
    BY <1>2, <2>1 DEF Clocked
  <2>4. \A d \in Cli \ {p} : pc'[d] = pc[d] /\ got'[d] = got[d]
    BY <1>1, <2>2
  <2>5. p \in Cli => pc'[p] = otherwise \/ (pc'[p] = "served" /\ got'[p] = t)
    BY <1>1, <1>3, <2>2
  <2> QED
    BY <2>1, <2>3, <2>4, <2>5
<1>5. CASE CommitParkClock(p, t) /\ Raise(p)
  <2>1. Commits(t)
    BY <1>2, <1>5 DEF Commits, CommitParkClock
  <2>2. Clocked
    BY <1>2, <2>1 DEF Clocked
  <2>3. \A d \in Cli \ {p} : got'[d] = got[d]
    BY <1>1, <1>5 DEF CommitParkClock, SawPark
  <2> QED
    BY <1>5, <2>2, <2>3, RaiseTyped
<1>6. CASE /\ UNCHANGED <<clock, got>> /\ Raise(p)
           /\ holes' = holes \cup cracks \cup {"uncommitted"}
  <2>1. Misses(t)
    BY <1>2, <1>6 DEF Misses, clock
  <2>2. Clocked
    BY <1>2, <2>1 DEF Clocked
  <2> QED
    BY <1>6, <2>2, RaiseTyped
<1> QED
  BY <1>4, <1>5, <1>6 DEF ParkStop

(* What a step of one handler does to the clock and to the others.         *)
Turn(c) ==
  /\ Clocked
  /\ \A d \in Cli \ {c} : /\ pc'[d] = pc[d] /\ req'[d] = req[d]
                          /\ epoch'[d] = epoch[d] /\ got'[d] = got[d]

LEMMA TurnFresh ==
  ASSUME Typed, FreshInv, NEW c, Turn(c), c \in Cli => Waits(c)' /\ Serves(c)'
  PROVE  FreshInv'
<1>1. ASSUME NEW d \in Cli, d # c PROVE Waits(d)' /\ Serves(d)'
  <2>1. Steady(d)
    BY <1>1 DEF Turn, Steady
  <2> QED
    BY <2>1, SteadyFresh DEF Turn
<1>2. LastIsLatest'
  BY LastStep DEF Turn, FreshInv
<1> QED
  BY <1>1, <1>2 DEF FreshInv

LEMMA TurnSteady ==
  ASSUME Typed, FreshInv, NEW c \in Cli, Turn(c), Steady(c)
  PROVE  FreshInv'
BY TurnFresh, SteadyFresh DEF Turn

(* A pump that dispatches, or probes what is held.                         *)
LEMMA DispatchFresh ==
  ASSUME Typed, FreshInv, NEW p \in Pumper, DispatchPumped(p)
  PROVE  FreshInv'
<1>1. PICK t \in Target : t = hand[p][1]
  BY DEF DispatchPumped, Typed, TypeOK
<1>2. /\ pc[p] = "pump" /\ req' = req /\ epoch' = epoch /\ "pump" \in Waiting
  BY DEF DispatchPumped, asked, Waiting
<1>3. CASE NoPark /\ gone' = gone
  <2>1. Turn(p)
    BY <1>2, <1>3 DEF NoPark, Turn, Clocked, Rests, clock
  <2>2. p \in Cli => Steady(p)
    BY <1>2, <1>3 DEF NoPark, Steady, Waiting
  <2> QED
    BY <2>1, <2>2, TurnFresh, SteadyFresh DEF Turn
<1>4. CASE ParkStop(p, t, "pump", {}) /\ gone' = gone
  <2>1. Turn(p)
    BY <1>2, <1>4, ParkClocked DEF Turn, Waiting
  <2>2. ASSUME p \in Cli, pc'[p] \in {"pump", "release"} PROVE Waits(p)' /\ Serves(p)'
    <3>1. Steady(p)
      BY <1>2, <2>2 DEF Steady, Waiting
    <3> QED
      BY <2>1, <2>2, <3>1, SteadyFresh DEF Turn
  <2>3. ASSUME p \in Cli, pc'[p] = "served", got'[p] = t, Commits(t)
        PROVE  Waits(p)' /\ Serves(p)'
    BY <1>2, <2>3, ClockTypes DEF Waits, Serves, Commits
  <2>4. p \in Cli => \/ pc'[p] \in {"pump", "release"}
                     \/ pc'[p] = "served" /\ got'[p] = t /\ Commits(t)
    BY <1>2, <1>4, ParkClocked
  <2> QED
    BY <2>1, <2>2, <2>3, <2>4, TurnFresh
<1>5. CASE HandleExited(p, t)
  <2>1. Leaves(t) /\ holes' = holes /\ got' = got /\ (Raise(p) \/ UNCHANGED <<pc, result>>)
    BY <1>5 DEF HandleExited, Leaves
  <2>2. Clocked
    BY <2>1 DEF Clocked
  <2>3. \A d \in Cli \ {p} : pc'[d] = pc[d]
    BY <2>1, RaiseTyped
  <2>4. p \in Cli => pc'[p] \in {"pump", "release"}
    BY <1>2, <2>1, RaiseTyped
  <2>5. Turn(p)
    BY <1>2, <2>1, <2>2, <2>3 DEF Turn
  <2>6. p \in Cli => Steady(p)
    BY <1>2, <2>4 DEF Steady, Waiting
  <2> QED
    BY <2>2, <2>5, <2>6, TurnFresh, SteadyFresh
<1>6. \/ NoPark /\ gone' = gone
      \/ ParkStop(p, t, "pump", {}) /\ gone' = gone
      \/ HandleExited(p, t)
  BY <1>1 DEF DispatchPumped, HandleStopped, HandleContinued
<1> QED
  BY <1>3, <1>4, <1>5, <1>6

LEMMA ProbeFresh ==
  ASSUME Typed, FreshInv, NEW c \in Cli, pc[c] = "pump", NEW otherwise \in {"pump", "close"},
         ProbeAllSuspects(c, otherwise)
  PROVE  FreshInv'
<1>1. gone' = gone /\ req' = req /\ epoch' = epoch /\ c \in Pumper /\ otherwise \in Waiting
  BY DEF ProbeAllSuspects, asked, Pumper, Waiting
<1>2. ASSUME NEW t \in Target, NEW cracks, ParkStop(c, t, otherwise, cracks) PROVE FreshInv'
  <2>1. Turn(c)
    BY <1>1, <1>2, ParkClocked DEF Turn
  <2>2. ASSUME pc'[c] \in {otherwise, "release"} PROVE Waits(c)' /\ Serves(c)'
    <3>1. Steady(c)
      BY <1>1, <2>2 DEF Steady, Waiting
    <3> QED
      BY <2>1, <3>1, SteadyFresh DEF Turn
  <2>3. ASSUME pc'[c] = "served", got'[c] = t, Commits(t)
        PROVE  Waits(c)' /\ Serves(c)'
    BY <1>1, <2>3, ClockTypes DEF Waits, Serves, Commits
  <2>4. \/ pc'[c] \in {otherwise, "release"}
        \/ pc'[c] = "served" /\ got'[c] = t /\ Commits(t)
    BY <1>1, <1>2, ParkClocked
  <2> QED
    BY <2>1, <2>2, <2>3, <2>4, TurnFresh
<1>3. CASE Goto(c, otherwise) /\ UNCHANGED <<awaiting, suspended, clock, got, result>>
           /\ holes \subseteq holes'
  <2>1. pc \in [Pumper -> Sections]
    BY SectionFacts
  <2>2. pc'[c] = otherwise /\ \A d \in Cli \ {c} : pc'[d] = pc[d]
    BY <1>1, <1>3, <2>1 DEF Goto
  <2>3. Turn(c)
    BY <1>1, <1>3, <2>2 DEF Turn, Clocked, Rests, clock
  <2>4. Steady(c)
    BY <1>1, <2>2 DEF Steady, Waiting
  <2> QED
    BY <2>3, <2>4, TurnSteady
<1>4. Held \subseteq Target
  BY DEF Held, Typed, TypeOK
<1> QED
  BY <1>2, <1>3, <1>4 DEF ProbeAllSuspects

LEMMA FreshStep == Typed /\ FreshInv /\ [Next]_vars => FreshInv'
<1> SUFFICES ASSUME Typed, FreshInv, [Next]_vars PROVE FreshInv'
  OBVIOUS
<1>0. /\ pc \in [Pumper -> Sections] /\ got \in [Cli -> Target \cup {NoOne}]
      /\ req \in [Cli -> Request \cup {NoReq}] /\ epoch \in [Cli -> 0 .. seq]
      /\ Cli \subseteq Pumper /\ Idle \notin Cli
  BY StopPumpAssumption DEF Typed, TypeOK, Sections, Pumper
<1> USE DEF AdapterStep, bridge, clock, asked, adapter, told, Goto, Fail, Succeed
<1>1. ASSUME NEW c \in Cli,
             Submit(c) \/ Accept(c) \/ Look(c) \/ IssueResume(c) \/ LostAll(c) \/ Release(c)
                \/ Serve(c) \/ CaptureResume(c)
      PROVE  FreshInv'
  <2>1. Turn(c) /\ pc'[c] \notin Waiting \cup {"served"}
    <3>1. CASE Submit(c)
      BY <1>0, <3>1 DEF Submit, Turn, Clocked, Rests, Waiting
    <3>2. CASE Accept(c)
      BY <1>0, <3>2 DEF Accept, Turn, Clocked, Rests, Waiting
    <3>3. CASE Look(c)
      BY <1>0, <3>3 DEF Look, Turn, Clocked, Rests, Waiting
    <3>4. CASE IssueResume(c)
      BY <1>0, <3>4 DEF IssueResume, Turn, Clocked, Rests, Waiting
    <3>5. CASE LostAll(c)
      BY <1>0, <3>5 DEF LostAll, Turn, Clocked, Rests, Waiting
    <3>6. CASE Release(c)
      BY <1>0, <3>6 DEF Release, Forget, Turn, Clocked, Rests, Waiting
    <3>7. CASE Serve(c)
      BY <1>0, <3>7 DEF Serve, Turn, Clocked, Rests, Waiting
    <3>8. CASE CaptureResume(c)
      <4>1. pc' = [pc EXCEPT ![c] = "release"] /\ got' = [got EXCEPT ![c] = ServedTarget(c)]
            /\ UNCHANGED <<seq, parkSeq, lastPark, gone, req, epoch>>
        BY <3>8 DEF CaptureResume
      <4>2. suspended' \subseteq suspended /\ holes \subseteq holes'
        BY <3>8 DEF CaptureResume
      <4> QED
        BY <1>0, <4>1, <4>2 DEF Turn, Clocked, Rests, Waiting
    <3> QED
      BY <1>1, <3>1, <3>2, <3>3, <3>4, <3>5, <3>6, <3>7, <3>8
  <2> QED
    BY <2>1, TurnSteady DEF Steady
<1>2. ASSUME NEW c \in Cli, Baseline(c) PROVE FreshInv'
  <2>1. Turn(c)
    BY <1>0, <1>2 DEF Baseline, Turn, Clocked, Rests
  <2>2. /\ pc'[c] \in {"issue", "pump", "release"} /\ suspended' = suspended /\ req' = req
        /\ pc'[c] = "pump" => Op(c) \notin Resuming
        /\ pc'[c] = "pump" /\ Tgt(c) \in suspended => "gap" \in holes'
    BY <1>0, <1>2 DEF Baseline
  <2>3. Waits(c)' /\ Serves(c)'
    BY <2>2 DEF Waits, Serves, Tgt
  <2> QED
    BY <2>1, <2>3, TurnFresh
<1>3. ASSUME NEW c \in Cli, BeginResume(c) PROVE FreshInv'
  <2>1. /\ \/ pc'[c] = "release" /\ suspended' = suspended /\ got' = got
           \/ pc'[c] = "pump" /\ suspended' = suspended \ {Tgt(c)}
              /\ got' = [got EXCEPT ![c] = NoOne]
        /\ \A d \in Cli \ {c} : pc'[d] = pc[d]
        /\ holes \subseteq holes' /\ UNCHANGED <<seq, parkSeq, lastPark, gone, req, epoch>>
    BY <1>0, <1>3 DEF BeginResume
  <2>2. Turn(c)
    BY <1>0, <2>1 DEF Turn, Clocked, Rests
  <2>3. Waits(c)' /\ Serves(c)'
    BY <2>1 DEF Waits, Serves, Tgt
  <2> QED
    BY <2>2, <2>3, TurnFresh
<1>4. ASSUME NEW c \in Cli, Handoff(c) \/ LastLook(c) PROVE FreshInv'
  <2>1. Turn(c)
    BY <1>0, <1>4 DEF Handoff, LastLook, TakeHandoff, Turn, Clocked, Rests
  <2>2. CASE TakeHandoff(c)
    <3>1. parkSeq[HandedOff(c)] > epoch[c]
      BY <2>2 DEF TakeHandoff, SharedParkHit, FreshPark, HandedOff, FreshInv, LastIsLatest
    <3>2. pc'[c] = "served" /\ got'[c] = HandedOff(c) /\ parkSeq' = parkSeq /\ epoch' = epoch
      BY <1>0, <1>4, <2>2 DEF Handoff, LastLook, TakeHandoff
    <3>3. Waits(c)' /\ Serves(c)'
      BY <3>1, <3>2 DEF Waits, Serves
    <3> QED
      BY <2>1, <3>3, TurnFresh
  <2>3. CASE pc'[c] = "release"
    BY <2>1, <2>3, TurnSteady DEF Steady, Waiting
  <2> QED
    BY <1>0, <1>4, <2>2, <2>3 DEF Handoff, LastLook
<1>5. ASSUME NEW c \in Cli, IdleTick(c) \/ Deadline(c) PROVE FreshInv'
  BY <1>5, ProbeFresh DEF IdleTick, Deadline
<1>6. ASSUME NEW c \in Cli, CloseSuspectEpisodes(c) PROVE FreshInv'
  <2>1. Turn(c) /\ pc[c] = "close" /\ pc'[c] = "final" /\ req' = req /\ epoch' = epoch
    BY <1>0, <1>6 DEF CloseSuspectEpisodes, Turn, Clocked, Rests
  <2> QED
    BY <2>1, TurnSteady DEF Steady, Waiting
<1>7. ASSUME NEW p \in Pumper, Pop(p) PROVE FreshInv'
  <2>1. Turn(p) /\ pc' = pc /\ pc[p] = "pump" /\ req' = req /\ epoch' = epoch
    BY <1>7 DEF Pop, Turn, Clocked, Rests
  <2>2. p \in Cli => Steady(p)
    BY <2>1 DEF Steady, Waiting
  <2> QED
    BY <2>1, <2>2, TurnFresh, SteadyFresh DEF Turn
<1>8. ASSUME NEW p \in Pumper, DispatchPumped(p) PROVE FreshInv'
  BY <1>8, DispatchFresh
<1>9. CASE \/ IdlePump \/ IdleEnd \/ UNCHANGED vars
           \/ \E t \in Target : Halt(t) \/ CoStop(t) \/ Exit(t) \/ LiveRead(t)
  <2>1. Turn(Idle)
    BY <1>0, <1>9 DEF IdlePump, IdleEnd, Halt, CoStop, Exit, LiveRead, vars, Turn, Clocked, Rests
  <2> QED
    BY <1>0, <2>1, TurnFresh
<1> QED
  BY <1>1, <1>2, <1>3, <1>4, <1>5, <1>6, <1>7, <1>8, <1>9 DEF Next, Handler, Pump

LEMMA InitFresh == Init => FreshInv
<1> SUFFICES ASSUME Init PROVE FreshInv
  OBVIOUS
<1>1. \A c \in Cli : pc[c] \in {"idle", "done"}
  BY StopPumpAssumption DEF Init, Pumper
<1>2. LastIsLatest
  <2>1. CASE halted = {}
    BY <2>1, FS_EmptySet DEF Init, LastIsLatest, Target
  <2>2. CASE halted # {}
    <3>1. PICK t \in alive : halted = {t}
      BY <2>2 DEF Init
    <3>2. seq = 1 /\ lastPark = t /\ t \in Target
      BY <3>1, FS_Singleton DEF Init
    <3> QED
      BY <3>1, <3>2 DEF Init, LastIsLatest
  <2> QED
    BY <2>1, <2>2
<1> QED
  BY <1>1, <1>2 DEF FreshInv, Waits, Serves

-----------------------------------------------------------------------------
(* Only the last look answers with a timeout.                              *)
LEMMA TimeoutStep ==
  ASSUME Typed, [Next]_vars, NEW c \in Cli, result'[c] = "timeout", result[c] # "timeout"
  PROVE  LastLook(c) /\ ~SharedParkHit(c)
<1>0. /\ result \in [Cli -> {"none", "ok", "error", "timeout"}]
      /\ Idle \notin Cli
  BY StopPumpAssumption DEF Typed, TypeOK
<1> USE DEF AdapterStep, Fail, Succeed
<1>1. ASSUME NEW d \in Cli, result' = result \/ Fail(d) \/ Succeed(d) PROVE FALSE
  BY <1>0, <1>1
<1>2. ASSUME NEW p \in Pumper, Raise(p) PROVE FALSE
  BY <1>0, <1>1, <1>2 DEF Raise, Pumper
<1>3. ASSUME NEW p, NEW t, NEW otherwise, NEW cracks, p \in Pumper,
             ParkStop(p, t, otherwise, cracks) PROVE FALSE
  BY <1>1, <1>2, <1>3 DEF ParkStop, Hit
<1>4. ASSUME NEW d \in Cli, Submit(d) \/ Accept(d) \/ Look(d) \/ Baseline(d) \/ IssueResume(d)
             \/ BeginResume(d) PROVE FALSE
  BY <1>0, <1>4, <1>1 DEF Submit, Accept, Look, Baseline, IssueResume, BeginResume
<1>5. ASSUME NEW d \in Cli, Handoff(d) \/ CloseSuspectEpisodes(d) \/ LostAll(d) \/ Serve(d)
             \/ CaptureResume(d) \/ Release(d) PROVE FALSE
  BY <1>0, <1>5, <1>1
     DEF Handoff, TakeHandoff, CloseSuspectEpisodes, LostAll, Serve, CaptureResume, Release
<1>6. ASSUME NEW d \in Cli, NEW otherwise, ProbeAllSuspects(d, otherwise) PROVE FALSE
  BY <1>1, <1>3, <1>6 DEF ProbeAllSuspects, Pumper
<1>7. ASSUME NEW p \in Pumper, DispatchPumped(p) PROVE FALSE
  <2>1. \/ NoPark
        \/ \E t : ParkStop(p, t, "pump", {})
        \/ Raise(p) \/ result' = result
    BY <1>7 DEF DispatchPumped, HandleStopped, HandleContinued, HandleExited
  <2> QED
    BY <2>1, <1>2, <1>3 DEF NoPark
<1>8. CASE IdlePump \/ IdleEnd \/ UNCHANGED vars \/ \E p \in Pumper : Pop(p)
  BY <1>8 DEF IdlePump, IdleEnd, vars, Pop
<1>9. CASE \E t \in Target : Halt(t) \/ CoStop(t) \/ Exit(t) \/ LiveRead(t)
  BY <1>9 DEF Halt, CoStop, Exit, LiveRead
<1>10. ASSUME NEW d \in Cli, LastLook(d) PROVE LastLook(c) /\ ~SharedParkHit(c)
  <2>1. \/ result' = result
        \/ ~SharedParkHit(d) /\ result' = [result EXCEPT ![d] = "timeout"]
    BY <1>10 DEF LastLook, TakeHandoff
  <2> QED
    BY <1>0, <1>10, <2>1
<1> QED
  BY <1>4, <1>5, <1>6, <1>7, <1>8, <1>9, <1>10
     DEF Next, Handler, Pump, IdleTick, Deadline

(* Only an answer ends a served request well.                              *)
LEMMA AnswerStep ==
  ASSUME Typed, [Next]_vars, NEW c \in Cli, pc[c] = "served", result'[c] = "ok"
  PROVE  Serve(c) \/ CaptureResume(c)
<1>0. /\ result \in [Cli -> {"none", "ok", "error", "timeout"}] /\ result[c] = "none"
      /\ Idle \notin Cli /\ c \in Pumper /\ pc \in [Pumper -> Sections]
  BY SectionFacts, StopPumpAssumption DEF Typed, TypeOK, Sections, Pumper
<1> USE DEF AdapterStep, Fail, Succeed
<1>1. result' # result
  BY <1>0
<1>2. ASSUME NEW d \in Cli, Fail(d) \/ (Succeed(d) /\ d # c)
             \/ result' = [result EXCEPT ![d] = "timeout"] PROVE FALSE
  BY <1>0, <1>2
<1>3. ASSUME NEW p \in Pumper, Raise(p) PROVE FALSE
  BY <1>1, <1>2, <1>3 DEF Raise, Pumper
<1>4. ASSUME NEW p, NEW t, NEW otherwise, NEW cracks, p \in Pumper,
             ParkStop(p, t, otherwise, cracks) PROVE FALSE
  BY <1>1, <1>3, <1>4 DEF ParkStop, Hit
<1>5. ASSUME NEW d \in Cli, Submit(d) \/ Accept(d) \/ Baseline(d) \/ IssueResume(d)
             \/ BeginResume(d) PROVE FALSE
  BY <1>1, <1>2, <1>5 DEF Submit, Accept, Baseline, IssueResume, BeginResume
<1>6. ASSUME NEW d \in Cli, Look(d) PROVE FALSE
  BY <1>0, <1>1, <1>2, <1>6 DEF Look
<1>7. ASSUME NEW d \in Cli, Handoff(d) \/ CloseSuspectEpisodes(d) \/ LostAll(d) \/ Release(d)
             \/ LastLook(d) PROVE FALSE
  BY <1>1, <1>2, <1>7
     DEF Handoff, LastLook, TakeHandoff, CloseSuspectEpisodes, LostAll, Release
<1>8. ASSUME NEW d \in Cli, NEW otherwise, ProbeAllSuspects(d, otherwise) PROVE FALSE
  BY <1>1, <1>4, <1>8 DEF ProbeAllSuspects, Pumper
<1>9. ASSUME NEW p \in Pumper, DispatchPumped(p) PROVE FALSE
  <2>1. \/ NoPark
        \/ \E t : ParkStop(p, t, "pump", {})
        \/ Raise(p) \/ result' = result
    BY <1>9 DEF DispatchPumped, HandleStopped, HandleContinued, HandleExited
  <2> QED
    BY <2>1, <1>1, <1>3, <1>4 DEF NoPark
<1>10. CASE IdlePump \/ IdleEnd \/ UNCHANGED vars \/ \E p \in Pumper : Pop(p)
  BY <1>1, <1>10 DEF IdlePump, IdleEnd, vars, Pop
<1>11. CASE \E t \in Target : Halt(t) \/ CoStop(t) \/ Exit(t) \/ LiveRead(t)
  BY <1>1, <1>11 DEF Halt, CoStop, Exit, LiveRead
<1>12. ASSUME NEW d \in Cli, Serve(d) \/ CaptureResume(d) PROVE d = c
  <2>1. Fail(d) \/ Succeed(d)
    BY <1>12 DEF Serve, CaptureResume
  <2> QED
    BY <1>2, <2>1
<1> QED
  BY <1>5, <1>6, <1>7, <1>8, <1>9, <1>10, <1>11, <1>12
     DEF Next, Handler, Pump, IdleTick, Deadline

-----------------------------------------------------------------------------
(* A park is undone by the two ways to resume, and by the target's end.    *)
LEMMA UndoStep ==
  ASSUME Typed, [Next]_vars, NEW t \in suspended \ suspended'
  PROVE  \/ t \in gone'
         \/ "foreign" \in holes'
         \/ outstanding[t] # NoOne /\ pc[outstanding[t]] # pc'[outstanding[t]]
<1>0. pc \in [Pumper -> Sections] /\ NoOne \notin Cli /\ Cli \subseteq Pumper
  BY StopPumpAssumption DEF Typed, TypeOK, Sections, Pumper
<1>1. suspended' # suspended
  OBVIOUS
<1> USE DEF AdapterStep, bridge
<1>2. ASSUME NEW d \in Cli, Submit(d) \/ Accept(d) \/ Look(d) \/ Baseline(d) \/ IssueResume(d)
             \/ Handoff(d) \/ CloseSuspectEpisodes(d) \/ LostAll(d) \/ Serve(d) \/ LastLook(d)
             \/ Release(d) PROVE FALSE
  BY <1>1, <1>2 DEF Submit, Accept, Look, Baseline, IssueResume, Handoff, CloseSuspectEpisodes,
                    LostAll, Serve, LastLook, Release
<1>3. ASSUME NEW d \in Cli, NEW otherwise, ProbeAllSuspects(d, otherwise) PROVE FALSE
  BY <1>1, <1>3 DEF ProbeAllSuspects, ParkStop
<1>4. ASSUME NEW p \in Pumper, DispatchPumped(p) PROVE t \in gone'
  <2>1. \/ suspended \subseteq suspended'
        \/ \E u : suspended' = suspended \ {u} /\ gone' = gone \cup {u}
    BY <1>4 DEF DispatchPumped, HandleStopped, HandleContinued, HandleExited, NoPark, ParkStop
  <2> QED
    BY <2>1
<1>5. CASE IdlePump \/ IdleEnd \/ UNCHANGED vars \/ \E p \in Pumper : Pop(p)
  BY <1>1, <1>5 DEF IdlePump, IdleEnd, vars, Pop
<1>6. CASE \E u \in Target : Halt(u) \/ CoStop(u) \/ Exit(u) \/ LiveRead(u)
  BY <1>1, <1>6 DEF Halt, CoStop, Exit, LiveRead
<1>7. ASSUME NEW d \in Cli, BeginResume(d)
      PROVE  outstanding[t] # NoOne /\ pc[outstanding[t]] # pc'[outstanding[t]]
  <2>1. suspended' = suspended \ {Tgt(d)} /\ pc[d] = "begin" /\ pc' = [pc EXCEPT ![d] = "pump"]
    BY <1>1, <1>7 DEF BeginResume, Goto
  <2>2. t = Tgt(d) /\ outstanding[Tgt(d)] = d
    BY <2>1 DEF Typed, Asked, Holding
  <2> QED
    BY <1>0, <2>1, <2>2
<1>8. ASSUME NEW d \in Cli, CaptureResume(d)
      PROVE  \/ "foreign" \in holes'
             \/ outstanding[t] # NoOne /\ pc[outstanding[t]] # pc'[outstanding[t]]
  <2>1. /\ t = ServedTarget(d) /\ pc[d] = "served" /\ pc' = [pc EXCEPT ![d] = "release"]
        /\ outstanding[ServedTarget(d)] # d => "foreign" \in holes'
    BY <1>1, <1>8 DEF CaptureResume, Succeed, Goto
  <2> QED
    BY <1>0, <2>1
<1> QED
  BY <1>2, <1>3, <1>4, <1>5, <1>6, <1>7, <1>8 DEF Next, Handler, Pump, IdleTick, Deadline

-----------------------------------------------------------------------------
Inv == Typed /\ FreshInv

LEMMA Inductive == Spec => []Inv
<1>1. Init => Inv
  BY InitTyped, InitFresh DEF Inv
<1>2. Inv /\ [Next]_vars => Inv'
  BY TypeStep, FreshStep DEF Inv
<1> QED
  BY <1>1, <1>2, PTL DEF Spec

(* A request that named its target is not told of a timeout while that     *)
(* target is parked, whoever has consumed its stop (the last look of       *)
(* `pump`), unless it was parked between the look and the baseline or its  *)
(* stack could not be read.                                                *)
THEOREM TimeoutsAreHonest == Spec => TimeoutIsHonest
<1>1. ASSUME Inv, [Next]_vars
      PROVE  [\A c \in Cli :
                /\ result'[c] = "timeout" /\ result[c] # "timeout"
                /\ req[c].explicit /\ holes \cap {"gap", "uncommitted"} = {}
                => Tgt(c) \notin suspended]_vars
  <2> SUFFICES ASSUME NEW c \in Cli, result'[c] = "timeout", result[c] # "timeout",
                      req[c].explicit, holes \cap {"gap", "uncommitted"} = {},
                      Tgt(c) \in suspended
               PROVE  FALSE
    OBVIOUS
  <2>1. pc[c] = "final" /\ ~SharedParkHit(c)
    BY <1>1, TimeoutStep DEF Inv, LastLook
  <2>2. parkSeq[Tgt(c)] > epoch[c]
    BY <1>1, <2>1 DEF Inv, FreshInv, Waits
  <2>3. Known(Tgt(c))
    BY <1>1 DEF Inv, Typed, TypeOK, Known
  <2> QED
    BY <2>1, <2>2, <2>3 DEF SharedParkHit, FreshPark, HandedOff
<1>2. Inv /\ [Next]_vars
        => [\A c \in Cli :
              /\ result'[c] = "timeout" /\ result[c] # "timeout"
              /\ req[c].explicit /\ holes \cap {"gap", "uncommitted"} = {}
              => Tgt(c) \notin suspended]_vars
  BY <1>1
<1> QED
  BY <1>2, Inductive, PTL DEF Spec, TimeoutIsHonest

(* A wait or a capture is answered with a park that is newer than its      *)
(* baseline and of a target that it asked for, whoever pumped it, unless   *)
(* that target has left since.                                             *)
THEOREM FreshAnswers == Spec => AnswersAreFresh
<1>1. ASSUME Inv, [Next]_vars
      PROVE  [\A c \in Cli :
                /\ pc[c] = "served" /\ result'[c] = "ok" /\ holes' \cap {"vanished"} = {}
                => got'[c] \in Wanted(c) /\ parkSeq[got'[c]] > epoch[c]]_vars
  <2> SUFFICES ASSUME NEW c \in Cli, pc[c] = "served", result'[c] = "ok",
                      holes' \cap {"vanished"} = {}
               PROVE  got'[c] \in Wanted(c) /\ parkSeq[got'[c]] > epoch[c]
    OBVIOUS
  <2>1. Serve(c) \/ CaptureResume(c)
    BY <1>1, AnswerStep DEF Inv
  <2>2. got' = [got EXCEPT ![c] = ServedTarget(c)] /\ Vanished(c) \subseteq holes'
    BY <2>1 DEF Serve, CaptureResume
  <2>3. Known(got[c])
    BY <2>2 DEF Vanished
  <2>4. got'[c] = got[c]
    BY <1>1, <2>2, <2>3 DEF ServedTarget, Inv, Typed, TypeOK
  <2>5. got[c] \in Wanted(c) /\ parkSeq[got[c]] > epoch[c]
    BY <1>1, <2>3, ClockTypes DEF Inv, FreshInv, Serves
  <2> QED
    BY <2>4, <2>5
<1>2. Inv /\ [Next]_vars
        => [\A c \in Cli :
              /\ pc[c] = "served" /\ result'[c] = "ok" /\ holes' \cap {"vanished"} = {}
              => got'[c] \in Wanted(c) /\ parkSeq[got'[c]] > epoch[c]]_vars
  BY <1>1
<1> QED
  BY <1>2, Inductive, PTL DEF Spec, AnswersAreFresh

(* A park is undone only by the request that holds the target's slot, or   *)
(* by the target's end; the exception is a capture that was answered with  *)
(* another target than its own and resumes that one.                       *)
THEOREM HoldersResume == Spec => OnlyTheHolderResumes
<1>1. ASSUME Inv, [Next]_vars
      PROVE  [\A t \in suspended \ suspended' :
                \/ t \in gone'
                \/ "foreign" \in holes'
                \/ outstanding[t] # NoOne /\ pc[outstanding[t]] # pc'[outstanding[t]]]_vars
  BY <1>1, UndoStep DEF Inv
<1>2. Inv /\ [Next]_vars
        => [\A t \in suspended \ suspended' :
              \/ t \in gone'
              \/ "foreign" \in holes'
              \/ outstanding[t] # NoOne /\ pc[outstanding[t]] # pc'[outstanding[t]]]_vars
  BY <1>1
<1> QED
  BY <1>2, Inductive, PTL DEF Spec, OnlyTheHolderResumes

=============================================================================
