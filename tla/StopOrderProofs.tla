---------------------------- MODULE StopOrderProofs ----------------------------
(***************************************************************************)
(* That no halt is forgotten and that no running target is published as    *)
(* parked, for any number of requests, children and halts: both rest on    *)
(* the order in which a target's messages travel from its connection,      *)
(* through the stash, to the hand of the pumper that dispatches them.      *)
(***************************************************************************)
EXTENDS StopPumpProofs

Number == 0 .. MaxHalts

Has(s, m)    == \E i \in 1 .. Len(s) : s[i] = m
InHand(t, m) == \E p \in Pumper : hand[p] = <<t, m>>

(* After m no `continued` follows in the list.                             *)
InOrder(s, m) == \A i, j \in 1 .. Len(s) : i < j /\ s[i] = m => s[j] # Continued

(* Unless a message has overtaken another, nobody has a message of a       *)
(* target in hand of which somebody else has one.                          *)
OneHand ==
  "overtaken" \notin holes =>
    \A p, q \in Pumper : \A t \in Target : \A m, k \in Event :
      hand[p] = <<t, m>> /\ hand[q] = <<t, k>> => p = q

(* No number is used before its halt.                                      *)
Numbered(t) ==
  \A n \in Number : n > halts[t] =>
    /\ ~Has(wire[t], Stopped(n)) /\ ~Has(stash[t], Stopped(n))
    /\ ~InHand(t, Stopped(n)) /\ n \notin suspects[t]

(* A target that runs: it is taken for parked only while its resume is     *)
(* being booked, and no stop from before will be published.                *)
Booking(t) == \E c \in Cli : pc[c] = "begin" /\ Tgt(c) = t

Quiet(t) ==
  /\ t \in suspended => Booking(t)
  /\ \A n \in Number :
       /\ ~Has(wire[t], Stopped(n))
       /\ Has(stash[t], Stopped(n)) => t \in suspended
       /\ InHand(t, Stopped(n)) => t \in gone \cup awaiting \cup suspended

(* A target that is halted: no `continued` comes after the stop of its     *)
(* last halt, which is somewhere.                                          *)
Now(t)   == Stopped(halts[t])
Clear(t) == ~Has(stash[t], Continued) /\ ~Has(wire[t], Continued) /\ ~InHand(t, Continued)

Ordered(t) ==
  /\ InOrder(stash[t], Now(t)) /\ InOrder(wire[t], Now(t))
  /\ Has(stash[t], Now(t)) => ~Has(wire[t], Continued)
  /\ InHand(t, Now(t)) \/ halts[t] \in suspects[t] => Clear(t)

Traced(t) ==
  \/ t \in suspended
  \/ Has(wire[t], Now(t)) \/ Has(stash[t], Now(t)) \/ InHand(t, Now(t))
  \/ t \in awaiting /\ halts[t] \in suspects[t]

Real    == holes \cap {"late", "overtaken", "stranded"} = {}
Gapless == holes \cap {"swallowed", "overtaken", "unprobed", "stranded"} = {}

Good(t) ==
  /\ Numbered(t)
  /\ t \notin halted /\ Real => Quiet(t)
  /\ t \in halted /\ "overtaken" \notin holes => Ordered(t)
  /\ t \in halted /\ Gapless => Traced(t)

StopInv == OneHand /\ \A t \in Target : Good(t)

-----------------------------------------------------------------------------
(* Lists of messages.                                                      *)
LEMMA Apart ==
  /\ \A n \in Number : Stopped(n) \in Event /\ IsStop(Stopped(n)) /\ Stopped(n)[2] = n
                       /\ Stopped(n) # Continued /\ Stopped(n) # Exited
  /\ \A n, k \in Number : Stopped(n) = Stopped(k) => n = k
  /\ Continued \in Event /\ Exited \in Event /\ Continued # Exited
  /\ ~IsStop(Continued) /\ ~IsStop(Exited)
  /\ \A m \in Event : IsStop(m) => m[2] \in Number /\ m = Stopped(m[2])
BY DEF Event, Stopped, Continued, Exited, IsStop, Number

LEMMA HasNothing == \A m : ~Has(<<>>, m) /\ InOrder(<<>>, m)
BY DEF Has, InOrder

LEMMA HasOne == \A m : (Has(<<Continued>>, m) => m = Continued) /\ InOrder(<<Continued>>, m)
BY DEF Has, InOrder

LEMMA HasAppend ==
  ASSUME NEW s \in Seq(Event), NEW m \in Event
  PROVE  /\ \A x : Has(Append(s, m), x) <=> Has(s, x) \/ x = m
         /\ \A x : InOrder(s, x) /\ (m # Continued \/ ~Has(s, x)) => InOrder(Append(s, m), x)
<1>1. /\ Len(Append(s, m)) = Len(s) + 1 /\ Len(s) \in Nat
      /\ \A i \in 1 .. Len(s) : Append(s, m)[i] = s[i]
      /\ Append(s, m)[Len(s) + 1] = m
  BY AppendProperties
<1>2. ASSUME NEW x PROVE Has(Append(s, m), x) <=> Has(s, x) \/ x = m
  <2>1. CASE Has(Append(s, m), x)
    BY <1>1, <2>1 DEF Has
  <2>2. CASE Has(s, x)
    <3>1. PICK i \in 1 .. Len(s) : s[i] = x
      BY <2>2 DEF Has
    <3>2. i \in 1 .. Len(Append(s, m)) /\ Append(s, m)[i] = x
      BY <1>1, <3>1
    <3> QED
      BY <3>2 DEF Has
  <2>3. CASE x = m
    <3>1. Len(s) + 1 \in 1 .. Len(Append(s, m))
      BY <1>1
    <3> QED
      BY <1>1, <2>3, <3>1 DEF Has
  <2> QED
    BY <2>1, <2>2, <2>3
<1>3. ASSUME NEW x, InOrder(s, x), m # Continued \/ ~Has(s, x) PROVE InOrder(Append(s, m), x)
  BY <1>1, <1>3 DEF Has, InOrder
<1> QED
  BY <1>2, <1>3

LEMMA HasConcat ==
  ASSUME NEW s \in Seq(Event), NEW w \in Seq(Event)
  PROVE  /\ \A x : Has(s \o w, x) <=> Has(s, x) \/ Has(w, x)
         /\ \A x : InOrder(s, x) /\ InOrder(w, x) /\ (Has(s, x) => ~Has(w, Continued))
                   => InOrder(s \o w, x)
<1>1. /\ Len(s \o w) = Len(s) + Len(w) /\ Len(s) \in Nat /\ Len(w) \in Nat
      /\ \A i \in 1 .. Len(s) + Len(w) :
           (s \o w)[i] = IF i <= Len(s) THEN s[i] ELSE w[i - Len(s)]
  BY ConcatProperties
<1>2. ASSUME NEW x PROVE Has(s \o w, x) <=> Has(s, x) \/ Has(w, x)
  <2>1. CASE Has(s \o w, x)
    <3>1. PICK i \in 1 .. Len(s) + Len(w) : (s \o w)[i] = x
      BY <1>1, <2>1 DEF Has
    <3>2. CASE i <= Len(s)
      <4>1. i \in 1 .. Len(s) /\ s[i] = x
        BY <1>1, <3>1, <3>2
      <4> QED
        BY <4>1 DEF Has
    <3>3. CASE ~(i <= Len(s))
      <4>1. i - Len(s) \in 1 .. Len(w) /\ w[i - Len(s)] = x
        BY <1>1, <3>1, <3>3
      <4> QED
        BY <4>1 DEF Has
    <3> QED
      BY <3>2, <3>3
  <2>2. CASE Has(s, x)
    <3>1. PICK i \in 1 .. Len(s) : s[i] = x
      BY <2>2 DEF Has
    <3>2. i \in 1 .. Len(s \o w) /\ (s \o w)[i] = x
      BY <1>1, <3>1
    <3> QED
      BY <3>2 DEF Has
  <2>3. CASE Has(w, x)
    <3>1. PICK i \in 1 .. Len(w) : w[i] = x
      BY <2>3 DEF Has
    <3>2. i + Len(s) \in 1 .. Len(s \o w) /\ (s \o w)[i + Len(s)] = x
      BY <1>1, <3>1
    <3> QED
      BY <3>2 DEF Has
  <2> QED
    BY <2>1, <2>2, <2>3
<1>3. ASSUME NEW x, InOrder(s, x), InOrder(w, x), Has(s, x) => ~Has(w, Continued)
      PROVE  InOrder(s \o w, x)
  <2> SUFFICES ASSUME NEW i \in 1 .. Len(s \o w), NEW j \in 1 .. Len(s \o w), i < j,
                      (s \o w)[i] = x
               PROVE  (s \o w)[j] # Continued
    BY DEF InOrder
  <2>1. CASE j <= Len(s)
    <3>1. /\ i \in 1 .. Len(s) /\ j \in 1 .. Len(s)
          /\ (s \o w)[i] = s[i] /\ (s \o w)[j] = s[j]
      BY <1>1, <2>1
    <3> QED
      BY <1>3, <3>1 DEF InOrder
  <2>2. CASE ~(j <= Len(s)) /\ i <= Len(s)
    <3>1. /\ i \in 1 .. Len(s) /\ j - Len(s) \in 1 .. Len(w)
          /\ (s \o w)[i] = s[i] /\ (s \o w)[j] = w[j - Len(s)]
      BY <1>1, <2>2
    <3> QED
      BY <1>3, <3>1 DEF Has
  <2>3. CASE ~(i <= Len(s))
    <3>1. /\ i - Len(s) \in 1 .. Len(w) /\ j - Len(s) \in 1 .. Len(w)
          /\ i - Len(s) < j - Len(s)
          /\ (s \o w)[i] = w[i - Len(s)] /\ (s \o w)[j] = w[j - Len(s)]
      BY <1>1, <2>3
    <3> QED
      BY <1>3, <3>1 DEF InOrder
  <2> QED
    BY <2>1, <2>2, <2>3
<1> QED
  BY <1>2, <1>3

LEMMA HasPop ==
  ASSUME NEW s \in Seq(Event), s # <<>>
  PROVE  /\ Head(s) \in Event /\ Tail(s) \in Seq(Event)
         /\ \A x : Has(s, x) <=> x = Head(s) \/ Has(Tail(s), x)
         /\ \A x : InOrder(s, x) => /\ InOrder(Tail(s), x)
                                    /\ x = Head(s) => ~Has(Tail(s), Continued)
<1>1. /\ Head(s) \in Event /\ Tail(s) \in Seq(Event)
      /\ Len(s) \in Nat /\ Len(s) >= 1 /\ Head(s) = s[1]
      /\ Len(Tail(s)) = Len(s) - 1
      /\ \A i \in 1 .. Len(Tail(s)) : Tail(s)[i] = s[i + 1]
  BY HeadTailProperties
<1>2. ASSUME NEW x PROVE Has(s, x) <=> x = Head(s) \/ Has(Tail(s), x)
  <2>1. CASE Has(s, x)
    <3>1. PICK i \in 1 .. Len(s) : s[i] = x
      BY <2>1 DEF Has
    <3>2. CASE i = 1
      BY <1>1, <2>1, <3>1, <3>2
    <3>3. CASE i # 1
      <4>1. i - 1 \in 1 .. Len(Tail(s)) /\ Tail(s)[i - 1] = s[(i - 1) + 1] /\ (i - 1) + 1 = i
        BY <1>1, <3>1, <3>3
      <4> QED
        BY <3>1, <4>1 DEF Has
    <3> QED
      BY <3>2, <3>3
  <2>2. CASE x = Head(s)
    <3>1. 1 \in 1 .. Len(s)
      BY <1>1
    <3> QED
      BY <1>1, <2>2, <3>1 DEF Has
  <2>3. CASE Has(Tail(s), x)
    <3>1. PICK i \in 1 .. Len(Tail(s)) : Tail(s)[i] = x
      BY <2>3 DEF Has
    <3>2. i + 1 \in 1 .. Len(s) /\ s[i + 1] = x
      BY <1>1, <3>1
    <3> QED
      BY <3>2 DEF Has
  <2> QED
    BY <2>1, <2>2, <2>3
<1>3. ASSUME NEW x, InOrder(s, x) PROVE InOrder(Tail(s), x)
  <2> SUFFICES ASSUME NEW i \in 1 .. Len(Tail(s)), NEW j \in 1 .. Len(Tail(s)), i < j,
                      Tail(s)[i] = x
               PROVE  Tail(s)[j] # Continued
    BY DEF InOrder
  <2>1. /\ i + 1 \in 1 .. Len(s) /\ j + 1 \in 1 .. Len(s) /\ i + 1 < j + 1
        /\ Tail(s)[i] = s[i + 1] /\ Tail(s)[j] = s[j + 1]
    BY <1>1
  <2> QED
    BY <1>3, <2>1 DEF InOrder
<1>4. ASSUME NEW x, InOrder(s, x), x = Head(s) PROVE ~Has(Tail(s), Continued)
  <2> SUFFICES ASSUME NEW i \in 1 .. Len(Tail(s)), Tail(s)[i] = Continued PROVE FALSE
    BY DEF Has
  <2>1. 1 \in 1 .. Len(s) /\ i + 1 \in 1 .. Len(s) /\ 1 < i + 1 /\ Tail(s)[i] = s[i + 1]
    BY <1>1
  <2> QED
    BY <1>1, <1>4, <2>1 DEF InOrder
<1> QED
  BY <1>1, <1>2, <1>3, <1>4

(* What is left without the stops was there before, and is no stop.        *)
LEMMA HasDropped ==
  ASSUME NEW s \in Seq(Event)
  PROVE  /\ WithoutStops(s) \in Seq(Event)
         /\ \A x : Has(WithoutStops(s), x) => Has(s, x)
         /\ \A n \in Number : /\ ~Has(WithoutStops(s), Stopped(n))
                              /\ InOrder(WithoutStops(s), Stopped(n))
<1> DEFINE E == {s[i] : i \in 1 .. Len(s)}
           R == {m \in E : ~IsStop(m)}
           w == WithoutStops(s)
<1>1. s \in Seq(E)
  BY SeqDef
<1>2. w \in Seq(R)
  BY <1>1, WithoutStopsTyped
<1>3. \A i \in 1 .. Len(w) : w[i] \in R
  <2> HIDE DEF R, w
  <2> QED
    BY <1>2
<1>4. \A x : Has(w, x) => Has(s, x) /\ ~IsStop(x)
  <2> HIDE DEF w
  <2> QED
    BY <1>3 DEF Has
<1>5. \A n \in Number : ~Has(w, Stopped(n)) /\ InOrder(w, Stopped(n))
  <2> HIDE DEF w
  <2>1. \A n \in Number : ~Has(w, Stopped(n))
    BY <1>4, Apart
  <2> QED
    BY <2>1 DEF Has, InOrder
<1>6. w \in Seq(Event)
  BY StopsDropped
<1> QED
  BY <1>4, <1>5, <1>6

-----------------------------------------------------------------------------
(* A step that does not concern a target, but for its messages; and one    *)
(* that does not concern it at all.                                        *)
Still(t) ==
  /\ halts'[t] = halts[t] /\ suspects'[t] = suspects[t]
  /\ t \in suspended' <=> t \in suspended
  /\ t \in awaiting' <=> t \in awaiting
  /\ t \in gone' <=> t \in gone
  /\ \A m \in Event : InHand(t, m)' <=> InHand(t, m)
  /\ t \in suspended /\ Booking(t) => Booking(t)'

Unmoved(t) ==
  /\ Still(t)
  /\ wire'[t] = wire[t] /\ stash'[t] = stash[t]
  /\ t \in halted' <=> t \in halted

LEMMA Cracking == [Next]_vars => holes \subseteq holes'
<1>1. ASSUME NEW c \in Cli, Submit(c) \/ Accept(c) \/ Look(c) \/ Baseline(c) \/ IssueResume(c)
             \/ BeginResume(c) \/ Handoff(c) \/ CloseSuspectEpisodes(c) \/ LastLook(c)
             \/ LostAll(c) \/ Serve(c) \/ CaptureResume(c) \/ Release(c)
      PROVE  holes \subseteq holes'
  BY <1>1 DEF Submit, Accept, Look, Baseline, IssueResume, BeginResume, Handoff,
              CloseSuspectEpisodes, LastLook, LostAll, Serve, CaptureResume, Release
<1>2. ASSUME NEW c \in Cli, NEW otherwise, ProbeAllSuspects(c, otherwise)
      PROVE  holes \subseteq holes'
  BY <1>2 DEF ProbeAllSuspects, ParkStop
<1>3. ASSUME NEW p \in Pumper, Pop(p) PROVE holes \subseteq holes'
  BY <1>3 DEF Pop
<1>4. ASSUME NEW p \in Pumper, DispatchPumped(p) PROVE holes \subseteq holes'
  BY <1>4 DEF DispatchPumped, HandleStopped, HandleContinued, HandleExited, NoPark, ParkStop
<1>5. CASE \E t \in Target : Halt(t) \/ CoStop(t) \/ Exit(t) \/ LiveRead(t)
  BY <1>5 DEF Halt, CoStop, Exit, LiveRead, AdapterStep
<1>6. CASE IdlePump \/ IdleEnd \/ UNCHANGED vars
  BY <1>6 DEF IdlePump, IdleEnd, vars
<1> QED
  BY <1>1, <1>2, <1>3, <1>4, <1>5, <1>6 DEF Next, Handler, Pump, IdleTick, Deadline

LEMMA NowIsEvent == ASSUME Typed, NEW t \in Target
                    PROVE  halts[t] \in Number /\ Now(t) \in Event
BY Apart DEF Typed, TypeOK, Now, Number

LEMMA Frame ==
  ASSUME Typed, NEW t \in Target, Good(t), Unmoved(t), holes \subseteq holes'
  PROVE  Good(t)'
<1>0. /\ halts[t] \in Number /\ Now(t) \in Event /\ Now(t)' = Now(t)
      /\ Continued \in Event /\ \A n \in Number : Stopped(n) \in Event
  BY NowIsEvent, Apart DEF Unmoved, Still, Now
<1>1. Numbered(t)'
  BY <1>0 DEF Good, Unmoved, Still, Numbered
<1>2. (t \notin halted /\ Real => Quiet(t))'
  BY <1>0 DEF Good, Unmoved, Still, Quiet, Real
<1>3. (t \in halted /\ "overtaken" \notin holes => Ordered(t))'
  BY <1>0 DEF Good, Unmoved, Still, Ordered, Clear
<1>4. (t \in halted /\ Gapless => Traced(t))'
  BY <1>0 DEF Good, Unmoved, Still, Traced, Gapless
<1> QED
  BY <1>1, <1>2, <1>3, <1>4 DEF Good

(* The hands after a step that neither pops nor dispatches.                *)
LEMMA HandsSame ==
  ASSUME hand' = hand
  PROVE  \A t, m : InHand(t, m)' <=> InHand(t, m)
BY DEF InHand

(* A step of one process ends no booking but its own.                      *)
LEMMA BookingKept ==
  ASSUME NEW p \in Pumper, NEW t \in Target, pc[p] = "begin" => p \in Cli /\ Tgt(p) # t,
         \A d \in Cli \ {p} : pc'[d] = pc[d] /\ req'[d] = req[d]
  PROVE  Booking(t) => Booking(t)'
<1> SUFFICES ASSUME NEW c \in Cli, pc[c] = "begin", Tgt(c) = t PROVE Booking(t)'
  BY DEF Booking
<1>1. c # p
  OBVIOUS
<1>2. pc'[c] = "begin" /\ req'[c].target = t
  BY <1>1 DEF Tgt
<1> QED
  BY <1>2 DEF Booking, Tgt

(* Messages are sent.                                                      *)
LEMMA SendGood ==
  ASSUME Typed, NEW t \in Target, \A u \in Target : Good(u), holes \subseteq holes',
         Halt(t) \/ CoStop(t) \/ Exit(t)
  PROVE  \A u \in Target : Good(u)'
<1>0. /\ wire \in [Target -> Seq(Event)] /\ halts \in [Target -> Number]
      /\ halted \subseteq alive /\ MaxHalts \in Nat
      /\ \A u \in Target : halts[u] \in Nat /\ wire[u] \in Seq(Event)
  BY StopPumpAssumption DEF Typed, TypeOK, Number
<1>a. hand' = hand /\ UNCHANGED <<stash, suspended, awaiting, suspects, gone, pc, req>>
  BY DEF Halt, CoStop, Exit, AdapterStep, bridge, asked
<1>b. \A u, m : InHand(u, m)' <=> InHand(u, m)
  BY <1>a, HandsSame
<1>c. \A u : Booking(u)' <=> Booking(u)
  BY <1>a DEF Booking, Tgt
<1>1. ASSUME NEW u \in Target \ {t} PROVE Good(u)'
  <2>1. wire'[u] = wire[u] /\ halts'[u] = halts[u] /\ (u \in halted' <=> u \in halted)
    BY <1>0 DEF Halt, CoStop, Exit, Send, told
  <2>2. Unmoved(u)
    BY <1>a, <1>b, <1>c, <2>1 DEF Unmoved, Still
  <2> QED
    BY <2>2, Frame
<1>2. Good(t)
  OBVIOUS
<1>3. CASE Halt(t)
  <2>1. PICK n \in Number : /\ n = halts[t] + 1 /\ t \in halted' /\ halts'[t] = n
                            /\ wire'[t] = Append(wire[t], Stopped(n))
    <3>1. /\ halts[t] + 1 \in Number /\ t \in halted' /\ halts'[t] = halts[t] + 1
          /\ wire'[t] = Append(wire[t], Stopped(halts[t] + 1))
      BY <1>0, <1>3 DEF Halt, Send, Number
    <3> QED
      BY <3>1
  <2>2. Stopped(n) \in Event /\ n > halts[t] /\ Now(t)' = Stopped(n)
    BY <1>0, <2>1, Apart DEF Now
  <2>3. /\ \A x : Has(wire[t], x)' <=> Has(wire[t], x) \/ x = Stopped(n)
        /\ \A x : InOrder(wire[t], x) => InOrder(wire[t], x)'
    BY <1>0, <2>1, <2>2, HasAppend, Apart
  <2>4. /\ ~Has(wire[t], Stopped(n)) /\ ~Has(stash[t], Stopped(n))
        /\ ~InHand(t, Stopped(n)) /\ n \notin suspects[t]
    BY <1>2, <2>2 DEF Good, Numbered
  <2>5. InOrder(wire[t], Stopped(n)) /\ InOrder(stash[t], Stopped(n))
    BY <2>4 DEF Has, InOrder
  <2>6. Numbered(t)'
    <3> SUFFICES ASSUME NEW k \in Number, k > n
                 PROVE  /\ ~Has(wire[t], Stopped(k))' /\ ~Has(stash[t], Stopped(k))'
                        /\ ~InHand(t, Stopped(k))' /\ k \notin suspects'[t]
      BY <2>1 DEF Numbered
    <3>1. k > halts[t] /\ Stopped(k) # Stopped(n)
      BY <1>0, <2>1, Apart DEF Number
    <3> QED
      BY <1>2, <1>a, <1>b, <2>3, <3>1 DEF Good, Numbered
  <2>7. Ordered(t)'
    BY <1>a, <1>b, <2>1, <2>2, <2>3, <2>4, <2>5 DEF Ordered
  <2>8. Traced(t)'
    BY <2>2, <2>3 DEF Traced
  <2>9. Good(t)'
    BY <2>1, <2>6, <2>7, <2>8 DEF Good
  <2> QED
    BY <1>1, <2>9
<1>4. CASE CoStop(t) \/ Exit(t)
  <2>1. PICK m \in Event : /\ wire'[t] = Append(wire[t], m) /\ m # Continued
                           /\ (m = Now(t) /\ t \in halted) \/ (m = Exited /\ t \notin halted)
    BY <1>0, <1>4, NowIsEvent, Apart DEF CoStop, Exit, Send, Now
  <2>a. halts' = halts /\ halted' = halted /\ Now(t)' = Now(t) /\ halts[t] \in Number
    BY <1>0, <1>4, NowIsEvent DEF CoStop, Exit, told, Now
  <2>b. Now(t) # Exited
    BY <2>a, Apart DEF Now
  <2>2. /\ halts' = halts /\ halted' = halted /\ (m = Now(t) => t \in halted)
        /\ Now(t)' = Now(t) /\ halts[t] \in Number
    BY <2>1, <2>a, <2>b
  <2>3. /\ \A x : Has(wire[t], x)' <=> Has(wire[t], x) \/ x = m
        /\ \A x : InOrder(wire[t], x) => InOrder(wire[t], x)'
    BY <1>0, <2>1, HasAppend
  <2>4. \A k \in Number : k > halts[t] => Stopped(k) # m
    BY <1>0, <2>1, <2>2, Apart DEF Now
  <2>5. Numbered(t)'
    BY <1>2, <1>a, <1>b, <2>2, <2>3, <2>4 DEF Good, Numbered
  <2>6. (t \notin halted /\ Real => Quiet(t))'
    <3>1. t \notin halted => \A k \in Number : Stopped(k) # m
      BY <2>1, <2>2, Apart
    <3> QED
      BY <1>2, <1>a, <1>b, <1>c, <2>2, <2>3, <3>1 DEF Good, Quiet, Real
  <2>7. (t \in halted /\ "overtaken" \notin holes => Ordered(t))'
    BY <1>2, <1>a, <1>b, <2>1, <2>2, <2>3 DEF Good, Ordered, Clear
  <2>8. (t \in halted /\ Gapless => Traced(t))'
    BY <1>2, <1>a, <1>b, <2>2, <2>3 DEF Good, Traced, Gapless
  <2>9. Good(t)'
    BY <2>5, <2>6, <2>7, <2>8 DEF Good
  <2> QED
    BY <1>1, <2>9
<1> QED
  BY <1>1, <1>3, <1>4

(* A request reads what was sent before its response.                      *)
LEMMA RefusesGood ==
  ASSUME Typed, NEW t \in Target, \A u \in Target : Good(u), holes \subseteq holes',
         AdapterRefuses(t), \A u \in Target : Still(u)
  PROVE  \A u \in Target : Good(u)'
<1>0. /\ wire \in [Target -> Seq(Event)] /\ stash \in [Target -> Seq(Event)]
      /\ wire[t] \in Seq(Event) /\ stash[t] \in Seq(Event)
  BY DEF Typed, TypeOK
<1>1. ASSUME NEW u \in Target \ {t} PROVE Good(u)'
  <2>1. Unmoved(u)
    BY <1>0 DEF AdapterRefuses, Unmoved
  <2> QED
    BY <2>1, Frame
<1>2. /\ stash'[t] = stash[t] \o wire[t] /\ wire'[t] = <<>> /\ halted' = halted
      /\ Now(t)' = Now(t) /\ Still(t) /\ Good(t) /\ Now(t) \in Event /\ halts[t] \in Number
      /\ Continued \in Event /\ \A n \in Number : Stopped(n) \in Event
  BY <1>0, NowIsEvent, Apart DEF AdapterRefuses, Stashed, Still, Now
<1>3. /\ \A x : Has(stash[t], x)' <=> Has(stash[t], x) \/ Has(wire[t], x)
      /\ \A x : ~Has(wire[t], x)' /\ InOrder(wire[t], x)'
      /\ \A x : InOrder(stash[t], x) /\ InOrder(wire[t], x)
                /\ (Has(stash[t], x) => ~Has(wire[t], Continued)) => InOrder(stash[t], x)'
  BY <1>0, <1>2, HasConcat, HasNothing
<1>4. Numbered(t)'
  BY <1>2, <1>3 DEF Good, Still, Numbered
<1>5. (t \notin halted /\ Real => Quiet(t))'
  BY <1>2, <1>3 DEF Good, Still, Quiet, Real
<1>6. (t \in halted /\ "overtaken" \notin holes => Ordered(t))'
  BY <1>2, <1>3 DEF Good, Still, Ordered, Clear
<1>7. (t \in halted /\ Gapless => Traced(t))'
  BY <1>2, <1>3 DEF Good, Still, Traced, Gapless
<1> QED
  BY <1>1, <1>4, <1>5, <1>6, <1>7 DEF Good

(* What the adapter has said when it has resumed a target.                 *)
LEMMA Resumed ==
  ASSUME Typed, NEW t \in Target, NEW drop \in BOOLEAN, AdapterResumes(t, drop)
  PROVE  /\ halted' = halted \ {t}
         /\ \A u \in Target \ {t} : wire'[u] = wire[u] /\ stash'[u] = stash[u]
         /\ \A n \in Number :
              /\ ~Has(wire[t], Stopped(n))'
              /\ Has(stash[t], Stopped(n))' => ~drop /\ (Has(stash[t], Stopped(n)) \/ Has(wire[t], Stopped(n)))
<1>0. /\ wire \in [Target -> Seq(Event)] /\ stash \in [Target -> Seq(Event)]
      /\ wire[t] \in Seq(Event) /\ stash[t] \in Seq(Event)
      /\ <<>> \in Seq(Event) /\ <<Continued>> \in Seq(Event)
  BY Apart DEF Typed, TypeOK
<1>1. PICK first, last \in {<<>>, <<Continued>>} :
        /\ stash' = [stash EXCEPT ![t] = IF drop THEN WithoutStops(Stashed(t) \o first)
                                         ELSE Stashed(t) \o first]
        /\ wire' = [wire EXCEPT ![t] = last]
  BY DEF AdapterResumes
<1>2. halted' = halted \ {t}
  BY DEF AdapterResumes
<1>3. PICK read \in Seq(Event) : read = Stashed(t) \o first
  BY <1>0, ConcatProperties DEF Stashed
<1>4. /\ wire'[t] = last /\ stash'[t] = IF drop THEN WithoutStops(read) ELSE read
      /\ \A u \in Target \ {t} : wire'[u] = wire[u] /\ stash'[u] = stash[u]
  BY <1>0, <1>1, <1>3
<1>5. \A n \in Number : ~Has(first, Stopped(n)) /\ ~Has(last, Stopped(n))
  BY <1>1, HasNothing, HasOne, Apart
<1>6. \A x : Has(read, x) <=> Has(stash[t], x) \/ Has(wire[t], x) \/ Has(first, x)
  <2>1. Stashed(t) \in Seq(Event) /\ first \in Seq(Event)
    BY <1>0, ConcatProperties DEF Stashed
  <2>2. \A x : Has(read, x) <=> Has(Stashed(t), x) \/ Has(first, x)
    BY <1>3, <2>1, HasConcat
  <2>3. \A x : Has(Stashed(t), x) <=> Has(stash[t], x) \/ Has(wire[t], x)
    BY <1>0, HasConcat DEF Stashed
  <2> QED
    BY <2>2, <2>3
<1>7. ASSUME NEW n \in Number
      PROVE  /\ ~Has(wire[t], Stopped(n))'
             /\ Has(stash[t], Stopped(n))' => ~drop /\ (Has(stash[t], Stopped(n)) \/ Has(wire[t], Stopped(n)))
  <2>1. ~Has(WithoutStops(read), Stopped(n))
    BY HasDropped
  <2> QED
    BY <1>4, <1>5, <1>6, <2>1
<1> QED
  BY <1>2, <1>4, <1>7

(* A target that has been resumed: what it said before is stale, and known *)
(* to be, unless the bridge took the resume for failed.                    *)
LEMMA ResumesGood ==
  ASSUME Typed, NEW t \in Target, \A u \in Target : Good(u), NEW drop \in BOOLEAN,
         AdapterResumes(t, drop), UNCHANGED <<halts, hand>>, suspects'[t] \subseteq suspects[t],
         \/ "late" \in holes'
         \/ ~drop /\ t \in suspended' /\ Booking(t)'
         \/ drop /\ t \notin suspended' /\ t \in awaiting'
  PROVE  Good(t)'
<1>1. /\ halted' = halted \ {t}
      /\ \A n \in Number :
           /\ ~Has(wire[t], Stopped(n))'
           /\ Has(stash[t], Stopped(n))' => ~drop /\ (Has(stash[t], Stopped(n)) \/ Has(wire[t], Stopped(n)))
  BY Resumed
<1>2. \A u, m : InHand(u, m)' <=> InHand(u, m)
  BY HandsSame
<1>3. Numbered(t)'
  BY <1>1, <1>2 DEF Good, Numbered
<1>4. Real' => Quiet(t)'
  BY <1>1, <1>2 DEF Real, Quiet
<1> QED
  BY <1>1, <1>3, <1>4 DEF Good

LEMMA IssueGood ==
  ASSUME Typed, NEW c \in Cli, \A u \in Target : Good(u), holes \subseteq holes', IssueResume(c)
  PROVE  \A u \in Target : Good(u)'
<1>0. /\ pc \in [Pumper -> Sections] /\ Cli \subseteq Pumper /\ c \in Pumper /\ Tgt(c) \in Target /\ pc[c] = "issue"
      /\ wire \in [Target -> Seq(Event)] /\ stash \in [Target -> Seq(Event)]
  BY DEF Typed, TypeOK, Asked, IssueResume, Sections, Pumper, Request, Tgt
<1>t. PICK t \in Target : t = Tgt(c)
  BY <1>0
<1>a. UNCHANGED <<halts, suspended, awaiting, suspects, gone, req, hand>>
  BY DEF IssueResume, told, asked
<1>b. \A d \in Cli \ {c} : pc'[d] = pc[d]
  <2>1. \E label : pc' = [pc EXCEPT ![c] = label]
    BY DEF IssueResume, Fail, Goto
  <2> QED
    BY <1>0, <2>1
<1>c. \A u \in Target : Booking(u) => Booking(u)'
  BY <1>0, <1>a, <1>b, BookingKept
<1>d. \A u \in Target : Still(u)
  BY <1>a, <1>c, HandsSame DEF Still
<1>1. CASE UNCHANGED <<halted, wire, stash>>
  <2>1. \A u \in Target : Unmoved(u)
    BY <1>1, <1>d DEF Unmoved
  <2> QED
    BY <2>1, Frame
<1>2. CASE AdapterRefuses(t)
  BY <1>2, <1>d, RefusesGood
<1>3. CASE /\ AdapterResumes(t, FALSE) /\ t \in suspended
           /\ Goto(c, "begin") \/ "late" \in holes'
  <2>1. \A u \in Target \ {t} : Good(u)'
    <3> SUFFICES ASSUME NEW u \in Target \ {t} PROVE Good(u)'
      OBVIOUS
    <3>1. Unmoved(u)
      BY <1>0, <1>3, <1>d, Resumed DEF Unmoved
    <3> QED
      BY <3>1, Frame
  <2>2. Goto(c, "begin") => Booking(t)'
    <3> SUFFICES ASSUME Goto(c, "begin") PROVE Booking(t)'
      OBVIOUS
    <3>1. pc'[c] = "begin" /\ Tgt(c)' = t
      BY <1>0, <1>t, <1>a DEF Goto, Tgt
    <3> QED
      BY <3>1 DEF Booking
  <2>3. Good(t)'
    BY <1>3, <1>a, <2>2, ResumesGood
  <2> QED
    BY <2>1, <2>3
<1> QED
  BY <1>1, <1>2, <1>3, <1>t DEF IssueResume

LEMMA Flight ==
  \A t, m, s : InFlight(t, m, s) <=> Has(wire[t], m) \/ Has(s, m) \/ InHand(t, m)
BY DEF InFlight, Has, InHand

LEMMA SwallowedStops ==
  ASSUME NEW t, NEW kept, t \in halted, "swallowed" \notin Swallowed(t, kept)
  PROVE  Has(wire[t], Now(t)) \/ Has(kept, Now(t)) \/ InHand(t, Now(t))
BY Flight DEF Swallowed, Now

(* An episode that ends with nothing held nor in hand.                     *)
LEMMA NothingStranded ==
  ASSUME Typed, NEW closing, NEW t \in closing, "stranded" \notin Stranded(closing)
  PROVE  suspects[t] = {} /\ \A m \in Event : ~InHand(t, m)
<1>1. suspects[t] = {} /\ ~ \E p \in Pumper : hand[p] # Nothing /\ hand[p][1] = t
  BY DEF Stranded
<1>2. \A m : <<t, m>> # Nothing /\ <<t, m>>[1] = t
  BY DEF Nothing
<1> QED
  BY <1>1, <1>2 DEF InHand

LEMMA BeginGood ==
  ASSUME Typed, NEW c \in Cli, \A u \in Target : Good(u), holes \subseteq holes', BeginResume(c)
  PROVE  \A u \in Target : Good(u)'
<1>t. PICK t \in Target : t = Tgt(c)
  BY DEF Typed, Asked, BeginResume, Request, Tgt
<1>k. PICK kept : kept = IF t \in suspended THEN WithoutStops(stash[t]) ELSE stash[t]
  OBVIOUS
<1>0. /\ pc \in [Pumper -> Sections] /\ Cli \subseteq Pumper /\ c \in Pumper /\ t \in Target /\ pc[c] = "begin"
      /\ stash \in [Target -> Seq(Event)] /\ suspects \in [Target -> SUBSET Number]
      /\ suspended \cap gone = {} /\ stash[t] \in Seq(Event)
  BY DEF Typed, TypeOK, BeginResume, Sections, Pumper, Number
<1>a. UNCHANGED <<wire, halted, halts, gone, req, hand>>
  BY DEF BeginResume, adapter, told, asked
<1>b. \A d \in Cli \ {c} : pc'[d] = pc[d]
  <2>1. \E label : pc' = [pc EXCEPT ![c] = label]
    BY DEF BeginResume, Fail, Goto
  <2> QED
    BY <1>0, <2>1
<1>c. \A u \in Target \ {t} : Booking(u) => Booking(u)'
  BY <1>0, <1>t, <1>a, <1>b, BookingKept
<1>d. \A u, m : InHand(u, m)' <=> InHand(u, m)
  BY <1>a, HandsSame
<1>1. CASE ~Known(t) /\ UNCHANGED <<stash, suspended, awaiting, suspects>>
  <2>1. t \notin suspended
    BY <1>0, <1>1 DEF Known
  <2>2. \A u \in Target : Unmoved(u)
    BY <1>1, <1>a, <1>c, <1>d, <2>1 DEF Unmoved, Still
  <2> QED
    BY <2>2, Frame
<1>2. CASE /\ stash' = [stash EXCEPT ![t] = kept]
           /\ suspects' = [suspects EXCEPT ![t] = {}]
           /\ awaiting' = Barrier(t, t \in suspended)
           /\ suspended' = suspended \ {t}
           /\ holes' = holes \cup Swallowed(t, kept)
                             \cup IF t \in suspended THEN {} ELSE Stranded({t} \cap awaiting)
  <2>1. ASSUME NEW u \in Target \ {t} PROVE Good(u)'
    <3>1. Unmoved(u)
      BY <1>0, <1>2, <1>a, <1>c, <1>d DEF Unmoved, Still, Barrier
    <3> QED
      BY <3>1, Frame
  <2>2. /\ stash'[t] = kept /\ suspects'[t] = {} /\ t \notin suspended'
        /\ t \in suspended => t \in awaiting'
        /\ Good(t) /\ halts[t] \in Number /\ Now(t)' = Now(t) /\ Now(t) = Stopped(halts[t])
    BY <1>0, <1>2, <1>a, NowIsEvent DEF Barrier, Now
  <2>3. /\ \A x : Has(stash[t], x)' => Has(stash[t], x)
        /\ \A n \in Number : /\ t \in suspended => ~Has(stash[t], Stopped(n))'
                             /\ InOrder(stash[t], Stopped(n)) => InOrder(stash[t], Stopped(n))'
    BY <1>0, <1>k, <2>2, HasDropped
  <2>4. Numbered(t)'
    BY <1>a, <1>d, <2>2, <2>3 DEF Good, Numbered
  <2>5. ASSUME t \notin halted, Real' PROVE Quiet(t)'
    <3>1. Quiet(t)
      BY <1>2, <2>2, <2>5 DEF Good, Real
    <3>2. ASSUME NEW n \in Number, InHand(t, Stopped(n)) PROVE t \in gone \cup awaiting'
      <4>1. CASE t \in suspended
        BY <2>2, <4>1
      <4>2. CASE t \notin suspended
        <5>1. t \notin awaiting
          BY <1>2, <2>5, <3>2, <4>2, NothingStranded, Apart DEF Real
        <5> QED
          BY <3>1, <3>2, <4>2, <5>1 DEF Quiet
      <4> QED
        BY <4>1, <4>2
    <3> QED
      BY <1>a, <1>d, <2>2, <2>3, <3>1, <3>2 DEF Quiet
  <2>6. ASSUME t \in halted, "overtaken" \notin holes' PROVE Ordered(t)'
    <3>1. Ordered(t)
      BY <1>2, <2>2, <2>6 DEF Good
    <3> QED
      BY <1>a, <1>d, <2>2, <2>3, <3>1 DEF Ordered, Clear
  <2>7. ASSUME t \in halted, Gapless' PROVE Traced(t)'
    <3>1. Has(wire[t], Now(t)) \/ Has(kept, Now(t)) \/ InHand(t, Now(t))
      BY <1>2, <2>7, SwallowedStops DEF Gapless
    <3> QED
      BY <1>a, <1>d, <2>2, <3>1 DEF Traced
  <2>8. Good(t)'
    BY <1>a, <2>4, <2>5, <2>6, <2>7 DEF Good
  <2> QED
    BY <2>1, <2>8
<1> QED
  BY <1>1, <1>2, <1>k, <1>t DEF BeginResume

LEMMA CaptureGood ==
  ASSUME Typed, NEW c \in Cli, \A u \in Target : Good(u), holes \subseteq holes', CaptureResume(c)
  PROVE  \A u \in Target : Good(u)'
<1>t. PICK t \in Target : t = ServedTarget(c)
  <2>1. got[c] \in Target /\ Tgt(c) \in Target /\ lastPark \in Target
    BY DEF Typed, TypeOK, Asked, CaptureResume, Wanted, Request, Tgt
  <2> QED
    BY <2>1 DEF ServedTarget
<1>0. /\ pc \in [Pumper -> Sections] /\ Cli \subseteq Pumper /\ c \in Pumper /\ pc[c] = "served" /\ t \in Target
      /\ stash \in [Target -> Seq(Event)] /\ suspects \in [Target -> SUBSET Number]
      /\ stash[t] \in Seq(Event)
  BY DEF Typed, TypeOK, CaptureResume, Sections, Pumper, Number
<1>a. UNCHANGED <<halts, gone, req, hand>>
  BY DEF CaptureResume, told, asked
<1>b. \A d \in Cli \ {c} : pc'[d] = pc[d]
  <2>1. \E label : pc' = [pc EXCEPT ![c] = label]
    BY DEF CaptureResume, Fail, Succeed, Goto
  <2> QED
    BY <1>0, <2>1
<1>c. \A u \in Target : Booking(u) => Booking(u)'
  BY <1>0, <1>a, <1>b, BookingKept
<1>d. \A u, m : InHand(u, m)' <=> InHand(u, m)
  BY <1>a, HandsSame
<1> DEFINE Begins == /\ suspects' = [suspects EXCEPT ![t] = {}]
                     /\ awaiting' = Barrier(t, TRUE)
                     /\ suspended' = suspended \ {t}
<1>e. ASSUME Begins
      PROVE  /\ \A u \in Target \ {t} : Still(u)
             /\ suspects'[t] = {} /\ t \in awaiting' /\ t \notin suspended'
  BY <1>0, <1>a, <1>c, <1>d, <1>e DEF Still, Barrier
<1>1. CASE UNCHANGED <<halted, wire, stash, suspended, awaiting, suspects>>
  <2>1. \A u \in Target : Unmoved(u)
    BY <1>1, <1>a, <1>c, <1>d DEF Unmoved, Still
  <2> QED
    BY <2>1, Frame
<1>2. CASE AdapterRefuses(t) /\ UNCHANGED <<suspended, awaiting, suspects>>
  <2>1. \A u \in Target : Still(u)
    BY <1>2, <1>a, <1>c, <1>d DEF Still
  <2> QED
    BY <1>0, <1>2, <2>1, RefusesGood
<1>3. CASE AdapterResumes(t, TRUE) /\ Begins
  <2>1. ASSUME NEW u \in Target \ {t} PROVE Good(u)'
    <3>1. Unmoved(u)
      BY <1>0, <1>3, <1>e, Resumed DEF Unmoved
    <3> QED
      BY <3>1, Frame
  <2>2. Good(t)'
    BY <1>0, <1>3, <1>a, <1>e, ResumesGood
  <2> QED
    BY <2>1, <2>2
<1>4. CASE /\ stash' = [stash EXCEPT ![t] = WithoutStops(@)]
           /\ Begins
           /\ UNCHANGED <<halted, wire>>
           /\ Swallowed(t, WithoutStops(stash[t])) \subseteq holes'
  <2>1. ASSUME NEW u \in Target \ {t} PROVE Good(u)'
    <3>1. Unmoved(u)
      BY <1>0, <1>4, <1>e DEF Unmoved
    <3> QED
      BY <3>1, Frame
  <2>2. /\ stash'[t] = WithoutStops(stash[t]) /\ Good(t) /\ halts[t] \in Number
        /\ Now(t)' = Now(t) /\ Now(t) = Stopped(halts[t])
        /\ suspects'[t] = {} /\ t \in awaiting' /\ t \notin suspended'
    BY <1>0, <1>4, <1>a, <1>e, NowIsEvent DEF Now
  <2>3. /\ \A x : Has(stash[t], x)' => Has(stash[t], x)
        /\ \A n \in Number : ~Has(stash[t], Stopped(n))' /\ InOrder(stash[t], Stopped(n))'
    BY <1>0, <2>2, HasDropped
  <2>4. UNCHANGED <<halted, wire>>
    BY <1>4
  <2>s. Swallowed(t, WithoutStops(stash[t])) \subseteq holes'
    BY <1>4
  <2> HIDE DEF Begins
  <2>5. Numbered(t)'
    BY <1>a, <1>d, <2>2, <2>3, <2>4 DEF Good, Numbered
  <2>6. ASSUME t \notin halted, Real' PROVE Quiet(t)'
    <3>1. Quiet(t)
      BY <2>2, <2>6 DEF Good, Real
    <3> QED
      BY <1>a, <1>d, <2>2, <2>3, <2>4, <3>1 DEF Quiet
  <2>7. ASSUME t \in halted, "overtaken" \notin holes' PROVE Ordered(t)'
    <3>1. Ordered(t)
      BY <2>2, <2>7 DEF Good
    <3> QED
      BY <1>a, <1>d, <2>2, <2>3, <2>4, <3>1 DEF Ordered, Clear
  <2>8. ASSUME t \in halted, Gapless' PROVE Traced(t)'
    <3>1. Has(wire[t], Now(t)) \/ Has(WithoutStops(stash[t]), Now(t)) \/ InHand(t, Now(t))
      BY <2>8, <2>s, SwallowedStops DEF Gapless
    <3> QED
      BY <1>a, <1>d, <2>2, <2>4, <3>1 DEF Traced
  <2>9. Good(t)'
    BY <2>4, <2>5, <2>6, <2>7, <2>8 DEF Good
  <2> QED
    BY <2>1, <2>9
<1> QED
  BY <1>1, <1>2, <1>3, <1>4, <1>t DEF CaptureResume

-----------------------------------------------------------------------------
(* Pumping: a message is popped, and dispatched by who has popped it.      *)
Popped(p, t, m) ==
  /\ hand[p] = Nothing
  /\ hand' = [hand EXCEPT ![p] = <<t, m>>]
  /\ UNCHANGED <<halted, halts, suspended, awaiting, suspects, gone, pc, req>>
  /\ "overtaken" \notin holes' => \A x \in Event : ~InHand(t, x)

LEMMA HandsPopped ==
  ASSUME Typed, NEW p \in Pumper, NEW t \in Target, NEW m \in Event, Popped(p, t, m)
  PROVE  \A u \in Target : \A x \in Event : InHand(u, x)' <=> InHand(u, x) \/ (u = t /\ x = m)
<1>1. hand \in [Pumper -> {Nothing} \cup (Target \X Event)]
  BY DEF Typed, TypeOK
<1>2. hand'[p] = <<t, m>> /\ \A q \in Pumper \ {p} : hand'[q] = hand[q]
  BY <1>1 DEF Popped
<1>3. \A u, x : hand[p] # <<u, x>>
  BY DEF Popped, Nothing
<1> TAKE u \in Target
<1> TAKE x \in Event
<1>4. CASE InHand(u, x)'
  <2>1. PICK q \in Pumper : hand'[q] = <<u, x>>
    BY <1>4 DEF InHand
  <2> QED
    BY <1>2, <2>1 DEF InHand
<1>5. CASE InHand(u, x)
  <2>1. PICK q \in Pumper : hand[q] = <<u, x>>
    BY <1>5 DEF InHand
  <2>2. hand'[q] = <<u, x>>
    BY <1>2, <1>3, <2>1
  <2> QED
    BY <1>5, <2>2 DEF InHand
<1>6. CASE u = t /\ x = m
  BY <1>2, <1>6 DEF InHand
<1> QED
  BY <1>4, <1>5, <1>6

LEMMA PopShape ==
  ASSUME Typed, NEW p \in Pumper, Pop(p)
  PROVE  \E t \in Target : \E m \in Event :
           /\ Popped(p, t, m)
           /\ \/ /\ stash[t] # <<>> /\ m = Head(stash[t]) /\ wire' = wire
                 /\ stash' = [stash EXCEPT ![t] = Tail(@)]
              \/ /\ wire[t] # <<>> /\ m = Head(wire[t]) /\ stash' = stash
                 /\ wire' = [wire EXCEPT ![t] = Tail(@)]
                 /\ "overtaken" \notin holes' => stash[t] = <<>>
<1>0. \A t \in Target : wire[t] \in Seq(Event) /\ stash[t] \in Seq(Event)
  BY DEF Typed, TypeOK
<1>1. /\ UNCHANGED <<halted, halts, suspended, awaiting, suspects, gone, pc, req>>
      /\ hand[p] = Nothing
  BY DEF Pop, told, asked
<1>2. \A t, x : <<t, x>> # Nothing /\ <<t, x>>[1] = t
  BY DEF Nothing
<1>3. ASSUME NEW t \in Target, NEW fromWire, Overtakes(p, t, fromWire) \subseteq holes',
             "overtaken" \notin holes', NEW x \in Event, InHand(t, x)
      PROVE  FALSE
  <2>1. PICK q \in Pumper : hand[q] = <<t, x>>
    BY <1>3 DEF InHand
  <2>2. q \in Pumper \ {p} /\ hand[q] # Nothing /\ hand[q][1] = t
    BY <1>1, <1>2, <2>1
  <2> QED
    BY <1>3, <2>2 DEF Overtakes
<1>4. ASSUME NEW t \in Target, stash[t] # <<>>,
             hand' = [hand EXCEPT ![p] = <<t, Head(stash[t])>>],
             Overtakes(p, t, FALSE) \subseteq holes'
      PROVE  Head(stash[t]) \in Event /\ Popped(p, t, Head(stash[t]))
  BY <1>0, <1>1, <1>3, <1>4, HeadTailProperties DEF Popped
<1>5. ASSUME NEW t \in Target, wire[t] # <<>>,
             hand' = [hand EXCEPT ![p] = <<t, Head(wire[t])>>],
             Overtakes(p, t, TRUE) \subseteq holes'
      PROVE  /\ Head(wire[t]) \in Event /\ Popped(p, t, Head(wire[t]))
             /\ "overtaken" \notin holes' => stash[t] = <<>>
  <2>1. Head(wire[t]) \in Event /\ Popped(p, t, Head(wire[t]))
    BY <1>0, <1>1, <1>3, <1>5, HeadTailProperties DEF Popped
  <2> QED
    BY <1>5, <2>1 DEF Overtakes
<1>6. PICK t \in Target \ gone :
        \/ /\ stash[t] # <<>>
           /\ hand' = [hand EXCEPT ![p] = <<t, Head(stash[t])>>]
           /\ stash' = [stash EXCEPT ![t] = Tail(@)]
           /\ Overtakes(p, t, FALSE) \subseteq holes'
           /\ wire' = wire
        \/ /\ wire[t] # <<>>
           /\ hand' = [hand EXCEPT ![p] = <<t, Head(wire[t])>>]
           /\ wire' = [wire EXCEPT ![t] = Tail(@)]
           /\ Overtakes(p, t, TRUE) \subseteq holes'
           /\ stash' = stash
  BY DEF Pop
<1> QED
  BY <1>4, <1>5, <1>6

(* The message popped is the first of all that are on their way from its   *)
(* target, unless it has overtaken one.                                    *)
LEMMA PopGood ==
  ASSUME Typed, NEW p \in Pumper, \A u \in Target : Good(u), holes \subseteq holes', Pop(p)
  PROVE  \A u \in Target : Good(u)'
<1>0. /\ wire \in [Target -> Seq(Event)] /\ stash \in [Target -> Seq(Event)]
      /\ \A u \in Target : wire[u] \in Seq(Event) /\ stash[u] \in Seq(Event)
  BY DEF Typed, TypeOK
<1>1. PICK t \in Target :
        \E m \in Event :
          /\ Popped(p, t, m)
          /\ \/ /\ stash[t] # <<>> /\ m = Head(stash[t]) /\ wire' = wire
                /\ stash' = [stash EXCEPT ![t] = Tail(@)]
             \/ /\ wire[t] # <<>> /\ m = Head(wire[t]) /\ stash' = stash
                /\ wire' = [wire EXCEPT ![t] = Tail(@)]
                /\ "overtaken" \notin holes' => stash[t] = <<>>
  BY PopShape
<1>2. PICK m \in Event :
        /\ Popped(p, t, m)
        /\ \/ /\ stash[t] # <<>> /\ m = Head(stash[t]) /\ wire' = wire
              /\ stash' = [stash EXCEPT ![t] = Tail(@)]
           \/ /\ wire[t] # <<>> /\ m = Head(wire[t]) /\ stash' = stash
              /\ wire' = [wire EXCEPT ![t] = Tail(@)]
              /\ "overtaken" \notin holes' => stash[t] = <<>>
  BY <1>1
<1>a. /\ UNCHANGED <<halted, halts, suspended, awaiting, suspects, gone>>
      /\ \A u \in Target : Booking(u)' <=> Booking(u)
  BY <1>2 DEF Popped, Booking, Tgt
<1>b. \A u \in Target : \A x \in Event : InHand(u, x)' <=> InHand(u, x) \/ (u = t /\ x = m)
  BY <1>2, HandsPopped
<1>3. ASSUME NEW u \in Target \ {t} PROVE Good(u)'
  <2>1. wire'[u] = wire[u] /\ stash'[u] = stash[u]
    BY <1>0, <1>2
  <2>2. Unmoved(u)
    BY <1>a, <1>b, <2>1 DEF Unmoved, Still
  <2> QED
    BY <2>2, Frame
<1>4. /\ Good(t) /\ halts[t] \in Number /\ Now(t)' = Now(t) /\ Now(t) = Stopped(halts[t])
      /\ Continued \in Event /\ Now(t) # Continued /\ \A n \in Number : Stopped(n) \in Event
      /\ "overtaken" \notin holes' => "overtaken" \notin holes /\ \A x \in Event : ~InHand(t, x)
  BY <1>2, <1>a, NowIsEvent, Apart DEF Now, Popped
<1>5. CASE wire' = wire /\ stash[t] # <<>> /\ m = Head(stash[t]) /\ stash'[t] = Tail(stash[t])
  <2>1. /\ \A x : Has(stash[t], x) <=> x = m \/ Has(stash[t], x)'
        /\ \A x : InOrder(stash[t], x) => /\ InOrder(stash[t], x)'
                                          /\ x = m => ~Has(stash[t], Continued)'
    BY <1>0, <1>5, HasPop
  <2>2. Numbered(t)'
    BY <1>4, <1>5, <1>a, <1>b, <2>1 DEF Good, Numbered
  <2>3. ASSUME t \notin halted, Real' PROVE Quiet(t)'
    <3>1. Quiet(t)
      BY <1>4, <2>3 DEF Good, Real
    <3> QED
      BY <1>4, <1>5, <1>a, <1>b, <2>1, <3>1 DEF Quiet
  <2>4. ASSUME t \in halted, "overtaken" \notin holes' PROVE Ordered(t)'
    <3>1. Ordered(t)
      BY <1>4, <2>4 DEF Good
    <3> QED
      BY <1>4, <1>5, <1>a, <1>b, <2>1, <2>4, <3>1 DEF Ordered, Clear
  <2>5. ASSUME t \in halted, Gapless' PROVE Traced(t)'
    <3>1. Traced(t)
      BY <1>4, <2>5 DEF Good, Gapless
    <3> QED
      BY <1>4, <1>5, <1>a, <1>b, <2>1, <3>1 DEF Traced
  <2>6. Good(t)'
    BY <1>a, <2>2, <2>3, <2>4, <2>5 DEF Good
  <2> QED
    BY <1>3, <2>6
<1>6. CASE /\ stash' = stash /\ wire[t] # <<>> /\ m = Head(wire[t]) /\ wire'[t] = Tail(wire[t])
           /\ "overtaken" \notin holes' => stash[t] = <<>>
  <2>1. /\ \A x : Has(wire[t], x) <=> x = m \/ Has(wire[t], x)'
        /\ \A x : InOrder(wire[t], x) => /\ InOrder(wire[t], x)'
                                         /\ x = m => ~Has(wire[t], Continued)'
        /\ "overtaken" \notin holes' => \A x : ~Has(stash[t], x)
    BY <1>0, <1>6, HasPop, HasNothing
  <2>2. Numbered(t)'
    BY <1>4, <1>6, <1>a, <1>b, <2>1 DEF Good, Numbered
  <2>3. ASSUME t \notin halted, Real' PROVE Quiet(t)'
    <3>1. Quiet(t)
      BY <1>4, <2>3 DEF Good, Real
    <3> QED
      BY <1>4, <1>6, <1>a, <1>b, <2>1, <3>1 DEF Quiet
  <2>4. ASSUME t \in halted, "overtaken" \notin holes' PROVE Ordered(t)'
    <3>1. Ordered(t)
      BY <1>4, <2>4 DEF Good
    <3> QED
      BY <1>4, <1>6, <1>a, <1>b, <2>1, <2>4, <3>1 DEF Ordered, Clear
  <2>5. ASSUME t \in halted, Gapless' PROVE Traced(t)'
    <3>1. Traced(t)
      BY <1>4, <2>5 DEF Good, Gapless
    <3> QED
      BY <1>4, <1>6, <1>a, <1>b, <2>1, <3>1 DEF Traced
  <2>6. Good(t)'
    BY <1>a, <2>2, <2>3, <2>4, <2>5 DEF Good
  <2> QED
    BY <1>3, <2>6
<1> QED
  BY <1>0, <1>2, <1>5, <1>6

(* A step of one pumper that parks a target.                               *)
LEMMA ParkShape ==
  ASSUME NEW p, NEW t, NEW otherwise, NEW cracks, ParkStop(p, t, otherwise, cracks)
  PROVE  /\ suspended' = suspended \cup {t} /\ cracks \subseteq holes'
         /\ \E label : pc' = [pc EXCEPT ![p] = label]
BY DEF ParkStop, Hit, Raise, Fail, Goto

(* Whoever dispatches has one message less in hand, and the last of its    *)
(* target if none has overtaken another.                                   *)
LEMMA HandsDispatched ==
  ASSUME Typed, OneHand, NEW p \in Pumper, NEW t \in Target, NEW m \in Event,
         hand[p] = <<t, m>>, hand' = [hand EXCEPT ![p] = Nothing]
  PROVE  /\ \A u \in Target : \A x \in Event :
              /\ InHand(u, x)' => InHand(u, x)
              /\ InHand(u, x) /\ (u # t \/ x # m) => InHand(u, x)'
         /\ "overtaken" \notin holes => \A x \in Event : ~InHand(t, x)'
<1>1. hand \in [Pumper -> {Nothing} \cup (Target \X Event)]
  BY DEF Typed, TypeOK
<1>2. hand'[p] = Nothing /\ \A q \in Pumper \ {p} : hand'[q] = hand[q]
  BY <1>1
<1>3. \A u, x : <<u, x>> # Nothing
  BY DEF Nothing
<1>4. ASSUME NEW u \in Target, NEW x \in Event, InHand(u, x)'
      PROVE  \E q \in Pumper \ {p} : hand[q] = <<u, x>>
  <2>1. PICK q \in Pumper : hand'[q] = <<u, x>>
    BY <1>4 DEF InHand
  <2>2. q # p
    BY <1>2, <1>3, <2>1
  <2> QED
    BY <1>2, <2>1, <2>2
<1>5. ASSUME NEW u \in Target, NEW x \in Event, InHand(u, x), u # t \/ x # m
      PROVE  InHand(u, x)'
  <2>1. PICK q \in Pumper : hand[q] = <<u, x>>
    BY <1>5 DEF InHand
  <2>2. q # p
    BY <1>5, <2>1
  <2>3. hand'[q] = <<u, x>>
    BY <1>2, <2>1, <2>2
  <2> QED
    BY <2>3 DEF InHand
<1>6. ASSUME NEW x \in Event, InHand(t, x)', "overtaken" \notin holes PROVE FALSE
  <2>1. PICK q \in Pumper \ {p} : hand[q] = <<t, x>>
    BY <1>4, <1>6
  <2> QED
    BY <1>6, <2>1 DEF OneHand
<1> QED
  BY <1>4, <1>5, <1>6 DEF InHand

(* What becomes of a message, by its kind.                                 *)
Ignored(t, m) ==
  /\ t \in gone \/ (IsStop(m) /\ t \in suspended) \/ (m = Continued /\ t \notin awaiting)
  /\ UNCHANGED <<wire, stash, suspended, awaiting, suspects, gone>>

HeldBack(t, m) ==
  /\ IsStop(m) /\ t \in awaiting
  /\ suspects' = [suspects EXCEPT ![t] = @ \cup {m[2]}]
  /\ UNCHANGED <<wire, stash, suspended, awaiting, gone>>

Parked(t, m) ==
  /\ IsStop(m) /\ t \notin awaiting \cup suspended \cup gone
  /\ suspended' = suspended \cup {t}
  /\ UNCHANGED <<wire, stash, awaiting, suspects, gone>>

Confirmed(t, m) ==
  /\ m = Continued /\ t \in awaiting
  /\ awaiting' = awaiting \ {t}
  /\ suspects' = [suspects EXCEPT ![t] = {}]
  /\ suspended' = suspended \/ (t \in halted /\ suspended' = suspended \cup {t})
  /\ UNCHANGED <<wire, stash, gone>>

Ended(t, m) ==
  /\ m = Exited
  /\ gone' = gone \cup {t} /\ suspended' = suspended \ {t}
  /\ stash' = [stash EXCEPT ![t] = <<>>]
  /\ wire' = [wire EXCEPT ![t] = <<>>]
  /\ UNCHANGED <<awaiting, suspects>>

LEMMA DispatchShape ==
  ASSUME Typed, NEW p \in Pumper, DispatchPumped(p)
  PROVE  /\ \E t \in Target : \E m \in Event :
              /\ hand[p] = <<t, m>>
              /\ \/ Ignored(t, m) \/ HeldBack(t, m) \/ Parked(t, m)
                 \/ Confirmed(t, m) \/ Ended(t, m)
         /\ hand' = [hand EXCEPT ![p] = Nothing]
         /\ UNCHANGED <<alive, halted, halts, req>>
         /\ pc[p] = "pump" /\ (pc' = pc \/ \E label : pc' = [pc EXCEPT ![p] = label])
<1>1. PICK t \in Target, m \in Target \cup Event : m \in Event /\ hand[p] = <<t, m>>
  BY DEF DispatchPumped, Typed, TypeOK
<1>2. hand[p][1] = t /\ hand[p][2] = m
  BY <1>1
<1>3. \/ t \in gone /\ NoPark /\ UNCHANGED <<awaiting, suspects, gone, stash, wire>>
      \/ t \notin gone /\ IsStop(m) /\ HandleStopped(p, t, m[2])
      \/ t \notin gone /\ m = Continued /\ HandleContinued(p, t)
      \/ t \notin gone /\ m = Exited /\ HandleExited(p, t)
  BY <1>2 DEF DispatchPumped
<1>4. /\ Ignored(t, m) \/ HeldBack(t, m) \/ Parked(t, m) \/ Confirmed(t, m) \/ Ended(t, m)
      /\ pc' = pc \/ \E label : pc' = [pc EXCEPT ![p] = label]
  <2>1. CASE t \in gone /\ NoPark /\ UNCHANGED <<awaiting, suspects, gone, stash, wire>>
    BY <2>1 DEF Ignored, NoPark
  <2>2. CASE t \notin gone /\ IsStop(m) /\ HandleStopped(p, t, m[2])
    BY <2>2, ParkShape DEF HandleStopped, NoteSuspect, NoPark, Ignored, HeldBack, Parked
  <2>3. CASE t \notin gone /\ m = Continued /\ HandleContinued(p, t)
    BY <2>3, ParkShape DEF HandleContinued, NoPark, Ignored, Confirmed
  <2>4. CASE t \notin gone /\ m = Exited /\ HandleExited(p, t)
    BY <2>4 DEF HandleExited, Ended, Raise, Fail, Goto
  <2> QED
    BY <1>3, <2>1, <2>2, <2>3, <2>4
<1>5. /\ hand' = [hand EXCEPT ![p] = Nothing] /\ pc[p] = "pump"
      /\ UNCHANGED <<alive, halted, halts, req>>
  BY DEF DispatchPumped, told, asked
<1> QED
  BY <1>1, <1>4, <1>5

LEMMA DispatchGood ==
  ASSUME Typed, OneHand, NEW p \in Pumper, \A u \in Target : Good(u), holes \subseteq holes',
         DispatchPumped(p)
  PROVE  \A u \in Target : Good(u)'
<1>0. /\ wire \in [Target -> Seq(Event)] /\ stash \in [Target -> Seq(Event)]
      /\ suspects \in [Target -> SUBSET Number] /\ pc \in [Pumper -> Sections]
      /\ Cli \subseteq Pumper /\ halted \subseteq alive /\ alive \cap gone = {}
  BY DEF Typed, TypeOK, Sections, Pumper, Number
<1>1. PICK t \in Target :
        \E m \in Event :
          /\ hand[p] = <<t, m>>
          /\ Ignored(t, m) \/ HeldBack(t, m) \/ Parked(t, m) \/ Confirmed(t, m) \/ Ended(t, m)
  BY DispatchShape
<1>2. PICK m \in Event :
        /\ hand[p] = <<t, m>>
        /\ Ignored(t, m) \/ HeldBack(t, m) \/ Parked(t, m) \/ Confirmed(t, m) \/ Ended(t, m)
  BY <1>1
<1>3. /\ hand' = [hand EXCEPT ![p] = Nothing] /\ pc[p] = "pump"
      /\ UNCHANGED <<alive, halted, halts, req>>
      /\ pc' = pc \/ \E label : pc' = [pc EXCEPT ![p] = label]
  BY DispatchShape
<1>a. \A u \in Target : Booking(u) => Booking(u)'
  <2>1. \A d \in Cli \ {p} : pc'[d] = pc[d] /\ req'[d] = req[d]
    BY <1>0, <1>3
  <2> QED
    BY <1>3, <2>1, BookingKept
<1>b. /\ \A u \in Target : \A x \in Event :
           /\ InHand(u, x)' => InHand(u, x)
           /\ InHand(u, x) /\ (u # t \/ x # m) => InHand(u, x)'
      /\ "overtaken" \notin holes => \A x \in Event : ~InHand(t, x)'
  BY <1>2, <1>3, HandsDispatched
<1>c. InHand(t, m)
  BY <1>2 DEF InHand
<1>4. ASSUME NEW u \in Target \ {t} PROVE Good(u)'
  <2>1. /\ wire'[u] = wire[u] /\ stash'[u] = stash[u] /\ suspects'[u] = suspects[u]
        /\ u \in suspended' <=> u \in suspended
        /\ u \in awaiting' <=> u \in awaiting
        /\ u \in gone' <=> u \in gone
    BY <1>0, <1>2 DEF Ignored, HeldBack, Parked, Confirmed, Ended
  <2>2. Unmoved(u)
    BY <1>3, <1>a, <1>b, <2>1 DEF Unmoved, Still
  <2> QED
    BY <2>2, Frame
<1>5. /\ Good(t) /\ halts[t] \in Number /\ Now(t)' = Now(t) /\ Now(t) = Stopped(halts[t])
      /\ Continued \in Event /\ Now(t) # Continued /\ Now(t) # Exited
      /\ \A n \in Number : Stopped(n) \in Event /\ Stopped(n)[2] = n
      /\ \A n \in Number : Stopped(n) # Continued
      /\ Now(t) \in Event /\ (IsStop(m) => m = Stopped(m[2]) /\ m[2] \in Number)
  BY <1>3, NowIsEvent, Apart DEF Now
<1>6. CASE Ignored(t, m)
  <2>1. UNCHANGED <<wire, stash, suspended, awaiting, suspects, gone>>
    BY <1>6 DEF Ignored
  <2>2. Numbered(t)'
    BY <1>3, <1>5, <1>b, <2>1 DEF Good, Numbered
  <2>3. ASSUME t \notin halted, Real' PROVE Quiet(t)'
    BY <1>5, <1>a, <1>b, <2>1, <2>3 DEF Good, Real, Quiet
  <2>4. ASSUME t \in halted, "overtaken" \notin holes' PROVE Ordered(t)'
    BY <1>3, <1>5, <1>b, <2>1, <2>4 DEF Good, Ordered, Clear
  <2>5. ASSUME t \in halted, Gapless' PROVE Traced(t)'
    <3>1. Traced(t)
      BY <1>5, <2>5 DEF Good, Gapless
    <3>2. t \in suspended \/ m = Continued
      BY <1>0, <1>6, <2>5 DEF Ignored
    <3> QED
      BY <1>3, <1>5, <1>b, <2>1, <3>1, <3>2 DEF Traced
  <2>6. Good(t)'
    BY <1>3, <2>2, <2>3, <2>4, <2>5 DEF Good
  <2> QED
    BY <1>4, <2>6
<1>7. CASE HeldBack(t, m)
  <2>1. /\ UNCHANGED <<wire, stash, suspended, awaiting, gone>>
        /\ suspects'[t] = suspects[t] \cup {m[2]} /\ t \in awaiting
        /\ m = Stopped(m[2]) /\ m[2] \in Number
    BY <1>0, <1>5, <1>7 DEF HeldBack
  <2>2. Numbered(t)'
    BY <1>3, <1>5, <1>b, <1>c, <2>1 DEF Good, Numbered
  <2>3. ASSUME t \notin halted, Real' PROVE Quiet(t)'
    BY <1>5, <1>a, <1>b, <2>1, <2>3 DEF Good, Real, Quiet
  <2>4. ASSUME t \in halted, "overtaken" \notin holes' PROVE Ordered(t)'
    <3>1. Ordered(t)
      BY <1>5, <2>4 DEF Good
    <3>2. halts[t] \in suspects'[t] => halts[t] \in suspects[t] \/ InHand(t, Now(t))
      BY <1>5, <1>c, <2>1
    <3> QED
      BY <1>3, <1>5, <1>b, <2>1, <3>1, <3>2 DEF Ordered, Clear
  <2>5. ASSUME t \in halted, Gapless' PROVE Traced(t)'
    <3>1. Traced(t)
      BY <1>5, <2>5 DEF Good, Gapless
    <3>2. m = Now(t) => halts[t] \in suspects'[t]
      BY <1>5, <2>1
    <3> QED
      BY <1>3, <1>5, <1>b, <2>1, <3>1, <3>2 DEF Traced
  <2>6. Good(t)'
    BY <1>3, <2>2, <2>3, <2>4, <2>5 DEF Good
  <2> QED
    BY <1>4, <2>6
<1>8. CASE Parked(t, m)
  <2>1. /\ UNCHANGED <<wire, stash, suspects, awaiting, gone>> /\ t \in suspended'
        /\ t \notin awaiting \cup suspended \cup gone
        /\ m = Stopped(m[2]) /\ m[2] \in Number
    BY <1>0, <1>5, <1>8 DEF Parked
  <2>2. Numbered(t)'
    BY <1>3, <1>5, <1>b, <2>1 DEF Good, Numbered
  <2>3. ASSUME t \notin halted, Real' PROVE FALSE
    <3>1. Quiet(t)
      BY <1>5, <2>3 DEF Good, Real
    <3>2. InHand(t, Stopped(m[2]))
      BY <1>c, <2>1
    <3> QED
      BY <2>1, <3>1, <3>2 DEF Quiet
  <2>4. ASSUME t \in halted, "overtaken" \notin holes' PROVE Ordered(t)'
    BY <1>3, <1>5, <1>b, <2>1, <2>4 DEF Good, Ordered, Clear
  <2>5. Traced(t)'
    BY <2>1 DEF Traced
  <2>6. Good(t)'
    BY <1>3, <2>2, <2>3, <2>4, <2>5 DEF Good
  <2> QED
    BY <1>4, <2>6
<1>9. CASE Confirmed(t, m)
  <2>1. /\ UNCHANGED <<wire, stash, gone>> /\ suspects'[t] = {} /\ m = Continued
        /\ t \in suspended' => t \in suspended \/ t \in halted
        /\ t \in suspended => t \in suspended'
    BY <1>0, <1>9 DEF Confirmed
  <2>2. Numbered(t)'
    BY <1>3, <1>5, <1>b, <2>1 DEF Good, Numbered
  <2>3. ASSUME t \notin halted, Real' PROVE Quiet(t)'
    BY <1>5, <1>a, <1>b, <2>1, <2>3 DEF Good, Real, Quiet
  <2>4. ASSUME t \in halted, "overtaken" \notin holes' PROVE Ordered(t)'
    BY <1>3, <1>5, <1>b, <2>1, <2>4 DEF Good, Ordered, Clear
  <2>5. ASSUME t \in halted, Gapless' PROVE Traced(t)'
    <3>1. Traced(t) /\ Ordered(t)
      BY <1>5, <2>5 DEF Good, Gapless
    <3>2. halts[t] \notin suspects[t]
      BY <1>c, <2>1, <3>1 DEF Ordered, Clear
    <3> QED
      BY <1>3, <1>5, <1>b, <2>1, <3>1, <3>2 DEF Traced
  <2>6. Good(t)'
    BY <1>3, <2>2, <2>3, <2>4, <2>5 DEF Good
  <2> QED
    BY <1>4, <2>6
<1>10. CASE Ended(t, m)
  <2>1. /\ UNCHANGED <<awaiting, suspects>> /\ wire'[t] = <<>> /\ stash'[t] = <<>>
        /\ t \in gone' /\ t \notin suspended' /\ m = Exited
    BY <1>0, <1>10 DEF Ended
  <2>2. t \notin halted
    BY <1>0, <1>2, <2>1 DEF Typed, ExitsAreReal
  <2>3. Numbered(t)'
    BY <1>3, <1>5, <1>b, <2>1, HasNothing DEF Good, Numbered
  <2>4. Quiet(t)'
    BY <2>1, HasNothing DEF Quiet
  <2>5. Good(t)'
    BY <1>3, <2>2, <2>3, <2>4 DEF Good
  <2> QED
    BY <1>4, <2>5
<1> QED
  BY <1>2, <1>6, <1>7, <1>8, <1>9, <1>10

-----------------------------------------------------------------------------
(* The ends of a resume episode that no barrier brings: probes and the     *)
(* deadline.  What was held of a target is dropped, or the target parked.  *)
Settled(u) ==
  /\ halts'[u] = halts[u] /\ wire'[u] = wire[u] /\ stash'[u] = stash[u]
  /\ \A m : InHand(u, m)' <=> InHand(u, m)
  /\ u \in suspended => u \in suspended'
  /\ u \in halted' <=> u \in halted
  /\ u \in gone' <=> u \in gone
  /\ Booking(u) => Booking(u)'
  /\ suspects'[u] \subseteq suspects[u]

LEMMA SettledGood ==
  ASSUME Typed, NEW u \in Target, Good(u), holes \subseteq holes', Settled(u),
         \/ u \in halted /\ u \in suspended'
         \/ /\ u \in suspended' <=> u \in suspended
            /\ u \in awaiting' <=> u \in awaiting
            /\ suspects'[u] = suspects[u] \/ u \notin halted \/ "unprobed" \in holes'
         \/ /\ u \in suspended' <=> u \in suspended
            /\ "stranded" \in holes' \/ (suspects[u] = {} /\ \A m \in Event : ~InHand(u, m))
  PROVE  Good(u)'
<1>1. /\ halts[u] \in Number /\ Now(u)' = Now(u) /\ Now(u) \in Event
      /\ \A n \in Number : Stopped(n) \in Event
  BY NowIsEvent, Apart DEF Settled, Now
<1>2. Numbered(u)'
  BY <1>1 DEF Good, Numbered, Settled
<1>3. ASSUME u \notin halted, Real' PROVE Quiet(u)'
  <2>1. Quiet(u)
    BY <1>3 DEF Good, Real
  <2> QED
    BY <1>1, <1>3, <2>1 DEF Quiet, Settled, Real
<1>4. ASSUME u \in halted, "overtaken" \notin holes' PROVE Ordered(u)'
  BY <1>1, <1>4 DEF Good, Ordered, Clear, Settled
<1>5. ASSUME u \in halted, Gapless' PROVE Traced(u)'
  <2>1. Traced(u)
    BY <1>5 DEF Good, Gapless
  <2> QED
    BY <1>1, <1>5, <2>1 DEF Traced, Settled, Gapless
<1>6. u \in halted' <=> u \in halted
  BY DEF Settled
<1> QED
  BY <1>2, <1>3, <1>4, <1>5, <1>6 DEF Good

LEMMA ProbeGood ==
  ASSUME Typed, NEW c \in Cli, pc[c] = "pump", NEW otherwise, \A u \in Target : Good(u),
         holes \subseteq holes', ProbeAllSuspects(c, otherwise)
  PROVE  \A u \in Target : Good(u)'
<1>0. /\ pc \in [Pumper -> Sections] /\ Cli \subseteq Pumper /\ suspended \subseteq Target
      /\ suspects \in [Target -> SUBSET Number]
  BY DEF Typed, TypeOK, Sections, Pumper, Number
<1>a. UNCHANGED <<wire, stash, halted, halts, gone, req, hand>>
  BY DEF ProbeAllSuspects, adapter, told, asked
<1>1. \/ \E t \in Held \cap halted : \E dropped \in SUBSET (Held \ {t}) :
           /\ suspects' = [u \in Target |-> IF u \in dropped \cup {t} THEN {} ELSE suspects[u]]
           /\ awaiting' = awaiting \ {t}
           /\ suspended' = suspended \cup {t}
           /\ dropped \cap halted # {} => "unprobed" \in holes'
           /\ \E label : pc' = [pc EXCEPT ![c] = label]
      \/ /\ suspects' = [u \in Target |-> IF u \in Held THEN {} ELSE suspects[u]]
         /\ Held \cap halted # {} => "unprobed" \in holes'
         /\ UNCHANGED <<awaiting, suspended>>
         /\ \E label : pc' = [pc EXCEPT ![c] = label]
  <2>1. CASE \E t \in Held \cap halted : \E dropped \in SUBSET (Held \ {t}) :
               /\ suspects' = [u \in Target |-> IF u \in dropped \cup {t} THEN {} ELSE suspects[u]]
               /\ awaiting' = awaiting \ {t}
               /\ ParkStop(c, t, otherwise, IF dropped \cap halted # {} THEN {"unprobed"} ELSE {})
    <3>1. PICK t \in Held \cap halted, dropped \in SUBSET Held :
            /\ dropped \in SUBSET (Held \ {t})
            /\ suspects' = [u \in Target |-> IF u \in dropped \cup {t} THEN {} ELSE suspects[u]]
            /\ awaiting' = awaiting \ {t}
            /\ ParkStop(c, t, otherwise, IF dropped \cap halted # {} THEN {"unprobed"} ELSE {})
      BY <2>1
    <3>2. /\ suspended' = suspended \cup {t}
          /\ dropped \cap halted # {} => "unprobed" \in holes'
          /\ \E label : pc' = [pc EXCEPT ![c] = label]
      BY <3>1, ParkShape
    <3> QED
      BY <3>1, <3>2
  <2>2. CASE /\ suspects' = [u \in Target |-> IF u \in Held THEN {} ELSE suspects[u]]
             /\ holes' = holes \cup IF Held \cap halted # {} THEN {"unprobed"} ELSE {}
             /\ Goto(c, otherwise)
             /\ UNCHANGED <<awaiting, suspended, clock, got, result>>
    BY <2>2 DEF Goto
  <2> QED
    BY <2>1, <2>2 DEF ProbeAllSuspects
<1>2. \A u \in Target : Booking(u) => Booking(u)'
  <2>1. \A d \in Cli \ {c} : pc'[d] = pc[d]
    BY <1>0, <1>1
  <2> QED
    BY <1>0, <1>a, <2>1, BookingKept
<1>3. ASSUME NEW u \in Target PROVE Settled(u)
  <2>1. suspended \subseteq suspended' /\ suspects'[u] \subseteq suspects[u]
    BY <1>0, <1>1
  <2> QED
    BY <1>a, <1>2, <2>1, HandsSame DEF Settled
<1>4. ASSUME NEW u \in Target
      PROVE  \/ u \in halted /\ u \in suspended'
             \/ /\ u \in suspended' <=> u \in suspended
                /\ u \in awaiting' <=> u \in awaiting
                /\ suspects'[u] = suspects[u] \/ u \notin halted \/ "unprobed" \in holes'
  BY <1>0, <1>1
<1> QED
  BY <1>3, <1>4, SettledGood

LEMMA CloseGood ==
  ASSUME Typed, NEW c \in Cli, \A u \in Target : Good(u), holes \subseteq holes',
         CloseSuspectEpisodes(c)
  PROVE  \A u \in Target : Good(u)'
<1>0. pc \in [Pumper -> Sections] /\ Cli \subseteq Pumper /\ c \in Pumper /\ pc[c] = "close"
  BY DEF Typed, TypeOK, Sections, Pumper, CloseSuspectEpisodes
<1>a. UNCHANGED <<wire, stash, halted, halts, suspended, suspects, gone, req, hand>>
  BY DEF CloseSuspectEpisodes, adapter, told, asked
<1>1. PICK closing : /\ closing = awaiting \ (suspended \cup gone)
                     /\ awaiting' = awaiting \ closing
                     /\ Stranded(closing) \subseteq holes'
                     /\ pc' = [pc EXCEPT ![c] = "final"]
  BY DEF CloseSuspectEpisodes, Goto
<1>2. \A u \in Target : Booking(u) => Booking(u)'
  <2>1. \A d \in Cli \ {c} : pc'[d] = pc[d]
    BY <1>0, <1>1
  <2> QED
    BY <1>0, <1>a, <2>1, BookingKept
<1>3. \A u \in Target : Settled(u)
  BY <1>a, <1>2, HandsSame DEF Settled
<1>4. ASSUME NEW u \in closing
      PROVE  "stranded" \in holes' \/ (suspects[u] = {} /\ \A m \in Event : ~InHand(u, m))
  <2>1. CASE "stranded" \in Stranded(closing)
    BY <1>1, <2>1
  <2>2. CASE "stranded" \notin Stranded(closing)
    BY <2>2, NothingStranded
  <2> QED
    BY <2>1, <2>2
<1>5. ASSUME NEW u \in Target PROVE Good(u)'
  <2>1. CASE u \in closing
    BY <1>a, <1>3, <1>4, <2>1, SettledGood
  <2>2. CASE u \notin closing
    <3>1. u \in awaiting' <=> u \in awaiting
      BY <1>1, <2>2
    <3> QED
      BY <1>a, <1>3, <3>1, SettledGood
  <2> QED
    BY <2>1, <2>2
<1> QED
  BY <1>5

(* The steps in which no message moves and nothing becomes known of a      *)
(* target.                                                                 *)
LEMMA AsideGood ==
  ASSUME Typed, \A u \in Target : Good(u), holes \subseteq holes',
         UNCHANGED <<wire, stash, halted, halts, suspended, awaiting, suspects, gone, hand>>,
         \A d \in Cli : pc[d] = "begin" => pc'[d] = pc[d] /\ req'[d] = req[d]
  PROVE  \A u \in Target : Good(u)'
<1>1. \A u \in Target : Booking(u) => Booking(u)'
  BY DEF Booking, Tgt
<1>2. \A u \in Target : Unmoved(u)
  BY <1>1, HandsSame DEF Unmoved, Still
<1> QED
  BY <1>2, Frame

LEMMA SectionAside ==
  ASSUME Typed, NEW c \in Cli,
         Submit(c) \/ Accept(c) \/ Look(c) \/ Baseline(c) \/ Handoff(c) \/ LastLook(c)
         \/ LostAll(c) \/ Serve(c) \/ Release(c)
  PROVE  /\ UNCHANGED <<wire, stash, halted, halts, suspended, awaiting, suspects, gone, hand>>
         /\ \A d \in Cli : pc[d] = "begin" => pc'[d] = pc[d] /\ req'[d] = req[d]
<1>0. pc \in [Pumper -> Sections] /\ req \in [Cli -> Request \cup {NoReq}] /\ Cli \subseteq Pumper
  BY DEF Typed, TypeOK, Sections, Pumper
<1>1. UNCHANGED <<wire, stash, halted, halts, suspended, awaiting, suspects, gone, hand>>
  BY DEF Submit, Accept, Look, Baseline, Handoff, LastLook, LostAll, Serve, Release,
         adapter, bridge, told
<1>2. pc[c] # "begin"
  BY DEF Submit, Accept, Look, Baseline, Handoff, LastLook, LostAll, Serve, Release
<1>3. \E label : pc' = [pc EXCEPT ![c] = label]
  BY DEF Submit, Accept, Look, Baseline, Handoff, LastLook, LostAll, Serve, Release,
         Fail, Succeed, Goto, TakeHandoff, Forget
<1>4. req' = req \/ \E r : req' = [req EXCEPT ![c] = r]
  BY DEF Submit, Accept, Look, Baseline, Handoff, LastLook, LostAll, Serve, Release,
         Forget, asked
<1> QED
  BY <1>0, <1>1, <1>2, <1>3, <1>4

-----------------------------------------------------------------------------
LEMMA OneHandStep ==
  ASSUME Typed, OneHand, [Next]_vars
  PROVE  OneHand'
<1>0. holes \subseteq holes'
  BY Cracking
<1>1. CASE hand' = hand
  BY <1>0, <1>1 DEF OneHand
<1>2. ASSUME NEW p \in Pumper, Pop(p) PROVE OneHand'
  <2>1. PICK t \in Target : \E m \in Event : Popped(p, t, m)
    BY <1>2, PopShape
  <2>2. PICK m \in Event : Popped(p, t, m)
    BY <2>1
  <2>3. hand'[p] = <<t, m>> /\ \A q \in Pumper \ {p} : hand'[q] = hand[q]
    BY <2>2 DEF Popped, Typed, TypeOK
  <2> SUFFICES ASSUME "overtaken" \notin holes', NEW q \in Pumper, NEW r \in Pumper,
                      NEW u \in Target, NEW x \in Event, NEW y \in Event,
                      hand'[q] = <<u, x>>, hand'[r] = <<u, y>>, q # r
               PROVE  FALSE
    BY DEF OneHand
  <2>4. \A z \in Event : \A s \in Pumper : hand[s] # <<t, z>>
    BY <2>2 DEF Popped, InHand
  <2>5. CASE q # p /\ r # p
    BY <1>0, <2>3, <2>5 DEF OneHand
  <2>6. CASE q = p
    BY <2>3, <2>4, <2>6
  <2>7. CASE r = p
    BY <2>3, <2>4, <2>7
  <2> QED
    BY <2>5, <2>6, <2>7
<1>3. ASSUME NEW p \in Pumper, DispatchPumped(p) PROVE OneHand'
  <2>1. hand' = [hand EXCEPT ![p] = Nothing]
    BY <1>3 DEF DispatchPumped
  <2>2. hand'[p] = Nothing /\ \A q \in Pumper \ {p} : hand'[q] = hand[q]
    BY <2>1 DEF Typed, TypeOK
  <2>3. \A q \in Pumper : \A u \in Target : \A x \in Event :
          hand'[q] = <<u, x>> => hand[q] = <<u, x>>
    BY <2>2 DEF Nothing
  <2> QED
    BY <1>0, <2>3 DEF OneHand
<1>4. ASSUME NEW c \in Cli, Submit(c) \/ Handler(c) PROVE hand' = hand
  BY <1>4 DEF Submit, Handler, Accept, Look, Baseline, IssueResume, BeginResume, Handoff, IdleTick,
              Deadline, ProbeAllSuspects, CloseSuspectEpisodes, LastLook, LostAll, Serve,
              CaptureResume, Release
<1>5. CASE \/ IdlePump \/ IdleEnd \/ UNCHANGED vars
           \/ \E t \in Target : Halt(t) \/ CoStop(t) \/ Exit(t) \/ LiveRead(t)
  <2>1. hand' = hand
    BY <1>5 DEF IdlePump, IdleEnd, vars, Halt, CoStop, Exit, LiveRead, AdapterStep
  <2> QED
    BY <1>1, <2>1
<1> QED
  BY <1>1, <1>2, <1>3, <1>4, <1>5 DEF Next, Pump

LEMMA GoodStep ==
  ASSUME Typed, StopInv, [Next]_vars
  PROVE  \A u \in Target : Good(u)'
<1>0. holes \subseteq holes' /\ OneHand /\ \A u \in Target : Good(u)
  BY Cracking DEF StopInv
<1>1. ASSUME NEW c \in Cli, Submit(c) \/ Handler(c) PROVE \A u \in Target : Good(u)'
  <2>1. CASE Submit(c) \/ Accept(c) \/ Look(c) \/ Baseline(c) \/ Handoff(c) \/ LastLook(c)
             \/ LostAll(c) \/ Serve(c) \/ Release(c)
    BY <1>0, <2>1, SectionAside, AsideGood
  <2>2. CASE IssueResume(c)
    BY <1>0, <2>2, IssueGood
  <2>3. CASE BeginResume(c)
    BY <1>0, <2>3, BeginGood
  <2>4. CASE CaptureResume(c)
    BY <1>0, <2>4, CaptureGood
  <2>5. CASE IdleTick(c) \/ Deadline(c)
    <3>1. pc[c] = "pump" /\ \E otherwise : ProbeAllSuspects(c, otherwise)
      BY <2>5 DEF IdleTick, Deadline
    <3> QED
      BY <1>0, <3>1, ProbeGood
  <2>6. CASE CloseSuspectEpisodes(c)
    BY <1>0, <2>6, CloseGood
  <2> QED
    BY <1>1, <2>1, <2>2, <2>3, <2>4, <2>5, <2>6 DEF Handler
<1>2. ASSUME NEW p \in Pumper, Pump(p) PROVE \A u \in Target : Good(u)'
  BY <1>0, <1>2, PopGood, DispatchGood DEF Pump
<1>3. CASE IdlePump \/ IdleEnd \/ UNCHANGED vars
  <2>1. /\ UNCHANGED <<wire, stash, halted, halts, suspended, awaiting, suspects, gone, hand>>
        /\ req' = req
    BY <1>3 DEF IdlePump, IdleEnd, vars, adapter, bridge, told, asked
  <2>2. \A d \in Cli : pc'[d] = pc[d]
    BY <1>3, StopPumpAssumption DEF IdlePump, IdleEnd, vars, Goto, Typed, TypeOK, Pumper
  <2> QED
    BY <1>0, <2>1, <2>2, AsideGood
<1>4. ASSUME NEW t \in Target, Halt(t) \/ CoStop(t) \/ Exit(t) PROVE \A u \in Target : Good(u)'
  BY <1>0, <1>4, SendGood
<1>5. ASSUME NEW t \in Target, LiveRead(t) PROVE \A u \in Target : Good(u)'
  <2>1. /\ AdapterRefuses(t)
        /\ UNCHANGED <<halts, suspended, awaiting, suspects, gone, pc, req, hand>>
    BY <1>5 DEF LiveRead, told, asked
  <2>2. \A u \in Target : Still(u)
    BY <2>1, HandsSame DEF Still, Booking, Tgt
  <2> QED
    BY <1>0, <2>1, <2>2, RefusesGood
<1> QED
  BY <1>1, <1>2, <1>3, <1>4, <1>5 DEF Next

LEMMA StopInit == Init => StopInv
<1> SUFFICES ASSUME Init PROVE StopInv
  OBVIOUS
<1>1. /\ hand = [p \in Pumper |-> Nothing] /\ halts = [t \in Target |-> 0]
      /\ wire = [t \in Target |-> <<>>] /\ stash = [t \in Target |-> <<>>]
      /\ suspects = [t \in Target |-> {}] /\ suspended = halted
  BY DEF Init
<1>2. \A t, m : ~InHand(t, m)
  BY <1>1 DEF InHand, Nothing
<1>3. OneHand
  BY <1>1 DEF OneHand, Nothing
<1>4. ASSUME NEW t \in Target PROVE Good(t)
  <2>1. Numbered(t)
    BY <1>1, <1>2, HasNothing DEF Numbered
  <2>2. t \notin halted => Quiet(t)
    BY <1>1, <1>2, HasNothing DEF Quiet
  <2>3. Ordered(t)
    BY <1>1, <1>2, HasNothing DEF Ordered
  <2>4. t \in halted => Traced(t)
    BY <1>1 DEF Traced
  <2> QED
    BY <2>1, <2>2, <2>3, <2>4 DEF Good
<1> QED
  BY <1>3, <1>4 DEF StopInv

LEMMA StopsKept == Spec => [](Typed /\ StopInv)
<1>1. Init => Typed /\ StopInv
  BY InitTyped, StopInit
<1>2. Typed /\ StopInv /\ [Next]_vars => (Typed /\ StopInv)'
  <2> SUFFICES ASSUME Typed, StopInv, [Next]_vars PROVE Typed' /\ StopInv'
    OBVIOUS
  <2>1. Typed'
    BY TypeStep
  <2>2. OneHand'
    BY OneHandStep DEF StopInv
  <2>3. \A t \in Target : Good(t)'
    BY GoodStep
  <2> QED
    BY <2>1, <2>2, <2>3 DEF StopInv
<1> QED
  BY <1>1, <1>2, PTL DEF Spec

(* No halt is forgotten: while no crack has let one through, a halted      *)
(* target is parked, or the stop of its last halt is on its connection, in *)
(* the stash or in somebody's hand, or is held until its resume is         *)
(* confirmed.                                                              *)
THEOREM StopsAreKept == Spec => []NoStopIsLost
<1>1. Typed /\ StopInv => NoStopIsLost
  <2> SUFFICES ASSUME Typed, StopInv, Gapless, NEW t \in halted
               PROVE  \/ t \in suspended
                      \/ InFlight(t, Stopped(halts[t]), stash[t])
                      \/ t \in awaiting /\ halts[t] \in suspects[t]
    BY DEF NoStopIsLost, Gapless
  <2>1. t \in Target
    BY DEF Typed, TypeOK
  <2>2. Traced(t)
    BY <2>1 DEF StopInv, Good
  <2> QED
    BY <2>2, Flight DEF Traced, Now
<1> QED
  BY <1>1, StopsKept, PTL

(* No running target is published as parked: while no crack has let a      *)
(* stale stop through, a target that the bridge takes for parked is        *)
(* halted, but for the moment between its resume and the bookkeeping.      *)
THEOREM ParksStayReal == Spec => []ParksAreReal
<1>1. Typed /\ StopInv => ParksAreReal
  <2> SUFFICES ASSUME Typed, StopInv, Real, NEW t \in suspended, t \notin halted
               PROVE  \E c \in Cli : pc[c] = "begin" /\ Tgt(c) = t
    BY DEF ParksAreReal, Real
  <2>1. t \in Target
    BY DEF Typed, TypeOK
  <2>2. Quiet(t)
    BY <2>1 DEF StopInv, Good
  <2> QED
    BY <2>2 DEF Quiet, Booking
<1> QED
  BY <1>1, StopsKept, PTL

=============================================================================
