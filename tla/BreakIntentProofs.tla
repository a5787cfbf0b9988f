------------------------- MODULE BreakIntentProofs -------------------------
(***************************************************************************)
(* That the adapters carry the breakpoints the bridge records, that every  *)
(* live child carries the intent, and that stops.json follows it: for any  *)
(* number of CLI processes, children, files and breaks, until one of the   *)
(* named cracks has opened.                                                *)
(***************************************************************************)
EXTENDS BreakIntent, TLAPS

(* Where a request is: a capture on its way, a mutation that is persisted. *)
Capturing  == {"plant", "send", "wait", "unplant"}
Persisting == {"lock", "read", "write"}

(* What the sections of a handler know of its request: a token is that of  *)
(* the capture's own break, and no request has reported success before its *)
(* end.                                                                    *)
Asked(c) ==
  /\ pc[c] # "idle" => req[c] \in Request
  /\ pc[c] \in Capturing => Op(c) = "capture"
  /\ pc[c] \in Persisting => Op(c) # "capture" /\ Tgt(c) = Main
  /\ pc[c] # "done" => result[c] \in {"none", "error"}
  /\ token[c] # NoToken =>
       /\ pc[c] \in {"wait", "unplant", "done"}
       /\ token[c] = <<Tgt(c), KeyOf(c)>>

Typed == TypeOK /\ \A c \in Cli : Asked(c)

(* An adapter session has the breaks on record for its target, and at most *)
(* those of captures besides.                                              *)
Matches(t) ==
  /\ Recorded(t) \subseteq planted[t]
  /\ planted[t] \subseteq Recorded(t) \cup Ephemeral(t)

(* While no crack is open, all that is reachable matches, and whoever is    *)
(* armed at the moment is armed with the intent as it is.                  *)
BreaksInv ==
  /\ \A x \in Child : child[x] \in {"unborn", "arming"} => own[x] = {}
  /\ Drift = {} =>
       /\ \A t \in Target : Reachable(t) => Matches(t)
       /\ \A x \in Live : copies[x] = intent
       /\ \A x \in Child : child[x] = "arming" => snap[x] = intent

(* The keys that some request has yet to add to stops.json, or to remove.  *)
Adding(k)   == \E c \in Cli : pc[c] \in Persisting /\ Op(c) = "add" /\ k \in confirmed[c]
Dropping(k) == \E c \in Cli : pc[c] \in Persisting /\ Op(c) # "add" /\ k \in confirmed[c]

(* The lock is held from the read to the write, and what was read is what   *)
(* is in the file.  Updates on their way never speak of the same break:     *)
(* those of one kind because the second would have found nothing to do, an  *)
(* addition and a removal unless they crossed.                              *)
FileInv ==
  /\ \A c \in Cli : flock = c <=> pc[c] \in {"read", "write"}
  /\ \A c \in Cli : pc[c] = "write" => read[c] = file
  /\ holes \cap {"crossed", "unpersisted"} = {} =>
       /\ \A k \in Key : k \in file <=> (k \in intent /\ ~Adding(k)) \/ Dropping(k)
       /\ \A k \in Key : Adding(k) => k \in intent
       /\ \A k \in Key : Dropping(k) => k \notin intent
       /\ \A c, d \in Cli :
            /\ c # d /\ pc[c] \in Persisting /\ pc[d] \in Persisting
            /\ Op(c) = "add" <=> Op(d) = "add"
            => confirmed[c] \cap confirmed[d] = {}

-----------------------------------------------------------------------------
LEMMA RequestParts ==
  ASSUME NEW r \in Request
  PROVE  /\ r.op \in {"add", "remove", "clear", "capture"}
         /\ r.target \in Target
         /\ r.keys \subseteq Key
         /\ r.op = "capture" => \E k \in Key : r.keys = {k}
BY DEF Request, Batch, Single

LEMMA CaptureKey ==
  ASSUME NEW c \in Cli, req[c] \in Request, Op(c) = "capture"
  PROVE  KeyOf(c) \in Key
<1>1. \E k \in Key : req[c].keys = {k}
  BY RequestParts DEF Op
<1> QED
  BY <1>1 DEF KeyOf

LEMMA InitTyped == Init => Typed
<1> SUFFICES ASSUME Init PROVE Typed
  OBVIOUS
<1>1. TypeOK
  BY BreakIntentAssumption DEF Init, TypeOK, Target
<1>2. \A c \in Cli : Asked(c)
  BY DEF Init, Asked, Capturing, Persisting
<1> QED
  BY <1>1, <1>2 DEF Typed

Cracks == {"late", "behind", "raced", "shared", "stale", "misrouted", "crossed",
           "unpersisted"}

(* setBreakpoints leaves breaks of the model only.                         *)
LEMMA ResentTyped ==
  ASSUME NEW has \in SUBSET Key, NEW sent \in SUBSET Key, NEW files
  PROVE  Resent(has, sent, files) \subseteq Key
BY DEF Resent

(* How a mutation ends, whatever it confirmed.                             *)
Settled(c) ==
  /\ confirmed' \in [Cli -> SUBSET Key]
  /\ \A d \in Cli \ {c} : confirmed'[d] = confirmed[d]
  /\ file' = file /\ flock' = flock
  /\ holes \subseteq holes' /\ holes' \subseteq Cracks
  /\ result' \in [Cli -> {"none", "ok", "error"}]
  /\ \A d \in Cli \ {c} : result'[d] = result[d]
  /\ \/ pc' = [pc EXCEPT ![c] = "done"]
     \/ pc' = [pc EXCEPT ![c] = "lock"] /\ Tgt(c) = Main /\ result' = result

LEMMA Responding ==
  ASSUME Typed, NEW c \in Cli, pc[c] = "run", NEW keys \in SUBSET Key,
         NEW more \in SUBSET Cracks, NEW faults \in SUBSET Cracks,
         \/ Answer(c, keys, more, faults) \/ Respond(c, keys, more) \/ Refuse(c)
  PROVE  Settled(c)
<1>1. /\ confirmed \in [Cli -> SUBSET Key] /\ holes \subseteq Cracks
      /\ result \in [Cli -> {"none", "ok", "error"}]
      /\ pc \in [Cli -> {"idle", "accept", "run", "plant", "send", "wait", "unplant",
                          "lock", "read", "write", "done"}]
  BY DEF Typed, TypeOK, Cracks
<1>2. ASSUME NEW k \in SUBSET Key, NEW m \in SUBSET Cracks, Respond(c, k, m)
      PROVE  Settled(c)
  <2>1. Crossed(c, k) \subseteq Cracks
    BY DEF Crossed, Cracks
  <2>2. CASE result[c] = "none"
    <3>1. /\ confirmed' = [confirmed EXCEPT ![c] = k]
          /\ holes' = holes \cup m \cup Crossed(c, k)
          /\ file' = file /\ flock' = flock
      BY <1>2, <2>2 DEF Respond, ToPersist
    <3>2. \/ pc' = [pc EXCEPT ![c] = "lock"] /\ Tgt(c) = Main /\ result' = result
          \/ pc' = [pc EXCEPT ![c] = "done"] /\ result' = [result EXCEPT ![c] = "ok"]
      BY <1>2, <2>2 DEF Respond, Goto, Report
    <3> QED
      BY <1>1, <2>1, <3>1, <3>2 DEF Settled
  <2>3. CASE result[c] # "none"
    <3>1. /\ holes' = holes \cup m \/ holes' = holes \cup m \cup {"unpersisted"}
          /\ pc' = [pc EXCEPT ![c] = "done"]
          /\ result' = result /\ confirmed' = confirmed
          /\ file' = file /\ flock' = flock
      BY <1>2, <2>3 DEF Respond, Goto, persist
    <3> QED
      BY <1>1, <3>1 DEF Settled, Cracks
  <2> QED
    BY <2>2, <2>3
<1>3. CASE (Answer(c, keys, more, faults) /\ keys = {}) \/ Refuse(c)
  <2>1. /\ result' = [result EXCEPT ![c] = IF @ = "none" THEN "error" ELSE @]
        /\ pc' = [pc EXCEPT ![c] = "done"]
        /\ holes' = holes \cup faults \/ holes' = holes
        /\ UNCHANGED <<confirmed, file, flock>>
    BY <1>3 DEF Answer, Refuse, Fail, Report, Goto, persist
  <2> QED
    BY <1>1, <2>1 DEF Settled
<1> QED
  BY <1>2, <1>3 DEF Answer

(* A step of one request leaves what the others know alone.                *)
Alone(c) ==
  \A d \in Cli \ {c} : /\ pc'[d] = pc[d] /\ req'[d] = req[d]
                       /\ result'[d] = result[d] /\ token'[d] = token[d]

LEMMA AskedAlone ==
  ASSUME Typed, NEW c \in Cli, TypeOK', Alone(c), Asked(c)'
  PROVE  Typed'
<1>1. ASSUME NEW d \in Cli \ {c} PROVE Asked(d)'
  BY <1>1 DEF Alone, Typed, Asked, Op, Tgt, KeyOf
<1> QED
  BY <1>1 DEF Typed

LEMMA AskedRoster ==
  ASSUME Typed, TypeOK', UNCHANGED <<pc, req, result, token>>
  PROVE  Typed'
<1>1. ASSUME NEW d \in Cli PROVE Asked(d)'
  BY <1>1 DEF Typed, Asked, Op, Tgt, KeyOf
<1> QED
  BY <1>1 DEF Typed

BreaksTyped ==
  /\ intent \in {keys \in SUBSET Key : NoClash(keys)}
  /\ copies \in [Child -> SUBSET Key]
  /\ own \in [Child -> SUBSET Key]
  /\ planted \in [Target -> SUBSET Key]

LEMMA SettledTyped ==
  ASSUME Typed, NEW c \in Cli, pc[c] = "run", Op(c) # "capture", Settled(c),
         BreaksTyped', UNCHANGED <<roster, outstanding, req, token, read>>
  PROVE  Typed'
<1>1. TypeOK'
  BY DEF Typed, TypeOK, BreaksTyped, Settled, roster, Cracks
<1>2. Alone(c)
  BY DEF Settled, Alone, Typed, TypeOK
<1>3. Asked(c)'
  BY DEF Typed, TypeOK, Asked, Settled, Op, Tgt, Persisting, Capturing
<1> QED
  BY <1>1, <1>2, <1>3, AskedAlone

LEMMA OutcomeParts ==
  ASSUME NEW touched, NEW o \in Outcomes(touched), NEW t \in Target
  PROVE  /\ o[t].ok \subseteq touched[t] /\ o[t].late \subseteq touched[t] \ o[t].ok
         /\ o[t].late # {} => "late" \in Late(o)
         /\ t \in Child /\ o[t].ok # touched[t] => "behind" \in Behind(o, touched)
BY DEF Outcomes, Late, Behind

LEMMA CracksNamed ==
  /\ \A o : Late(o) \subseteq Cracks
  /\ \A o, touched : Behind(o, touched) \subseteq Cracks
  /\ Raced \subseteq Cracks
  /\ \A clear, gone : CopiesLost(clear, gone) \subseteq Cracks
  /\ \A x, drop : Shared(x, drop) \subseteq Cracks
BY DEF Late, Behind, Raced, CopiesLost, Shared, Cracks

(* A file that is sent as it will be on record puts a target in step.      *)
Rewritten(t) ==
  \E sent, files :
    /\ planted'[t] = Resent(planted[t], sent, files)
    /\ \A k \in Key : k \in Recorded(t)' <=> IF FileOf(k) \in files THEN k \in sent
                                                                  ELSE k \in Recorded(t)

LEMMA RewrittenMatches ==
  ASSUME Typed, Typed', NEW t \in Target, Matches(t), Rewritten(t),
         Ephemeral(t) \subseteq Ephemeral(t)'
  PROVE  Matches(t)'
<1>1. PICK sent, files :
        /\ planted'[t] = Resent(planted[t], sent, files)
        /\ \A k \in Key : k \in Recorded(t)' <=> IF FileOf(k) \in files THEN k \in sent
                                                                  ELSE k \in Recorded(t)
  BY DEF Rewritten
<1>2. /\ Recorded(t) \subseteq Key /\ planted[t] \subseteq Key
      /\ Recorded(t)' \subseteq Key /\ planted'[t] \subseteq Key
  BY DEF Recorded, Typed, TypeOK, Target
<1> HIDE DEF Recorded
<1>3. Recorded(t)' \subseteq planted'[t]
  BY <1>1, <1>2 DEF Resent, Matches
<1>4. planted'[t] \subseteq Recorded(t)' \cup Ephemeral(t)'
  BY <1>1, <1>2 DEF Resent, Matches
<1> QED
  BY <1>3, <1>4 DEF Matches

LEMMA EphemeralKept ==
  ASSUME Typed, NEW c \in Cli, NEW t \in Target, Alone(c), token' = token,
         token[c] = NoToken
  PROVE  Ephemeral(t)' = Ephemeral(t)
BY DEF Ephemeral, Alone

LEMMA NoTokenYet ==
  ASSUME Typed, NEW c \in Cli, pc[c] \notin {"wait", "unplant", "done"}
  PROVE  token[c] = NoToken
BY DEF Typed, Asked

LEMMA SettledBreaks ==
  ASSUME Typed, Typed', NEW c \in Cli, pc[c] = "run", Settled(c), BreaksInv,
         UNCHANGED <<roster, req, token>>,
         \A x \in Child : child[x] # "live" => own'[x] \subseteq own[x],
         Drift' = {} =>
           /\ \A t \in Target : Reachable(t) => Rewritten(t)
           /\ intent' # intent => \A x \in Child : child[x] # "arming"
           /\ (\A x \in Live : copies[x] = intent) => \A x \in Live : copies'[x] = intent'
  PROVE  BreaksInv'
<1>1. \A t \in Target : Ephemeral(t)' = Ephemeral(t)
  BY EphemeralKept, NoTokenYet DEF Settled, Alone, Typed, TypeOK
<1>2. Live' = Live /\ \A t : Reachable(t)' = Reachable(t)
  BY DEF Live, Reachable, roster
<1>3. \A x \in Child : child'[x] \in {"unborn", "arming"} => own'[x] = {}
  BY DEF BreaksInv, roster
<1>4. ASSUME Drift' = {}
      PROVE  /\ \A t \in Target : Reachable(t) => Matches(t)'
             /\ \A x \in Live : copies'[x] = intent'
             /\ \A x \in Child : child[x] = "arming" => snap[x] = intent'
  <2>1. Drift = {}
    BY <1>4 DEF Settled, Drift
  <2>2. \A t \in Target : Reachable(t) => Matches(t)'
    BY <1>1, <1>4, <2>1, RewrittenMatches DEF BreaksInv
  <2>3. \A x \in Child : child[x] = "arming" => snap[x] = intent'
    BY <1>4, <2>1 DEF BreaksInv
  <2> QED
    BY <1>4, <2>1, <2>2, <2>3 DEF BreaksInv
<1> QED
  BY <1>2, <1>3, <1>4 DEF BreaksInv, roster

(* What a mutation confirms becomes an update on its way, or it is marked  *)
(* that it does not.                                                       *)
Effect(c, keys) ==
  \/ /\ Tgt(c) # Main \/ keys = {}
     /\ intent' = intent
  \/ /\ Tgt(c) = Main /\ Op(c) = "add"
     /\ intent' = intent \cup keys /\ keys \cap intent = {}
  \/ /\ Tgt(c) = Main /\ Op(c) # "add"
     /\ intent' = intent \ keys /\ keys \subseteq intent

Ends(c, keys) ==
  \/ \E more \in SUBSET Cracks, faults \in SUBSET Cracks : Answer(c, keys, more, faults)
  \/ \E more \in SUBSET Cracks : Respond(c, keys, more)
  \/ keys = {} /\ Refuse(c)

LEMMA SettledFile ==
  ASSUME Typed, NEW c \in Cli, pc[c] = "run", Op(c) # "capture",
         NEW keys \in SUBSET Key, Ends(c, keys), Effect(c, keys), FileInv,
         UNCHANGED <<req, read>>
  PROVE  FileInv'
<1>1. Settled(c)
  BY Responding DEF Ends
<1>2. /\ file' = file /\ flock' = flock /\ holes \subseteq holes'
      /\ \A d \in Cli \ {c} : confirmed'[d] = confirmed[d] /\ pc'[d] = pc[d]
      /\ pc'[c] \in {"done", "lock"}
      /\ \A d \in Cli : Op(d)' = Op(d)
  BY <1>1 DEF Settled, Typed, TypeOK, Op
<1>3. /\ \A d \in Cli : flock' = d <=> pc'[d] \in {"read", "write"}
      /\ \A d \in Cli : pc'[d] = "write" => read'[d] = file'
  BY <1>2 DEF FileInv
<1>4. CASE pc'[c] = "done"
  <2>1. \A k : (Adding(k)' <=> Adding(k)) /\ (Dropping(k)' <=> Dropping(k))
    BY <1>2, <1>4 DEF Adding, Dropping, Persisting
  <2>2. intent' = intent \/ "unpersisted" \in holes'
    <3>1. CASE keys # {} /\ Tgt(c) = Main
      <4>1. PICK m \in SUBSET Cracks : Respond(c, keys, m)
        BY <3>1 DEF Ends, Answer
      <4>2. result[c] # "none"
        BY <1>4, <3>1, <4>1 DEF Respond, Goto, Typed, TypeOK
      <4> QED
        BY <3>1, <4>1, <4>2 DEF Respond
    <3>2. CASE keys = {} \/ Tgt(c) # Main
      BY <3>2 DEF Effect
    <3> QED
      BY <3>1, <3>2
  <2>3. \A d, e \in Cli :
          /\ d # e /\ pc'[d] \in Persisting /\ pc'[e] \in Persisting
          => /\ confirmed'[d] = confirmed[d] /\ confirmed'[e] = confirmed[e]
             /\ pc[d] \in Persisting /\ pc[e] \in Persisting
    BY <1>2, <1>4 DEF Persisting
  <2> QED
    BY <1>2, <1>3, <2>1, <2>2, <2>3 DEF FileInv
<1>5. CASE pc'[c] = "lock"
  <2>1. /\ result[c] = "none" /\ keys # {} /\ Tgt(c) = Main
        /\ confirmed'[c] = keys /\ Crossed(c, keys) \subseteq holes'
    <3>1. keys # {} /\ \E m \in SUBSET Cracks : Respond(c, keys, m)
      BY <1>5 DEF Ends, Answer, Refuse, Respond, Fail, Report, Goto, Typed, TypeOK
    <3> QED
      BY <1>5, <3>1 DEF Respond, Report, Goto, ToPersist, Typed, TypeOK
  <2>2. \A k : /\ Adding(k)' <=> Adding(k) \/ (Op(c) = "add" /\ k \in keys)
               /\ Dropping(k)' <=> Dropping(k) \/ (Op(c) # "add" /\ k \in keys)
    BY <1>2, <1>5, <2>1 DEF Adding, Dropping, Persisting
  <2>3. ASSUME holes' \cap {"crossed", "unpersisted"} = {}
        PROVE  \A d \in Cli \ {c} :
                 pc[d] \in Persisting /\ confirmed[d] \cap keys # {}
                   => (Op(d) = "add" <=> Op(c) = "add")
    BY <2>1, <2>3 DEF Crossed, Persisting
  <2>4. ASSUME holes' \cap {"crossed", "unpersisted"} = {}
        PROVE  /\ Op(c) = "add" => \A k \in keys : ~Dropping(k) /\ ~Adding(k)
               /\ Op(c) # "add" => \A k \in keys : ~Dropping(k) /\ ~Adding(k)
    <3>1. holes \cap {"crossed", "unpersisted"} = {}
      BY <1>2, <2>4
    <3>2. Op(c) = "add" => keys \cap intent = {}
      BY <2>1 DEF Effect
    <3>3. Op(c) # "add" => keys \subseteq intent
      BY <2>1 DEF Effect
    <3>4. \A k \in keys : Op(c) = "add" => ~Dropping(k)
      BY <2>3, <2>4 DEF Dropping, Persisting
    <3>5. \A k \in keys : Op(c) # "add" => ~Adding(k)
      BY <2>3, <2>4 DEF Adding, Persisting
    <3> QED
      BY <3>1, <3>2, <3>3, <3>4, <3>5 DEF FileInv
  <2>5. ASSUME holes' \cap {"crossed", "unpersisted"} = {}
        PROVE  /\ \A k \in Key : k \in file' <=> (k \in intent' /\ ~Adding(k)') \/ Dropping(k)'
               /\ \A k \in Key : Adding(k)' => k \in intent'
               /\ \A k \in Key : Dropping(k)' => k \notin intent'
    <3>1. holes \cap {"crossed", "unpersisted"} = {}
      BY <1>2, <2>5
    <3>2. /\ \A k \in Key : k \in file <=> (k \in intent /\ ~Adding(k)) \/ Dropping(k)
          /\ \A k \in Key : Adding(k) => k \in intent
          /\ \A k \in Key : Dropping(k) => k \notin intent
      BY <3>1 DEF FileInv
    <3>3. \/ /\ Op(c) = "add" /\ intent' = intent \cup keys /\ keys \cap intent = {}
             /\ \A k : (Adding(k)' <=> Adding(k) \/ k \in keys) /\ (Dropping(k)' <=> Dropping(k))
          \/ /\ Op(c) # "add" /\ intent' = intent \ keys /\ keys \subseteq intent
             /\ \A k : (Adding(k)' <=> Adding(k)) /\ (Dropping(k)' <=> Dropping(k) \/ k \in keys)
      <4>1. \/ Op(c) = "add" /\ intent' = intent \cup keys /\ keys \cap intent = {}
            \/ Op(c) # "add" /\ intent' = intent \ keys /\ keys \subseteq intent
        BY <2>1 DEF Effect
      <4>2. Op(c) = "add" =>
              \A k : (Adding(k)' <=> Adding(k) \/ k \in keys) /\ (Dropping(k)' <=> Dropping(k))
        BY <2>2
      <4>3. Op(c) # "add" =>
              \A k : (Adding(k)' <=> Adding(k)) /\ (Dropping(k)' <=> Dropping(k) \/ k \in keys)
        BY <2>2
      <4> QED
        BY <4>1, <4>2, <4>3
    <3>4. \A k \in keys : ~Dropping(k) /\ ~Adding(k)
      BY <2>4, <2>5
    <3>5. ASSUME NEW k \in Key
          PROVE  /\ k \in file' <=> (k \in intent' /\ ~Adding(k)') \/ Dropping(k)'
                 /\ Adding(k)' => k \in intent'
                 /\ Dropping(k)' => k \notin intent'
      <4> HIDE DEF Adding, Dropping
      <4>1. /\ k \in file <=> (k \in intent /\ ~Adding(k)) \/ Dropping(k)
            /\ Adding(k) => k \in intent
            /\ Dropping(k) => k \notin intent
        BY <3>2
      <4>2. k \in file' <=> k \in file
        BY <1>2
      <4>3. k \in keys => ~Dropping(k) /\ ~Adding(k)
        BY <3>4
      <4>4. \/ /\ (k \in intent' <=> k \in intent \/ k \in keys) /\ (k \in keys => k \notin intent)
               /\ (Adding(k)' <=> Adding(k) \/ k \in keys) /\ (Dropping(k)' <=> Dropping(k))
            \/ /\ (k \in intent' <=> k \in intent /\ k \notin keys) /\ (k \in keys => k \in intent)
               /\ (Adding(k)' <=> Adding(k)) /\ (Dropping(k)' <=> Dropping(k) \/ k \in keys)
        BY <3>3
      <4> QED
        BY <4>1, <4>2, <4>3, <4>4
    <3> QED
      BY <3>5
  <2>6. ASSUME holes' \cap {"crossed", "unpersisted"} = {}, NEW d \in Cli, NEW e \in Cli,
               d # e, pc'[d] \in Persisting, pc'[e] \in Persisting,
               Op(d) = "add" <=> Op(e) = "add"
        PROVE  confirmed'[d] \cap confirmed'[e] = {}
    <3>1. \A f \in Cli \ {c} : pc[f] \in Persisting => confirmed[f] \cap keys = {}
      BY <2>4, <2>6 DEF Adding, Dropping
    <3>2. CASE d = c \/ e = c
      BY <1>2, <2>1, <2>6, <3>1, <3>2
    <3>3. CASE d # c /\ e # c
      BY <1>2, <2>6, <3>3 DEF FileInv
    <3> QED
      BY <3>2, <3>3
  <2> QED
    BY <1>2, <1>3, <2>5, <2>6 DEF FileInv
<1> QED
  BY <1>2, <1>4, <1>5

(* What every section of a handler has to keep.                            *)
Kept == Typed' /\ (BreaksInv => BreaksInv') /\ (FileInv => FileInv')

(* The section of a mutation, in what it needs to keep everything.         *)
LEMMA MutationKept ==
  ASSUME Typed, NEW c \in Cli, pc[c] = "run", Op(c) # "capture",
         UNCHANGED <<roster, outstanding, req, token, read>>,
         BreaksTyped', NEW keys \in SUBSET Key, Ends(c, keys), Effect(c, keys),
         \A x \in Child : child[x] # "live" => own'[x] \subseteq own[x],
         Drift' = {} =>
           /\ \A t \in Target : Reachable(t) => Rewritten(t)
           /\ intent' # intent => \A x \in Child : child[x] # "arming"
           /\ (\A x \in Live : copies[x] = intent) => \A x \in Live : copies'[x] = intent'
  PROVE  Kept
<1>1. Settled(c)
  BY Responding DEF Ends
<1>2. Typed'
  BY <1>1, SettledTyped
<1>3. BreaksInv => BreaksInv'
  BY <1>1, <1>2, SettledBreaks
<1>4. FileInv => FileInv'
  BY SettledFile
<1> QED
  BY <1>2, <1>3, <1>4 DEF Kept

LEMMA UntouchedRewritten ==
  ASSUME NEW t \in Target, Typed, planted'[t] = planted[t], Recorded(t)' = Recorded(t)
  PROVE  Rewritten(t)
<1>1. planted[t] = Resent(planted[t], {}, {})
  BY DEF Resent, Typed, TypeOK
<1>2. \A k \in Key : k \in Recorded(t)' <=> IF FileOf(k) \in {} THEN k \in {}
                                           ELSE k \in Recorded(t)
  OBVIOUS
<1> QED
  BY <1>1, <1>2 DEF Rewritten

LEMMA NothingToDo ==
  ASSUME Typed, NEW c \in Cli, pc[c] = "run", Op(c) # "capture", UNCHANGED bridge,
         UNCHANGED <<roster, outstanding, req, token, read>>,
         Respond(c, {}, {}) \/ Refuse(c)
  PROVE  Kept
<1>1. Ends(c, {})
  BY DEF Ends
<1>2. Effect(c, {})
  BY DEF Effect, bridge
<1>3. BreaksTyped'
  BY DEF BreaksTyped, bridge, Typed, TypeOK
<1>4. \A t \in Target : Rewritten(t)
  BY UntouchedRewritten DEF Recorded, bridge
<1> QED
  BY <1>1, <1>2, <1>3, <1>4, MutationKept DEF bridge

(* A crack that an answer reports is open from then on.                    *)
LEMMA CracksReported ==
  ASSUME NEW c, NEW keys, NEW more, NEW faults, Drift' = {},
         Answer(c, keys, more, faults) \/ (Respond(c, keys, more) /\ faults = {})
  PROVE  /\ faults \subseteq {"crossed", "unpersisted"}
         /\ keys # {} => more \subseteq {"crossed", "unpersisted"}
         /\ Respond(c, keys, more) => more \subseteq {"crossed", "unpersisted"}
<1>1. holes' \subseteq {"crossed", "unpersisted"}
  BY DEF Drift
<1>2. ASSUME NEW m, Respond(c, keys, m) PROVE m \subseteq holes'
  BY <1>2 DEF Respond
<1>3. keys = {} /\ Answer(c, keys, more, faults) => faults \subseteq holes'
  BY DEF Answer
<1>4. keys # {} /\ Answer(c, keys, more, faults) => (more \cup faults) \subseteq holes'
  BY <1>2 DEF Answer
<1> QED
  BY <1>1, <1>2, <1>3, <1>4

LEMMA AddGlobalKept ==
  ASSUME Typed, NEW c \in Cli, AddGlobal(c)
  PROVE  Kept
<1> DEFINE fresh == req[c].keys \ intent
           added(ok) == {k \in fresh : FileOf(k) \in ok}
           touched(ok) == [t \in Target |->
                     IF t = Main THEN FilesOf(fresh)
                     ELSE IF t \in Live THEN ok ELSE {}]
<1>1. /\ pc[c] = "run" /\ Op(c) = "add" /\ Tgt(c) = Main /\ req[c] \in Request
      /\ UNCHANGED <<roster, outstanding, req, token, read>>
  BY DEF AddGlobal, Running, Typed, Asked
<1>2. BreaksTyped /\ fresh \subseteq Key
  BY <1>1, RequestParts DEF BreaksTyped, Typed, TypeOK
<1>3. CASE UNCHANGED bridge /\ (Respond(c, {}, {}) \/ Refuse(c))
  BY <1>1, <1>3, NothingToDo
<1>4. CASE /\ fresh # {} /\ Admissible(intent, fresh)
           /\ \E ok \in SUBSET FilesOf(fresh) : \E o \in Outcomes(touched(ok)) :
                /\ o[Main].ok = ok
                /\ planted' = [t \in Target |-> Resent(planted[t],
                         IF t = Main THEN Merged(intent, fresh)
                         ELSE Merged(copies[t] \cup own[t], added(ok)),
                         o[t].ok \cup o[t].late)]
                /\ intent' = intent \cup added(ok)
                /\ copies' = [x \in Child |-> Inherit(x, added(ok), o[x].ok)]
                /\ Answer(c, added(ok), Raced, Late(o) \cup Behind(o, touched(ok)))
                /\ UNCHANGED own
  <2>1. PICK ok \in SUBSET FilesOf(fresh) : \E o \in Outcomes(touched(ok)) :
                /\ o[Main].ok = ok
                /\ planted' = [t \in Target |-> Resent(planted[t],
                         IF t = Main THEN Merged(intent, fresh)
                         ELSE Merged(copies[t] \cup own[t], added(ok)),
                         o[t].ok \cup o[t].late)]
                /\ intent' = intent \cup added(ok)
                /\ copies' = [x \in Child |-> Inherit(x, added(ok), o[x].ok)]
                /\ Answer(c, added(ok), Raced, Late(o) \cup Behind(o, touched(ok)))
                /\ UNCHANGED own
    BY <1>4
  <2>2. PICK o \in Outcomes(touched(ok)) :
                /\ o[Main].ok = ok
                /\ planted' = [t \in Target |-> Resent(planted[t],
                         IF t = Main THEN Merged(intent, fresh)
                         ELSE Merged(copies[t] \cup own[t], added(ok)),
                         o[t].ok \cup o[t].late)]
                /\ intent' = intent \cup added(ok)
                /\ copies' = [x \in Child |-> Inherit(x, added(ok), o[x].ok)]
                /\ Answer(c, added(ok), Raced, Late(o) \cup Behind(o, touched(ok)))
                /\ UNCHANGED own
    BY <2>1
  <2>3. added(ok) \subseteq fresh /\ added(ok) \subseteq Key /\ added(ok) \cap intent = {}
    BY <1>2
  <2>4. \A k \in Key : k \in added(ok) <=> k \in fresh /\ FileOf(k) \in ok
    BY <1>2
  <2>5. \A x \in Live : touched(ok)[x] = ok
    BY BreakIntentAssumption DEF Target, Live
  <2> HIDE DEF fresh, added, touched
  <2>6. BreaksTyped'
    <3>1. planted' \in [Target -> SUBSET Key]
      BY <1>2, <2>2, <2>3 DEF BreaksTyped, Resent, Merged, Target
    <3>2. intent' \in {keys \in SUBSET Key : NoClash(keys)}
      BY <1>2, <1>4, <2>2, <2>3 DEF BreaksTyped, NoClash, Admissible
    <3>3. copies' \in [Child -> SUBSET Key] /\ own' \in [Child -> SUBSET Key]
      BY <1>2, <2>2, <2>3 DEF BreaksTyped, Inherit
    <3> QED
      BY <3>1, <3>2, <3>3 DEF BreaksTyped
  <2>7. Ends(c, added(ok)) /\ Effect(c, added(ok))
    <3>1. Ends(c, added(ok))
      BY <2>2, CracksNamed DEF Ends
    <3>2. Effect(c, added(ok))
      BY <1>1, <2>2, <2>3 DEF Effect
    <3> QED
      BY <3>1, <3>2
  <2>8. ASSUME Drift' = {}
        PROVE  /\ \A t \in Target : Reachable(t) => Rewritten(t)
               /\ intent' # intent => \A x \in Child : child[x] # "arming"
               /\ (\A x \in Live : copies[x] = intent) => \A x \in Live : copies'[x] = intent'
    <3>1. /\ "late" \notin Late(o) /\ "behind" \notin Behind(o, touched(ok))
          /\ added(ok) # {} => "raced" \notin Raced
      BY <2>2, <2>8, CracksReported
    <3>2. \A t \in Target : o[t].late = {}
      BY <3>1, OutcomeParts
    <3>3. \A x \in Live : o[x].ok = ok
      BY <3>1, <2>5, OutcomeParts DEF Live, Target
    <3>4. \A x \in Live : copies'[x] = copies[x] \cup added(ok)
      <4>1. \A k \in added(ok) : FileOf(k) \in ok
        BY <2>3, <2>4
      <4> QED
        BY <2>2, <3>3, <4>1 DEF Inherit, Live
    <3>5. Rewritten(Main)
      <4>1. planted'[Main] = Resent(planted[Main], intent \cup fresh, ok)
        BY <2>2, <3>2 DEF Target, Merged
      <4>2. \A k \in Key : k \in intent' <=> IF FileOf(k) \in ok THEN k \in intent \cup fresh
                                             ELSE k \in intent
        BY <2>2, <2>4
      <4> QED
        BY <4>1, <4>2 DEF Rewritten, Recorded
    <3>6. ASSUME NEW x \in Live PROVE Rewritten(x)
      <4>1. planted'[x] = Resent(planted[x], (copies[x] \cup own[x]) \cup added(ok), ok)
        BY <2>2, <3>2, <3>3, BreakIntentAssumption DEF Target, Merged, Live
      <4>2. Recorded(x)' = (copies[x] \cup own[x]) \cup added(ok)
        BY <2>2, <3>4, BreakIntentAssumption DEF Recorded, Live
      <4>3. Recorded(x) = copies[x] \cup own[x]
        BY BreakIntentAssumption DEF Recorded, Live
      <4>4. \A k \in Key : k \in Recorded(x)' <=>
              IF FileOf(k) \in ok THEN k \in (copies[x] \cup own[x]) \cup added(ok)
              ELSE k \in Recorded(x)
        BY <4>2, <4>3, <2>4
      <4> QED
        BY <4>1, <4>4 DEF Rewritten
    <3>7. intent' # intent => \A x \in Child : child[x] # "arming"
      BY <2>2, <3>1 DEF Raced
    <3>8. \A t \in Target : Reachable(t) => Rewritten(t)
      BY <3>5, <3>6 DEF Reachable
    <3> QED
      BY <2>2, <3>4, <3>7, <3>8
  <2>9. Op(c) # "capture" /\ \A x \in Child : own'[x] \subseteq own[x]
    BY <1>1, <2>2
  <2> QED
    BY <1>1, <2>3, <2>6, <2>7, <2>8, <2>9, MutationKept
<1> QED
  BY <1>3, <1>4 DEF AddGlobal, Refuse

LEMMA DropGlobalKept ==
  ASSUME Typed, NEW c \in Cli, DropGlobal(c)
  PROVE  Kept
<1> DEFINE clear == Op(c) = "clear"
           doomed == IF clear THEN intent ELSE intent \cap req[c].keys
           gone(ok) == {k \in doomed : FileOf(k) \in ok}
           failed(ok) == doomed # {} /\ gone(ok) = {}
           drop(ok) == [x \in Child |->
                     IF x \notin Live \/ failed(ok) THEN {}
                     ELSE Propagated(x, doomed, gone(ok)) \cup IF clear THEN own[x] ELSE {}]
           touched(ok) == [t \in Target |->
                     IF t = Main THEN FilesOf(doomed) ELSE FilesOf(drop(ok)[t])]
           left(ok, o) == [x \in Child |-> {k \in drop(ok)[x] : FileOf(k) \in o[x].ok}]
<1>1. /\ pc[c] = "run" /\ Op(c) \in {"remove", "clear"} /\ Tgt(c) = Main
      /\ UNCHANGED <<roster, outstanding, req, token, read>>
  BY DEF DropGlobal, Running
<1>2. BreaksTyped /\ doomed \subseteq intent /\ intent \subseteq Key
  BY <1>1 DEF BreaksTyped, Typed, TypeOK
<1>3. CASE doomed = {} /\ ~clear /\ UNCHANGED bridge /\ Respond(c, {}, {})
  BY <1>1, <1>3, NothingToDo
<1>4. CASE /\ doomed # {} \/ clear
           /\ \E ok \in SUBSET FilesOf(doomed) : \E o \in Outcomes(touched(ok)) :
                /\ o[Main].ok = ok
                /\ planted' = [t \in Target |-> Resent(planted[t],
                     IF t = Main THEN intent \ doomed
                     ELSE (copies[t] \cup own[t]) \ drop(ok)[t],
                     o[t].ok \cup o[t].late)]
                /\ intent' = intent \ gone(ok)
                /\ copies' = [x \in Child |-> copies[x] \ left(ok, o)[x]]
                /\ own' = [x \in Child |-> own[x] \ left(ok, o)[x]]
                /\ IF doomed = {} THEN Respond(c, {}, Late(o) \cup Behind(o, touched(ok)))
                   ELSE Answer(c, gone(ok), Raced \cup CopiesLost(clear, gone(ok)),
                          Late(o) \cup Behind(o, touched(ok)))
  <2>1. PICK ok \in SUBSET FilesOf(doomed) : \E o \in Outcomes(touched(ok)) :
                /\ o[Main].ok = ok
                /\ planted' = [t \in Target |-> Resent(planted[t],
                     IF t = Main THEN intent \ doomed
                     ELSE (copies[t] \cup own[t]) \ drop(ok)[t],
                     o[t].ok \cup o[t].late)]
                /\ intent' = intent \ gone(ok)
                /\ copies' = [x \in Child |-> copies[x] \ left(ok, o)[x]]
                /\ own' = [x \in Child |-> own[x] \ left(ok, o)[x]]
                /\ IF doomed = {} THEN Respond(c, {}, Late(o) \cup Behind(o, touched(ok)))
                   ELSE Answer(c, gone(ok), Raced \cup CopiesLost(clear, gone(ok)),
                          Late(o) \cup Behind(o, touched(ok)))
    BY <1>4
  <2>2. PICK o \in Outcomes(touched(ok)) :
                /\ o[Main].ok = ok
                /\ planted' = [t \in Target |-> Resent(planted[t],
                     IF t = Main THEN intent \ doomed
                     ELSE (copies[t] \cup own[t]) \ drop(ok)[t],
                     o[t].ok \cup o[t].late)]
                /\ intent' = intent \ gone(ok)
                /\ copies' = [x \in Child |-> copies[x] \ left(ok, o)[x]]
                /\ own' = [x \in Child |-> own[x] \ left(ok, o)[x]]
                /\ IF doomed = {} THEN Respond(c, {}, Late(o) \cup Behind(o, touched(ok)))
                   ELSE Answer(c, gone(ok), Raced \cup CopiesLost(clear, gone(ok)),
                          Late(o) \cup Behind(o, touched(ok)))
    BY <2>1
  <2>3. gone(ok) \subseteq doomed /\ gone(ok) \subseteq Key /\ gone(ok) \subseteq intent
    BY <1>2
  <2>4. \A k \in Key : k \in gone(ok) <=> k \in doomed /\ FileOf(k) \in ok
    BY <1>2
  <2>5. \A x \in Child : touched(ok)[x] = FilesOf(drop(ok)[x])
    BY BreakIntentAssumption DEF Target
  <2>6. \A x \in Child : left(ok, o)[x] = {k \in drop(ok)[x] : FileOf(k) \in o[x].ok}
    OBVIOUS
  <2>7. /\ \A x \in Child \ Live : drop(ok)[x] = {}
        /\ doomed # {} /\ gone(ok) = {} => \A x \in Live : drop(ok)[x] = {}
        /\ ~(doomed # {} /\ gone(ok) = {}) => \A x \in Live : drop(ok)[x] =
             Propagated(x, doomed, gone(ok)) \cup IF clear THEN own[x] ELSE {}
    BY DEF Live
  <2>8. clear => doomed = intent
    OBVIOUS
  <2>9. doomed = {} => gone(ok) = {}
    OBVIOUS
  <2> HIDE DEF doomed, gone, drop, touched, left, clear, failed
  <2>10. BreaksTyped'
    <3>1. planted' \in [Target -> SUBSET Key]
      BY <1>2, <2>2, <2>3 DEF BreaksTyped, Resent, Target
    <3>2. intent' \in {keys \in SUBSET Key : NoClash(keys)}
      BY <1>2, <2>2 DEF BreaksTyped, NoClash
    <3>3. copies' \in [Child -> SUBSET Key] /\ own' \in [Child -> SUBSET Key]
      BY <1>2, <2>2 DEF BreaksTyped
    <3> QED
      BY <3>1, <3>2, <3>3 DEF BreaksTyped
  <2>11. Ends(c, gone(ok)) /\ Effect(c, gone(ok))
    <3>1. Late(o) \cup Behind(o, touched(ok)) \in SUBSET Cracks
      BY CracksNamed
    <3>2. Raced \cup CopiesLost(clear, gone(ok)) \in SUBSET Cracks
      BY CracksNamed
    <3>3. Ends(c, gone(ok))
      BY <2>2, <2>9, <3>1, <3>2 DEF Ends
    <3>4. Effect(c, gone(ok))
      BY <1>1, <2>2, <2>3 DEF Effect
    <3> QED
      BY <3>3, <3>4
  <2>12. ASSUME Drift' = {}
         PROVE  /\ \A t \in Target : Reachable(t) => Rewritten(t)
                /\ intent' # intent => \A x \in Child : child[x] # "arming"
                /\ (\A x \in Live : copies[x] = intent) => \A x \in Live : copies'[x] = intent'
    <3>1. /\ "late" \notin Late(o) /\ "behind" \notin Behind(o, touched(ok))
          /\ gone(ok) # {} => "raced" \notin Raced /\ "shared" \notin CopiesLost(clear, gone(ok))
      <4>1. CASE doomed = {}
        <5>1. Respond(c, {}, Late(o) \cup Behind(o, touched(ok)))
          BY <2>2, <4>1
        <5>2. Late(o) \cup Behind(o, touched(ok)) \subseteq holes'
          BY <5>1 DEF Respond
        <5> QED
          BY <2>9, <2>12, <4>1, <5>2 DEF Drift
      <4>2. CASE doomed # {}
        <5>1. Answer(c, gone(ok), Raced \cup CopiesLost(clear, gone(ok)),
                     Late(o) \cup Behind(o, touched(ok)))
          BY <2>2, <4>2
        <5>2. /\ Late(o) \cup Behind(o, touched(ok)) \subseteq {"crossed", "unpersisted"}
              /\ gone(ok) # {} => Raced \cup CopiesLost(clear, gone(ok))
                                   \subseteq {"crossed", "unpersisted"}
          BY <2>12, <5>1, CracksReported
        <5> QED
          BY <5>2
      <4> QED
        BY <4>1, <4>2
    <3>2. \A t \in Target : o[t].late = {}
      BY <3>1, OutcomeParts
    <3>3. \A x \in Live : o[x].ok = FilesOf(drop(ok)[x])
      BY <3>1, <2>5, OutcomeParts DEF Live, Target
    <3>4. \A x \in Live : left(ok, o)[x] = drop(ok)[x]
      <4> TAKE x \in Live
      <4> DEFINE gives == drop(ok)[x]
      <4>1. left(ok, o)[x] = {k \in gives : FileOf(k) \in FilesOf(gives)}
        BY <2>6, <3>3 DEF Live
      <4> HIDE DEF gives
      <4>2. gives = {k \in gives : FileOf(k) \in FilesOf(gives)}
        BY DEF FilesOf
      <4>3. left(ok, o)[x] = gives
        BY <4>1, <4>2
      <4> QED
        BY <4>3 DEF gives
    <3>5. Rewritten(Main)
      <4>1. planted'[Main] = Resent(planted[Main], intent \ doomed, ok)
        BY <2>2, <3>2 DEF Target
      <4>2. \A k \in Key : k \in intent' <=> IF FileOf(k) \in ok THEN k \in intent \ doomed
                                             ELSE k \in intent
        BY <2>2, <2>4
      <4> QED
        BY <4>1, <4>2 DEF Rewritten, Recorded
    <3>6. ASSUME NEW x \in Live PROVE Rewritten(x)
      <4> DEFINE files == FilesOf(drop(ok)[x])
      <4>1. planted'[x] = Resent(planted[x], (copies[x] \cup own[x]) \ drop(ok)[x], files)
        BY <2>2, <3>2, <3>3, BreakIntentAssumption DEF Target, Live
      <4>2. Recorded(x)' = (copies[x] \cup own[x]) \ drop(ok)[x]
        BY <2>2, <3>4, BreakIntentAssumption DEF Recorded, Live
      <4>3. Recorded(x) = copies[x] \cup own[x]
        BY BreakIntentAssumption DEF Recorded, Live
      <4>4. \A k \in drop(ok)[x] : FileOf(k) \in files
        BY DEF FilesOf
      <4>5. \A k \in Key : k \in Recorded(x)' <=>
              IF FileOf(k) \in files THEN k \in (copies[x] \cup own[x]) \ drop(ok)[x]
              ELSE k \in Recorded(x)
        BY <4>2, <4>3, <4>4
      <4> QED
        BY <4>1, <4>5 DEF Rewritten
    <3>7. intent' # intent => \A x \in Child : child[x] # "arming"
      BY <2>2, <3>1 DEF Raced
    <3>8. \A t \in Target : Reachable(t) => Rewritten(t)
      BY <3>5, <3>6 DEF Reachable
    <3>9. ASSUME \A x \in Live : copies[x] = intent, NEW x \in Live
          PROVE  copies'[x] = intent'
      <4>1. copies'[x] = intent \ drop(ok)[x] /\ intent' = intent \ gone(ok)
        BY <2>2, <3>4, <3>9 DEF Live
      <4>2. CASE doomed = {}
        <5>1. drop(ok)[x] = copies[x] \cup IF clear THEN own[x] ELSE {}
          BY <2>7, <4>2 DEF Propagated
        <5>2. intent = {}
          BY <1>4, <2>8, <4>2
        <5> QED
          BY <4>1, <5>2
      <4>3. CASE doomed # {} /\ gone(ok) = {}
        BY <2>7, <4>1, <4>3
      <4>4. CASE doomed # {} /\ gone(ok) # {}
        <5>1. drop(ok)[x] = (intent \cap gone(ok)) \cup IF clear THEN own[x] ELSE {}
          BY <2>7, <3>9, <4>4 DEF Propagated
        <5>2. clear => (own[x] \cap intent) \subseteq gone(ok)
          BY <3>1, <3>9, <4>4 DEF CopiesLost
        <5> QED
          BY <4>1, <5>1, <5>2
      <4> QED
        BY <4>2, <4>3, <4>4
    <3> QED
      BY <3>7, <3>8, <3>9
  <2>13. Op(c) # "capture" /\ \A x \in Child : own'[x] \subseteq own[x]
    BY <1>1, <2>2
  <2> QED
    BY <1>1, <2>3, <2>10, <2>11, <2>12, <2>13, MutationKept
<1> QED
  BY <1>3, <1>4 DEF DropGlobal

LEMMA AddScopedKept ==
  ASSUME Typed, NEW c \in Cli, AddScoped(c)
  PROVE  Kept
<1>0. PICK x \in Child : x = Tgt(c)
  BY RequestParts DEF AddScoped, Running, Typed, Asked, Tgt, Target
<1> DEFINE has == copies[x] \cup own[x]
           fresh == req[c].keys \ has
           added(ok) == {k \in fresh : FileOf(k) \in ok}
<1>1. /\ pc[c] = "run" /\ Op(c) = "add" /\ x # Main /\ req[c] \in Request
      /\ UNCHANGED <<roster, outstanding, req, token, read>>
  BY <1>0 DEF AddScoped, Running, Typed, Asked
<1>2. x \in Child /\ BreaksTyped /\ fresh \subseteq Key
  BY <1>1, RequestParts DEF BreaksTyped, Typed, TypeOK, Tgt, Target
<1>3. CASE UNCHANGED bridge /\ (Respond(c, {}, {}) \/ Refuse(c))
  BY <1>1, <1>3, NothingToDo
<1>4. CASE /\ child[x] = "live"
           /\ \E ok \in SUBSET FilesOf(fresh) : \E late \in SUBSET (FilesOf(fresh) \ ok) :
                /\ planted' = [planted EXCEPT ![x] =
                     Resent(@, Merged(has, fresh), ok \cup late)]
                /\ own' = [own EXCEPT ![x] = @ \cup added(ok)]
                /\ Answer(c, added(ok), {}, IF late # {} THEN {"late"} ELSE {})
           /\ UNCHANGED <<intent, copies>>
  <2>1. PICK ok \in SUBSET FilesOf(fresh) : \E late \in SUBSET (FilesOf(fresh) \ ok) :
                /\ planted' = [planted EXCEPT ![x] =
                     Resent(@, Merged(has, fresh), ok \cup late)]
                /\ own' = [own EXCEPT ![x] = @ \cup added(ok)]
                /\ Answer(c, added(ok), {}, IF late # {} THEN {"late"} ELSE {})
    BY <1>4
  <2>2. PICK late \in SUBSET (FilesOf(fresh) \ ok) :
                /\ planted' = [planted EXCEPT ![x] =
                     Resent(@, Merged(has, fresh), ok \cup late)]
                /\ own' = [own EXCEPT ![x] = @ \cup added(ok)]
                /\ Answer(c, added(ok), {}, IF late # {} THEN {"late"} ELSE {})
    BY <2>1
  <2>3. added(ok) \subseteq Key /\ \A k \in Key : k \in added(ok) <=> k \in fresh /\ FileOf(k) \in ok
    BY <1>2
  <2>4. has = copies[x] \cup own[x] /\ has \subseteq Key
    BY <1>2 DEF BreaksTyped
  <2> HIDE DEF fresh, added, has
  <2>5. BreaksTyped'
    <3>1. Merged(has, fresh) \subseteq Key
      BY <1>2, <2>4 DEF Merged
    <3>2. Resent(planted[x], Merged(has, fresh), ok \cup late) \subseteq Key
      BY <1>2, <3>1, ResentTyped DEF BreaksTyped, Target
    <3>3. planted' \in [Target -> SUBSET Key]
      BY <1>2, <2>2, <3>2 DEF BreaksTyped
    <3>4. own' \in [Child -> SUBSET Key]
      BY <1>2, <2>2, <2>3 DEF BreaksTyped
    <3> QED
      BY <1>2, <1>4, <3>3, <3>4 DEF BreaksTyped
  <2>6. Ends(c, added(ok)) /\ Effect(c, added(ok))
    <3>1. Ends(c, added(ok))
      BY <2>2 DEF Ends, Cracks
    <3>2. Effect(c, added(ok))
      BY <1>0, <1>1, <1>4 DEF Effect
    <3> QED
      BY <3>1, <3>2
  <2>7. ASSUME Drift' = {} PROVE \A t \in Target : Reachable(t) => Rewritten(t)
    <3>1. late = {}
      BY <2>2, <2>7, CracksReported
    <3>2. ASSUME NEW t \in Target, t # x PROVE Rewritten(t)
      <4>1. planted'[t] = planted[t] /\ Recorded(t)' = Recorded(t)
        BY <1>2, <1>4, <2>2, <3>2 DEF Recorded, BreaksTyped, Target
      <4> QED
        BY <4>1, UntouchedRewritten
    <3>3. Rewritten(x)
      <4>1. planted'[x] = Resent(planted[x], has \cup fresh, ok)
        BY <1>2, <2>2, <3>1 DEF BreaksTyped, Target, Merged
      <4>2. Recorded(x)' = has \cup added(ok)
        BY <1>1, <1>2, <1>4, <2>2, <2>4 DEF Recorded, BreaksTyped
      <4>3. Recorded(x) = has
        BY <1>1, <2>4 DEF Recorded
      <4>4. \A k \in Key : k \in Recorded(x)' <=>
              IF FileOf(k) \in ok THEN k \in has \cup fresh ELSE k \in Recorded(x)
        BY <4>2, <4>3, <2>3
      <4> QED
        BY <4>1, <4>4 DEF Rewritten
    <3> QED
      BY <3>2, <3>3
  <2>8. /\ Op(c) # "capture"
        /\ \A y \in Child : child[y] # "live" => own'[y] \subseteq own[y]
    BY <1>1, <1>2, <1>4, <2>2 DEF BreaksTyped
  <2> QED
    BY <1>1, <1>4, <2>3, <2>5, <2>6, <2>7, <2>8, MutationKept
<1> QED
  BY <1>0, <1>3, <1>4 DEF AddScoped, Refuse

LEMMA DropScopedKept ==
  ASSUME Typed, NEW c \in Cli, DropScoped(c)
  PROVE  Kept
<1>0. PICK x \in Child : x = Tgt(c)
  BY RequestParts DEF DropScoped, Running, Typed, Asked, Tgt, Target
<1> DEFINE drop == IF Op(c) = "clear" THEN own[x] ELSE own[x] \cap req[c].keys
           left(ok) == {k \in drop : FileOf(k) \in ok}
<1>1. /\ pc[c] = "run" /\ Op(c) \in {"remove", "clear"} /\ x # Main /\ req[c] \in Request
      /\ UNCHANGED <<roster, outstanding, req, token, read>>
  BY <1>0 DEF DropScoped, Running, Typed, Asked
<1>2. x \in Child /\ BreaksTyped /\ drop \subseteq Key
  BY <1>1, RequestParts DEF BreaksTyped, Typed, TypeOK, Tgt, Target
<1>3. CASE UNCHANGED bridge /\ (Respond(c, {}, {}) \/ Refuse(c))
  BY <1>1, <1>3, NothingToDo
<1>4. CASE /\ child[x] = "live" /\ drop # {}
           /\ \E ok \in SUBSET FilesOf(drop) : \E late \in SUBSET (FilesOf(drop) \ ok) :
                /\ DropChild(x, drop, x, ok, late)
                /\ Answer(c, left(ok), Shared(x, drop), IF late # {} THEN {"late"} ELSE {})
  <2>1. PICK ok \in SUBSET FilesOf(drop) : \E late \in SUBSET (FilesOf(drop) \ ok) :
                /\ DropChild(x, drop, x, ok, late)
                /\ Answer(c, left(ok), Shared(x, drop), IF late # {} THEN {"late"} ELSE {})
    BY <1>4
  <2>2. PICK late \in SUBSET (FilesOf(drop) \ ok) :
                /\ DropChild(x, drop, x, ok, late)
                /\ Answer(c, left(ok), Shared(x, drop), IF late # {} THEN {"late"} ELSE {})
    BY <2>1
  <2>3. left(ok) \subseteq Key /\ \A k \in Key : k \in left(ok) <=> k \in drop /\ FileOf(k) \in ok
    BY <1>2
  <2>4. /\ copies' = [copies EXCEPT ![x] = @ \ left(ok)]
        /\ own' = [own EXCEPT ![x] = @ \ left(ok)]
        /\ planted' = [planted EXCEPT ![x] =
             Resent(@, (copies[x] \cup own[x]) \ drop, ok \cup late)]
        /\ UNCHANGED intent
    BY <2>2 DEF DropChild
  <2> HIDE DEF drop, left
  <2>5. BreaksTyped'
    <3>1. (copies[x] \cup own[x]) \ drop \subseteq Key
      BY <1>2 DEF BreaksTyped
    <3>2. Resent(planted[x], (copies[x] \cup own[x]) \ drop, ok \cup late) \subseteq Key
      BY <1>2, <3>1, ResentTyped DEF BreaksTyped, Target
    <3>3. planted' \in [Target -> SUBSET Key]
      BY <1>2, <2>4, <3>2 DEF BreaksTyped
    <3>4. own' \in [Child -> SUBSET Key] /\ copies' \in [Child -> SUBSET Key]
      BY <1>2, <2>4 DEF BreaksTyped
    <3> QED
      BY <1>2, <2>4, <3>3, <3>4 DEF BreaksTyped
  <2>6. Ends(c, left(ok)) /\ Effect(c, left(ok))
    <3>1. Ends(c, left(ok))
      BY <2>2, CracksNamed DEF Ends, Cracks
    <3>2. Effect(c, left(ok))
      BY <1>0, <1>1, <2>4 DEF Effect
    <3> QED
      BY <3>1, <3>2
  <2>7. ASSUME Drift' = {}
        PROVE  /\ \A t \in Target : Reachable(t) => Rewritten(t)
               /\ (\A y \in Live : copies[y] = intent) => \A y \in Live : copies'[y] = intent'
    <3>1. late = {} /\ (left(ok) # {} => "shared" \notin Shared(x, drop))
      BY <2>2, <2>7, CracksReported
    <3>2. ASSUME NEW t \in Target, t # x PROVE Rewritten(t)
      <4>1. planted'[t] = planted[t] /\ Recorded(t)' = Recorded(t)
        BY <1>2, <2>4, <3>2 DEF Recorded, BreaksTyped, Target
      <4> QED
        BY <4>1, UntouchedRewritten
    <3>3. Rewritten(x)
      <4>1. planted'[x] = Resent(planted[x], (copies[x] \cup own[x]) \ drop, ok)
        BY <1>2, <2>4, <3>1 DEF BreaksTyped, Target
      <4>2. Recorded(x)' = (copies[x] \cup own[x]) \ left(ok)
        BY <1>1, <1>2, <2>4 DEF Recorded, BreaksTyped
      <4>3. Recorded(x) = copies[x] \cup own[x]
        BY <1>1 DEF Recorded
      <4>4. \A k \in Key : k \in Recorded(x)' <=>
              IF FileOf(k) \in ok THEN k \in (copies[x] \cup own[x]) \ drop
              ELSE k \in Recorded(x)
        BY <4>2, <4>3, <2>3
      <4> QED
        BY <4>1, <4>4 DEF Rewritten
    <3>4. left(ok) = {} \/ drop \cap copies[x] = {}
      BY <3>1 DEF Shared
    <3>5. left(ok) \subseteq drop
      BY DEF left
    <3>6. copies' = copies
      BY <1>2, <2>4, <3>4, <3>5 DEF BreaksTyped
    <3>7. \A t \in Target : Reachable(t) => Rewritten(t)
      BY <3>2, <3>3
    <3> QED
      BY <2>4, <3>6, <3>7
  <2>8. /\ Op(c) # "capture"
        /\ \A y \in Child : child[y] # "live" => own'[y] \subseteq own[y]
    BY <1>1, <1>2, <2>4 DEF BreaksTyped
  <2> QED
    BY <1>1, <2>3, <2>4, <2>5, <2>6, <2>7, <2>8, MutationKept
<1> QED
  BY <1>0, <1>3, <1>4 DEF DropScoped, Refuse

LEMMA CaptureFacts ==
  ASSUME Typed, NEW c \in Cli, pc[c] \in Capturing
  PROVE  /\ Op(c) = "capture" /\ Tgt(c) \in Target /\ KeyOf(c) \in Key
         /\ req[c] \in Request
         /\ req' = req => KeyOf(c)' = KeyOf(c)
<1>1. req[c] \in Request /\ Op(c) = "capture"
  BY DEF Typed, Asked, Capturing
<1>2. Tgt(c) \in Target
  BY <1>1, RequestParts DEF Tgt
<1>3. req' = req => KeyOf(c)' = KeyOf(c)
  BY DEF KeyOf
<1> QED
  BY <1>1, <1>2, <1>3, CaptureKey

LEMMA UnplantTyped ==
  ASSUME Typed, NEW c \in Cli, pc[c] \in Capturing,
         NEW p \in Target, NEW sent \in SUBSET Key, Unplant(c, p, sent)
  PROVE  /\ BreaksTyped' /\ holes' \subseteq Cracks
         /\ outstanding' = Released(c) /\ pc' = [pc EXCEPT ![c] = "done"]
         /\ \E r \in {"ok", "error"} :
              result' = [result EXCEPT ![c] = IF @ = "none" THEN r ELSE @]
<1>1. /\ Tgt(c) \in Target /\ KeyOf(c) \in Key
      /\ Tgt(c) # Main => Tgt(c) \in Child
  BY CaptureFacts DEF Target
<1>2. BreaksTyped /\ holes \subseteq Cracks
  BY DEF Typed, TypeOK, BreaksTyped, Cracks
<1>3. Wire(p, Tgt(c)) \in Target
  BY <1>1 DEF Wire, Target
<1>4. \A f, a, b : Stale(f, a, b) \subseteq Cracks
  BY DEF Stale, Cracks
<1>5. \A x, d : Shared(x, d) \subseteq Cracks
  BY DEF Shared, Cracks
<1>6. /\ outstanding' = Released(c) /\ pc' = [pc EXCEPT ![c] = "done"]
      /\ \E r \in {"ok", "error"} :
           result' = [result EXCEPT ![c] = IF @ = "none" THEN r ELSE @]
  BY DEF Unplant, EndCapture, Report, Goto
<1>7. ASSUME NEW keys \in SUBSET Key, NEW files,
             planted' = [planted EXCEPT ![Wire(p, Tgt(c))] = Resent(@, keys, files)]
      PROVE  planted' \in [Target -> SUBSET Key]
  BY <1>2, <1>3, <1>7, ResentTyped DEF BreaksTyped
<1>8. CASE UNCHANGED <<bridge, holes>>
  BY <1>2, <1>6, <1>8 DEF bridge, BreaksTyped
<1>9. CASE /\ planted' = [planted EXCEPT ![Wire(p, Tgt(c))] =
                            Resent(@, sent, {FileOf(KeyOf(c))})]
           /\ holes' = holes \cup (IF Wire(p, Tgt(c)) # Tgt(c) THEN {"misrouted"} ELSE {})
                             \cup Stale(FileOf(KeyOf(c)), sent, intent)
           /\ UNCHANGED <<intent, copies, own>>
  <2>1. BreaksTyped'
    BY <1>2, <1>7, <1>9 DEF BreaksTyped
  <2>2. holes' \subseteq Cracks
    BY <1>2, <1>4, <1>9 DEF Cracks
  <2> QED
    BY <1>6, <2>1, <2>2
<1>10. CASE /\ Tgt(c) # Main
            /\ DropChild(Tgt(c), {KeyOf(c)}, Wire(p, Tgt(c)), {FileOf(KeyOf(c))}, {})
            /\ holes' = holes \cup (IF Wire(p, Tgt(c)) # Tgt(c) THEN {"misrouted"} ELSE {})
                              \cup Shared(Tgt(c), {KeyOf(c)})
  <2>1. copies[Tgt(c)] \cup own[Tgt(c)] \subseteq Key
    BY <1>1, <1>2, <1>10 DEF BreaksTyped
  <2>2. planted' \in [Target -> SUBSET Key]
    BY <1>7, <1>10, <2>1 DEF DropChild
  <2>3. BreaksTyped'
    BY <1>1, <1>2, <1>10, <2>2 DEF BreaksTyped, DropChild
  <2>4. holes' \subseteq Cracks
    BY <1>2, <1>5, <1>10 DEF Cracks
  <2> QED
    BY <1>6, <2>3, <2>4
<1> QED
  BY <1>8, <1>9, <1>10 DEF Unplant

LEMMA TypeStep == Typed /\ [Next]_vars => Typed'
<1> SUFFICES ASSUME Typed, [Next]_vars PROVE Typed'
  OBVIOUS
<1> USE BreakIntentAssumption
    DEF Typed, TypeOK, Op, Tgt, Goto, Report, Fail, bridge, roster, persist, Capturing,
        Persisting
<1>1. ASSUME NEW c \in Cli, Submit(c) PROVE Typed'
  <2>1. TypeOK'
    BY <1>1 DEF Submit
  <2>2. Alone(c)
    BY <1>1 DEF Submit, Alone
  <2>3. Asked(c)'
    BY <1>1 DEF Submit, Asked
  <2> QED
    BY <2>1, <2>2, <2>3, AskedAlone
<1>2. ASSUME NEW c \in Cli, Accept(c) PROVE Typed'
  <2>1. TypeOK'
    BY <1>2 DEF Accept
  <2>2. Alone(c)
    BY <1>2 DEF Accept, Alone
  <2>3. Asked(c)'
    BY <1>2 DEF Accept, Asked
  <2> QED
    BY <2>1, <2>2, <2>3, AskedAlone
<1>3. ASSUME NEW c \in Cli, AddGlobal(c) PROVE Typed'
  BY <1>3, AddGlobalKept DEF Kept
<1>4. ASSUME NEW c \in Cli, DropGlobal(c) PROVE Typed'
  BY <1>4, DropGlobalKept DEF Kept
<1>5. ASSUME NEW c \in Cli, AddScoped(c) PROVE Typed'
  BY <1>5, AddScopedKept DEF Kept
<1>6. ASSUME NEW c \in Cli, DropScoped(c) PROVE Typed'
  BY <1>6, DropScopedKept DEF Kept
<1>7. ASSUME NEW c \in Cli, CheckPlant(c) PROVE Typed'
  <2>0. /\ Op(c) = "capture" /\ Tgt(c) \in Target /\ KeyOf(c) \in Key
        /\ req[c] \in Request /\ KeyOf(c)' = KeyOf(c)
    BY <1>7, CaptureFacts DEF CheckPlant
  <2>a. Recorded(Tgt(c)) \subseteq Key
    BY <2>0 DEF Recorded, Target
  <2>b. /\ read' = read \/ read' = [read EXCEPT ![c] = On(FileOf(KeyOf(c)), Recorded(Tgt(c)))]
        /\ UNCHANGED <<intent, copies, own, planted, child, snap, req, token, confirmed,
                       file, flock, holes>>
    BY <1>7 DEF CheckPlant
  <2>c. /\ result' = result \/ \E r \in {"ok", "error"} :
             result' = [result EXCEPT ![c] = IF @ = "none" THEN r ELSE @]
        /\ outstanding' = outstanding \/ outstanding' = Released(c)
        /\ \E l \in {"done", "wait", "send"} : pc' = [pc EXCEPT ![c] = l]
    BY <1>7 DEF CheckPlant, EndCapture
  <2>1. TypeOK'
    BY <2>a, <2>b, <2>c DEF Released, On
  <2>2. Alone(c)
    BY <1>7, <2>0 DEF CheckPlant, EndCapture, Released, On, Alone
  <2>3. Asked(c)'
    BY <1>7, <2>0 DEF CheckPlant, EndCapture, Released, On, Asked
  <2> QED
    BY <2>1, <2>2, <2>3, AskedAlone
<1>8. ASSUME NEW c \in Cli, SendPlant(c) PROVE Typed'
  <2>0. /\ Op(c) = "capture" /\ Tgt(c) \in Target /\ KeyOf(c) \in Key
        /\ req[c] \in Request /\ KeyOf(c)' = KeyOf(c)
    BY <1>8, CaptureFacts DEF SendPlant
  <2> DEFINE has == Recorded(Tgt(c))
              sent == Merged(IF Tgt(c) = Main THEN read[c] ELSE has, {KeyOf(c)})
  <2>1. has \subseteq Key /\ sent \subseteq Key
    BY <2>0 DEF Recorded, Merged, Target
  <2>2. Resent(planted[Tgt(c)], sent, {FileOf(KeyOf(c))}) \subseteq Key
    BY <2>0, <2>1, ResentTyped
  <2>3. \A f, a, b : Stale(f, a, b) \subseteq {"stale"}
    BY DEF Stale
  <2>4. \/ /\ planted' = [planted EXCEPT ![Tgt(c)] =
                             Resent(@, sent, {FileOf(KeyOf(c))})]
           /\ own' = IF Tgt(c) = Main THEN own
                     ELSE [own EXCEPT ![Tgt(c)] = @ \cup {KeyOf(c)}]
           /\ token' = [token EXCEPT ![c] = <<Tgt(c), KeyOf(c)>>]
           /\ holes' = holes \cup Stale(FileOf(KeyOf(c)), read[c], has)
        \/ /\ UNCHANGED <<planted, own>>
           /\ token' = [token EXCEPT ![c] = IF KeyOf(c) \in own[Tgt(c)]
                                            THEN <<Tgt(c), KeyOf(c)>> ELSE NoToken]
           /\ holes' = holes \cup Stale(FileOf(KeyOf(c)), read[c], has)
        \/ /\ UNCHANGED <<own, token>>
           /\ \/ UNCHANGED <<planted, holes>>
              \/ /\ planted' = [planted EXCEPT ![Tgt(c)] =
                                  Resent(@, sent, {FileOf(KeyOf(c))})]
                 /\ holes' = holes \cup {"late"}
    BY <1>8 DEF SendPlant
  <2> HIDE DEF has, sent
  <2>5. \/ /\ pc' = [pc EXCEPT ![c] = "wait"]
           /\ UNCHANGED <<outstanding, result>>
        \/ /\ pc' = [pc EXCEPT ![c] = "done"] /\ outstanding' = Released(c)
           /\ result' = [result EXCEPT ![c] = IF @ = "none" THEN "error" ELSE @]
           /\ token' = token
    BY <1>8 DEF SendPlant, EndCapture
  <2>6. UNCHANGED <<intent, copies, child, snap, req, read, confirmed, file, flock>>
    BY <1>8 DEF SendPlant
  <2>7. TypeOK'
    <3>1. planted' \in [Target -> SUBSET Key]
      BY <2>2, <2>4
    <3>2. own' \in [Child -> SUBSET Key]
      BY <2>0, <2>4
    <3>3. token' \in [Cli -> (Target \X Key) \cup {NoToken}]
      <4>1. <<Tgt(c), KeyOf(c)>> \in Target \X Key
        BY <2>0
      <4> QED
        BY <2>4, <4>1
    <3>4. /\ outstanding' \in [Target -> Cli \cup {NoOne}]
          /\ result' \in [Cli -> {"none", "ok", "error"}]
          /\ pc' \in [Cli -> {"idle", "accept", "run", "plant", "send", "wait", "unplant",
                              "lock", "read", "write", "done"}]
      BY <2>5 DEF Released
    <3>5. holes' \subseteq {"late", "behind", "raced", "shared", "stale", "misrouted",
                           "crossed", "unpersisted"}
      BY <2>3, <2>4
    <3> QED
      BY <2>6, <3>1, <3>2, <3>3, <3>4, <3>5
  <2>8. Alone(c)
    BY <2>4, <2>5, <2>6 DEF Alone
  <2>9. Asked(c)'
    <3>1. /\ pc[c] = "send" /\ token[c] = NoToken /\ result[c] \in {"none", "error"}
      BY <1>8 DEF SendPlant, Asked
    <3>2. token'[c] \in {NoToken, <<Tgt(c), KeyOf(c)>>}
      BY <2>4, <3>1
    <3>3. (pc'[c] = "wait" /\ result' = result) \/ pc'[c] = "done"
      BY <2>5
    <3>4. Tgt(c)' = Tgt(c) /\ Op(c)' = Op(c) /\ req' = req
      BY <2>6 DEF Tgt, Op
    <3> QED
      BY <2>0, <3>1, <3>2, <3>3, <3>4 DEF Asked
  <2> QED
    BY <2>7, <2>8, <2>9, AskedAlone
<1>9. ASSUME NEW c \in Cli, Park(c) PROVE Typed'
  <2>0. /\ Op(c) = "capture" /\ Tgt(c) \in Target /\ KeyOf(c) \in Key
        /\ req[c] \in Request /\ KeyOf(c)' = KeyOf(c)
    BY <1>9, CaptureFacts DEF Park
  <2>1. /\ BreaksTyped' /\ holes' \subseteq Cracks
        /\ outstanding' = Released(c) /\ pc' = [pc EXCEPT ![c] = "done"]
        /\ \E r \in {"ok", "error"} :
             result' = [result EXCEPT ![c] = IF @ = "none" THEN r ELSE @]
    BY <1>9, <2>0, UnplantTyped DEF Park, On
  <2>2. TypeOK'
    BY <1>9, <2>1 DEF Park, Released, BreaksTyped, Cracks
  <2>3. Alone(c)
    BY <1>9, <2>1 DEF Park, Alone
  <2>4. Asked(c)'
    BY <1>9, <2>0, <2>1 DEF Park, Asked
  <2> QED
    BY <2>2, <2>3, <2>4, AskedAlone
<1>10. ASSUME NEW c \in Cli, Timeout(c) PROVE Typed'
  <2>0. /\ Op(c) = "capture" /\ Tgt(c) \in Target /\ KeyOf(c) \in Key
        /\ req[c] \in Request /\ KeyOf(c)' = KeyOf(c)
    BY <1>10, CaptureFacts DEF Timeout
  <2>1. TypeOK'
    BY <1>10, <2>0 DEF Timeout, On
  <2>2. Alone(c)
    BY <1>10, <2>0 DEF Timeout, On, Alone
  <2>3. Asked(c)'
    BY <1>10, <2>0 DEF Timeout, On, Asked
  <2> QED
    BY <2>1, <2>2, <2>3, AskedAlone
<1>11. ASSUME NEW c \in Cli, SendUnplant(c) PROVE Typed'
  <2>0. /\ Op(c) = "capture" /\ Tgt(c) \in Target /\ KeyOf(c) \in Key
        /\ req[c] \in Request /\ KeyOf(c)' = KeyOf(c)
    BY <1>11, CaptureFacts DEF SendUnplant
  <2>1. /\ BreaksTyped' /\ holes' \subseteq Cracks
        /\ outstanding' = Released(c) /\ pc' = [pc EXCEPT ![c] = "done"]
        /\ \E r \in {"ok", "error"} :
             result' = [result EXCEPT ![c] = IF @ = "none" THEN r ELSE @]
    BY <1>11, <2>0, UnplantTyped DEF SendUnplant, Target
  <2>2. TypeOK'
    BY <1>11, <2>1 DEF SendUnplant, Released, BreaksTyped, Cracks
  <2>3. Alone(c)
    BY <1>11, <2>1 DEF SendUnplant, Alone
  <2>4. Asked(c)'
    BY <1>11, <2>0, <2>1 DEF SendUnplant, Asked
  <2> QED
    BY <2>2, <2>3, <2>4, AskedAlone
<1>12. ASSUME NEW c \in Cli, GiveUp(c) PROVE Typed'
  <2>1. TypeOK'
    BY <1>12 DEF GiveUp
  <2>2. Alone(c)
    BY <1>12 DEF GiveUp, Alone
  <2>3. KeyOf(c)' = KeyOf(c)
    BY <1>12 DEF GiveUp, KeyOf
  <2>4. Asked(c)'
    BY <1>12, <2>3 DEF GiveUp, Asked
  <2> QED
    BY <2>1, <2>2, <2>4, AskedAlone
<1>13. ASSUME NEW c \in Cli, Lock(c) PROVE Typed'
  <2>1. TypeOK'
    BY <1>13 DEF Lock, Unpersisted
  <2>2. Alone(c)
    BY <1>13 DEF Lock, Unpersisted, Alone
  <2>3. Asked(c)'
    BY <1>13 DEF Lock, Unpersisted, Asked
  <2> QED
    BY <2>1, <2>2, <2>3, AskedAlone
<1>14. ASSUME NEW c \in Cli, ReadFile(c) PROVE Typed'
  <2>1. TypeOK'
    BY <1>14 DEF ReadFile
  <2>2. Alone(c)
    BY <1>14 DEF ReadFile, Alone
  <2>3. Asked(c)'
    BY <1>14 DEF ReadFile, Asked
  <2> QED
    BY <2>1, <2>2, <2>3, AskedAlone
<1>15. ASSUME NEW c \in Cli, WriteFile(c) PROVE Typed'
  <2>1. TypeOK'
    BY <1>15 DEF WriteFile, Edited
  <2>2. Alone(c)
    BY <1>15 DEF WriteFile, Edited, Alone
  <2>3. Asked(c)'
    BY <1>15 DEF WriteFile, Edited, Asked
  <2> QED
    BY <2>1, <2>2, <2>3, AskedAlone
<1>16. ASSUME NEW c \in Cli, PersistFails(c) PROVE Typed'
  <2>1. TypeOK'
    BY <1>16 DEF PersistFails, Unpersisted
  <2>2. Alone(c)
    BY <1>16 DEF PersistFails, Unpersisted, Alone
  <2>3. Asked(c)'
    BY <1>16 DEF PersistFails, Unpersisted, Asked
  <2> QED
    BY <2>1, <2>2, <2>3, AskedAlone
<1>17. ASSUME NEW x \in Child, Claim(x) PROVE Typed'
  BY <1>17, AskedRoster DEF Claim
<1>18. ASSUME NEW x \in Child, Commit(x) PROVE Typed'
  BY <1>18, AskedRoster DEF Commit
<1>19. ASSUME NEW x \in Child, Exit(x) PROVE Typed'
  <2>1. TypeOK'
    BY <1>19 DEF Exit, Target
  <2> QED
    BY <1>19, <2>1, AskedRoster DEF Exit
<1>20. ASSUME UNCHANGED vars PROVE Typed'
  <2>1. TypeOK'
    BY <1>20 DEF vars
  <2> QED
    BY <1>20, <2>1, AskedRoster DEF vars
<1> QED
  BY <1>1, <1>2, <1>3, <1>4, <1>5, <1>6, <1>7, <1>8, <1>9, <1>10, <1>11, <1>12, <1>13, <1>14, <1>15, <1>16, <1>17, <1>18, <1>19, <1>20 DEF Next, Handle, Persist

-----------------------------------------------------------------------------
LEMMA InitBreaks == Init => BreaksInv
<1> SUFFICES ASSUME Init PROVE BreaksInv
  OBVIOUS
<1>1. Live = {} /\ \A t \in Target : Reachable(t) => t = Main
  BY DEF Init, Live, Reachable
<1>2. Matches(Main)
  BY DEF Init, Matches, Recorded, Target
<1>3. /\ \A x \in Child : own[x] = {}
      /\ \A x \in Child : child[x] # "arming"
  BY DEF Init
<1> QED
  BY <1>1, <1>2, <1>3 DEF BreaksInv

(* What is sent to a target is right when it has, on the files it names,   *)
(* what is on record afterwards and breaks of captures.                    *)
LEMMA SentMatches ==
  ASSUME Typed, Typed', NEW t \in Target, Matches(t), NEW sent, NEW files,
         planted'[t] = Resent(planted[t], sent, files),
         \A k \in Key : FileOf(k) \in files =>
           /\ k \in Recorded(t)' => k \in sent
           /\ k \in sent => k \in Recorded(t)' \cup Ephemeral(t)',
         \A k \in Key : FileOf(k) \notin files =>
           /\ k \in Recorded(t)' <=> k \in Recorded(t)
           /\ k \in Ephemeral(t) => k \in Ephemeral(t)'
  PROVE  Matches(t)'
<1>1. /\ Recorded(t) \subseteq Key /\ planted[t] \subseteq Key
      /\ Recorded(t)' \subseteq Key /\ planted'[t] \subseteq Key
  BY DEF Recorded, Typed, TypeOK, Target
<1>2. Recorded(t)' \subseteq planted'[t]
  BY <1>1 DEF Resent, Matches
<1>3. planted'[t] \subseteq Recorded(t)' \cup Ephemeral(t)'
  BY <1>1 DEF Resent, Matches
<1> QED
  BY <1>2, <1>3 DEF Matches

LEMMA UntouchedMatches ==
  ASSUME NEW t \in Target, Matches(t), planted'[t] = planted[t],
         Recorded(t)' = Recorded(t), Ephemeral(t) \subseteq Ephemeral(t)'
  PROVE  Matches(t)'
BY DEF Matches

(* A section that leaves the intent alone.                                 *)
LEMMA SectionBreaks ==
  ASSUME BreaksInv, UNCHANGED <<intent, roster>>, holes \subseteq holes',
         \A x \in Child : child[x] # "live" => own'[x] \subseteq own[x],
         Drift' = {} =>
           /\ \A x \in Live : copies'[x] = copies[x]
           /\ \A t \in Target : Reachable(t) /\ Matches(t) => Matches(t)'
  PROVE  BreaksInv'
<1>1. Live' = Live /\ \A t : Reachable(t)' = Reachable(t)
  BY DEF Live, Reachable, roster
<1>2. Drift' = {} => Drift = {}
  BY DEF Drift
<1>3. \A x \in Child : child'[x] \in {"unborn", "arming"} => own'[x] = {}
  BY DEF BreaksInv, roster
<1>4. ASSUME Drift' = {}
      PROVE  /\ \A t \in Target : Reachable(t) => Matches(t)'
             /\ \A x \in Live : copies'[x] = intent
             /\ \A x \in Child : child[x] = "arming" => snap[x] = intent
  BY <1>2, <1>4 DEF BreaksInv
<1> QED
  BY <1>1, <1>3, <1>4 DEF BreaksInv, roster

LEMMA QuietBreaks ==
  ASSUME BreaksInv, UNCHANGED <<bridge, roster>>, holes \subseteq holes',
         \A t \in Target : Ephemeral(t) \subseteq Ephemeral(t)'
  PROVE  BreaksInv'
<1>1. \A t \in Target : Matches(t) => Matches(t)'
  BY UntouchedMatches DEF bridge, Recorded
<1> QED
  BY <1>1, SectionBreaks DEF bridge

LEMMA EphemeralLess ==
  ASSUME Typed, NEW c \in Cli, NEW t \in Target, Alone(c), token' = token,
         NEW k \in Ephemeral(t), k \notin Ephemeral(t)'
  PROVE  t = Tgt(c) /\ k = KeyOf(c)
<1>1. PICK d \in Cli : /\ token[d] # NoToken /\ token[d][1] = t /\ k = token[d][2]
                       /\ pc[d] # "done" \/ result[d] = "error"
  BY DEF Ephemeral
<1>2. d = c
  BY <1>1 DEF Ephemeral, Alone
<1> QED
  BY <1>1, <1>2 DEF Typed, Asked

LEMMA UnplantBreaks ==
  ASSUME Typed, Typed', BreaksInv, NEW c \in Cli, pc[c] \in {"wait", "unplant"},
         NEW p \in Target, NEW sent \in SUBSET Key, Unplant(c, p, sent),
         UNCHANGED <<roster, req, token>>
  PROVE  BreaksInv'
<1>1. PICK t \in Target : t = Tgt(c)
  BY CaptureFacts DEF Capturing
<1>2. PICK k \in Key : k = KeyOf(c)
  BY CaptureFacts DEF Capturing
<1> DEFINE w == Wire(p, t)
           f == FileOf(k)
           misrouted == IF w # t THEN {"misrouted"} ELSE {}
<1>3. /\ pc' = [pc EXCEPT ![c] = "done"]
      /\ \E r \in {"ok", "error"} :
           result' = [result EXCEPT ![c] = IF @ = "none" THEN r ELSE @]
  BY UnplantTyped DEF Capturing
<1>4. Alone(c)
  BY <1>3 DEF Alone, Typed, TypeOK
<1>5. BreaksTyped /\ BreaksTyped'
  BY DEF BreaksTyped, Typed, TypeOK
<1>6. CASE token[c] = NoToken /\ UNCHANGED <<bridge, holes>>
  BY <1>4, <1>6, EphemeralKept, QuietBreaks
<1>7. CASE EndCapture(c, "error") /\ UNCHANGED <<bridge, holes>>
  <2>1. result'[c] = "error"
    BY <1>7 DEF EndCapture, Report, Typed, TypeOK, Asked
  <2>2. \A u \in Target : Ephemeral(u) \subseteq Ephemeral(u)'
    BY <1>4, <2>1 DEF Ephemeral, Alone
  <2> QED
    BY <1>7, <2>2, QuietBreaks
<1>8. CASE /\ t = Main
           /\ planted' = [planted EXCEPT ![w] = Resent(@, sent, {f})]
           /\ holes' = holes \cup misrouted \cup Stale(f, sent, intent)
           /\ UNCHANGED <<intent, copies, own>>
  <2>1. ASSUME Drift' = {} PROVE w = Main /\ sent = On(f, intent)
    BY <1>8, <2>1 DEF Drift, Stale
  <2> HIDE DEF w, misrouted
  <2>2. ASSUME Drift' = {}, NEW u \in Target, Matches(u) PROVE Matches(u)'
    <3>1. CASE u = Main
      <4>1. planted'[u] = Resent(planted[u], On(f, intent), {f})
        BY <1>5, <1>8, <2>1, <2>2, <3>1 DEF BreaksTyped
      <4>2. Recorded(u)' = intent /\ Recorded(u) = intent
        BY <1>8, <3>1 DEF Recorded
      <4>3. \A l \in Key : FileOf(l) \in {f} => (l \in On(f, intent) <=> l \in intent)
        BY DEF On
      <4>4. \A l \in Key : FileOf(l) \notin {f} => (l \in Ephemeral(u) => l \in Ephemeral(u)')
        BY <1>2, <1>4, EphemeralLess
      <4> QED
        BY <2>2, <4>1, <4>2, <4>3, <4>4, SentMatches
    <3>2. CASE u # Main
      <4>1. planted'[u] = planted[u] /\ Recorded(u)' = Recorded(u)
        BY <1>5, <1>8, <2>1, <2>2, <3>2 DEF BreaksTyped, Recorded
      <4>2. Ephemeral(u) \subseteq Ephemeral(u)'
        BY <1>1, <1>4, <1>8, <3>2, EphemeralLess
      <4> QED
        BY <2>2, <4>1, <4>2, UntouchedMatches
    <3> QED
      BY <3>1, <3>2
  <2> QED
    BY <1>8, <2>2, SectionBreaks
<1>9. CASE /\ t # Main /\ child[t] = "live"
           /\ DropChild(t, {k}, w, {f}, {})
           /\ holes' = holes \cup misrouted \cup Shared(t, {k})
  <2>1. t \in Child
    BY <1>9 DEF Target
  <2>2. /\ copies' = [copies EXCEPT ![t] = @ \ {k}]
        /\ own' = [own EXCEPT ![t] = @ \ {k}]
        /\ planted' = [planted EXCEPT ![w] =
             Resent(@, (copies[t] \cup own[t]) \ {k}, {f} \cup {})]
        /\ UNCHANGED intent
    <3>1. {l \in {k} : FileOf(l) \in {f}} = {k}
      OBVIOUS
    <3> QED
      BY <1>9, <3>1 DEF DropChild
  <2>3. ASSUME Drift' = {} PROVE w = t /\ k \notin copies[t]
    BY <1>9, <2>3 DEF Drift, Shared
  <2>4. Drift' = {} => copies' = copies
    BY <1>5, <2>1, <2>2, <2>3 DEF BreaksTyped
  <2> HIDE DEF w, misrouted
  <2>5. ASSUME Drift' = {}, NEW u \in Target, Matches(u) PROVE Matches(u)'
    <3>1. CASE u = t
      <4>1. planted'[u] = Resent(planted[u], (copies[u] \cup own[u]) \ {k}, {f})
        BY <1>5, <2>2, <2>3, <2>5, <3>1 DEF BreaksTyped
      <4>2. Recorded(u)' = (copies[u] \cup own[u]) \ {k}
        BY <1>5, <1>9, <2>1, <2>2, <2>3, <2>5, <3>1 DEF BreaksTyped, Recorded
      <4>3. Recorded(u) = copies[u] \cup own[u]
        BY <1>9, <3>1 DEF Recorded
      <4>4. \A l \in Key : FileOf(l) \notin {f} => (l \in Recorded(u)' <=> l \in Recorded(u))
        BY <4>2, <4>3
      <4>5. \A l \in Key : FileOf(l) \notin {f} => (l \in Ephemeral(u) => l \in Ephemeral(u)')
        BY <1>2, <1>4, EphemeralLess
      <4> QED
        BY <2>5, <4>1, <4>2, <4>4, <4>5, SentMatches
    <3>2. CASE u # t
      <4>1. planted'[u] = planted[u] /\ Recorded(u)' = Recorded(u)
        BY <1>5, <2>1, <2>2, <2>3, <2>5, <3>2 DEF BreaksTyped, Recorded, Target
      <4>2. Ephemeral(u) \subseteq Ephemeral(u)'
        BY <1>1, <1>4, <3>2, EphemeralLess
      <4> QED
        BY <2>5, <4>1, <4>2, UntouchedMatches
    <3> QED
      BY <3>1, <3>2
  <2>6. \A x \in Child : child[x] # "live" => own'[x] \subseteq own[x]
    BY <1>5, <1>9, <2>1, <2>2 DEF BreaksTyped
  <2> QED
    BY <1>9, <2>2, <2>4, <2>5, <2>6, SectionBreaks
<1> QED
  BY <1>1, <1>2, <1>6, <1>7, <1>8, <1>9 DEF Unplant

LEMMA SendPlantBreaks ==
  ASSUME Typed, Typed', BreaksInv, NEW c \in Cli, SendPlant(c)
  PROVE  BreaksInv'
<1>0. pc[c] = "send" /\ token[c] = NoToken
  BY NoTokenYet DEF SendPlant
<1>1. PICK t \in Target : t = Tgt(c)
  BY <1>0, CaptureFacts DEF Capturing
<1>2. PICK k \in Key : k = KeyOf(c)
  BY <1>0, CaptureFacts DEF Capturing
<1> DEFINE f == FileOf(k)
           has == Recorded(t)
           sent == Merged(IF t = Main THEN read[c] ELSE has, {k})
<1>3. \/ /\ Reachable(t)
         /\ planted' = [planted EXCEPT ![t] = Resent(@, sent, {f})]
         /\ own' = IF t = Main THEN own ELSE [own EXCEPT ![t] = @ \cup {k}]
         /\ token' = [token EXCEPT ![c] = <<t, k>>]
         /\ holes' = holes \cup Stale(f, read[c], has)
         /\ pc' = [pc EXCEPT ![c] = "wait"]
      \/ /\ UNCHANGED <<planted, own>>
         /\ holes \subseteq holes'
      \/ /\ UNCHANGED own /\ holes' = holes \cup {"late"}
  BY <1>1, <1>2 DEF SendPlant, Goto
<1>4. /\ UNCHANGED <<intent, copies, roster>>
      /\ \A d \in Cli \ {c} : pc'[d] = pc[d] /\ token'[d] = token[d] /\ result'[d] = result[d]
  BY DEF SendPlant, EndCapture, Goto, Report, Typed, TypeOK
<1>5. \A u \in Target : Ephemeral(u) \subseteq Ephemeral(u)'
  BY <1>0, <1>4 DEF Ephemeral
<1>6. BreaksTyped /\ BreaksTyped'
  BY DEF BreaksTyped, Typed, TypeOK
<1>7. CASE UNCHANGED <<planted, own>> /\ holes \subseteq holes'
  BY <1>4, <1>5, <1>7, QuietBreaks DEF bridge
<1>8. CASE UNCHANGED own /\ holes' = holes \cup {"late"}
  BY <1>4, <1>8, SectionBreaks DEF Drift
<1>9. CASE /\ Reachable(t)
           /\ planted' = [planted EXCEPT ![t] = Resent(@, sent, {f})]
           /\ own' = IF t = Main THEN own ELSE [own EXCEPT ![t] = @ \cup {k}]
           /\ token' = [token EXCEPT ![c] = <<t, k>>]
           /\ holes' = holes \cup Stale(f, read[c], has)
           /\ pc' = [pc EXCEPT ![c] = "wait"]
  <2>1. k \in Ephemeral(t)'
    <3>1. token'[c] = <<t, k>> /\ pc'[c] = "wait"
      BY <1>9 DEF Typed, TypeOK
    <3> QED
      BY <3>1 DEF Ephemeral, NoToken
  <2>2. Drift' = {} => read[c] = On(f, has)
    BY <1>9 DEF Drift, Stale
  <2>3. t # Main => t \in Live
    BY <1>9 DEF Reachable
  <2>4. ASSUME Drift' = {}, NEW u \in Target, Matches(u) PROVE Matches(u)'
    <3>1. CASE u = t
      <4>1. planted'[u] = Resent(planted[u], sent, {f})
        BY <1>6, <1>9, <3>1 DEF BreaksTyped
      <4>2. Recorded(u)' = IF t = Main THEN has ELSE has \cup {k}
        BY <1>4, <1>6, <1>9, <2>3, <3>1 DEF Recorded, BreaksTyped, Live
      <4>3. \A l \in Key : FileOf(l) \in {f} => (l \in sent <=> l \in has \cup {k})
        BY <2>2, <2>4 DEF On, Merged
      <4> HIDE DEF sent, has
      <4>4. \A l \in Key : FileOf(l) \in {f} =>
              /\ l \in Recorded(u)' => l \in sent
              /\ l \in sent => l \in Recorded(u)' \cup Ephemeral(u)'
        BY <2>1, <3>1, <4>2, <4>3
      <4>5. \A l \in Key : FileOf(l) \notin {f} => (l \in Recorded(u)' <=> l \in Recorded(u))
        BY <3>1, <4>2 DEF has
      <4> QED
        BY <1>5, <2>4, <4>1, <4>4, <4>5, SentMatches
    <3>2. CASE u # t
      <4>1. planted'[u] = planted[u] /\ Recorded(u)' = Recorded(u)
        BY <1>4, <1>6, <1>9, <2>3, <3>2 DEF Recorded, BreaksTyped, Target
      <4> QED
        BY <1>5, <2>4, <4>1, UntouchedMatches
    <3> QED
      BY <3>1, <3>2
  <2>5. \A x \in Child : child[x] # "live" => own'[x] \subseteq own[x]
    BY <1>6, <1>9, <2>3 DEF BreaksTyped, Live
  <2> QED
    BY <1>4, <1>9, <2>4, <2>5, SectionBreaks
<1> QED
  BY <1>3, <1>7, <1>8, <1>9

(* The breaks on the adapters, step by step: each section that sends a     *)
(* file sends it as it will be on record.                                  *)
LEMMA BreaksStep == Typed /\ Typed' /\ BreaksInv /\ [Next]_vars => BreaksInv'
<1> SUFFICES ASSUME Typed, Typed', BreaksInv, [Next]_vars PROVE BreaksInv'
  OBVIOUS
<1>1. ASSUME NEW c \in Cli, Submit(c) PROVE BreaksInv'
  <2>1. /\ UNCHANGED <<bridge, roster>> /\ holes \subseteq holes'
        /\ token[c] = NoToken /\ token' = token /\ Alone(c)
    BY <1>1, NoTokenYet DEF Submit, Alone, Goto, Report, Fail, Typed, TypeOK
  <2> QED
    BY <2>1, EphemeralKept, QuietBreaks
<1>2. ASSUME NEW c \in Cli, Accept(c) PROVE BreaksInv'
  <2>1. /\ UNCHANGED <<bridge, roster>> /\ holes \subseteq holes'
        /\ token[c] = NoToken /\ token' = token /\ Alone(c)
    BY <1>2, NoTokenYet DEF Accept, Alone, Goto, Report, Fail, Typed, TypeOK
  <2> QED
    BY <2>1, EphemeralKept, QuietBreaks
<1>3. ASSUME NEW c \in Cli, AddGlobal(c) PROVE BreaksInv'
  BY <1>3, AddGlobalKept DEF Kept
<1>4. ASSUME NEW c \in Cli, DropGlobal(c) PROVE BreaksInv'
  BY <1>4, DropGlobalKept DEF Kept
<1>5. ASSUME NEW c \in Cli, AddScoped(c) PROVE BreaksInv'
  BY <1>5, AddScopedKept DEF Kept
<1>6. ASSUME NEW c \in Cli, DropScoped(c) PROVE BreaksInv'
  BY <1>6, DropScopedKept DEF Kept
<1>7. ASSUME NEW c \in Cli, CheckPlant(c) PROVE BreaksInv'
  <2>1. /\ UNCHANGED <<bridge, roster>> /\ holes \subseteq holes'
        /\ token[c] = NoToken /\ token' = token /\ Alone(c)
    BY <1>7, NoTokenYet DEF CheckPlant, Alone, Goto, Report, Fail, Typed, TypeOK, EndCapture
  <2> QED
    BY <2>1, EphemeralKept, QuietBreaks
<1>8. ASSUME NEW c \in Cli, SendPlant(c) PROVE BreaksInv'
  BY <1>8, SendPlantBreaks
<1>9. ASSUME NEW c \in Cli, Park(c) PROVE BreaksInv'
  <2>1. PICK p \in Target : Unplant(c, p, On(FileOf(KeyOf(c)), intent))
    BY <1>9 DEF Park
  <2>2. pc[c] = "wait" /\ On(FileOf(KeyOf(c)), intent) \in SUBSET Key
    BY <1>9 DEF Park, On, Typed, TypeOK
  <2>3. UNCHANGED <<roster, req, token>>
    BY <1>9 DEF Park
  <2> QED
    BY <2>1, <2>2, <2>3, UnplantBreaks
<1>10. ASSUME NEW c \in Cli, Timeout(c) PROVE BreaksInv'
  <2>1. /\ UNCHANGED <<bridge, roster, holes, token, result>>
        /\ pc[c] = "wait" /\ pc' = [pc EXCEPT ![c] = "unplant"]
    BY <1>10 DEF Timeout, Goto
  <2>2. \A d \in Cli : pc[d] # "done" => pc'[d] # "done"
    BY <2>1 DEF Typed, TypeOK
  <2>3. \A t \in Target : Ephemeral(t) \subseteq Ephemeral(t)'
    BY <2>1, <2>2 DEF Ephemeral
  <2> QED
    BY <2>1, <2>3, QuietBreaks
<1>11. ASSUME NEW c \in Cli, SendUnplant(c) PROVE BreaksInv'
  <2>1. /\ Unplant(c, Main, read[c]) /\ pc[c] = "unplant" /\ read[c] \in SUBSET Key
        /\ UNCHANGED <<roster, req, token>>
    BY <1>11 DEF SendUnplant, Typed, TypeOK
  <2>2. Main \in Target
    BY DEF Target
  <2> QED
    BY <2>1, <2>2, UnplantBreaks
<1>12. ASSUME NEW c \in Cli, GiveUp(c) PROVE BreaksInv'
  <2>1. /\ UNCHANGED <<bridge, roster, holes, token, pc>>
        /\ \A d \in Cli : result[d] = "error" => result'[d] = "error"
    BY <1>12 DEF GiveUp, Report, persist, Typed, TypeOK
  <2>2. \A t \in Target : Ephemeral(t) \subseteq Ephemeral(t)'
    BY <2>1 DEF Ephemeral
  <2> QED
    BY <2>1, <2>2, QuietBreaks
<1>13. ASSUME NEW c \in Cli, Lock(c) PROVE BreaksInv'
  <2>1. /\ UNCHANGED <<bridge, roster>> /\ holes \subseteq holes'
        /\ token[c] = NoToken /\ token' = token /\ Alone(c)
    BY <1>13, NoTokenYet DEF Lock, Alone, Goto, Report, Fail, Typed, TypeOK, Unpersisted
  <2> QED
    BY <2>1, EphemeralKept, QuietBreaks
<1>14. ASSUME NEW c \in Cli, ReadFile(c) PROVE BreaksInv'
  <2>1. /\ UNCHANGED <<bridge, roster>> /\ holes \subseteq holes'
        /\ token[c] = NoToken /\ token' = token /\ Alone(c)
    BY <1>14, NoTokenYet DEF ReadFile, Alone, Goto, Report, Fail, Typed, TypeOK, persist
  <2> QED
    BY <2>1, EphemeralKept, QuietBreaks
<1>15. ASSUME NEW c \in Cli, WriteFile(c) PROVE BreaksInv'
  <2>1. /\ UNCHANGED <<bridge, roster>> /\ holes \subseteq holes'
        /\ token[c] = NoToken /\ token' = token /\ Alone(c)
    BY <1>15, NoTokenYet DEF WriteFile, Alone, Goto, Report, Fail, Typed, TypeOK
  <2> QED
    BY <2>1, EphemeralKept, QuietBreaks
<1>16. ASSUME NEW c \in Cli, PersistFails(c) PROVE BreaksInv'
  <2>1. /\ UNCHANGED <<bridge, roster>> /\ holes \subseteq holes'
        /\ token[c] = NoToken /\ token' = token /\ Alone(c)
    BY <1>16, NoTokenYet DEF PersistFails, Alone, Goto, Report, Fail, Typed, TypeOK, Unpersisted
  <2> QED
    BY <2>1, EphemeralKept, QuietBreaks
<1>17. ASSUME NEW x \in Child, Claim(x) PROVE BreaksInv'
  <2>1. /\ child[x] = "unborn" /\ child' = [child EXCEPT ![x] = "arming"]
        /\ snap' = [snap EXCEPT ![x] = intent]
        /\ UNCHANGED <<bridge, pc, token, result, holes>>
    BY <1>17 DEF Claim
  <2>2. Live' = Live /\ \A t : Reachable(t)' = Reachable(t)
    BY <2>1 DEF Live, Reachable, Typed, TypeOK
  <2>3. \A t \in Target : Matches(t) => Matches(t)'
    BY <2>1, UntouchedMatches DEF bridge, Recorded, Ephemeral
  <2>4. \A y \in Child : /\ child'[y] \in {"unborn", "arming"} => own'[y] = {}
                         /\ child'[y] = "arming" /\ Drift = {} => snap'[y] = intent
    BY <2>1 DEF BreaksInv, bridge, Typed, TypeOK
  <2> QED
    BY <2>1, <2>2, <2>3, <2>4 DEF BreaksInv, bridge, Drift
<1>18. ASSUME NEW x \in Child, Commit(x) PROVE BreaksInv'
  <2>1. /\ child[x] = "arming"
        /\ UNCHANGED <<intent, own, snap, pc, token, result, holes>>
        /\ \/ /\ child' = [child EXCEPT ![x] = "live"]
              /\ copies' = [copies EXCEPT ![x] = snap[x]]
              /\ planted' = [planted EXCEPT ![x] = snap[x]]
           \/ /\ child' = [child EXCEPT ![x] = "gone"]
              /\ UNCHANGED <<copies, planted>>
    BY <1>18 DEF Commit
  <2>2. \A t \in Target : Ephemeral(t)' = Ephemeral(t)
    BY <2>1 DEF Ephemeral
  <2>3. ASSUME NEW y \in Child, y # x
        PROVE  child'[y] = child[y] /\ copies'[y] = copies[y] /\ planted'[y] = planted[y]
    BY <2>1, <2>3 DEF Typed, TypeOK, Target
  <2>4. planted'[Main] = planted[Main]
    BY <2>1, BreakIntentAssumption DEF Typed, TypeOK, Target
  <2>5. \A t \in Target \ {x} : Reachable(t)' = Reachable(t) /\ Recorded(t)' = Recorded(t)
    <3>1. ASSUME NEW t \in Target \ {x} PROVE Reachable(t)' = Reachable(t)
      BY <2>3, BreakIntentAssumption DEF Reachable, Live, Target
    <3>2. ASSUME NEW t \in Target \ {x} PROVE Recorded(t)' = Recorded(t)
      BY <2>1, <2>3 DEF Recorded, Target
    <3> QED
      BY <3>1, <3>2
  <2>6. child'[x] \in {"live", "gone"} /\ own'[x] = {}
    BY <2>1 DEF BreaksInv, Typed, TypeOK
  <2>7. child'[x] = "live" => copies'[x] = snap[x] /\ planted'[x] = snap[x]
    BY <2>1 DEF Typed, TypeOK, Target
  <2>8. ASSUME Drift = {} PROVE \A t \in Target : Reachable(t)' => Matches(t)'
    <3>1. ASSUME NEW t \in Target, t # x, Reachable(t)' PROVE Matches(t)'
      BY <2>2, <2>3, <2>4, <2>5, <2>8, <3>1, UntouchedMatches DEF BreaksInv, Target
    <3>2. ASSUME Reachable(x)' PROVE Matches(x)'
      <4>1. child'[x] = "live" /\ x # Main
        BY <3>2, BreakIntentAssumption DEF Reachable, Live
      <4> QED
        BY <2>6, <2>7, <4>1 DEF Matches, Recorded
    <3> QED
      BY <3>1, <3>2
  <2>9. ASSUME Drift = {} PROVE \A y \in Live' : copies'[y] = intent'
    BY <2>1, <2>3, <2>7, <2>9 DEF BreaksInv, Live
  <2>10. ASSUME Drift = {} PROVE \A y \in Child : child'[y] = "arming" => snap'[y] = intent'
    BY <2>1, <2>3, <2>6, <2>10 DEF BreaksInv
  <2>11. \A y \in Child : child'[y] \in {"unborn", "arming"} => own'[y] = {}
    BY <2>1, <2>3, <2>6 DEF BreaksInv
  <2>12. Drift' = Drift
    BY <2>1 DEF Drift
  <2> QED
    BY <2>8, <2>9, <2>10, <2>11, <2>12 DEF BreaksInv
<1>19. ASSUME NEW x \in Child, Exit(x) PROVE BreaksInv'
  <2>1. /\ child' = [child EXCEPT ![x] = "gone"]
        /\ copies' = [copies EXCEPT ![x] = {}]
        /\ own' = [own EXCEPT ![x] = {}]
        /\ planted' = [planted EXCEPT ![x] = {}]
        /\ UNCHANGED <<intent, snap, pc, token, result, holes>>
    BY <1>19 DEF Exit
  <2>2. \A t \in Target : Ephemeral(t)' = Ephemeral(t)
    BY <2>1 DEF Ephemeral
  <2>3. \A y \in Child \ {x} : /\ child'[y] = child[y] /\ copies'[y] = copies[y]
                               /\ own'[y] = own[y] /\ planted'[y] = planted[y]
    BY <2>1 DEF Typed, TypeOK, Target
  <2>4. planted'[Main] = planted[Main]
    BY <2>1, BreakIntentAssumption DEF Typed, TypeOK, Target
  <2>5. child'[x] = "gone"
    BY <2>1 DEF Typed, TypeOK
  <2>6. \A t \in Target : Reachable(t)' => t # x /\ Reachable(t)
    BY <2>3, <2>5, BreakIntentAssumption DEF Reachable, Live
  <2>7. \A t \in Target \ {x} : Recorded(t)' = Recorded(t) /\ planted'[t] = planted[t]
    BY <2>1, <2>3, <2>4 DEF Recorded, Target
  <2>8. Drift = {} => \A t \in Target : Reachable(t)' => Matches(t)'
    BY <2>2, <2>6, <2>7, UntouchedMatches DEF BreaksInv
  <2>9. Drift = {} => \A y \in Live' : copies'[y] = intent'
    BY <2>1, <2>3, <2>5 DEF BreaksInv, Live
  <2>10. Drift = {} => \A y \in Child : child'[y] = "arming" => snap'[y] = intent'
    BY <2>1, <2>3, <2>5 DEF BreaksInv
  <2>11. \A y \in Child : child'[y] \in {"unborn", "arming"} => own'[y] = {}
    BY <2>3, <2>5 DEF BreaksInv
  <2>12. Drift' = Drift
    BY <2>1 DEF Drift
  <2> QED
    BY <2>8, <2>9, <2>10, <2>11, <2>12 DEF BreaksInv
<1>20. ASSUME UNCHANGED vars PROVE BreaksInv'
  <2>1. \A t \in Target : Ephemeral(t) \subseteq Ephemeral(t)'
    BY <1>20 DEF vars, Ephemeral
  <2> QED
    BY <1>20, <2>1, QuietBreaks DEF vars
<1> QED
  BY <1>1, <1>2, <1>3, <1>4, <1>5, <1>6, <1>7, <1>8, <1>9, <1>10, <1>11, <1>12, <1>13, <1>14, <1>15, <1>16, <1>17, <1>18, <1>19, <1>20 DEF Next, Handle, Persist

-----------------------------------------------------------------------------
LEMMA InitFile == Init => FileInv
<1> SUFFICES ASSUME Init PROVE FileInv
  OBVIOUS
<1>1. \A c \in Cli : pc[c] = "idle"
  BY DEF Init
<1>2. \A k : ~Adding(k) /\ ~Dropping(k)
  BY <1>1 DEF Adding, Dropping, Persisting
<1>3. file = intent /\ flock \notin Cli
  BY BreakIntentAssumption DEF Init
<1> QED
  BY <1>1, <1>2, <1>3 DEF FileInv, Persisting

(* A step that neither starts nor ends an update, nor changes a list.      *)
LEMMA OnTheirWay ==
  ASSUME FileInv, UNCHANGED <<intent, req, confirmed, file>>, holes \subseteq holes',
         \A d \in Cli : pc'[d] \in Persisting <=> pc[d] \in Persisting,
         \A d \in Cli : flock' = d <=> pc'[d] \in {"read", "write"},
         \A d \in Cli : pc'[d] = "write" => read'[d] = file'
  PROVE  FileInv'
<1>1. \A d \in Cli : Op(d)' = Op(d)
  BY DEF Op
<1>2. \A k : (Adding(k)' <=> Adding(k)) /\ (Dropping(k)' <=> Dropping(k))
  BY <1>1 DEF Adding, Dropping
<1>3. ASSUME holes' \cap {"crossed", "unpersisted"} = {}
      PROVE  /\ \A k \in Key : k \in file' <=> (k \in intent' /\ ~Adding(k)') \/ Dropping(k)'
             /\ \A k \in Key : Adding(k)' => k \in intent'
             /\ \A k \in Key : Dropping(k)' => k \notin intent'
  <2>1. holes \cap {"crossed", "unpersisted"} = {}
    BY <1>3
  <2>2. /\ \A k \in Key : k \in file <=> (k \in intent /\ ~Adding(k)) \/ Dropping(k)
        /\ \A k \in Key : Adding(k) => k \in intent
        /\ \A k \in Key : Dropping(k) => k \notin intent
    BY <2>1 DEF FileInv
  <2> QED
    BY <1>2, <2>2
<1>4. ASSUME holes' \cap {"crossed", "unpersisted"} = {}, NEW c \in Cli, NEW d \in Cli,
             c # d, pc'[c] \in Persisting, pc'[d] \in Persisting,
             Op(c)' = "add" <=> Op(d)' = "add"
      PROVE  confirmed'[c] \cap confirmed'[d] = {}
  BY <1>1, <1>4 DEF FileInv
<1> QED
  BY <1>3, <1>4 DEF FileInv

LEMMA IdleFile ==
  ASSUME FileInv, UNCHANGED <<intent, pc, req, read, confirmed, file, flock, holes>>
  PROVE  FileInv'
<1>1. /\ \A d \in Cli : flock' = d <=> pc'[d] \in {"read", "write"}
      /\ \A d \in Cli : pc'[d] = "write" => read'[d] = file'
  BY DEF FileInv
<1> QED
  BY <1>1, OnTheirWay

(* A request that has no update on its way, before and after.              *)
LEMMA QuietFile ==
  ASSUME FileInv, NEW c \in Cli, pc[c] \notin Persisting, pc'[c] \notin Persisting,
         \A d \in Cli \ {c} : pc'[d] = pc[d] /\ req'[d] = req[d] /\ read'[d] = read[d],
         UNCHANGED <<intent, persist>>, holes \subseteq holes'
  PROVE  FileInv'
<1>1. \A d \in Cli \ {c} : Op(d)' = Op(d)
  BY DEF Op
<1>2. \A k : (Adding(k)' <=> Adding(k)) /\ (Dropping(k)' <=> Dropping(k))
  BY <1>1 DEF Adding, Dropping, persist
<1>3. /\ \A d \in Cli : flock' = d <=> pc'[d] \in {"read", "write"}
      /\ \A d \in Cli : pc'[d] = "write" => read'[d] = file'
  BY DEF FileInv, Persisting, persist
<1>4. ASSUME holes' \cap {"crossed", "unpersisted"} = {}
      PROVE  /\ \A k \in Key : k \in file' <=> (k \in intent' /\ ~Adding(k)') \/ Dropping(k)'
             /\ \A k \in Key : Adding(k)' => k \in intent'
             /\ \A k \in Key : Dropping(k)' => k \notin intent'
  <2>1. holes \cap {"crossed", "unpersisted"} = {}
    BY <1>4
  <2>2. /\ \A k \in Key : k \in file <=> (k \in intent /\ ~Adding(k)) \/ Dropping(k)
        /\ \A k \in Key : Adding(k) => k \in intent
        /\ \A k \in Key : Dropping(k) => k \notin intent
    BY <2>1 DEF FileInv
  <2> QED
    BY <1>2, <2>2 DEF persist
<1>5. ASSUME holes' \cap {"crossed", "unpersisted"} = {}, NEW d \in Cli, NEW e \in Cli,
             d # e, pc'[d] \in Persisting, pc'[e] \in Persisting,
             Op(d)' = "add" <=> Op(e)' = "add"
      PROVE  confirmed'[d] \cap confirmed'[e] = {}
  <2>1. d # c /\ e # c
    BY <1>5
  <2> QED
    BY <1>1, <1>5, <2>1 DEF FileInv, persist
<1> QED
  BY <1>3, <1>4, <1>5 DEF FileInv

(* An update that fails opens a crack, and the lock goes with its holder.  *)
LEMMA UnpersistedFile ==
  ASSUME Typed, FileInv, NEW c \in Cli, pc[c] \in Persisting, Unpersisted(c),
         UNCHANGED <<intent, req, read>>
  PROVE  FileInv'
<1>1. /\ pc' = [pc EXCEPT ![c] = "done"] /\ "unpersisted" \in holes' /\ file' = file
      /\ flock' = IF flock = c THEN NoOne ELSE flock
  BY DEF Unpersisted, Fail, Goto
<1>2. \A d \in Cli : flock' = d <=> pc'[d] \in {"read", "write"}
  BY <1>1, BreakIntentAssumption DEF FileInv, Typed, TypeOK
<1>3. \A d \in Cli : pc'[d] = "write" => read'[d] = file'
  BY <1>1 DEF FileInv, Typed, TypeOK
<1> QED
  BY <1>1, <1>2, <1>3 DEF FileInv

(* The file that replaces the old one: it was read under the lock, so the  *)
(* edit lands on the list as it is.                                        *)
LEMMA WrittenFile ==
  ASSUME Typed, FileInv, NEW c \in Cli, WriteFile(c)
  PROVE  FileInv'
<1>1. /\ pc[c] = "write" /\ pc' = [pc EXCEPT ![c] = "done"] /\ flock' = NoOne
      /\ UNCHANGED <<intent, req, read, confirmed, holes>>
  BY DEF WriteFile, Goto, bridge
<1>2. flock = c /\ read[c] = file
  BY <1>1 DEF FileInv
<1>3. file' = IF Op(c) = "add" THEN file \cup confirmed[c] ELSE file \ confirmed[c]
  BY <1>2 DEF WriteFile, Edited
<1>4. \A d \in Cli \ {c} : pc[d] \notin {"read", "write"} /\ pc'[d] = pc[d]
  BY <1>1, <1>2 DEF FileInv, Typed, TypeOK
<1>5. pc'[c] = "done"
  BY <1>1 DEF Typed, TypeOK
<1>6. /\ \A d \in Cli : flock' = d <=> pc'[d] \in {"read", "write"}
      /\ \A d \in Cli : pc'[d] = "write" => read'[d] = file'
  BY <1>1, <1>4, <1>5, BreakIntentAssumption
<1>7. \A d \in Cli : Op(d)' = Op(d)
  BY <1>1 DEF Op
<1>8. ASSUME holes' \cap {"crossed", "unpersisted"} = {}, NEW d \in Cli, NEW e \in Cli,
             d # e, pc'[d] \in Persisting, pc'[e] \in Persisting,
             Op(d)' = "add" <=> Op(e)' = "add"
      PROVE  confirmed'[d] \cap confirmed'[e] = {}
  <2>1. d # c /\ e # c
    BY <1>5, <1>8 DEF Persisting
  <2> QED
    BY <1>1, <1>4, <1>7, <1>8, <2>1 DEF FileInv
<1>9. ASSUME holes' \cap {"crossed", "unpersisted"} = {}, NEW k \in Key
      PROVE  /\ k \in file' <=> (k \in intent' /\ ~Adding(k)') \/ Dropping(k)'
             /\ Adding(k)' => k \in intent'
             /\ Dropping(k)' => k \notin intent'
  <2>1. /\ k \in file <=> (k \in intent /\ ~Adding(k)) \/ Dropping(k)
        /\ Adding(k) => k \in intent
        /\ Dropping(k) => k \notin intent
    BY <1>1, <1>9 DEF FileInv
  <2>2. \A d \in Cli \ {c} : pc[d] \in Persisting /\ (Op(c) = "add" <=> Op(d) = "add")
                             => confirmed[c] \cap confirmed[d] = {}
    BY <1>1, <1>9 DEF FileInv, Persisting
  <2>3. CASE Op(c) = "add"
    <3>1. Dropping(k)' <=> Dropping(k)
      BY <1>1, <1>4, <1>5, <1>7, <2>3 DEF Dropping, Persisting
    <3>2. Adding(k)' <=> Adding(k) /\ k \notin confirmed[c]
      <4>1. Adding(k)' => Adding(k)
        BY <1>1, <1>4, <1>5, <1>7 DEF Adding, Persisting
      <4>2. Adding(k)' => k \notin confirmed[c]
        BY <1>1, <1>4, <1>5, <1>7, <2>2, <2>3 DEF Adding, Persisting
      <4>3. Adding(k) /\ k \notin confirmed[c] => Adding(k)'
        BY <1>1, <1>4, <1>5, <1>7 DEF Adding, Persisting
      <4> QED
        BY <4>1, <4>2, <4>3
    <3>3. k \in confirmed[c] => Adding(k)
      BY <1>1, <2>3 DEF Adding, Persisting
    <3>4. (k \in file' <=> k \in file \/ k \in confirmed[c]) /\ intent' = intent
      BY <1>1, <1>3, <2>3
    <3> QED
      BY <2>1, <3>1, <3>2, <3>3, <3>4
  <2>4. CASE Op(c) # "add"
    <3>1. Adding(k)' <=> Adding(k)
      BY <1>1, <1>4, <1>5, <1>7, <2>4 DEF Adding, Persisting
    <3>2. Dropping(k)' <=> Dropping(k) /\ k \notin confirmed[c]
      <4>1. Dropping(k)' => Dropping(k)
        BY <1>1, <1>4, <1>5, <1>7 DEF Dropping, Persisting
      <4>2. Dropping(k)' => k \notin confirmed[c]
        BY <1>1, <1>4, <1>5, <1>7, <2>2, <2>4 DEF Dropping, Persisting
      <4>3. Dropping(k) /\ k \notin confirmed[c] => Dropping(k)'
        BY <1>1, <1>4, <1>5, <1>7 DEF Dropping, Persisting
      <4> QED
        BY <4>1, <4>2, <4>3
    <3>3. k \in confirmed[c] => Dropping(k)
      BY <1>1, <2>4 DEF Dropping, Persisting
    <3>4. (k \in file' <=> k \in file /\ k \notin confirmed[c]) /\ intent' = intent
      BY <1>1, <1>3, <2>4
    <3> QED
      BY <2>1, <3>1, <3>2, <3>3, <3>4
  <2> QED
    BY <2>3, <2>4
<1> QED
  BY <1>6, <1>8, <1>9 DEF FileInv

(* stops.json, step by step.                                               *)
LEMMA FileStep == Typed /\ FileInv /\ [Next]_vars => FileInv'
<1> SUFFICES ASSUME Typed, FileInv, [Next]_vars PROVE FileInv'
  OBVIOUS
<1>1. ASSUME NEW c \in Cli, Submit(c) PROVE FileInv'
  <2>1. /\ pc[c] \notin Persisting /\ pc'[c] \notin Persisting
        /\ \A d \in Cli \ {c} : pc'[d] = pc[d] /\ req'[d] = req[d] /\ read'[d] = read[d]
        /\ UNCHANGED <<intent, persist>> /\ holes \subseteq holes'
    BY <1>1 DEF Submit, Goto, Report, Fail, Persisting, bridge, Typed, TypeOK
  <2> QED
    BY <2>1, QuietFile
<1>2. ASSUME NEW c \in Cli, Accept(c) PROVE FileInv'
  <2>1. /\ pc[c] \notin Persisting /\ pc'[c] \notin Persisting
        /\ \A d \in Cli \ {c} : pc'[d] = pc[d] /\ req'[d] = req[d] /\ read'[d] = read[d]
        /\ UNCHANGED <<intent, persist>> /\ holes \subseteq holes'
    BY <1>2 DEF Accept, Goto, Report, Fail, Persisting, bridge, Typed, TypeOK
  <2> QED
    BY <2>1, QuietFile
<1>3. ASSUME NEW c \in Cli, AddGlobal(c) PROVE FileInv'
  BY <1>3, AddGlobalKept DEF Kept
<1>4. ASSUME NEW c \in Cli, DropGlobal(c) PROVE FileInv'
  BY <1>4, DropGlobalKept DEF Kept
<1>5. ASSUME NEW c \in Cli, AddScoped(c) PROVE FileInv'
  BY <1>5, AddScopedKept DEF Kept
<1>6. ASSUME NEW c \in Cli, DropScoped(c) PROVE FileInv'
  BY <1>6, DropScopedKept DEF Kept
<1>7. ASSUME NEW c \in Cli, CheckPlant(c) PROVE FileInv'
  <2>1. /\ pc[c] \notin Persisting /\ pc'[c] \notin Persisting
        /\ \A d \in Cli \ {c} : pc'[d] = pc[d] /\ req'[d] = req[d] /\ read'[d] = read[d]
        /\ UNCHANGED <<intent, persist>> /\ holes \subseteq holes'
    BY <1>7 DEF CheckPlant, Goto, Report, Fail, Persisting, bridge, Typed, TypeOK, EndCapture
  <2> QED
    BY <2>1, QuietFile
<1>8. ASSUME NEW c \in Cli, SendPlant(c) PROVE FileInv'
  <2>1. /\ pc[c] \notin Persisting /\ pc'[c] \notin Persisting
        /\ \A d \in Cli \ {c} : pc'[d] = pc[d] /\ req'[d] = req[d] /\ read'[d] = read[d]
        /\ UNCHANGED <<intent, persist>> /\ holes \subseteq holes'
    BY <1>8 DEF SendPlant, Goto, Report, Fail, Persisting, bridge, Typed, TypeOK, EndCapture
  <2> QED
    BY <2>1, QuietFile
<1>9. ASSUME NEW c \in Cli, Park(c) PROVE FileInv'
  <2>1. /\ pc[c] \notin Persisting /\ pc'[c] \notin Persisting
        /\ \A d \in Cli \ {c} : pc'[d] = pc[d] /\ req'[d] = req[d] /\ read'[d] = read[d]
        /\ UNCHANGED <<intent, persist>> /\ holes \subseteq holes'
    BY <1>9 DEF Park, Goto, Report, Fail, Persisting, bridge, Typed, TypeOK, Unplant, DropChild, EndCapture
  <2> QED
    BY <2>1, QuietFile
<1>10. ASSUME NEW c \in Cli, Timeout(c) PROVE FileInv'
  <2>1. /\ pc[c] \notin Persisting /\ pc'[c] \notin Persisting
        /\ \A d \in Cli \ {c} : pc'[d] = pc[d] /\ req'[d] = req[d] /\ read'[d] = read[d]
        /\ UNCHANGED <<intent, persist>> /\ holes \subseteq holes'
    BY <1>10 DEF Timeout, Goto, Report, Fail, Persisting, bridge, Typed, TypeOK
  <2> QED
    BY <2>1, QuietFile
<1>11. ASSUME NEW c \in Cli, SendUnplant(c) PROVE FileInv'
  <2>1. /\ pc[c] \notin Persisting /\ pc'[c] \notin Persisting
        /\ \A d \in Cli \ {c} : pc'[d] = pc[d] /\ req'[d] = req[d] /\ read'[d] = read[d]
        /\ UNCHANGED <<intent, persist>> /\ holes \subseteq holes'
    BY <1>11 DEF SendUnplant, Goto, Report, Fail, Persisting, bridge, Typed, TypeOK, Unplant, DropChild, EndCapture
  <2> QED
    BY <2>1, QuietFile
<1>12. ASSUME NEW c \in Cli, GiveUp(c) PROVE FileInv'
  <2>1. /\ pc[c] \notin Persisting /\ pc'[c] \notin Persisting
        /\ \A d \in Cli \ {c} : pc'[d] = pc[d] /\ req'[d] = req[d] /\ read'[d] = read[d]
        /\ UNCHANGED <<intent, persist>> /\ holes \subseteq holes'
    BY <1>12 DEF GiveUp, Goto, Report, Fail, Persisting, bridge, Typed, TypeOK
  <2> QED
    BY <2>1, QuietFile
<1>13. ASSUME NEW c \in Cli, Lock(c) PROVE FileInv'
  <2>1. CASE Unpersisted(c)
    BY <1>13, <2>1, UnpersistedFile DEF Lock, Persisting, bridge
  <2>2. CASE /\ flock = NoOne /\ flock' = c /\ pc' = [pc EXCEPT ![c] = "read"]
             /\ UNCHANGED <<confirmed, file, holes>>
    <3>1. /\ pc[c] = "lock" /\ UNCHANGED <<intent, req, read>>
      BY <1>13 DEF Lock, bridge
    <3>2. \A d \in Cli : pc[d] \notin {"read", "write"}
      BY <2>2, BreakIntentAssumption DEF FileInv
    <3>3. \A d \in Cli : flock' = d <=> pc'[d] \in {"read", "write"}
      BY <2>2, <3>2 DEF Typed, TypeOK
    <3>4. \A d \in Cli : pc'[d] # "write"
      BY <2>2, <3>2 DEF Typed, TypeOK
    <3>5. \A d \in Cli : pc'[d] \in Persisting <=> pc[d] \in Persisting
      BY <2>2, <3>1 DEF Typed, TypeOK, Persisting
    <3> QED
      BY <2>2, <3>1, <3>3, <3>4, <3>5, OnTheirWay
  <2> QED
    BY <1>13, <2>1, <2>2 DEF Lock, LockFree, Goto
<1>14. ASSUME NEW c \in Cli, ReadFile(c) PROVE FileInv'
  <2>1. /\ pc[c] = "read" /\ pc' = [pc EXCEPT ![c] = "write"]
        /\ read' = [read EXCEPT ![c] = file]
        /\ UNCHANGED <<intent, req, confirmed, file, flock, holes>>
    BY <1>14 DEF ReadFile, Goto, bridge, persist
  <2>2. \A d \in Cli : flock' = d <=> pc'[d] \in {"read", "write"}
    BY <2>1 DEF Typed, TypeOK, FileInv
  <2>3. \A d \in Cli : pc'[d] = "write" => read'[d] = file'
    BY <2>1 DEF Typed, TypeOK, FileInv
  <2>4. \A d \in Cli : pc'[d] \in Persisting <=> pc[d] \in Persisting
    BY <2>1 DEF Typed, TypeOK, Persisting
  <2> QED
    BY <2>1, <2>2, <2>3, <2>4, OnTheirWay
<1>15. ASSUME NEW c \in Cli, WriteFile(c) PROVE FileInv'
  BY <1>15, WrittenFile
<1>16. ASSUME NEW c \in Cli, PersistFails(c) PROVE FileInv'
  <2>1. UNCHANGED <<intent, req, read>>
    BY <1>16 DEF PersistFails, bridge
  <2> QED
    BY <1>16, <2>1, UnpersistedFile DEF PersistFails, Persisting
<1>17. ASSUME NEW x \in Child, Claim(x) PROVE FileInv'
  <2>1. UNCHANGED <<intent, pc, req, read, confirmed, file, flock, holes>>
    BY <1>17 DEF Claim, bridge, persist
  <2> QED
    BY <2>1, IdleFile
<1>18. ASSUME NEW x \in Child, Commit(x) PROVE FileInv'
  <2>1. UNCHANGED <<intent, pc, req, read, confirmed, file, flock, holes>>
    BY <1>18 DEF Commit, bridge, persist
  <2> QED
    BY <2>1, IdleFile
<1>19. ASSUME NEW x \in Child, Exit(x) PROVE FileInv'
  <2>1. UNCHANGED <<intent, pc, req, read, confirmed, file, flock, holes>>
    BY <1>19 DEF Exit, bridge, persist
  <2> QED
    BY <2>1, IdleFile
<1>20. ASSUME UNCHANGED vars PROVE FileInv'
  BY <1>20, IdleFile DEF vars, bridge, persist
<1> QED
  BY <1>1, <1>2, <1>3, <1>4, <1>5, <1>6, <1>7, <1>8, <1>9, <1>10, <1>11, <1>12, <1>13, <1>14, <1>15, <1>16, <1>17, <1>18, <1>19, <1>20 DEF Next, Handle, Persist

-----------------------------------------------------------------------------
LEMMA Invariant == Spec => [](Typed /\ BreaksInv /\ FileInv)
<1>1. Init => Typed /\ BreaksInv /\ FileInv
  BY InitTyped, InitBreaks, InitFile
<1>2. Typed /\ BreaksInv /\ FileInv /\ [Next]_vars => (Typed /\ BreaksInv /\ FileInv)'
  BY TypeStep, BreaksStep, FileStep
<1> QED
  BY <1>1, <1>2, PTL DEF Spec

(* The bridge's records, the requests and the persisted list are always of *)
(* their kinds, and no line of the intent ever carries two breaks          *)
(* (cmd_breaks_add's conflict check, whatever runs between its sections).  *)
THEOREM IntentTyped == Spec => []TypeOK
<1>1. Typed => TypeOK
  BY DEF Typed
<1> QED
  BY <1>1, Invariant, PTL

(* Every debug adapter session has the breaks the bridge records for it and *)
(* nothing else but breaks of captures: whatever adds, removals, captures,  *)
(* children and clients that give up interleave, one of the named cracks    *)
(* has to open first.                                                       *)
THEOREM AdaptersMatchRecords == Spec => []PlantedAsRecorded
<1>1. BreaksInv => PlantedAsRecorded
  BY DEF BreaksInv, PlantedAsRecorded, Matches
<1> QED
  BY <1>1, Invariant, PTL

(* Every live child has a copy of the global intent, also the child that    *)
(* the drainer armed from a snapshot: until a crack opens, no mutation runs *)
(* between the snapshot and the commit, and none leaves a child behind.     *)
THEOREM ChildrenKeepIntent == Spec => []ChildrenInheritIntent
<1>1. BreaksInv => ChildrenInheritIntent
  BY DEF BreaksInv, ChildrenInheritIntent
<1> QED
  BY <1>1, Invariant, PTL

(* stops.json is the live intent but for the updates on their way there:    *)
(* under breaks.lock no read-edit-rename of one process undoes another's.   *)
THEOREM NoUpdateIsLost == Spec => []StopsFileTracksIntent
<1>1. Typed /\ FileInv => StopsFileTracksIntent
  <2> SUFFICES ASSUME Typed, FileInv, holes \cap {"crossed", "unpersisted"} = {}
               PROVE  file = (intent \ Pending(TRUE)) \cup Pending(FALSE)
    BY DEF StopsFileTracksIntent
  <2>1. \A k : k \in Pending(TRUE) <=> Adding(k)
    BY DEF Pending, Adding, Persisting
  <2>2. \A k : k \in Pending(FALSE) <=> Dropping(k)
    BY DEF Pending, Dropping, Persisting
  <2>3. file \subseteq Key /\ intent \subseteq Key /\ Pending(FALSE) \subseteq Key
    BY DEF Typed, TypeOK, Pending
  <2>4. \A k \in Key : k \in file <=> (k \in intent /\ ~Adding(k)) \/ Dropping(k)
    BY DEF FileInv
  <2> QED
    BY <2>1, <2>2, <2>3, <2>4
<1> QED
  BY <1>1, Invariant, PTL

-----------------------------------------------------------------------------
(* Why every slot is freed: a slot is held by a capture of its target that *)
(* is still at work and by nobody else (so a target never has two), and    *)
(* whoever works comes nearer to its end with every step.                  *)
SlotsExact ==
  \A t \in Target, c \in Cli :
    outstanding[t] = c <=> pc[c] \in Capturing /\ Tgt(c) = t

(* What a request has before it: the sections of its handler, then what    *)
(* its CLI process does with the answer.                                   *)
StepsAhead(label) ==
  CASE label = "idle"    -> 9
    [] label = "accept"  -> 8
    [] label = "plant"   -> 7
    [] label = "run"     -> 7
    [] label = "send"    -> 6
    [] label = "wait"    -> 5
    [] label = "unplant" -> 4
    [] label = "lock"    -> 3
    [] label = "read"    -> 2
    [] label = "write"   -> 1
    [] label = "done"    -> 0

(* Nobody else moves a request, its client's giving up does not end it,    *)
(* and each section brings it nearer to its end.                           *)
HandlersGoOn ==
  [][\A c \in Cli :
       /\ Handle(c) \/ Persist(c) => StepsAhead(pc'[c]) < StepsAhead(pc[c])
       /\ GiveUp(c) => pc'[c] = pc[c]
       /\ \A d \in Cli \ {c} :
            Submit(d) \/ Handle(d) \/ GiveUp(d) \/ Persist(d) \/ PersistFails(d)
              => pc'[c] = pc[c]]_vars

LEMMA AnswerMoves ==
  ASSUME NEW c \in Cli, NEW keys, NEW more, NEW faults,
         Answer(c, keys, more, faults) \/ Respond(c, keys, more) \/ Refuse(c)
  PROVE  \E l \in {"done", "lock"} : pc' = [pc EXCEPT ![c] = l]
<1>1. ASSUME NEW m, Respond(c, keys, m)
      PROVE  \E l \in {"done", "lock"} : pc' = [pc EXCEPT ![c] = l]
  BY <1>1 DEF Respond, Goto
<1> QED
  BY <1>1 DEF Answer, Refuse, Fail, Goto

LEMMA MutationMoves ==
  ASSUME NEW c \in Cli,
         AddGlobal(c) \/ DropGlobal(c) \/ AddScoped(c) \/ DropScoped(c)
  PROVE  /\ pc[c] = "run" /\ UNCHANGED <<outstanding, req>>
         /\ \E l \in {"done", "lock"} : pc' = [pc EXCEPT ![c] = l]
<1>1. CASE AddGlobal(c)
  <2>1. \/ Refuse(c)
        \/ \E k, m : Respond(c, k, m)
        \/ \E k, m, f : Answer(c, k, m, f)
    BY <1>1, ZenonT(60) DEF AddGlobal
  <2> QED
    BY <1>1, <2>1, AnswerMoves DEF AddGlobal, Running
<1>2. CASE DropGlobal(c)
  <2>1. \/ \E k, m : Respond(c, k, m)
        \/ \E k, m, f : Answer(c, k, m, f)
    BY <1>2, ZenonT(60) DEF DropGlobal
  <2> QED
    BY <1>2, <2>1, AnswerMoves DEF DropGlobal, Running
<1>3. CASE AddScoped(c)
  <2>1. \/ Refuse(c)
        \/ \E k, m : Respond(c, k, m)
        \/ \E k, m, f : Answer(c, k, m, f)
    BY <1>3, ZenonT(60) DEF AddScoped
  <2> QED
    BY <1>3, <2>1, AnswerMoves DEF AddScoped, Running
<1>4. CASE DropScoped(c)
  <2>1. \/ Refuse(c)
        \/ \E k, m : Respond(c, k, m)
        \/ \E k, m, f : Answer(c, k, m, f)
    BY <1>4, ZenonT(60) DEF DropScoped
  <2> QED
    BY <1>4, <2>1, AnswerMoves DEF DropScoped, Running
<1> QED
  BY <1>1, <1>2, <1>3, <1>4

LEMMA UnplantMoves ==
  ASSUME NEW c \in Cli, NEW p, NEW sent, Unplant(c, p, sent)
  PROVE  outstanding' = Released(c) /\ pc' = [pc EXCEPT ![c] = "done"]
BY DEF Unplant, EndCapture, Goto

(* Where each step takes its request, and what it does to the slots.       *)
Moves(c, from, to) ==
  \E l \in to : pc[c] \in from /\ pc' = [pc EXCEPT ![c] = l]

LEMMA HandlerMoves ==
  ASSUME NEW c \in Cli, Handle(c) \/ Persist(c)
  PROVE  /\ req' = req
         /\ \/ /\ outstanding' = outstanding
               /\ \/ Moves(c, {"accept"}, {"run", "done"})
                  \/ Moves(c, {"run"}, {"lock", "done"})
                  \/ Moves(c, {"plant"}, {"send", "wait"})
                  \/ Moves(c, {"send"}, {"wait"})
                  \/ Moves(c, {"wait"}, {"unplant"})
                  \/ Moves(c, {"lock"}, {"read", "done"})
                  \/ Moves(c, {"read"}, {"write"})
                  \/ Moves(c, {"write"}, {"done"})
            \/ /\ outstanding' = [outstanding EXCEPT ![Tgt(c)] = c]
               /\ outstanding[Tgt(c)] = NoOne /\ Op(c) = "capture"
               /\ Moves(c, {"accept"}, {"plant"})
            \/ /\ outstanding' = Released(c)
               /\ Moves(c, Capturing, {"done"})
<1> USE DEF Moves
<1>1. CASE Accept(c)
  BY <1>1 DEF Accept, Busy, Fail, Goto
<1>2. CASE AddGlobal(c) \/ DropGlobal(c) \/ AddScoped(c) \/ DropScoped(c)
  BY <1>2, MutationMoves
<1>3. CASE CheckPlant(c)
  BY <1>3 DEF CheckPlant, EndCapture, Goto, Capturing
<1>4. CASE SendPlant(c)
  BY <1>4 DEF SendPlant, EndCapture, Goto, Capturing
<1>5. CASE Park(c)
  BY <1>5, UnplantMoves DEF Park, Capturing
<1>6. CASE Timeout(c)
  BY <1>6 DEF Timeout, Goto
<1>7. CASE SendUnplant(c)
  BY <1>7, UnplantMoves DEF SendUnplant, Capturing
<1>8. CASE Persist(c)
  BY <1>8 DEF Persist, Lock, ReadFile, WriteFile, Unpersisted, Fail, Goto
<1> QED
  BY <1>1, <1>2, <1>3, <1>4, <1>5, <1>6, <1>7, <1>8 DEF Handle

LEMMA SlotsStep == Typed /\ SlotsExact /\ [Next]_vars => SlotsExact'
<1> SUFFICES ASSUME Typed, SlotsExact, [Next]_vars PROVE SlotsExact'
  OBVIOUS
<1>0. /\ outstanding \in [Target -> Cli \cup {NoOne}] /\ NoOne \notin Cli
      /\ pc \in [Cli -> {"idle", "accept", "run", "plant", "send", "wait", "unplant",
                          "lock", "read", "write", "done"}]
      /\ req \in [Cli -> Request \cup {NoReq}]
      /\ \A c \in Cli : pc[c] # "idle" => Tgt(c) \in Target
  BY BreakIntentAssumption, RequestParts DEF Typed, TypeOK, Asked, Tgt
<1>1. ASSUME NEW c \in Cli, Submit(c) PROVE SlotsExact'
  BY <1>0, <1>1 DEF Submit, Goto, SlotsExact, Capturing, Tgt
<1>2. ASSUME NEW c \in Cli, Handle(c) \/ Persist(c) PROVE SlotsExact'
  <2>1. req' = req
    BY <1>2, HandlerMoves
  <2>2. \A d \in Cli : Tgt(d)' = Tgt(d)
    BY <2>1 DEF Tgt
  <2>3. CASE outstanding' = outstanding /\ \A d \in Cli : pc[d] \in Capturing <=> pc'[d] \in Capturing
    BY <2>2, <2>3 DEF SlotsExact
  <2>4. CASE /\ outstanding' = [outstanding EXCEPT ![Tgt(c)] = c]
             /\ outstanding[Tgt(c)] = NoOne
             /\ Moves(c, {"accept"}, {"plant"})
    BY <1>0, <2>2, <2>4 DEF SlotsExact, Moves, Capturing
  <2>5. CASE outstanding' = Released(c) /\ Moves(c, Capturing, {"done"})
    BY <1>0, <2>2, <2>5 DEF SlotsExact, Moves, Capturing, Released
  <2>6. \/ outstanding' = outstanding /\ \A d \in Cli : pc[d] \in Capturing <=> pc'[d] \in Capturing
        \/ /\ outstanding' = [outstanding EXCEPT ![Tgt(c)] = c]
           /\ outstanding[Tgt(c)] = NoOne
           /\ Moves(c, {"accept"}, {"plant"})
        \/ outstanding' = Released(c) /\ Moves(c, Capturing, {"done"})
    BY <1>0, <1>2, HandlerMoves DEF Moves, Capturing
  <2> QED
    BY <2>3, <2>4, <2>5, <2>6
<1>3. ASSUME NEW c \in Cli, GiveUp(c) PROVE SlotsExact'
  BY <1>3 DEF GiveUp, SlotsExact, Tgt
<1>4. ASSUME NEW c \in Cli, PersistFails(c) PROVE SlotsExact'
  BY <1>0, <1>4 DEF PersistFails, Unpersisted, Fail, Goto, SlotsExact, Tgt, Capturing
<1>5. ASSUME NEW x \in Child, Claim(x) \/ Commit(x) \/ Exit(x) PROVE SlotsExact'
  BY <1>5 DEF Claim, Commit, Exit, SlotsExact, Tgt
<1>6. CASE UNCHANGED vars
  BY <1>6 DEF vars, SlotsExact, Tgt
<1> QED
  BY <1>1, <1>2, <1>3, <1>4, <1>5, <1>6 DEF Next

(* A slot is a running capture's (Session._outstanding): none outlives its *)
(* capture, none is taken twice.                                           *)
THEOREM NoSlotLeaks == Spec => []SlotsExact
<1>1. Init => SlotsExact
  BY BreakIntentAssumption DEF Init, SlotsExact, Capturing
<1>2. Typed /\ BreaksInv /\ FileInv => Typed
  OBVIOUS
<1> QED
  BY Invariant, <1>1, <1>2, SlotsStep, PTL DEF Spec

(* Each section of a handler, each step of the CLI process after it, is    *)
(* one nearer to the end, whatever the clients do meanwhile.               *)
THEOREM NoSectionRepeats == Spec => HandlersGoOn
<1>1. ASSUME Typed, NEW c \in Cli
      PROVE  /\ Handle(c) \/ Persist(c) => StepsAhead(pc'[c]) < StepsAhead(pc[c])
             /\ GiveUp(c) => pc'[c] = pc[c]
             /\ \A d \in Cli \ {c} :
                  Submit(d) \/ Handle(d) \/ GiveUp(d) \/ Persist(d) \/ PersistFails(d)
                    => pc'[c] = pc[c]
  <2>1. pc \in [Cli -> {"idle", "accept", "run", "plant", "send", "wait", "unplant",
                         "lock", "read", "write", "done"}]
    BY <1>1 DEF Typed, TypeOK
  <2>2. ASSUME Handle(c) \/ Persist(c)
        PROVE  StepsAhead(pc'[c]) < StepsAhead(pc[c])
    BY <2>1, <2>2, HandlerMoves DEF Moves, Capturing, StepsAhead
  <2>3. ASSUME NEW d \in Cli \ {c}, Handle(d) \/ Persist(d)
        PROVE  pc'[c] = pc[c]
    BY <2>1, <2>3, HandlerMoves DEF Moves
  <2>4. ASSUME NEW d \in Cli \ {c}, Submit(d) \/ GiveUp(d) \/ PersistFails(d)
        PROVE  pc'[c] = pc[c]
    BY <2>1, <2>4 DEF Submit, GiveUp, PersistFails, Unpersisted, Fail, Goto
  <2> QED
    BY <2>2, <2>3, <2>4 DEF GiveUp
<1>2. Typed => \A c \in Cli :
        /\ Handle(c) \/ Persist(c) => StepsAhead(pc'[c]) < StepsAhead(pc[c])
        /\ GiveUp(c) => pc'[c] = pc[c]
        /\ \A d \in Cli \ {c} :
             Submit(d) \/ Handle(d) \/ GiveUp(d) \/ Persist(d) \/ PersistFails(d)
               => pc'[c] = pc[c]
  BY <1>1
<1> QED
  BY Invariant, <1>2, PTL DEF HandlersGoOn
=============================================================================
