------------------------- MODULE ProvisioningProofs -------------------------
(***************************************************************************)
(* The shared adapter directory, for any number of starts, versions of the *)
(* binary, files and faults: tools never meet in it, and an ensure call    *)
(* that returns has made what it answers for.                              *)
(***************************************************************************)
EXTENDS Provisioning, FiniteSetTheorems, SequenceTheorems, TLAPS

Item == [do : {"check", "write", "run"}, paths : SUBSET Path,
         on : Adapter \cup {"none"}, parts : SUBSET (File \cup Part)]

(* The types, with what the program keeps in order.                        *)
Typed ==
  /\ kind \in [Start -> Adapter] /\ ver \in [Start -> Version]
  /\ links \subseteq Path
  /\ disk \in [File -> Version \cup {Absent}]
  /\ out \in [Part -> Version \cup {Absent}]
  /\ lock \in [Adapter -> Start \cup {Nobody}]
  /\ at \in [Start -> {"probe", "lock", "work"} \cup Over]
  /\ ens \in [Start -> Seq(Ensure)]
  /\ \A p \in Start : at[p] \notin Over => ens[p] # <<>>
  /\ todo \in [Start -> Seq(Item)]
  /\ job \in [Start -> Job \cup {NoJob}]
  /\ faults \in 0 .. MaxFaults /\ cut \subseteq Adapter

Guards(e)  == ToSet(LocksOf(e))
Pending(p) == ToSet(todo[p])

(* Who holds which lock: all those of its call while it works, none while  *)
(* it does not, the node lock while the browser's call waits for its own.  *)
Held(p) ==
  /\ at[p] = "work" => \A a \in Guards(Call(p)) : lock[a] = p
  /\ at[p] = "lock" => \A a \in Adapter : lock[a] = p => a = "node" /\ Call(p) = "browserbridge"
  /\ at[p] \notin {"lock", "work"} => \A a \in Adapter : lock[a] # p

LocksHeld == \A p \in Start : Held(p)

(* What a call has still to do touches only what its locks cover.          *)
Covered(x, e) ==
  /\ x.do = "check" => x.parts = {}
  /\ x.do = "write" => x.parts \subseteq FilesOf(e)
  /\ x.do = "run"   => /\ x.on \in Guards(e) /\ x.parts \subseteq Part
                       /\ \A q \in x.parts : q[1] = x.on
                       /\ x.on = "node" => x.parts = Ws

PlansCovered == \A p \in Start : at[p] = "work" => \A x \in Pending(p) : Covered(x, Call(p))
IdleDoNothing == \A p \in Start : at[p] # "work" => todo[p] = <<>>

(* A tool is that of the step its start is at, or an orphan whose adapter  *)
(* is on record as cut; what it has no more to write is there, in its own  *)
(* version unless an orphan may be at it too.                              *)
JobFits(p) ==
  job[p] # NoJob =>
    /\ \A q \in job[p].parts : q[1] = job[p].on
    /\ at[p] \in {"work", "dead"}
    /\ at[p] = "dead" => job[p].on \in cut
    /\ at[p] = "work" =>
         LET x == Head(todo[p])
         IN  /\ todo[p] # <<>> /\ x.do = "run"
             /\ job[p].on = x.on /\ job[p].parts \subseteq x.parts
             /\ \A q \in x.parts \ job[p].parts :
                  out[q] # Absent /\ (out[q] = ver[p] \/ x.on \in cut)

JobsCovered == \A p \in Start : JobFits(p)

(* Every file of the call is as its binary embeds it, or still to be       *)
(* written; every output it answers for is there or still to be made.      *)
FilesDue(p) ==
  at[p] = "work" =>
    \A f \in FilesOf(Call(p)) :
      disk[f] = ver[p] \/ \E x \in Pending(p) : x.do = "write" /\ f \in x.parts

FilesPlanned == \A p \in Start : FilesDue(p)

Needs(e) == IF e = "py" THEN Venv ELSE IF e \in {"ws", "browserbridge"} THEN Ws ELSE {}

OutputsDue(p) ==
  at[p] = "work" =>
    \A q \in Needs(Call(p)) :
      \/ out[q] # Absent
      \/ Call(p) # "py" /\ "node" \in cut
      \/ \E x \in Pending(p) : x.do = "run" /\ q \in x.parts

OutputsPlanned == \A p \in Start : OutputsDue(p)

(* The marker that `ws` is judged by may be there without the rest only    *)
(* while npm runs or after it was cut off.                                 *)
MarkerMeansWs ==
  WsMarker => UnlessCut("node") \/ \A q \in Ws : out[q] # Absent

(* The Java call looks, writes, compiles, in this order; so the classes    *)
(* are those of the sources in the directory, but for the time between its *)
(* first write and the end of its compiler.                                *)
Compile == Run("java", Classes)
Compiling(p) == at[p] = "work" /\ Call(p) = "compiled"

InOrder(p) ==
  Compiling(p) =>
    \A i \in DOMAIN todo[p] :
      /\ todo[p][i].do = "run" => i = Len(todo[p]) /\ todo[p][i] = Compile
      /\ todo[p][i].do = "write" => Compile \in Pending(p) /\ todo[p][i].paths = {}
      /\ todo[p][i].do = "check" => \A j \in 1 .. i : todo[p][j].do = "check"

JavaInOrder == \A p \in Start : InOrder(p)

ClassesOfSources ==
  \/ "java" \in cut
  \/ \A c \in Classes : out[c] = disk[c]
  \/ \E p \in Start : /\ Compiling(p) /\ Compile \in Pending(p)
                      /\ \A x \in Pending(p) : x.do # "check"

ClassesDue(p) ==
  Compiling(p) =>
    "java" \in cut \/ Compile \in Pending(p) \/ \A c \in Classes : out[c] = ver[p]

ClassesPlanned == \A p \in Start : ClassesDue(p)

Inv == /\ Typed /\ LocksHeld /\ PlansCovered /\ IdleDoNothing /\ JobsCovered
       /\ FilesPlanned /\ OutputsPlanned /\ MarkerMeansWs
       /\ JavaInOrder /\ ClassesOfSources /\ ClassesPlanned

-----------------------------------------------------------------------------
(* Sequences and what is in them.                                          *)

LEMMA NothingToDo == ToSet(<<>>) = {}
BY DEF ToSet

LEMMA OneToDo == \A x : <<x>> \in Seq({x}) /\ ToSet(<<x>>) = {x}
BY DEF ToSet

(* A step takes the first of a list.                                       *)
LEMMA TakeFirst ==
  ASSUME NEW S, NEW s \in Seq(S), s # <<>>
  PROVE  /\ Tail(s) \in Seq(S) /\ Head(s) \in S
         /\ Head(s) = s[1] /\ Len(s) \in Nat /\ Len(s) >= 1
         /\ Len(Tail(s)) = Len(s) - 1
         /\ \A i \in DOMAIN Tail(s) : i + 1 \in DOMAIN s /\ Tail(s)[i] = s[i + 1]
         /\ ToSet(s) = {Head(s)} \cup ToSet(Tail(s))
<1>1. /\ Tail(s) \in Seq(S) /\ Head(s) \in S /\ Head(s) = s[1]
      /\ Len(s) \in Nat /\ Len(s) >= 1 /\ Len(Tail(s)) = Len(s) - 1
      /\ DOMAIN s = 1 .. Len(s) /\ DOMAIN Tail(s) = 1 .. Len(s) - 1
  OBVIOUS
<1>2. \A i \in DOMAIN Tail(s) : i + 1 \in DOMAIN s /\ Tail(s)[i] = s[i + 1]
  BY <1>1
<1>3. ToSet(s) \subseteq {Head(s)} \cup ToSet(Tail(s))
  <2>1. SUFFICES ASSUME NEW i \in DOMAIN s
                 PROVE  s[i] \in {Head(s)} \cup ToSet(Tail(s))
    BY DEF ToSet
  <2>2. CASE i = 1
    BY <1>1, <2>2
  <2>3. CASE i # 1
    <3>1. i - 1 \in DOMAIN Tail(s) /\ Tail(s)[i - 1] = s[i]
      BY <1>1, <1>2, <2>3
    <3> QED
      BY <3>1 DEF ToSet
  <2> QED
    BY <2>2, <2>3
<1>4. {Head(s)} \cup ToSet(Tail(s)) \subseteq ToSet(s)
  BY <1>1, <1>2 DEF ToSet
<1> QED
  BY <1>1, <1>2, <1>3, <1>4

LEMMA InTurn ==
  ASSUME NEW S, NEW s \in Seq(S), NEW t \in Seq(S)
  PROVE  s \o t \in Seq(S) /\ ToSet(s \o t) = ToSet(s) \cup ToSet(t)
<1>1. /\ s \o t \in Seq(S) /\ DOMAIN (s \o t) = 1 .. Len(s) + Len(t)
      /\ DOMAIN s = 1 .. Len(s) /\ DOMAIN t = 1 .. Len(t)
      /\ Len(s) \in Nat /\ Len(t) \in Nat
      /\ \A i \in 1 .. Len(s) + Len(t) :
           (s \o t)[i] = IF i <= Len(s) THEN s[i] ELSE t[i - Len(s)]
  BY ConcatProperties
<1>2. ToSet(s \o t) \subseteq ToSet(s) \cup ToSet(t)
  <2>1. SUFFICES ASSUME NEW i \in 1 .. Len(s) + Len(t)
                 PROVE  (s \o t)[i] \in ToSet(s) \cup ToSet(t)
    BY <1>1 DEF ToSet
  <2>2. i <= Len(s) => i \in DOMAIN s
    BY <1>1
  <2>3. ~(i <= Len(s)) => i - Len(s) \in DOMAIN t
    BY <1>1
  <2> QED
    BY <1>1, <2>2, <2>3 DEF ToSet
<1>3. ToSet(s) \subseteq ToSet(s \o t)
  BY <1>1 DEF ToSet
<1>4. ToSet(t) \subseteq ToSet(s \o t)
  <2>1. SUFFICES ASSUME NEW i \in DOMAIN t PROVE t[i] \in ToSet(s \o t)
    BY DEF ToSet
  <2>2. /\ i + Len(s) \in 1 .. Len(s) + Len(t) /\ ~(i + Len(s) <= Len(s))
        /\ (i + Len(s)) - Len(s) = i
    BY <1>1
  <2>3. (s \o t)[i + Len(s)] = t[i]
    BY <1>1, <2>2
  <2> QED
    BY <1>1, <2>2, <2>3 DEF ToSet
<1> QED
  BY <1>1, <1>2, <1>3, <1>4

LEMMA ItemsInTurn ==
  \A s, t \in Seq(Item) :
    /\ s \o t \in Seq(Item) /\ ToSet(s \o t) = ToSet(s) \cup ToSet(t)
    /\ Len(s \o t) = Len(s) + Len(t)
    /\ \A i \in 1 .. Len(s) : (s \o t)[i] = s[i]
    /\ \A i \in 1 .. Len(t) : (s \o t)[Len(s) + i] = t[i]
<1> SUFFICES ASSUME NEW s \in Seq(Item), NEW t \in Seq(Item)
             PROVE  /\ s \o t \in Seq(Item) /\ ToSet(s \o t) = ToSet(s) \cup ToSet(t)
                    /\ Len(s \o t) = Len(s) + Len(t)
                    /\ \A i \in 1 .. Len(s) : (s \o t)[i] = s[i]
                    /\ \A i \in 1 .. Len(t) : (s \o t)[Len(s) + i] = t[i]
  OBVIOUS
<1>1. Len(s) \in Nat /\ Len(t) \in Nat
  OBVIOUS
<1> QED
  BY <1>1, InTurn, ConcatProperties

(* A finite set in some order.                                             *)
LEMMA InSomeOrder ==
  ASSUME NEW F, IsFiniteSet(F)
  PROVE  /\ Cardinality(F) \in Nat
         /\ SetToSeq(F) \in [1 .. Cardinality(F) -> F]
         /\ \A x \in F : \E i \in 1 .. Cardinality(F) : SetToSeq(F)[i] = x
<1> DEFINE n == Cardinality(F)
           g == SetToSeq(F)
<1>1. n \in Nat /\ ExistsBijection(1 .. n, F)
  BY FS_CardinalityType
<1>2. \E f \in [1 .. n -> F] : IsInjective(f)
  BY <1>1 DEF ExistsBijection, Bijection, Injection
<1>3. g \in [1 .. n -> F] /\ IsInjective(g)
  BY <1>2 DEF SetToSeq
<1>4. g \in Injection(1 .. n, F)
  BY <1>3 DEF Injection
<1>5. Cardinality(1 .. n) = n
  BY <1>1, FS_Interval
<1>6. g \in Surjection(1 .. n, F)
  BY <1>4, <1>5, FS_Injection
<1> QED
  BY <1>1, <1>3, <1>6 DEF Surjection

(* The files a call writes.                                                *)
LEMMA WritesAll ==
  ASSUME NEW F, IsFiniteSet(F)
  PROVE  /\ Writes(F) \in Seq({Write(f) : f \in F})
         /\ ToSet(Writes(F)) = {Write(f) : f \in F}
         /\ Len(Writes(F)) = Cardinality(F)
<1> DEFINE n == Cardinality(F)
           W == {Write(f) : f \in F}
<1>1. /\ n \in Nat /\ SetToSeq(F) \in [1 .. n -> F]
      /\ \A x \in F : \E i \in 1 .. n : SetToSeq(F)[i] = x
  BY InSomeOrder
<1>2. /\ DOMAIN Writes(F) = 1 .. n
      /\ \A i \in 1 .. n : Writes(F)[i] = Write(SetToSeq(F)[i]) /\ Writes(F)[i] \in W
  BY <1>1 DEF Writes
<1>3. Writes(F) \in Seq(W) /\ Len(Writes(F)) = n
  BY <1>1, <1>2 DEF Writes
<1>4. W \subseteq ToSet(Writes(F))
  <2>1. SUFFICES ASSUME NEW f \in F PROVE Write(f) \in ToSet(Writes(F))
    OBVIOUS
  <2>2. PICK i \in 1 .. n : SetToSeq(F)[i] = f
    BY <1>1
  <2> QED
    BY <1>2, <2>2 DEF ToSet
<1> QED
  BY <1>2, <1>3, <1>4 DEF ToSet

-----------------------------------------------------------------------------
(* The directory is finite.                                                *)

Tagged(a, S) == {<<a, x>> : x \in S}

LEMMA TaggedFinite ==
  ASSUME NEW S, IsFiniteSet(S), NEW a
  PROVE  IsFiniteSet(Tagged(a, S))
<1> DEFINE f == [x \in S |-> <<a, x>>]
<1>1. f \in Surjection(S, Tagged(a, S))
  BY DEF Surjection, Tagged
<1> QED
  BY <1>1, FS_Surjection

LEMMA DirectoryFinite ==
  /\ IsFiniteSet(Path)
  /\ \A F \in SUBSET File : IsFiniteSet(F)
<1>1. IsFiniteSet(Source)
  <2>1. Source = Tagged("java", Unit)
    BY DEF Source, Tagged
  <2> QED
    BY <2>1, TaggedFinite, ProvisioningAssumption
<1>2. ASSUME NEW a PROVE IsFiniteSet(Bundle(a))
  <2>1. IsFiniteSet(Shared \cup {"bridge"})
    BY FS_AddElement, ProvisioningAssumption
  <2>2. Bundle(a) = Tagged(a, Shared \cup {"bridge"})
    BY DEF Bundle, Tagged
  <2> QED
    BY <2>1, <2>2, TaggedFinite
<1>3. IsFiniteSet(File)
  <2>1. IsFiniteSet(Source \cup {<<"python", "bridge">>})
    BY <1>1, FS_AddElement
  <2>2. IsFiniteSet((Source \cup {<<"python", "bridge">>}) \cup Bundle("node"))
    BY <1>2, <2>1, FS_Union
  <2>3. IsFiniteSet(((Source \cup {<<"python", "bridge">>}) \cup Bundle("node"))
                      \cup Bundle("browser"))
    BY <1>2, <2>2, FS_Union
  <2> QED
    BY <2>3 DEF File
<1>4. IsFiniteSet({Dir(a) : a \in Adapter})
  <2>1. IsFiniteSet(({Dir("java")} \cup {Dir("python")} \cup {Dir("node")}) \cup {Dir("browser")})
    <3>1. IsFiniteSet({Dir("java")})
      BY FS_Singleton
    <3>2. IsFiniteSet({Dir("java")} \cup {Dir("python")})
      BY <3>1, FS_AddElement
    <3>3. IsFiniteSet({Dir("java")} \cup {Dir("python")} \cup {Dir("node")})
      BY <3>2, FS_AddElement
    <3> QED
      BY <3>3, FS_AddElement
  <2>2. {Dir(a) : a \in Adapter} =
          ({Dir("java")} \cup {Dir("python")} \cup {Dir("node")}) \cup {Dir("browser")}
    BY DEF Adapter
  <2> QED
    BY <2>1, <2>2
<1>5. IsFiniteSet(Path)
  <2>1. IsFiniteSet(File \cup {Dir(a) : a \in Adapter})
    BY <1>3, <1>4, FS_Union
  <2>2. IsFiniteSet((File \cup {Dir(a) : a \in Adapter}) \cup {ClassesDir})
    BY <2>1, FS_AddElement
  <2> QED
    BY <2>2 DEF Path
<1> QED
  BY <1>3, <1>5, FS_Subset

-----------------------------------------------------------------------------
(* The plans.                                                              *)

LEMMA GuardsAre ==
  /\ Guards("compiled") = {"java"}
  /\ Guards("py") = {"python"} /\ Guards("pybridge") = {"python"}
  /\ Guards("nodebridge") = {"node"} /\ Guards("ws") = {"node"}
  /\ Guards("browserbridge") = {"node", "browser"}
BY DEF Guards, LocksOf, ToSet

LEMMA FilesGuarded ==
  ASSUME NEW e \in Ensure
  PROVE  FilesOf(e) \subseteq File /\ \A f \in FilesOf(e) : f[1] \in Guards(e)
BY GuardsAre DEF Ensure, FilesOf, File, Bundle, Source

LEMMA GuardsAdapters == \A e \in Ensure : Guards(e) \subseteq Adapter
BY GuardsAre DEF Ensure, Adapter

LEMMA Items ==
  /\ \A F \in SUBSET Path : Check(F) \in Item
  /\ \A f \in File : Write(f) \in Item /\ Checked(Write(f)) \in Item
  /\ \A a \in Adapter, P \in SUBSET Part : Run(a, P) \in Item
<1>1. \A f \in File : f[1] \in Adapter
  BY DEF File, Source, Bundle, Adapter
<1> QED
  BY <1>1 DEF Item, Check, Write, Run, Checked, Path

LEMMA CheckedAll ==
  ASSUME NEW F, IsFiniteSet(F)
  PROVE  LET C == [i \in DOMAIN Writes(F) |-> Checked(Writes(F)[i])]
             T == {Checked(Write(f)) : f \in F}
         IN  C \in Seq(T) /\ ToSet(C) = T
<1> DEFINE W == Writes(F)
           C == [i \in DOMAIN W |-> Checked(W[i])]
           T == {Checked(Write(f)) : f \in F}
<1>0. W \in Seq({Write(f) : f \in F}) /\ ToSet(W) = {Write(f) : f \in F}
  BY WritesAll
<1> HIDE DEF W
<1>1. Len(W) \in Nat /\ DOMAIN W = 1 .. Len(W)
  BY <1>0
<1>2. \A i \in DOMAIN W : \E f \in F : W[i] = Write(f)
  BY <1>0, <1>1
<1>3. \A f \in F : \E i \in DOMAIN W : W[i] = Write(f)
  BY <1>0 DEF ToSet
<1>4. \A i \in 1 .. Len(W) : Checked(W[i]) \in T
  BY <1>1, <1>2
<1>5. C \in Seq(T)
  BY <1>1, <1>4
<1>6. DOMAIN C = DOMAIN W /\ \A i \in DOMAIN W : C[i] = Checked(W[i])
  OBVIOUS
<1>7. ToSet(C) = T
  <2>1. ToSet(C) \subseteq T
    BY <1>1, <1>4, <1>6 DEF ToSet
  <2>2. T \subseteq ToSet(C)
    BY <1>3, <1>6 DEF ToSet
  <2> QED
    BY <2>1, <2>2
<1> QED
  BY <1>5, <1>7 DEF W

(* The bridge and the shared core of a JavaScript adapter.                 *)
LEMMA BundlePlanned ==
  ASSUME NEW p \in Start, NEW a \in {"node", "browser"}
  PROVE  LET bridge == <<a, "bridge">>
             core   == Bundle(a) \ {bridge}
         IN  /\ BundlePlan(p, a) \in Seq(Item)
             /\ ToSet(BundlePlan(p, a)) =
                  {Check({Dir(a), bridge}), Check(core)}
                  \cup {Checked(Write(f)) : f \in Differ(p, core)}
                  \cup (IF Differ(p, Bundle(a)) = {} THEN {} ELSE {Write(bridge)})
<1> DEFINE bridge == <<a, "bridge">>
           core   == Bundle(a) \ {bridge}
           F      == Differ(p, core)
           C      == [i \in DOMAIN Writes(F) |-> Checked(Writes(F)[i])]
           last   == IF Differ(p, Bundle(a)) = {} THEN <<>> ELSE <<Write(bridge)>>
           first  == <<Check({Dir(a), bridge})>>
           second == <<Check(core)>>
<1>1. Bundle(a) \subseteq File /\ bridge \in Bundle(a) /\ a \in Adapter
  BY DEF File, Bundle, Adapter
<1>2. F \subseteq File /\ IsFiniteSet(F)
  BY <1>1, DirectoryFinite DEF Differ
<1>3. C \in Seq({Checked(Write(f)) : f \in F}) /\ ToSet(C) = {Checked(Write(f)) : f \in F}
  BY <1>2, CheckedAll
<1>4. C \in Seq(Item)
  <2>1. {Checked(Write(f)) : f \in F} \subseteq Item
    BY <1>2, Items
  <2> QED
    BY <1>3, <2>1, SeqMonotonic
<1>5. /\ {Dir(a), bridge} \in SUBSET Path /\ core \in SUBSET Path
  BY <1>1 DEF Path
<1>6. /\ first \in Seq(Item) /\ ToSet(first) = {Check({Dir(a), bridge})}
      /\ second \in Seq(Item) /\ ToSet(second) = {Check(core)}
  <2>1. Check({Dir(a), bridge}) \in Item /\ Check(core) \in Item
    BY <1>5, Items
  <2>2. \A x \in Item : <<x>> \in Seq(Item) /\ ToSet(<<x>>) = {x}
    BY OneToDo
  <2> QED
    BY <2>1, <2>2
<1>7. /\ last \in Seq(Item)
      /\ ToSet(last) = IF Differ(p, Bundle(a)) = {} THEN {} ELSE {Write(bridge)}
  <2>1. CASE Differ(p, Bundle(a)) = {}
    BY <2>1, NothingToDo
  <2>2. CASE Differ(p, Bundle(a)) # {}
    <3>1. Write(bridge) \in Item
      BY <1>1, Items
    <3>2. <<Write(bridge)>> \in Seq(Item)
      BY <3>1
    <3>3. ToSet(<<Write(bridge)>>) = {Write(bridge)}
      BY OneToDo
    <3> QED
      BY <2>2, <3>2, <3>3
  <2> QED
    BY <2>1, <2>2
<1>8. BundlePlan(p, a) = first \o C \o second \o last
  BY DEF BundlePlan
<1> HIDE DEF first, second, last, C
<1>9. first \o C \in Seq(Item) /\ ToSet(first \o C) = ToSet(first) \cup ToSet(C)
  BY <1>4, <1>6, ItemsInTurn
<1>10. /\ first \o C \o second \in Seq(Item)
       /\ ToSet(first \o C \o second) = ToSet(first) \cup ToSet(C) \cup ToSet(second)
  BY <1>6, <1>9, ItemsInTurn
<1>11. /\ first \o C \o second \o last \in Seq(Item)
       /\ ToSet(first \o C \o second \o last)
            = ToSet(first) \cup ToSet(C) \cup ToSet(second) \cup ToSet(last)
  BY <1>7, <1>10, ItemsInTurn
<1>12. ToSet(BundlePlan(p, a)) = {Check({Dir(a), bridge})} \cup {Checked(Write(f)) : f \in F}
         \cup {Check(core)} \cup (IF Differ(p, Bundle(a)) = {} THEN {} ELSE {Write(bridge)})
  BY <1>3, <1>6, <1>7, <1>8, <1>11
<1> QED
  BY <1>8, <1>11, <1>12

(* The Java plan, whole: two looks, the sources, the compiler.             *)
LEMMA JavaPlanned ==
  ASSUME NEW p \in Start
  PROVE  IF JavaStale(p)
         THEN LET n == Cardinality(Source)
              IN  /\ JavaPlan(p) \in Seq(Item) /\ Len(JavaPlan(p)) = n + 3 /\ n \in Nat
                  /\ JavaPlan(p)[1] = Check({Dir("java")} \cup Source)
                  /\ JavaPlan(p)[2] = Check({ClassesDir})
                  /\ \A i \in 3 .. n + 2 : \E f \in Source : JavaPlan(p)[i] = Write(f)
                  /\ JavaPlan(p)[n + 3] = Compile
                  /\ \A f \in Source : Write(f) \in ToSet(JavaPlan(p))
         ELSE JavaPlan(p) = <<Check({Dir("java")} \cup Source)>>
<1> DEFINE n == Cardinality(Source)
           one == <<Check({Dir("java")} \cup Source)>>
           two == <<Check({ClassesDir})>>
           W == Writes(Source)
           three == <<Compile>>
<1>1. Source \subseteq File /\ "java" \in Adapter
  BY DEF File, Adapter
<1>2. IsFiniteSet(Source) /\ n \in Nat
  BY <1>1, DirectoryFinite, FS_CardinalityType
<1>3. /\ W \in Seq({Write(f) : f \in Source}) /\ ToSet(W) = {Write(f) : f \in Source}
      /\ Len(W) = n
  BY <1>2, WritesAll
<1>4. W \in Seq(Item)
  <2>1. {Write(f) : f \in Source} \subseteq Item
    BY <1>1, Items
  <2> QED
    BY <1>3, <2>1, SeqMonotonic
<1>5. /\ {Dir("java")} \cup Source \in SUBSET Path /\ {ClassesDir} \in SUBSET Path
      /\ Classes \in SUBSET Part
  BY <1>1 DEF Path, Part
<1>6. one \in Seq(Item) /\ two \in Seq(Item) /\ three \in Seq(Item)
  BY <1>1, <1>5, Items DEF Compile
<1>7. CASE ~JavaStale(p)
  <2>1. JavaPlan(p) = one \o <<>>
    BY <1>7 DEF JavaPlan
  <2> QED
    BY <1>6, <1>7, <2>1, ConcatEmptySeq
<1>8. CASE JavaStale(p)
  <2>1. JavaPlan(p) = one \o (two \o W \o three)
    BY <1>8 DEF JavaPlan, Compile
  <2>2. /\ Len(one) = 1 /\ Len(two) = 1 /\ Len(three) = 1
        /\ one[1] = Check({Dir("java")} \cup Source) /\ two[1] = Check({ClassesDir})
        /\ three[1] = Compile
    OBVIOUS
  <2>3. \A i \in 1 .. n : \E f \in Source : W[i] = Write(f)
    BY <1>3
  <2> DEFINE A == two \o W
             B == A \o three
  <2> HIDE DEF one, two, three, W
  <2>4. /\ A \in Seq(Item) /\ Len(A) = 1 + n
        /\ A[1] = two[1]
        /\ \A i \in 1 .. n : A[1 + i] = W[i]
        /\ ToSet(A) = ToSet(two) \cup ToSet(W)
    <3>1. /\ two \o W \in Seq(Item) /\ ToSet(two \o W) = ToSet(two) \cup ToSet(W)
          /\ Len(two \o W) = Len(two) + Len(W)
          /\ \A i \in 1 .. Len(two) : (two \o W)[i] = two[i]
          /\ \A i \in 1 .. Len(W) : (two \o W)[Len(two) + i] = W[i]
      BY <1>4, <1>6, ItemsInTurn
    <3>2. Len(W) = n /\ n \in Nat
      BY <1>2, <1>3
    <3> HIDE DEF n
    <3> QED
      BY <2>2, <3>1, <3>2
  <2> HIDE DEF A
  <2>5. /\ B \in Seq(Item) /\ Len(B) = n + 2
        /\ \A i \in 1 .. n + 1 : B[i] = A[i]
        /\ B[n + 2] = three[1]
        /\ ToSet(B) = ToSet(A) \cup ToSet(three)
    <3>1. Len(A) = n + 1 /\ (n + 1) + 1 = n + 2
      BY <1>2, <2>4
    <3> QED
      <4>1. /\ A \o three \in Seq(Item) /\ ToSet(A \o three) = ToSet(A) \cup ToSet(three)
            /\ Len(A \o three) = Len(A) + Len(three)
            /\ \A i \in 1 .. Len(A) : (A \o three)[i] = A[i]
            /\ \A i \in 1 .. Len(three) : (A \o three)[Len(A) + i] = three[i]
        BY <1>6, <2>4, ItemsInTurn
      <4> HIDE DEF n
      <4> QED
        BY <1>2, <2>2, <3>1, <4>1 DEF B
  <2> HIDE DEF B
  <2>6. /\ JavaPlan(p) \in Seq(Item) /\ Len(JavaPlan(p)) = n + 3
        /\ JavaPlan(p)[1] = one[1]
        /\ \A i \in 1 .. n + 2 : JavaPlan(p)[1 + i] = B[i]
        /\ ToSet(JavaPlan(p)) = ToSet(one) \cup ToSet(B)
    <3>1. JavaPlan(p) = one \o B
      BY <2>1 DEF A, B
    <3> QED
      <4>1. /\ one \o B \in Seq(Item) /\ ToSet(one \o B) = ToSet(one) \cup ToSet(B)
            /\ Len(one \o B) = Len(one) + Len(B)
            /\ \A i \in 1 .. Len(one) : (one \o B)[i] = one[i]
            /\ \A i \in 1 .. Len(B) : (one \o B)[Len(one) + i] = B[i]
        BY <1>6, <2>5, ItemsInTurn
      <4> HIDE DEF n
      <4> QED
        BY <1>2, <2>2, <2>5, <3>1, <4>1
  <2>7. JavaPlan(p)[2] = two[1] /\ JavaPlan(p)[n + 3] = three[1]
    <3>1. JavaPlan(p)[1 + 1] = B[1] /\ JavaPlan(p)[1 + (n + 2)] = B[n + 2]
      BY <1>2, <2>6
    <3>2. 1 + 1 = 2 /\ 1 + (n + 2) = n + 3
      BY <1>2
    <3> QED
      BY <1>2, <2>4, <2>5, <3>1, <3>2
  <2>8. ASSUME NEW i \in 3 .. n + 2
        PROVE  \E f \in Source : JavaPlan(p)[i] = Write(f)
    <3>1. /\ i - 1 \in 1 .. n + 2 /\ i - 1 \in 1 .. n + 1 /\ i - 2 \in 1 .. n
          /\ 1 + (i - 1) = i /\ 1 + (i - 2) = i - 1
      BY <1>2
    <3>2. JavaPlan(p)[i] = W[i - 2]
      BY <2>4, <2>5, <2>6, <3>1
    <3> QED
      BY <2>3, <3>1, <3>2
  <2>9. \A f \in Source : Write(f) \in ToSet(JavaPlan(p))
    BY <1>3, <2>4, <2>5, <2>6
  <2> QED
    BY <1>2, <1>8, <2>2, <2>6, <2>7, <2>8, <2>9
<1> QED
  BY <1>7, <1>8

(* What each plan is made of.                                              *)
LEMMA JavaItems ==
  ASSUME NEW p \in Start
  PROVE  /\ JavaPlan(p) \in Seq(Item)
         /\ \A x \in ToSet(JavaPlan(p)) :
              \/ \E F \in SUBSET Path : x = Check(F)
              \/ \E f \in Source : x = Write(f)
              \/ x = Compile
         /\ JavaStale(p) => /\ Compile \in ToSet(JavaPlan(p))
                            /\ \A f \in Source : Write(f) \in ToSet(JavaPlan(p))
<1> DEFINE looks == {Dir("java")} \cup Source
<1>0. looks \in SUBSET Path /\ {ClassesDir} \in SUBSET Path
  BY DEF Path, File, Adapter
<1> HIDE DEF looks
<1>1. CASE ~JavaStale(p)
  <2>1. JavaPlan(p) = <<Check(looks)>>
    BY <1>1, JavaPlanned DEF looks
  <2>2. Check(looks) \in Item
    BY <1>0, Items
  <2> QED
    BY <1>0, <1>1, <2>1, <2>2, OneToDo
<1>2. CASE JavaStale(p)
  <2> DEFINE n == Cardinality(Source)
             P == JavaPlan(p)
  <2>1. /\ P \in Seq(Item) /\ Len(P) = n + 3 /\ n \in Nat
        /\ P[1] = Check(looks) /\ P[2] = Check({ClassesDir})
        /\ \A i \in 3 .. n + 2 : \E f \in Source : P[i] = Write(f)
        /\ P[n + 3] = Compile
        /\ \A f \in Source : Write(f) \in ToSet(P)
    BY <1>2, JavaPlanned DEF looks
  <2> HIDE DEF P, n
  <2>2. DOMAIN P = 1 .. n + 3
    BY <2>1
  <2>3. Compile \in ToSet(P)
    BY <2>1, <2>2 DEF ToSet
  <2>4. ASSUME NEW i \in DOMAIN P
        PROVE  \/ \E F \in SUBSET Path : P[i] = Check(F)
               \/ \E f \in Source : P[i] = Write(f)
               \/ P[i] = Compile
    <3>1. i = 1 \/ i = 2 \/ i \in 3 .. n + 2 \/ i = n + 3
      BY <2>1, <2>2
    <3> QED
      BY <1>0, <2>1, <3>1
  <2> QED
    BY <2>1, <2>3, <2>4 DEF ToSet, P
<1> QED
  BY <1>1, <1>2

LEMMA PyItems ==
  /\ PyPlan \in Seq(Item)
  /\ ToSet(PyPlan) = IF HasDebugpy THEN {}
                     ELSE {Check({Dir("python")}), Run("python", {<<"python", "interpreter">>}),
                           Run("python", {<<"python", "debugpy">>})}
<1>1. /\ Check({Dir("python")}) \in Item
      /\ Run("python", {<<"python", "interpreter">>}) \in Item
      /\ Run("python", {<<"python", "debugpy">>}) \in Item
  <2>1. {Dir("python")} \in SUBSET Path /\ "python" \in Adapter
        /\ {<<"python", "interpreter">>} \in SUBSET Part /\ {<<"python", "debugpy">>} \in SUBSET Part
    BY DEF Path, Adapter, Part, Venv
  <2> QED
    BY <2>1, Items
<1>2. \A x, y, z : ToSet(<<x, y, z>>) = {x, y, z}
  BY DEF ToSet
<1>3. CASE HasDebugpy
  BY <1>3, NothingToDo DEF PyPlan
<1>4. CASE ~HasDebugpy
  <2>1. \A x, y, z \in Item : <<x, y, z>> \in Seq(Item)
    OBVIOUS
  <2>2. PyPlan = <<Check({Dir("python")}), Run("python", {<<"python", "interpreter">>}),
                   Run("python", {<<"python", "debugpy">>})>>
    BY <1>4 DEF PyPlan
  <2> QED
    BY <1>1, <1>2, <1>4, <2>1, <2>2
<1> QED
  BY <1>3, <1>4

LEMMA WsItems ==
  /\ WsPlan \in Seq(Item)
  /\ ToSet(WsPlan) = IF WsMarker THEN {} ELSE {Check({Dir("node")}), Run("node", Ws)}
<1>1. Check({Dir("node")}) \in Item /\ Run("node", Ws) \in Item
  <2>1. {Dir("node")} \in SUBSET Path /\ "node" \in Adapter /\ Ws \in SUBSET Part
    BY DEF Path, Adapter, Part
  <2> QED
    BY <2>1, Items
<1>2. \A x, y : ToSet(<<x, y>>) = {x, y}
  BY DEF ToSet
<1>3. CASE WsMarker
  BY <1>3, NothingToDo DEF WsPlan
<1>4. CASE ~WsMarker
  BY <1>1, <1>2, <1>4 DEF WsPlan
<1> QED
  BY <1>3, <1>4

LEMMA PyBridgeItems ==
  ASSUME NEW p \in Start
  PROVE  LET F == Differ(p, {<<"python", "bridge">>})
             look == Check({Dir("python"), <<"python", "bridge">>})
         IN  /\ PlanOf(p, "pybridge") \in Seq(Item)
             /\ ToSet(PlanOf(p, "pybridge")) = {look} \cup {Write(f) : f \in F}
<1> DEFINE F == Differ(p, {<<"python", "bridge">>})
           look == Check({Dir("python"), <<"python", "bridge">>})
           W == Writes(F)
<1>1. F \subseteq File /\ IsFiniteSet(F)
  <2>1. F \subseteq File
    BY DEF File, Differ
  <2> QED
    BY <2>1, DirectoryFinite
<1>2. W \in Seq({Write(f) : f \in F}) /\ ToSet(W) = {Write(f) : f \in F}
  BY <1>1, WritesAll
<1>3. W \in Seq(Item)
  <2>1. {Write(f) : f \in F} \subseteq Item
    BY <1>1, Items
  <2> QED
    BY <1>2, <2>1, SeqMonotonic
<1>4. look \in Item
  <2>1. {Dir("python"), <<"python", "bridge">>} \in SUBSET Path
    BY DEF Path, File, Adapter
  <2> QED
    BY <2>1, Items
<1>5. PlanOf(p, "pybridge") = <<look>> \o W
  BY DEF PlanOf
<1> HIDE DEF W, look
<1>6. <<look>> \in Seq(Item) /\ ToSet(<<look>>) = {look}
  BY <1>4, OneToDo
<1>7. PlanOf(p, "pybridge") \in Seq(Item) /\ ToSet(PlanOf(p, "pybridge")) = {look} \cup ToSet(W)
  BY <1>3, <1>5, <1>6, ItemsInTurn
<1>8. ToSet(PlanOf(p, "pybridge")) = {look} \cup {Write(f) : f \in F}
  BY <1>2, <1>7
<1> QED
  BY <1>7, <1>8 DEF look

LEMMA BrowserItems ==
  ASSUME NEW p \in Start
  PROVE  /\ PlanOf(p, "browserbridge") \in Seq(Item)
         /\ ToSet(PlanOf(p, "browserbridge")) = ToSet(WsPlan) \cup ToSet(BundlePlan(p, "browser"))
<1>1. PlanOf(p, "browserbridge") = WsPlan \o BundlePlan(p, "browser")
  BY DEF PlanOf
<1>2. WsPlan \in Seq(Item) /\ BundlePlan(p, "browser") \in Seq(Item)
  BY WsItems, BundlePlanned
<1> QED
  BY <1>1, <1>2, ItemsInTurn

(* A plan stays within the locks of its call.                              *)
LEMMA PlanCovered ==
  ASSUME NEW p \in Start, NEW e \in Ensure
  PROVE  PlanOf(p, e) \in Seq(Item) /\ \A x \in ToSet(PlanOf(p, e)) : Covered(x, e)
<1>1. /\ \A F : Covered(Check(F), e)
      /\ \A f \in FilesOf(e) : Covered(Write(f), e) /\ Covered(Checked(Write(f)), e)
      /\ \A a \in Guards(e), P \in SUBSET Part :
           (\A q \in P : q[1] = a) /\ (a = "node" => P = Ws) => Covered(Run(a, P), e)
  BY DEF Covered, Check, Write, Checked, Run
<1>2. \A a \in {"node", "browser"} :
        FilesOf(e) = Bundle(a) =>
          BundlePlan(p, a) \in Seq(Item) /\ \A x \in ToSet(BundlePlan(p, a)) : Covered(x, e)
  <2>1. SUFFICES ASSUME NEW a \in {"node", "browser"}, FilesOf(e) = Bundle(a)
                 PROVE  /\ BundlePlan(p, a) \in Seq(Item)
                        /\ \A x \in ToSet(BundlePlan(p, a)) : Covered(x, e)
    OBVIOUS
  <2>2. /\ <<a, "bridge">> \in Bundle(a)
        /\ Differ(p, Bundle(a) \ {<<a, "bridge">>}) \subseteq Bundle(a)
    BY DEF Bundle, Differ
  <2>3. BundlePlan(p, a) \in Seq(Item)
    BY BundlePlanned
  <2>4. ASSUME NEW x \in ToSet(BundlePlan(p, a)) PROVE Covered(x, e)
    <3>1. \/ x = Check({Dir(a), <<a, "bridge">>}) \/ x = Check(Bundle(a) \ {<<a, "bridge">>})
          \/ x \in {Checked(Write(f)) : f \in Differ(p, Bundle(a) \ {<<a, "bridge">>})}
          \/ x = Write(<<a, "bridge">>)
      <4>1. ToSet(BundlePlan(p, a)) =
              {Check({Dir(a), <<a, "bridge">>}), Check(Bundle(a) \ {<<a, "bridge">>})}
              \cup {Checked(Write(f)) : f \in Differ(p, Bundle(a) \ {<<a, "bridge">>})}
              \cup (IF Differ(p, Bundle(a)) = {} THEN {} ELSE {Write(<<a, "bridge">>)})
        BY BundlePlanned
      <4> QED
        BY <2>4, <4>1
    <3> QED
      BY <1>1, <2>1, <2>2, <3>1
  <2> QED
    BY <2>3, <2>4
<1>3. \A q \in Ws : q[1] = "node"
  BY DEF Ws
<1>4. e # "compiled" \/ (FilesOf(e) = Source /\ Guards(e) = {"java"} /\ PlanOf(p, e) = JavaPlan(p))
  BY GuardsAre DEF FilesOf, PlanOf
<1>5. CASE e = "compiled"
  <2>1. \A q \in Classes : q[1] = "java"
    BY DEF Classes, Source
  <2>2. Covered(Compile, e)
    BY <1>1, <1>4, <1>5, <2>1 DEF Compile, Part
  <2> QED
    BY <1>1, <1>4, <1>5, <2>2, JavaItems
<1>6. CASE e = "py"
  <2>1. PlanOf(p, e) = PyPlan
    BY <1>6 DEF PlanOf
  <2>2. /\ Covered(Run("python", {<<"python", "interpreter">>}), e)
        /\ Covered(Run("python", {<<"python", "debugpy">>}), e)
    BY <1>1, <1>6, GuardsAre DEF Part, Venv
  <2> QED
    BY <1>1, <2>1, <2>2, PyItems
<1>7. CASE e = "pybridge"
  <2>1. Differ(p, {<<"python", "bridge">>}) \subseteq FilesOf(e)
    BY <1>7 DEF FilesOf, Differ
  <2> QED
    BY <1>1, <1>7, <2>1, PyBridgeItems
<1>8. CASE e = "nodebridge"
  <2>1. FilesOf(e) = Bundle("node") /\ PlanOf(p, e) = BundlePlan(p, "node")
    BY <1>8 DEF FilesOf, PlanOf
  <2> QED
    BY <1>2, <2>1
<1>9. CASE e = "ws"
  <2>1. PlanOf(p, e) = WsPlan
    BY <1>9 DEF PlanOf
  <2>2. Covered(Run("node", Ws), e)
    BY <1>1, <1>3, <1>9, GuardsAre DEF Part
  <2> QED
    BY <1>1, <2>1, <2>2, WsItems
<1>10. CASE e = "browserbridge"
  <2>1. FilesOf(e) = Bundle("browser")
    BY <1>10 DEF FilesOf
  <2>2. Covered(Run("node", Ws), e)
    BY <1>1, <1>3, <1>10, GuardsAre DEF Part
  <2>3. \A x \in ToSet(BundlePlan(p, "browser")) : Covered(x, e)
    BY <1>2, <2>1
  <2>4. \A x \in ToSet(WsPlan) : Covered(x, e)
    BY <1>1, <2>2, WsItems
  <2> QED
    BY <1>10, <2>3, <2>4, BrowserItems
<1> QED
  BY <1>5, <1>6, <1>7, <1>8, <1>9, <1>10 DEF Ensure

(* A plan writes every file of its call that is not as it should be ...     *)
LEMMA PlanWrites ==
  ASSUME NEW p \in Start, NEW e \in Ensure, NEW f \in FilesOf(e), disk[f] # ver[p]
  PROVE  \E x \in ToSet(PlanOf(p, e)) : x.do = "write" /\ f \in x.parts
<1>1. /\ Write(f).do = "write" /\ f \in Write(f).parts
      /\ Checked(Write(f)).do = "write" /\ f \in Checked(Write(f)).parts
  BY DEF Write, Checked
<1>2. SUFFICES Write(f) \in ToSet(PlanOf(p, e)) \/ Checked(Write(f)) \in ToSet(PlanOf(p, e))
  BY <1>1
<1>3. \A F : f \in F => f \in Differ(p, F)
  BY DEF Differ
<1>4. CASE e = "compiled"
  <2>1. f \in Source /\ PlanOf(p, e) = JavaPlan(p)
    BY <1>4 DEF FilesOf, PlanOf
  <2>2. JavaStale(p)
    BY <1>3, <2>1 DEF JavaStale
  <2> QED
    BY <2>1, <2>2, JavaItems
<1>5. CASE e = "pybridge"
  <2>1. f \in Differ(p, {<<"python", "bridge">>})
    BY <1>3, <1>5 DEF FilesOf
  <2>2. Write(f) \in {Write(g) : g \in Differ(p, {<<"python", "bridge">>})}
    BY <2>1
  <2>3. {Write(g) : g \in Differ(p, {<<"python", "bridge">>})} \subseteq ToSet(PlanOf(p, "pybridge"))
    BY PyBridgeItems
  <2> QED
    BY <1>5, <2>2, <2>3
<1>6. ASSUME NEW a \in {"node", "browser"}, f \in Bundle(a)
      PROVE  Write(f) \in ToSet(BundlePlan(p, a)) \/ Checked(Write(f)) \in ToSet(BundlePlan(p, a))
  <2>1. CASE f = <<a, "bridge">>
    <3>1. Differ(p, Bundle(a)) # {}
      BY <1>3, <1>6
    <3> QED
      BY <2>1, <3>1, BundlePlanned
  <2>2. CASE f # <<a, "bridge">>
    <3>1. f \in Differ(p, Bundle(a) \ {<<a, "bridge">>})
      BY <1>3, <1>6, <2>2
    <3>2. Checked(Write(f)) \in {Checked(Write(g)) : g \in Differ(p, Bundle(a) \ {<<a, "bridge">>})}
      BY <3>1
    <3>3. {Checked(Write(g)) : g \in Differ(p, Bundle(a) \ {<<a, "bridge">>})}
            \subseteq ToSet(BundlePlan(p, a))
      BY BundlePlanned
    <3> QED
      BY <3>2, <3>3
  <2> QED
    BY <2>1, <2>2
<1>7. CASE e = "nodebridge"
  BY <1>6, <1>7 DEF FilesOf, PlanOf
<1>8. CASE e = "browserbridge"
  BY <1>6, <1>8, BrowserItems DEF FilesOf
<1>9. CASE e \in {"py", "ws"}
  BY <1>9 DEF FilesOf
<1> QED
  BY <1>4, <1>5, <1>7, <1>8, <1>9 DEF Ensure

(* ... and makes every output of its call that is not there, going by the   *)
(* marker of `ws`.                                                          *)
LEMMA PlanRuns ==
  ASSUME NEW p \in Start, NEW e \in Ensure, NEW q \in Needs(e), out[q] = Absent,
         e # "py" /\ WsMarker => \A w \in Ws : out[w] # Absent
  PROVE  \E x \in ToSet(PlanOf(p, e)) : x.do = "run" /\ q \in x.parts
<1>1. \A a, P : Run(a, P).do = "run" /\ Run(a, P).parts = P
  BY DEF Run
<1>2. CASE e = "py"
  <2>1. q \in Venv /\ ~HasDebugpy /\ PlanOf(p, e) = PyPlan
    BY <1>2 DEF Needs, HasDebugpy, PlanOf
  <2>2. q = <<"python", "interpreter">> \/ q = <<"python", "debugpy">>
    BY <2>1 DEF Venv
  <2>3. /\ Run("python", {<<"python", "interpreter">>}) \in ToSet(PlanOf(p, e))
        /\ Run("python", {<<"python", "debugpy">>}) \in ToSet(PlanOf(p, e))
    BY <2>1, PyItems
  <2> QED
    BY <1>1, <2>2, <2>3
<1>3. CASE e \in {"ws", "browserbridge"}
  <2>1. q \in Ws /\ ~WsMarker
    BY <1>3 DEF Needs
  <2>2. Run("node", Ws) \in ToSet(WsPlan)
    BY <2>1, WsItems
  <2>3. ToSet(WsPlan) \subseteq ToSet(PlanOf(p, e))
    BY <1>3, BrowserItems DEF PlanOf
  <2> QED
    BY <1>1, <2>1, <2>2, <2>3
<1>4. CASE e \notin {"py", "ws", "browserbridge"}
  BY <1>4 DEF Needs
<1> QED
  BY <1>2, <1>3, <1>4

(* The order of the Java plan.                                              *)
LEMMA JavaPlanOrder ==
  ASSUME NEW p \in Start, NEW i \in DOMAIN JavaPlan(p)
  PROVE  LET P == JavaPlan(p)
         IN  /\ P[i].do = "run" => i = Len(P) /\ P[i] = Compile
             /\ P[i].do = "write" => Compile \in ToSet(P) /\ P[i].paths = {}
             /\ P[i].do = "check" => \A j \in 1 .. i : P[j].do = "check"
<1>1. /\ \A F : Check(F).do = "check"
      /\ \A f : Write(f).do = "write" /\ Write(f).paths = {}
      /\ Compile.do = "run"
  BY DEF Check, Write, Run, Compile
<1>2. CASE ~JavaStale(p)
  <2> DEFINE x == Check({Dir("java")} \cup Source)
  <2>1. JavaPlan(p) = <<x>> /\ x.do = "check"
    BY <1>1, <1>2, JavaPlanned
  <2> HIDE DEF x
  <2> QED
    BY <2>1
<1>3. CASE JavaStale(p)
  <2> DEFINE n == Cardinality(Source)
             P == JavaPlan(p)
  <2>1. /\ P \in Seq(Item) /\ Len(P) = n + 3 /\ n \in Nat
        /\ P[1].do = "check" /\ P[2].do = "check"
        /\ \A k \in 3 .. n + 2 : P[k].do = "write" /\ P[k].paths = {}
        /\ P[n + 3] = Compile
    BY <1>1, <1>3, JavaPlanned
  <2>2. Compile \in ToSet(P)
    BY <1>3, JavaItems
  <2>3. i \in DOMAIN P
    OBVIOUS
  <2> HIDE DEF P, n
  <2>4. i \in 1 .. n + 3
    BY <2>1, <2>3
  <2>5. P[i].do = "run" => i = Len(P) /\ P[i] = Compile
    BY <1>1, <2>1, <2>4
  <2>6. /\ P[i].do = "check" => i \in 1 .. 2
        /\ P[i].do = "write" => P[i].paths = {}
    BY <1>1, <2>1, <2>4
  <2>7. \A j \in 1 .. 2 : P[j].do = "check"
    BY <2>1
  <2> QED
    BY <2>2, <2>4, <2>5, <2>6, <2>7 DEF P
<1> QED
  BY <1>2, <1>3

-----------------------------------------------------------------------------
LEMMA InitInv == Init => Inv
<1> SUFFICES ASSUME Init PROVE Inv
  OBVIOUS
<1>1. kind \in [Start -> Adapter]
  BY ProvisioningAssumption DEF Init
<1>2. \A p \in Start : ens[p] \in Seq(Ensure) /\ ens[p] # <<>>
  <2>1. \A k \in Adapter : EnsuresOf(k) \in Seq(Ensure) /\ EnsuresOf(k) # <<>>
    <3>1. /\ <<"compiled">> \in Seq(Ensure) /\ <<"py", "pybridge">> \in Seq(Ensure)
          /\ <<"nodebridge", "ws">> \in Seq(Ensure) /\ <<"browserbridge", "ws">> \in Seq(Ensure)
      BY DEF Ensure
    <3>2. /\ EnsuresOf("java") = <<"compiled">> /\ EnsuresOf("python") = <<"py", "pybridge">>
          /\ EnsuresOf("node") = <<"nodebridge", "ws">>
          /\ EnsuresOf("browser") = <<"browserbridge", "ws">>
      BY DEF EnsuresOf
    <3>3. /\ EnsuresOf("java") # <<>> /\ EnsuresOf("python") # <<>>
          /\ EnsuresOf("node") # <<>> /\ EnsuresOf("browser") # <<>>
      BY <3>2
    <3> QED
      BY <3>1, <3>2, <3>3 DEF Adapter
  <2> QED
    BY <1>1, <2>1 DEF Init
<1>3. faults \in 0 .. MaxFaults /\ links \subseteq Path
  <2>1. links \subseteq Path /\ Cardinality(links) <= MaxFaults /\ faults = Cardinality(links)
    BY DEF Init
  <2>2. Cardinality(links) \in Nat
    BY <2>1, DirectoryFinite, FS_Subset, FS_CardinalityType
  <2> QED
    BY <2>1, <2>2, ProvisioningAssumption
<1>4. Typed
  <2>1. ver \in [Start -> Version] /\ disk \in [File -> Version \cup {Absent}]
        /\ out \in [Part -> Version \cup {Absent}] /\ lock \in [Adapter -> Start \cup {Nobody}]
    BY DEF Init
  <2>2. at \in [Start -> {"probe", "lock", "work"} \cup Over]
        /\ job \in [Start -> Job \cup {NoJob}] /\ cut \subseteq Adapter
    BY DEF Init
  <2>3. todo \in [Start -> Seq(Item)]
    BY DEF Init
  <2>4. ens \in [Start -> Seq(Ensure)]
    BY <1>2 DEF Init
  <2> QED
    BY <1>1, <1>2, <1>3, <2>1, <2>2, <2>3, <2>4 DEF Typed
<1>5. \A p \in Start : at[p] = "probe" /\ job[p] = NoJob
  BY DEF Init
<1>6. LocksHeld
  BY <1>5, ProvisioningAssumption DEF Init, LocksHeld, Held
<1>7. IdleDoNothing
  BY DEF Init, IdleDoNothing
<1>10. PlansCovered /\ JobsCovered /\ FilesPlanned /\ OutputsPlanned /\ JavaInOrder /\ ClassesPlanned
  BY <1>5 DEF PlansCovered, JobsCovered, JobFits, FilesPlanned, FilesDue, OutputsPlanned,
              OutputsDue, JavaInOrder, InOrder, ClassesPlanned, ClassesDue, Compiling
<1>8. MarkerMeansWs
  BY DEF Init, MarkerMeansWs, WsMarker, Ws, Part
<1>9. ClassesOfSources
  BY DEF Init, ClassesOfSources, Classes, Part, File
<1> QED
  BY <1>4, <1>6, <1>7, <1>8, <1>9, <1>10 DEF Inv

-----------------------------------------------------------------------------
(* The steps of one start.                                                 *)
Act(p) == Step(p) \/ GiveUp(p) \/ WriteFails(p) \/ ToolFails(p) \/ Crash(p) \/ OrphanEnds(p)

LEMMA CallKnown ==
  ASSUME Typed, NEW p \in Start, at[p] \notin Over
  PROVE  /\ Call(p) \in Ensure /\ Tail(ens[p]) \in Seq(Ensure)
         /\ Len(ens[p]) # 1 => Tail(ens[p]) # <<>>
<1>1. ens[p] \in Seq(Ensure) /\ ens[p] # <<>>
  BY DEF Typed
<1>2. /\ Len(ens[p]) \in Nat /\ Len(ens[p]) >= 1 /\ Len(Tail(ens[p])) = Len(ens[p]) - 1
      /\ Head(ens[p]) \in Ensure /\ Tail(ens[p]) \in Seq(Ensure)
  BY <1>1, TakeFirst
<1>3. Len(ens[p]) # 1 => Len(Tail(ens[p])) # 0
  BY <1>2
<1>4. Len(<<>>) = 0
  OBVIOUS
<1> QED
  BY <1>2, <1>3, <1>4 DEF Call

(* The first of what is to be done.                                        *)
LEMMA NextItem ==
  ASSUME Typed, NEW p \in Start, todo[p] # <<>>
  PROVE  /\ Head(todo[p]) \in Item /\ Tail(todo[p]) \in Seq(Item)
         /\ Pending(p) = {Head(todo[p])} \cup ToSet(Tail(todo[p]))
         /\ Head(todo[p]) = todo[p][1] /\ 1 \in DOMAIN todo[p]
BY TakeFirst DEF Typed, Pending

(* Which lock is taken next, and whether it is the last.                   *)
LEMMA NextLock ==
  ASSUME Typed, LocksHeld, NEW p \in Start, at[p] = "lock"
  PROVE  LET last == Cardinality(Holds(p)) + 1 = Len(LocksOf(Call(p)))
         IN  \/ /\ Call(p) # "browserbridge" /\ last
                /\ Guards(Call(p)) = {Wanted(p)} /\ \A a \in Adapter : lock[a] # p
             \/ /\ Call(p) = "browserbridge" /\ ~last /\ Wanted(p) = "node"
                /\ \A a \in Adapter : lock[a] # p
             \/ /\ Call(p) = "browserbridge" /\ last /\ Wanted(p) = "browser"
                /\ lock["node"] = p
<1>1. Call(p) \in Ensure
  BY CallKnown DEF Over
<1>2. Holds(p) = {} \/ (Call(p) = "browserbridge" /\ Holds(p) = {"node"} /\ lock["node"] = p)
  BY DEF LocksHeld, Held, Holds
<1>3. CASE Holds(p) = {}
  <2>1. Cardinality(Holds(p)) + 1 = 1 /\ \A a \in Adapter : lock[a] # p
    BY <1>3, FS_EmptySet DEF Holds
  <2>2. CASE Call(p) = "browserbridge"
    BY <2>1, <2>2 DEF Wanted, LocksOf
  <2>3. CASE Call(p) # "browserbridge"
    BY <1>1, <2>1, <2>3, GuardsAre DEF Wanted, LocksOf, Ensure
  <2> QED
    BY <2>2, <2>3
<1>4. CASE Call(p) = "browserbridge" /\ Holds(p) = {"node"} /\ lock["node"] = p
  <2>1. Cardinality(Holds(p)) + 1 = 2
    BY <1>4, FS_Singleton
  <2> QED
    BY <1>4, <2>1 DEF Wanted, LocksOf
<1> QED
  BY <1>2, <1>3, <1>4

LEMMA UndoneRuns ==
  ASSUME NEW p \in Start, NEW x \in Pending(p), x.do = "run"
  PROVE  x.on \in Undone(p)
BY DEF Pending, ToSet, Undone

(* What a start leaves undone is of its adapter.  Only what it works at can *)
(* be undone: there is nothing to do outside of "work".                     *)
LEMMA UndoneTyped ==
  ASSUME Inv, NEW p \in Start
  PROVE  Undone(p) \subseteq Adapter
<1>1. SUFFICES ASSUME NEW i \in DOMAIN todo[p], todo[p][i].do = "run"
               PROVE  todo[p][i].on \in Adapter
  BY DEF Undone
<1>2. todo[p][i] \in Pending(p)
  BY DEF Pending, ToSet
<1>3. at[p] = "work"
  BY <1>2, NothingToDo DEF Inv, IdleDoNothing, Pending
<1>4. Covered(todo[p][i], Call(p)) /\ Call(p) \in Ensure
  BY <1>2, <1>3, CallKnown DEF Inv, PlansCovered, Over
<1> QED
  BY <1>1, <1>4, GuardsAdapters DEF Covered

(* The variables keep their types.                                         *)
LEMMA TypeStep ==
  ASSUME Inv, NEW p \in Start, Act(p)
  PROVE  Typed'
<1> USE DEF Inv, Typed, Over
<1>1. CASE Probe(p)
  BY <1>1, CallKnown DEF Probe, Proceed
<1>2. CASE Acquire(p)
  <2>1. Wanted(p) \in Adapter
    BY <1>2, NextLock, CallKnown, GuardsAdapters DEF Acquire, Adapter
  <2>2. PlanOf(p, Call(p)) \in Seq(Item)
    BY <1>2, CallKnown, PlanCovered DEF Acquire
  <2>3. lock' \in [Adapter -> Start \cup {Nobody}] /\ todo' \in [Start -> Seq(Item)]
        /\ at' \in [Start -> {"probe", "lock", "work"} \cup Over]
    BY <1>2, <2>1, <2>2 DEF Acquire
  <2>4. \A q \in Start : at'[q] \notin Over => ens'[q] # <<>>
    BY <1>2 DEF Acquire
  <2> QED
    BY <1>2, <2>3, <2>4 DEF Acquire
<1>3. CASE GiveUp(p)
  BY <1>3 DEF GiveUp, Bail, Unlock
<1>4. CASE Files(p)
  <2>1. disk' \in [File -> Version \cup {Absent}]
    BY <1>4 DEF Files
  <2>2. todo' \in [Start -> Seq(Item)]
    <3>1. todo[p] # <<>> /\ (\/ todo' = [todo EXCEPT ![p] = <<>>]
                             \/ todo' = [todo EXCEPT ![p] = Tail(@)])
      BY <1>4 DEF Files, Doing, Bail
    <3>2. Tail(todo[p]) \in Seq(Item) /\ <<>> \in Seq(Item)
      BY <3>1, NextItem
    <3> QED
      BY <3>1, <3>2
  <2> QED
    BY <1>4, <2>1, <2>2 DEF Files, Bail, Unlock
<1>5. CASE WriteFails(p)
  <2>1. faults' \in 0 .. MaxFaults
    BY <1>5, ProvisioningAssumption DEF WriteFails, Fault
  <2>2. cut' \subseteq Adapter
    BY <1>5, UndoneTyped DEF WriteFails, Fault
  <2> QED
    BY <1>5, <2>1, <2>2 DEF WriteFails, Bail, Unlock
<1>6. CASE StartTool(p)
  <2>1. Head(todo[p]) \in Item /\ Head(todo[p]).do = "run" /\ Head(todo[p]) \in Pending(p)
        /\ at[p] = "work"
    BY <1>6, NextItem DEF StartTool, Doing
  <2>2. Covered(Head(todo[p]), Call(p)) /\ Call(p) \in Ensure
    BY <2>1, CallKnown DEF PlansCovered
  <2>3. [on |-> Head(todo[p]).on, parts |-> Head(todo[p]).parts] \in Job
    BY <2>1, <2>2, GuardsAdapters DEF Job, Covered
  <2> QED
    BY <1>6, <2>3 DEF StartTool
<1>7. CASE ToolWrites(p)
  <2>1. PICK q \in job[p].parts : /\ out' = [out EXCEPT ![q] = ver[p]]
                                  /\ job' = [job EXCEPT ![p].parts = @ \ {q}]
    BY <1>7 DEF ToolWrites
  <2>2. job[p] \in Job
    BY DEF NoJob
  <2>3. job' \in [Start -> Job \cup {NoJob}]
    BY <2>1, <2>2 DEF Job
  <2>4. out' \in [Part -> Version \cup {Absent}]
    BY <2>1, <2>2 DEF Job
  <2> QED
    BY <1>7, <2>3, <2>4 DEF ToolWrites
<1>8. CASE ToolSucceeds(p)
  <2>1. todo[p] # <<>>
    BY <1>8 DEF ToolSucceeds, JobsCovered, JobFits
  <2> QED
    BY <1>8, <2>1, NextItem DEF ToolSucceeds
<1>9. CASE ToolFails(p)
  <2>1. faults' \in 0 .. MaxFaults
    BY <1>9, ProvisioningAssumption DEF ToolFails, Fault
  <2>2. cut' \subseteq Adapter
    BY <1>9, UndoneTyped DEF ToolFails, Fault
  <2> QED
    BY <1>9, <2>1, <2>2 DEF ToolFails, Bail, Unlock
<1>10. CASE Return(p)
  BY <1>10, CallKnown DEF Return, Proceed, Unlock
<1>11. CASE Crash(p)
  <2>1. faults' \in 0 .. MaxFaults
    BY <1>11, ProvisioningAssumption DEF Crash, Fault
  <2>2. cut' \subseteq Adapter
    BY <1>11, UndoneTyped DEF Crash, Fault
  <2> QED
    BY <1>11, <2>1, <2>2 DEF Crash, Unlock
<1>12. CASE OrphanEnds(p)
  BY <1>12 DEF OrphanEnds
<1> QED
  BY <1>1, <1>2, <1>3, <1>4, <1>5, <1>6, <1>7, <1>8, <1>9, <1>10, <1>11, <1>12 DEF Act, Step

(* What a step of p leaves of the others alone, and what it may change at   *)
(* all: files of its call while it works, outputs of its tool.              *)
LEMMA Frame ==
  ASSUME Inv, NEW p \in Start, Act(p)
  PROVE  /\ ver' = ver /\ cut \subseteq cut'
         /\ \A q \in Start \ {p} : /\ at'[q] = at[q] /\ ens'[q] = ens[q]
                                   /\ todo'[q] = todo[q] /\ job'[q] = job[q]
         /\ \A q \in Start \ {p}, a \in Adapter : lock'[a] = q <=> lock[a] = q
         /\ \A f \in File : disk'[f] # disk[f] =>
              /\ Doing(p, "write") /\ f \in FilesOf(Call(p)) /\ f \in Head(todo[p]).parts
              /\ disk'[f] = ver[p] /\ todo'[p] = Tail(todo[p]) /\ at'[p] = "work"
         /\ \A c \in Part : out'[c] # out[c] =>
              c \in job[p].parts /\ out'[c] = ver[p] /\ ToolWrites(p)
<1> USE DEF Inv, Typed, Over
<1>1. CASE Probe(p)
  BY <1>1 DEF Probe, Proceed
<1>2. CASE Acquire(p)
  <2>1. lock[Wanted(p)] = Nobody
    BY <1>2 DEF Acquire
  <2> QED
    BY <1>2, <2>1, ProvisioningAssumption DEF Acquire
<1>3. CASE GiveUp(p)
  BY <1>3, ProvisioningAssumption DEF GiveUp, Bail, Unlock
<1>4. CASE Files(p)
  <2>1. todo[p] # <<>> /\ at[p] = "work" /\ Head(todo[p]) \in Pending(p)
        /\ Head(todo[p]).do \in {"check", "write"}
    BY <1>4, NextItem DEF Files, Doing
  <2>2. Covered(Head(todo[p]), Call(p))
    BY <2>1 DEF PlansCovered
  <2>3. ASSUME NEW f \in File, disk'[f] # disk[f]
        PROVE  /\ Doing(p, "write") /\ f \in FilesOf(Call(p)) /\ f \in Head(todo[p]).parts
               /\ disk'[f] = ver[p] /\ todo'[p] = Tail(todo[p]) /\ at'[p] = "work"
    <3>1. /\ f \in Head(todo[p]).parts /\ disk'[f] = ver[p]
          /\ todo' = [todo EXCEPT ![p] = Tail(@)] /\ at' = at
      BY <1>4, <2>3 DEF Files
    <3>2. Head(todo[p]).do = "write" /\ Head(todo[p]).parts \subseteq FilesOf(Call(p))
      BY <2>1, <2>2, <3>1 DEF Covered
    <3> QED
      BY <2>1, <3>1, <3>2 DEF Doing
  <2>4. /\ ver' = ver /\ cut' = cut /\ ens' = ens /\ job' = job /\ out' = out
        /\ \A q \in Start \ {p} : at'[q] = at[q] /\ todo'[q] = todo[q]
    BY <1>4 DEF Files, Bail
  <2>5. \A q \in Start \ {p}, a \in Adapter : lock'[a] = q <=> lock[a] = q
    BY <1>4, ProvisioningAssumption DEF Files, Bail, Unlock
  <2> QED
    BY <2>3, <2>4, <2>5
<1>5. CASE WriteFails(p)
  BY <1>5, ProvisioningAssumption DEF WriteFails, Fault, Bail, Unlock
<1>6. CASE StartTool(p)
  BY <1>6 DEF StartTool
<1>7. CASE ToolWrites(p)
  BY <1>7 DEF ToolWrites
<1>8. CASE ToolSucceeds(p)
  BY <1>8 DEF ToolSucceeds
<1>9. CASE ToolFails(p)
  BY <1>9, ProvisioningAssumption DEF ToolFails, Fault, Bail, Unlock
<1>10. CASE Return(p)
  BY <1>10, ProvisioningAssumption DEF Return, Proceed, Unlock
<1>11. CASE Crash(p)
  BY <1>11, ProvisioningAssumption DEF Crash, Fault, Unlock
<1>12. CASE OrphanEnds(p)
  BY <1>12 DEF OrphanEnds
<1> QED
  BY <1>1, <1>2, <1>3, <1>4, <1>5, <1>6, <1>7, <1>8, <1>9, <1>10, <1>11, <1>12 DEF Act, Step

(* The others' calls, plans and tools are what they were.                   *)
LEMMA OthersKept ==
  ASSUME Inv, NEW p \in Start, Act(p), NEW q \in Start \ {p}
  PROVE  /\ Call(q)' = Call(q) /\ Pending(q)' = Pending(q) /\ todo'[q] = todo[q]
         /\ at'[q] = at[q] /\ job'[q] = job[q] /\ Compiling(q)' = Compiling(q)
BY Frame DEF Call, Pending, Compiling

(* A tool in the directory of a working call of another start is an orphan. *)
LEMMA OnlyOrphansMeet ==
  ASSUME Inv, NEW p \in Start, NEW q \in Start, p # q, at[q] = "work",
         job[p] # NoJob, job[p].on \in Guards(Call(q))
  PROVE  job[p].on \in cut
<1>1. Call(q) \in Ensure /\ lock[job[p].on] = q
  BY CallKnown, GuardsAdapters DEF Inv, LocksHeld, Held, Over
<1>2. CASE at[p] = "work"
  <2>1. /\ todo[p] # <<>> /\ Head(todo[p]).do = "run" /\ job[p].on = Head(todo[p]).on
        /\ Head(todo[p]) \in Pending(p)
    BY <1>2, NextItem DEF Inv, JobsCovered, JobFits
  <2>2. job[p].on \in Guards(Call(p))
    BY <1>2, <2>1 DEF Inv, PlansCovered, Covered
  <2>3. lock[job[p].on] = p
    BY <1>2, <2>2 DEF Inv, LocksHeld, Held
  <2> QED
    BY <1>1, <2>3
<1> QED
  BY <1>2 DEF Inv, JobsCovered, JobFits

-----------------------------------------------------------------------------
LEMMA LocksStep ==
  ASSUME Inv, NEW p \in Start, Act(p)
  PROVE  LocksHeld'
<1>1. ASSUME NEW q \in Start \ {p} PROVE Held(q)'
  <2>1. /\ Call(q)' = Call(q) /\ at'[q] = at[q]
        /\ \A a \in Adapter : lock'[a] = q <=> lock[a] = q
    BY OthersKept, Frame
  <2>2. at[q] = "work" => Guards(Call(q)) \subseteq Adapter
    BY CallKnown, GuardsAdapters DEF Inv, Over
  <2>3. \A e : Guards(e)' = Guards(e)
    BY DEF Guards
  <2>4. Held(q)
    BY DEF Inv, LocksHeld
  <2> QED
    BY <2>1, <2>2, <2>3, <2>4 DEF Held
<1>2. SUFFICES Held(p)'
  BY <1>1 DEF LocksHeld
<1>3. ASSUME lock' = lock, at'[p] = at[p], ens' = ens
      PROVE  Held(p)'
  <2>1. Held(p)
    BY DEF Inv, LocksHeld
  <2>2. Call(p)' = Call(p)
    BY <1>3 DEF Call
  <2> QED
    BY <1>3, <2>1, <2>2 DEF Held, Guards
<1>4. ASSUME \A a \in Adapter : lock'[a] # p, at'[p] # "work"
      PROVE  Held(p)'
  BY <1>4 DEF Held
<1>5. \A a \in Adapter : Unlock(p)[a] # p
  BY ProvisioningAssumption DEF Unlock
<1> USE DEF Inv, Typed, Over
<1>6. CASE Probe(p)
  <2>1. \A a \in Adapter : lock[a] # p
    BY <1>6 DEF Probe, LocksHeld, Held
  <2>2. lock' = lock /\ at'[p] # "work"
    BY <1>6 DEF Probe, Proceed
  <2> QED
    BY <1>4, <2>1, <2>2
<1>7. CASE Acquire(p)
  <2> DEFINE last == Cardinality(Holds(p)) + 1 = Len(LocksOf(Call(p)))
  <2>1. /\ lock' = [lock EXCEPT ![Wanted(p)] = p] /\ ens' = ens
        /\ last => at'[p] = "work"
        /\ ~last => at'[p] = "lock"
    BY <1>7 DEF Acquire
  <2>2. Call(p)' = Call(p)
    BY <2>1 DEF Call
  <2>3. at[p] = "lock" /\ Call(p) \in Ensure
    BY <1>7, CallKnown DEF Acquire
  <2>4. CASE Call(p) # "browserbridge"
    <3>1. last /\ Guards(Call(p)) = {Wanted(p)}
      BY <2>3, <2>4, NextLock
    <3>2. Wanted(p) \in Adapter
      BY <2>3, <3>1, GuardsAdapters
    <3> QED
      BY <2>1, <2>2, <3>1, <3>2 DEF Held, Guards
  <2>5. CASE Call(p) = "browserbridge" /\ ~last
    <3>1. Wanted(p) = "node" /\ \A a \in Adapter : lock[a] # p
      BY <2>3, <2>5, NextLock
    <3> QED
      BY <2>1, <2>2, <2>5, <3>1 DEF Held, Guards
  <2>6. CASE Call(p) = "browserbridge" /\ last
    <3>1. Wanted(p) = "browser" /\ lock["node"] = p
      BY <2>3, <2>6, NextLock
    <3> QED
      BY <2>1, <2>2, <2>6, <3>1, GuardsAre DEF Held, Adapter, Guards
  <2> QED
    BY <2>4, <2>5, <2>6
<1>8. CASE GiveUp(p)
  BY <1>4, <1>5, <1>8 DEF GiveUp, Bail
<1>9. CASE Files(p)
  <2>1. CASE lock' = lock /\ at' = at
    BY <1>3, <1>9, <2>1 DEF Files
  <2>2. CASE Bail(p)
    BY <1>4, <1>5, <2>2 DEF Bail
  <2> QED
    BY <1>9, <2>1, <2>2 DEF Files
<1>10. CASE WriteFails(p)
  BY <1>4, <1>5, <1>10 DEF WriteFails, Bail
<1>11. CASE StartTool(p)
  BY <1>3, <1>11 DEF StartTool
<1>12. CASE ToolWrites(p)
  BY <1>3, <1>12 DEF ToolWrites
<1>13. CASE ToolSucceeds(p)
  BY <1>3, <1>13 DEF ToolSucceeds
<1>14. CASE ToolFails(p)
  BY <1>4, <1>5, <1>14 DEF ToolFails, Bail
<1>15. CASE Return(p)
  BY <1>4, <1>5, <1>15 DEF Return, Proceed
<1>16. CASE Crash(p)
  BY <1>4, <1>5, <1>16 DEF Crash
<1>17. CASE OrphanEnds(p)
  BY <1>3, <1>17 DEF OrphanEnds
<1> QED
  BY <1>6, <1>7, <1>8, <1>9, <1>10, <1>11, <1>12, <1>13, <1>14, <1>15, <1>16, <1>17
  DEF Act, Step

(* How the plan of a start changes: made with its last lock, then item by   *)
(* item, then dropped or done.                                              *)
LEMMA PlanChanges ==
  ASSUME Inv, NEW p \in Start, Act(p)
  PROVE  \/ at'[p] # "work" /\ todo'[p] = <<>>
         \/ /\ at'[p] = "work" /\ ens' = ens
            /\ \/ at[p] = "lock" /\ Acquire(p) /\ todo'[p] = PlanOf(p, Call(p))
               \/ at[p] = "work" /\ todo' = todo
               \/ /\ at[p] = "work" /\ todo[p] # <<>> /\ todo'[p] = Tail(todo[p])
                  /\ Files(p) \/ ToolSucceeds(p)
<1> USE DEF Inv, Typed, Over, IdleDoNothing
<1>1. CASE Probe(p)
  BY <1>1 DEF Probe, Proceed
<1>2. CASE Acquire(p)
  BY <1>2 DEF Acquire
<1>3. CASE GiveUp(p)
  BY <1>3 DEF GiveUp, Bail
<1>4. CASE Files(p)
  BY <1>4 DEF Files, Bail, Doing
<1>5. CASE WriteFails(p)
  BY <1>5 DEF WriteFails, Bail
<1>6. CASE StartTool(p)
  BY <1>6 DEF StartTool, Doing
<1>7. CASE ToolWrites(p)
  BY <1>7 DEF ToolWrites
<1>8. CASE ToolSucceeds(p)
  BY <1>8 DEF ToolSucceeds, JobsCovered, JobFits
<1>9. CASE ToolFails(p)
  BY <1>9 DEF ToolFails, Bail
<1>10. CASE Return(p)
  BY <1>10 DEF Return, Proceed
<1>11. CASE Crash(p)
  BY <1>11 DEF Crash
<1>12. CASE OrphanEnds(p)
  BY <1>12 DEF OrphanEnds
<1> QED
  BY <1>1, <1>2, <1>3, <1>4, <1>5, <1>6, <1>7, <1>8, <1>9, <1>10, <1>11, <1>12 DEF Act, Step

LEMMA PlansStep ==
  ASSUME Inv, NEW p \in Start, Act(p)
  PROVE  PlansCovered' /\ IdleDoNothing'
<1> DEFINE Fits(q) == /\ at[q] = "work" => \A x \in Pending(q) : Covered(x, Call(q))
                      /\ at[q] # "work" => todo[q] = <<>>
<1>1. \A x, e : Covered(x, e)' = Covered(x, e)
  BY DEF Covered, Guards
<1>2. ASSUME NEW q \in Start \ {p} PROVE Fits(q)'
  <2>1. Fits(q)
    BY DEF Inv, PlansCovered, IdleDoNothing
  <2> QED
    BY <1>1, <2>1, OthersKept
<1>3. Fits(p)'
  <2>1. CASE at'[p] # "work" /\ todo'[p] = <<>>
    BY <2>1
  <2>2. ASSUME at'[p] = "work", ens' = ens, Pending(p)' \subseteq Pending(p), at[p] = "work"
        PROVE  Fits(p)'
    BY <1>1, <2>2 DEF Inv, PlansCovered, Call
  <2>3. CASE at'[p] = "work" /\ ens' = ens /\ at[p] = "work" /\ todo' = todo
    BY <2>2, <2>3 DEF Pending
  <2>4. CASE /\ at'[p] = "work" /\ ens' = ens /\ at[p] = "work"
             /\ todo[p] # <<>> /\ todo'[p] = Tail(todo[p])
    BY <2>2, <2>4, NextItem DEF Pending, Inv
  <2>5. CASE /\ at'[p] = "work" /\ ens' = ens /\ at[p] = "lock"
             /\ todo'[p] = PlanOf(p, Call(p))
    <3>1. \A x \in Pending(p)' : Covered(x, Call(p))
      BY <2>5, CallKnown, PlanCovered DEF Pending, Inv, Over
    <3> QED
      BY <1>1, <2>5, <3>1 DEF Call
  <2> QED
    BY <2>1, <2>3, <2>4, <2>5, PlanChanges
<1> QED
  BY <1>2, <1>3 DEF PlansCovered, IdleDoNothing

LEMMA OutputsStay ==
  ASSUME Inv, NEW p \in Start, Act(p)
  PROVE  \A c \in Part : /\ out'[c] = out[c] \/ (out'[c] = ver[p] /\ ver[p] # Absent)
                         /\ out[c] # Absent => out'[c] # Absent
<1>1. \A c \in Part : out'[c] = out[c] \/ (out'[c] = ver[p] /\ ver[p] # Absent)
  BY Frame, ProvisioningAssumption DEF Inv, Typed
<1> QED
  BY <1>1

(* The tool's part of the work: what JobsCovered says of one start.        *)
LEMMA JobsStep ==
  ASSUME Inv, NEW p \in Start, Act(p)
  PROVE  JobsCovered'
<1>1. \A q \in Start : JobFits(q)
  BY DEF Inv, JobsCovered
<1>2. \A c \in Part : out'[c] = out[c] \/ (out'[c] = ver[p] /\ ver[p] # Absent)
  BY OutputsStay
<1>3. ASSUME NEW q \in Start \ {p} PROVE JobFits(q)'
  <2>1. /\ at'[q] = at[q] /\ job'[q] = job[q] /\ todo'[q] = todo[q] /\ ver' = ver
        /\ cut \subseteq cut'
    BY OthersKept, Frame
  <2>2. ASSUME job[q] # NoJob, at[q] = "work", NEW c \in Head(todo[q]).parts \ job[q].parts
        PROVE  out'[c] # Absent /\ (out'[c] = ver[q] \/ Head(todo[q]).on \in cut)
    <3>1. out[c] # Absent /\ (out[c] = ver[q] \/ Head(todo[q]).on \in cut)
      BY <1>1, <2>2 DEF JobFits
    <3>2. Head(todo[q]) \in Pending(q) /\ Head(todo[q]).do = "run"
      BY <1>1, <2>2, NextItem DEF JobFits, Inv
    <3>3. c \in Part /\ c[1] = Head(todo[q]).on /\ Head(todo[q]).on \in Guards(Call(q))
      BY <2>2, <3>2 DEF Inv, PlansCovered, Covered
    <3>4. CASE out'[c] = out[c]
      BY <3>1, <3>4
    <3>5. CASE out'[c] # out[c]
      <4>1. c \in job[p].parts
        BY <3>3, <3>5, Frame
      <4>2. job[p] # NoJob
        BY <4>1 DEF NoJob
      <4>3. job[p].on = c[1]
        BY <1>1, <4>1, <4>2 DEF JobFits
      <4>4. Head(todo[q]).on \in cut
        BY <2>2, <3>3, <4>2, <4>3, OnlyOrphansMeet
      <4> QED
        BY <1>2, <3>3, <3>5, <4>4
    <3> QED
      BY <3>4, <3>5
  <2> QED
    BY <1>1, <2>1, <2>2 DEF JobFits
<1>4. SUFFICES JobFits(p)'
  BY <1>3 DEF JobsCovered
<1>5. CASE job'[p] = NoJob
  BY <1>5 DEF JobFits
<1> USE DEF Inv, Typed, Over
<1>6. at[p] \notin {"work", "dead"} => job[p] = NoJob
  BY <1>1 DEF JobFits
<1>7. at[p] = "work" /\ (todo[p] = <<>> \/ Head(todo[p]).do # "run") => job[p] = NoJob
  BY <1>1 DEF JobFits
<1>8. CASE Probe(p)
  BY <1>5, <1>6, <1>8 DEF Probe
<1>9. CASE Acquire(p)
  BY <1>5, <1>6, <1>9 DEF Acquire
<1>10. CASE GiveUp(p)
  BY <1>5, <1>6, <1>10 DEF GiveUp
<1>11. CASE Files(p)
  BY <1>5, <1>7, <1>11 DEF Files, Doing
<1>12. CASE WriteFails(p)
  BY <1>5, <1>7, <1>12 DEF WriteFails, Doing
<1>13. CASE StartTool(p)
  <2> DEFINE x == Head(todo[p])
  <2>1. /\ at[p] = "work" /\ todo[p] # <<>> /\ x.do = "run" /\ at' = at /\ todo' = todo
        /\ job'[p] = [on |-> x.on, parts |-> x.parts]
    BY <1>13 DEF StartTool, Doing
  <2>2. Covered(x, Call(p))
    BY <2>1, NextItem DEF PlansCovered
  <2> QED
    BY <2>1, <2>2 DEF JobFits, Covered
<1>14. CASE ToolWrites(p)
  <2>1. PICK c \in job[p].parts : /\ out' = [out EXCEPT ![c] = ver[p]]
                                  /\ job' = [job EXCEPT ![p].parts = @ \ {c}]
    BY <1>14 DEF ToolWrites
  <2>2. at' = at /\ todo' = todo /\ cut' = cut /\ ver' = ver
    BY <1>14 DEF ToolWrites
  <2>3. job[p] # NoJob /\ job[p] \in Job
    BY <2>1 DEF NoJob
  <2>4. /\ job'[p].on = job[p].on /\ job'[p].parts = job[p].parts \ {c}
        /\ c \in Part /\ out'[c] = ver[p] /\ ver[p] # Absent
    BY <2>1, <2>3, ProvisioningAssumption DEF Job
  <2>5. \A d \in Part : d # c => out'[d] = out[d]
    BY <2>1
  <2>6. at[p] = "work" => Head(todo[p]).parts \subseteq Part
    <3>1. SUFFICES ASSUME at[p] = "work" PROVE Head(todo[p]).parts \subseteq Part
      OBVIOUS
    <3>2. Head(todo[p]) \in Pending(p) /\ Head(todo[p]).do = "run"
      BY <1>1, <2>3, <3>1, NextItem DEF JobFits
    <3> QED
      BY <3>1, <3>2 DEF PlansCovered, Covered
  <2> QED
    BY <1>1, <2>2, <2>3, <2>4, <2>5, <2>6 DEF JobFits
<1>15. CASE ToolSucceeds(p)
  BY <1>5, <1>15 DEF ToolSucceeds
<1>16. CASE ToolFails(p)
  BY <1>5, <1>16 DEF ToolFails
<1>17. CASE Return(p)
  BY <1>5, <1>7, <1>17 DEF Return
<1>18. CASE Crash(p)
  <2>1. job' = job /\ at'[p] = "dead" /\ cut' = cut \cup Undone(p) /\ at[p] # "dead"
    BY <1>18 DEF Crash, Fault
  <2>2. CASE job[p] # NoJob
    <3>1. /\ at[p] = "work" /\ todo[p] # <<>> /\ Head(todo[p]).do = "run"
          /\ job[p].on = Head(todo[p]).on
      BY <1>1, <2>1, <2>2 DEF JobFits
    <3>2. job[p].on \in Undone(p)
      BY <3>1, NextItem, UndoneRuns
    <3> QED
      BY <1>1, <2>1, <2>2, <3>2 DEF JobFits
  <2> QED
    BY <1>5, <2>1, <2>2
<1>19. CASE OrphanEnds(p)
  BY <1>5, <1>19 DEF OrphanEnds
<1> QED
  BY <1>8, <1>9, <1>10, <1>11, <1>12, <1>13, <1>14, <1>15, <1>16, <1>17, <1>18, <1>19
  DEF Act, Step

(* Files are written by the calls that answer for them, under their locks.  *)
LEMMA FilesStep ==
  ASSUME Inv, NEW p \in Start, Act(p)
  PROVE  FilesPlanned'
<1>1. \A q \in Start : FilesDue(q)
  BY DEF Inv, FilesPlanned
<1>2. ASSUME NEW q \in Start \ {p} PROVE FilesDue(q)'
  <2>1. /\ at'[q] = at[q] /\ Call(q)' = Call(q) /\ Pending(q)' = Pending(q) /\ ver' = ver
    BY OthersKept, Frame
  <2>2. ASSUME at[q] = "work", NEW f \in FilesOf(Call(q)) PROVE disk'[f] = disk[f]
    <3>1. SUFFICES ASSUME disk'[f] # disk[f] PROVE FALSE
      OBVIOUS
    <3>2. Call(q) \in Ensure
      BY <2>2, CallKnown DEF Inv, Over
    <3>3. f \in File /\ f[1] \in Guards(Call(q))
      BY <2>2, <3>2, FilesGuarded
    <3>4. at[p] = "work" /\ f \in FilesOf(Call(p))
      BY <3>1, <3>3, Frame DEF Doing
    <3>5. f[1] \in Guards(Call(p))
      BY <3>4, CallKnown, FilesGuarded DEF Inv, Over
    <3>6. lock[f[1]] = q /\ lock[f[1]] = p
      BY <2>2, <3>3, <3>4, <3>5 DEF Inv, LocksHeld, Held
    <3> QED
      BY <3>6
  <2>3. \A e : FilesOf(e)' = FilesOf(e)
    BY DEF FilesOf
  <2> QED
    BY <1>1, <2>1, <2>2, <2>3 DEF FilesDue
<1>3. FilesDue(p)'
  <2>0. ver' = ver
    BY Frame
  <2>1. CASE at'[p] # "work"
    BY <2>1 DEF FilesDue
  <2>2. ASSUME at'[p] = "work", ens' = ens, at[p] = "work"
        PROVE  \A f \in FilesOf(Call(p)) : disk'[f] = disk[f] \/ disk'[f] = ver[p]
    <3>1. Call(p) \in Ensure
      BY <2>2, CallKnown DEF Inv, Over
    <3> QED
      BY <3>1, Frame, FilesGuarded
  <2>3. CASE at'[p] = "work" /\ ens' = ens /\ at[p] = "work" /\ todo' = todo
    <3>1. Call(p)' = Call(p) /\ Pending(p)' = Pending(p)
      BY <2>3 DEF Call, Pending
    <3> QED
      BY <1>1, <2>0, <2>2, <2>3, <3>1 DEF FilesDue
  <2>4. CASE /\ at'[p] = "work" /\ ens' = ens /\ at[p] = "work"
             /\ todo[p] # <<>> /\ todo'[p] = Tail(todo[p])
             /\ Files(p) \/ ToolSucceeds(p)
    <3>1. Call(p)' = Call(p) /\ Pending(p) = {Head(todo[p])} \cup Pending(p)'
      BY <2>4, NextItem DEF Call, Pending, Inv
    <3>2. ASSUME NEW f \in FilesOf(Call(p)), Head(todo[p]).do = "write", f \in Head(todo[p]).parts
          PROVE  disk'[f] = ver[p]
      <4>1. Files(p)
        BY <2>4, <3>2 DEF ToolSucceeds, Inv, JobsCovered, JobFits
      <4>2. Call(p) \in Ensure
        BY <2>4, CallKnown DEF Inv, Over
      <4>3. f \in File
        BY <4>2, FilesGuarded
      <4> QED
        BY <2>4, <3>2, <4>1, <4>3 DEF Files, Bail, Inv, Typed
    <3> QED
      BY <1>1, <2>0, <2>2, <2>4, <3>1, <3>2 DEF FilesDue
  <2>5. CASE /\ at'[p] = "work" /\ ens' = ens /\ at[p] = "lock" /\ Acquire(p)
             /\ todo'[p] = PlanOf(p, Call(p))
    <3>1. Call(p)' = Call(p) /\ disk' = disk /\ Call(p) \in Ensure
      BY <2>5, CallKnown DEF Call, Acquire, Inv, Over
    <3>2. Pending(p)' = ToSet(PlanOf(p, Call(p)))
      BY <2>5 DEF Pending
    <3> QED
      BY <2>0, <3>1, <3>2, PlanWrites DEF FilesDue
  <2> QED
    BY <2>1, <2>3, <2>4, <2>5, PlanChanges
<1> QED
  BY <1>2, <1>3 DEF FilesPlanned

(* An output once made stays; a call makes those it found missing.         *)
LEMMA OutputsStep ==
  ASSUME Inv, NEW p \in Start, Act(p)
  PROVE  OutputsPlanned'
<1>1. \A q \in Start : OutputsDue(q)
  BY DEF Inv, OutputsPlanned
<1>2. \A c \in Part : out[c] # Absent => out'[c] # Absent
  BY OutputsStay
<1>3. \A e : Needs(e) \subseteq Part
  BY DEF Needs, Part
<1>4. ASSUME NEW q \in Start \ {p} PROVE OutputsDue(q)'
  <2>1. /\ at'[q] = at[q] /\ Call(q)' = Call(q) /\ Pending(q)' = Pending(q) /\ cut \subseteq cut'
    BY OthersKept, Frame
  <2> QED
    BY <1>1, <1>2, <1>3, <2>1 DEF OutputsDue
<1>5. OutputsDue(p)'
  <2>0. cut \subseteq cut'
    BY Frame
  <2>1. CASE at'[p] # "work"
    BY <2>1 DEF OutputsDue
  <2>2. CASE at'[p] = "work" /\ ens' = ens /\ at[p] = "work" /\ todo' = todo
    <3>1. Call(p)' = Call(p) /\ Pending(p)' = Pending(p)
      BY <2>2 DEF Call, Pending
    <3> QED
      BY <1>1, <1>2, <1>3, <2>0, <2>2, <3>1 DEF OutputsDue
  <2>3. CASE /\ at'[p] = "work" /\ ens' = ens /\ at[p] = "work"
             /\ todo[p] # <<>> /\ todo'[p] = Tail(todo[p])
             /\ Files(p) \/ ToolSucceeds(p)
    <3>1. Call(p)' = Call(p) /\ Pending(p) = {Head(todo[p])} \cup Pending(p)'
      BY <2>3, NextItem DEF Call, Pending, Inv
    <3>2. ASSUME Head(todo[p]).do = "run", NEW c \in Head(todo[p]).parts
          PROVE  out[c] # Absent
      <4>1. ToolSucceeds(p)
        BY <2>3, <3>2 DEF Files, Doing
      <4>2. job[p] # NoJob /\ job[p].parts = {}
        BY <4>1 DEF ToolSucceeds
      <4> QED
        BY <2>3, <3>2, <4>2 DEF Inv, JobsCovered, JobFits
    <3> QED
      BY <1>1, <1>2, <1>3, <2>0, <2>3, <3>1, <3>2 DEF OutputsDue
  <2>4. CASE /\ at'[p] = "work" /\ ens' = ens /\ at[p] = "lock" /\ Acquire(p)
             /\ todo'[p] = PlanOf(p, Call(p))
    <3>1. Call(p)' = Call(p) /\ out' = out /\ cut' = cut /\ Call(p) \in Ensure
      BY <2>4, CallKnown DEF Call, Acquire, Inv, Over
    <3>2. Pending(p)' = ToSet(PlanOf(p, Call(p)))
      BY <2>4 DEF Pending
    <3>3. ASSUME Call(p) \in {"ws", "browserbridge"}, WsMarker, "node" \notin cut
          PROVE  \A w \in Ws : out[w] # Absent
      <4>1. SUFFICES ASSUME NEW r \in Start, job[r].on = "node" PROVE FALSE
        BY <3>3 DEF Inv, MarkerMeansWs, UnlessCut
      <4>2. job[r] # NoJob
        BY <4>1 DEF NoJob
      <4>3. /\ at[r] = "work" /\ todo[r] # <<>> /\ Head(todo[r]).do = "run"
            /\ Head(todo[r]).on = "node" /\ Head(todo[r]) \in Pending(r)
        BY <3>3, <4>1, <4>2, NextItem DEF Inv, JobsCovered, JobFits
      <4>4. lock["node"] = r
        BY <4>3 DEF Inv, PlansCovered, Covered, LocksHeld, Held
      <4>5. r # p /\ lock[Wanted(p)] = Nobody /\ Nobody \notin Start
        BY <2>4, <4>3, ProvisioningAssumption DEF Acquire
      <4>6. Wanted(p) = "node" \/ lock["node"] = p
        BY <2>4, <3>3, NextLock, GuardsAre DEF Inv
      <4> QED
        BY <4>4, <4>5, <4>6
    <3>4. ASSUME NEW c \in Needs(Call(p)), out[c] = Absent, ~(Call(p) # "py" /\ "node" \in cut)
          PROVE  \E x \in Pending(p)' : x.do = "run" /\ c \in x.parts
      <4>1. Call(p) \in {"py", "ws", "browserbridge"}
        BY <3>4 DEF Needs
      <4> QED
        BY <3>1, <3>2, <3>3, <3>4, <4>1, PlanRuns
    <3>5. \A e : Needs(e)' = Needs(e)
      BY DEF Needs
    <3> QED
      BY <3>1, <3>4, <3>5 DEF OutputsDue
  <2> QED
    BY <2>1, <2>2, <2>3, <2>4, PlanChanges
<1> QED
  BY <1>4, <1>5 DEF OutputsPlanned

(* Who ends a tool before its outputs are whole puts its adapter on record. *)
LEMMA MarkerStep ==
  ASSUME Inv, NEW p \in Start, Act(p)
  PROVE  MarkerMeansWs'
<1> USE DEF Inv
<1>1. cut \subseteq cut' /\ Ws \subseteq Part /\ <<"node", "manifest">> \in Ws
  BY Frame DEF Part, Ws
<1>2. \A c \in Part : out[c] # Absent => out'[c] # Absent
  BY OutputsStay
<1>3. \A q \in Start \ {p} : job'[q] = job[q]
  BY Frame
<1>4. CASE \A w \in Ws : out[w] # Absent
  BY <1>1, <1>2, <1>4 DEF MarkerMeansWs
<1>5. CASE "node" \in cut'
  BY <1>5 DEF MarkerMeansWs, UnlessCut
<1>6. CASE job'[p].on = "node"
  BY <1>6 DEF MarkerMeansWs, UnlessCut
<1>7. ASSUME job[p].on = "node", job'[p] # job[p], job'[p].on # "node", "node" \notin cut'
      PROVE  \A w \in Ws : out[w] # Absent
  <2>0. job[p] # NoJob
    BY <1>7 DEF NoJob
  <2>1. at[p] = "work"
    BY <1>1, <1>7, <2>0 DEF JobsCovered, JobFits
  <2>2. /\ todo[p] # <<>> /\ Head(todo[p]).do = "run" /\ Head(todo[p]).on = "node"
        /\ Head(todo[p]) \in Pending(p)
    BY <1>7, <2>0, <2>1, NextItem DEF JobsCovered, JobFits
  <2>3. "node" \in Undone(p)
    BY <2>2, UndoneRuns
  <2>4. ~Probe(p) /\ ~Acquire(p) /\ ~Files(p) /\ ~Return(p) /\ ~GiveUp(p) /\ ~WriteFails(p)
        /\ ~Crash(p) /\ ~StartTool(p) /\ ~OrphanEnds(p)
    BY <1>7, <2>0, <2>1
    DEF Probe, Acquire, Files, Return, GiveUp, WriteFails, Crash, StartTool, OrphanEnds
  <2>5. ~ToolFails(p)
    BY <1>7, <2>3 DEF ToolFails, Fault
  <2>6. ~ToolWrites(p)
    BY <1>7, <2>0 DEF ToolWrites, Typed, Job
  <2>7. ToolSucceeds(p)
    BY <2>4, <2>5, <2>6 DEF Act, Step
  <2>8. Head(todo[p]).parts = Ws
    BY <2>1, <2>2 DEF PlansCovered, Covered
  <2> QED
    BY <2>0, <2>1, <2>7, <2>8 DEF ToolSucceeds, JobsCovered, JobFits
<1>8. CASE /\ \E w \in Ws : out[w] = Absent
           /\ "node" \notin cut' /\ job'[p].on # "node"
  <2>1. job[p].on # "node"
    BY <1>7, <1>8
  <2>2. out'[<<"node", "manifest">>] = out[<<"node", "manifest">>]
    <3>1. SUFFICES ASSUME out'[<<"node", "manifest">>] # out[<<"node", "manifest">>]
                   PROVE  FALSE
      OBVIOUS
    <3>2. <<"node", "manifest">> \in job[p].parts
      BY <1>1, <3>1, Frame
    <3>3. job[p] # NoJob
      BY <3>2 DEF NoJob
    <3>4. job[p].on = "node"
      BY <3>2, <3>3 DEF JobsCovered, JobFits
    <3> QED
      BY <2>1, <3>4
  <2> QED
    BY <1>1, <1>3, <1>8, <2>1, <2>2 DEF MarkerMeansWs, WsMarker, UnlessCut
<1> QED
  BY <1>4, <1>5, <1>6, <1>8

LEMMA JavaOrderStep ==
  ASSUME Inv, NEW p \in Start, Act(p)
  PROVE  JavaInOrder'
<1>1. \A q \in Start : InOrder(q)
  BY DEF Inv, JavaInOrder
<1>2. ASSUME NEW q \in Start \ {p} PROVE InOrder(q)'
  <2>1. Compile' = Compile
    BY DEF Compile, Run, Dir, Classes, Source
  <2> QED
    BY <1>1, <2>1, OthersKept DEF InOrder
<1>3. InOrder(p)'
  <2>0. Compile' = Compile
    BY DEF Compile, Run, Dir, Classes, Source
  <2>1. CASE at'[p] # "work"
    BY <2>1 DEF InOrder, Compiling
  <2>2. CASE at'[p] = "work" /\ ens' = ens /\ at[p] = "work" /\ todo' = todo
    <3>1. Compiling(p)' = Compiling(p) /\ Pending(p)' = Pending(p)
      BY <2>2 DEF Compiling, Pending, Call
    <3> QED
      BY <1>1, <2>0, <2>2, <3>1 DEF InOrder
  <2>3. CASE /\ at'[p] = "work" /\ ens' = ens /\ at[p] = "work"
             /\ todo[p] # <<>> /\ todo'[p] = Tail(todo[p]) /\ Compiling(p)
    <3> DEFINE s == todo[p]
               t == Tail(s)
    <3>1. /\ s \in Seq(Item) /\ t \in Seq(Item) /\ Len(s) \in Nat /\ Len(t) = Len(s) - 1
          /\ DOMAIN s = 1 .. Len(s) /\ DOMAIN t = 1 .. Len(s) - 1 /\ 1 \in DOMAIN s
          /\ \A i \in DOMAIN t : i + 1 \in DOMAIN s /\ t[i] = s[i + 1]
      BY <2>3, TakeFirst DEF Inv, Typed
    <3>2. Pending(p) = {s[1]} \cup ToSet(t)
      BY <2>3, NextItem DEF Inv
    <3>3. \A i \in DOMAIN s :
             /\ s[i].do = "run" => i = Len(s) /\ s[i] = Compile
             /\ s[i].do = "write" => Compile \in Pending(p) /\ s[i].paths = {}
             /\ s[i].do = "check" => \A j \in 1 .. i : s[j].do = "check"
      BY <1>1, <2>3 DEF InOrder
    <3> HIDE DEF s, t
    <3>4. ASSUME NEW i \in DOMAIN t
          PROVE  /\ t[i].do = "run" => i = Len(t) /\ t[i] = Compile
                 /\ t[i].do = "write" => Compile \in ToSet(t) /\ t[i].paths = {}
                 /\ t[i].do = "check" => \A j \in 1 .. i : t[j].do = "check"
      <4>1. i \in Nat /\ i + 1 \in DOMAIN s /\ t[i] = s[i + 1] /\ Len(s) > 1
        BY <3>1
      <4>2. t[i].do = "run" => i = Len(t) /\ t[i] = Compile
        BY <3>1, <3>3, <4>1
      <4>3. t[i].do = "write" => Compile \in ToSet(t) /\ t[i].paths = {}
        <5>1. Compile.do = "run"
          BY DEF Compile, Run
        <5>2. s[1] # Compile
          BY <3>1, <3>3, <4>1, <5>1
        <5> QED
          BY <3>2, <3>3, <4>1, <5>2
      <4>4. t[i].do = "check" => \A j \in 1 .. i : t[j].do = "check"
        <5>1. SUFFICES ASSUME t[i].do = "check", NEW j \in 1 .. i
                       PROVE  t[j].do = "check"
          OBVIOUS
        <5>2. j \in DOMAIN t /\ j + 1 \in 1 .. i + 1
          BY <3>1, <4>1
        <5> QED
          BY <3>1, <3>3, <4>1, <5>1, <5>2
      <4> QED
        BY <4>2, <4>3, <4>4
    <3>5. todo'[p] = t /\ Pending(p)' = ToSet(t)
      BY <2>3 DEF Pending, s, t
    <3> QED
      BY <2>0, <3>4, <3>5 DEF InOrder
  <2>4. CASE /\ at'[p] = "work" /\ ens' = ens /\ at[p] = "work"
             /\ todo[p] # <<>> /\ todo'[p] = Tail(todo[p]) /\ ~Compiling(p)
    BY <2>4 DEF InOrder, Compiling, Call
  <2>5. CASE /\ at'[p] = "work" /\ ens' = ens /\ at[p] = "lock"
             /\ todo'[p] = PlanOf(p, Call(p))
    <3>1. SUFFICES ASSUME Call(p) = "compiled" PROVE InOrder(p)'
      BY <2>5 DEF InOrder, Compiling, Call
    <3>2. todo'[p] = JavaPlan(p) /\ Pending(p)' = ToSet(JavaPlan(p))
      BY <2>5, <3>1 DEF PlanOf, Pending
    <3> QED
      BY <2>0, <3>2, JavaPlanOrder DEF InOrder
  <2> QED
    BY <2>1, <2>2, <2>3, <2>4, <2>5, PlanChanges
<1> QED
  BY <1>2, <1>3 DEF JavaInOrder

(* The compiler is the last of a Java call, and nothing is looked at once   *)
(* anything has been written.                                               *)
LEMMA CompilerLast ==
  ASSUME Inv, NEW p \in Start, Compiling(p), todo[p] # <<>>
  PROVE  /\ Head(todo[p]).do = "run" => Pending(p) = {Compile} /\ ToSet(Tail(todo[p])) = {}
         /\ Head(todo[p]).do # "check" => \A x \in Pending(p) : x.do # "check"
         /\ Head(todo[p]).do = "write" => /\ Head(todo[p]).paths = {}
                                          /\ Compile \in ToSet(Tail(todo[p]))
<1> DEFINE s == todo[p]
<1>1. /\ s \in Seq(Item) /\ Len(s) \in Nat /\ DOMAIN s = 1 .. Len(s) /\ 1 \in DOMAIN s
      /\ Len(Tail(s)) = Len(s) - 1 /\ DOMAIN Tail(s) = 1 .. Len(s) - 1
      /\ Head(s) = s[1] /\ Pending(p) = {s[1]} \cup ToSet(Tail(s))
  BY TakeFirst DEF Inv, Typed, Pending
<1>2. \A i \in DOMAIN s :
         /\ s[i].do = "run" => i = Len(s) /\ s[i] = Compile
         /\ s[i].do = "write" => Compile \in Pending(p) /\ s[i].paths = {}
         /\ s[i].do = "check" => \A j \in 1 .. i : s[j].do = "check"
  BY DEF Inv, JavaInOrder, InOrder
<1>3. Compile.do = "run" /\ Pending(p) = ToSet(s)
  BY DEF Compile, Run, Pending
<1> HIDE DEF s
<1>4. ASSUME s[1].do = "run"
      PROVE  Pending(p) = {Compile} /\ ToSet(Tail(s)) = {}
  <2>1. 1 = Len(s) /\ s[1] = Compile
    BY <1>1, <1>2, <1>4
  <2>2. ToSet(Tail(s)) = {}
    <3>1. Len(s) - 1 = 0
      BY <2>1
    <3>2. DOMAIN Tail(s) = 1 .. 0
      BY <1>1, <3>1, Zenon
    <3> QED
      BY <3>2 DEF ToSet
  <2> QED
    BY <1>1, <2>1, <2>2
<1>5. ASSUME s[1].do # "check", NEW x \in Pending(p)
      PROVE  x.do # "check"
  <2>1. PICK i \in DOMAIN s : x = s[i]
    BY <1>3 DEF ToSet
  <2>2. 1 \in 1 .. i
    BY <1>1, <2>1
  <2> QED
    BY <1>2, <1>5, <2>1, <2>2
<1>6. ASSUME s[1].do = "write"
      PROVE  s[1].paths = {} /\ Compile \in ToSet(Tail(s))
  BY <1>1, <1>2, <1>3, <1>6
<1> QED
  BY <1>1, <1>4, <1>5, <1>6 DEF s

LEMMA JavaGuards ==
  /\ \A e \in Ensure : "java" \in Guards(e) => e = "compiled"
  /\ \A e \in Ensure : \A f \in FilesOf(e) : f \in Source => e = "compiled"
  /\ Source = FilesOf("compiled") /\ Classes \subseteq Part /\ Source \subseteq File
  /\ Guards("compiled") = {"java"}
  /\ \A c \in Classes : c[1] = "java"
BY GuardsAre DEF Ensure, FilesOf, Source, Bundle, Classes, Part, File

(* From its first write to the end of its compiler, one Java call at a time *)
(* is between the sources and the classes; whoever stops it there is on     *)
(* record.                                                                  *)
LEMMA SourcesStep ==
  ASSUME Inv, NEW p \in Start, Act(p)
  PROVE  ClassesOfSources'
<1> DEFINE Between(q) == /\ Compiling(q) /\ Compile \in Pending(q)
                         /\ \A x \in Pending(q) : x.do # "check"
<1> USE DEF Inv
<1>0. cut \subseteq cut' /\ Compile' = Compile /\ Classes' = Classes
  BY Frame DEF Compile, Run, Dir, Classes, Source
<1>1. CASE "java" \in cut'
  BY <1>1 DEF ClassesOfSources
<1>2. ASSUME NEW q \in Start, Between(q)' PROVE ClassesOfSources'
  BY <1>2 DEF ClassesOfSources
<1>3. ASSUME NEW q \in Start \ {p}, Between(q) PROVE ClassesOfSources'
  BY <1>0, <1>2, <1>3, OthersKept
<1>4. Compile.do = "run" /\ Compile.on = "java"
  BY DEF Compile, Run
<1>5. CASE Between(p)
  <2>1. Compiling(p) /\ Compile \in Pending(p) /\ todo[p] # <<>> /\ Head(todo[p]).do # "check"
        /\ at[p] = "work"
    BY <1>5, NextItem, NothingToDo DEF Compiling, Pending
  <2>2. "java" \in Undone(p)
    BY <1>4, <1>5, UndoneRuns
  <2>3. ASSUME at'[p] = "work", ens' = ens, todo' = todo PROVE ClassesOfSources'
    BY <1>0, <1>2, <1>5, <2>3 DEF Compiling, Call, Pending
  <2>4. ASSUME cut' = cut \cup Undone(p) PROVE ClassesOfSources'
    BY <1>1, <2>2, <2>4
  <2>5. CASE Files(p)
    <3>1. Head(todo[p]).do = "write"
      BY <2>1, <2>5 DEF Files, Doing
    <3>2. Head(todo[p]).paths = {} /\ Compile \in ToSet(Tail(todo[p]))
      BY <2>1, <3>1, CompilerLast
    <3>3. todo' = [todo EXCEPT ![p] = Tail(@)] /\ at' = at /\ ens' = ens
      BY <2>5, <3>2 DEF Files, Linked
    <3>4. Pending(p)' = ToSet(Tail(todo[p]))
      BY <3>3 DEF Pending, Typed
    <3>5. ToSet(Tail(todo[p])) \subseteq Pending(p)
      BY <2>1, NextItem
    <3>6. Compiling(p)'
      BY <2>1, <3>3 DEF Compiling, Call
    <3> QED
      BY <1>0, <1>2, <1>5, <3>2, <3>4, <3>5, <3>6
  <2>6. CASE StartTool(p)
    BY <2>1, <2>3, <2>6 DEF StartTool
  <2>7. CASE ToolWrites(p)
    BY <2>1, <2>3, <2>7 DEF ToolWrites
  <2>8. CASE ToolSucceeds(p)
    <3>1. /\ job[p] # NoJob /\ job[p].parts = {} /\ Head(todo[p]).do = "run"
          /\ disk' = disk /\ out' = out /\ cut' = cut
      BY <2>1, <2>8 DEF ToolSucceeds, JobsCovered, JobFits
    <3>2. Pending(p) = {Compile}
      BY <2>1, <3>1, CompilerLast
    <3>3. Head(todo[p]) = Compile /\ Compile.parts = Classes
      BY <2>1, <3>2, NextItem DEF Compile, Run
    <3>4. "java" \in cut \/ \A c \in Classes : out[c] = ver[p]
      BY <1>4, <2>1, <3>1, <3>3 DEF JobsCovered, JobFits
    <3>5. \A f \in Source : disk[f] = ver[p]
      BY <1>4, <2>1, <3>2, JavaGuards DEF FilesPlanned, FilesDue, Compiling
    <3> QED
      BY <1>0, <3>1, <3>4, <3>5 DEF ClassesOfSources, Classes
  <2>9. CASE WriteFails(p) \/ ToolFails(p) \/ Crash(p)
    BY <2>4, <2>9 DEF WriteFails, ToolFails, Crash, Fault
  <2>10. ~Probe(p) /\ ~Acquire(p) /\ ~GiveUp(p) /\ ~Return(p) /\ ~OrphanEnds(p)
    BY <2>1 DEF Probe, Acquire, GiveUp, Return, OrphanEnds
  <2> QED
    BY <2>5, <2>6, <2>7, <2>8, <2>9, <2>10 DEF Act, Step
<1>6. CASE \A c \in Classes : out[c] = disk[c]
  <2>1. CASE \E f \in Source : disk'[f] # disk[f]
    <3>1. PICK f \in Source : disk'[f] # disk[f]
      BY <2>1
    <3>2. /\ Doing(p, "write") /\ f \in FilesOf(Call(p)) /\ todo'[p] = Tail(todo[p])
          /\ at'[p] = "work"
      BY <3>1, Frame, JavaGuards
    <3>3. Compiling(p) /\ todo[p] # <<>> /\ Head(todo[p]).do = "write"
      BY <3>2, CallKnown, JavaGuards DEF Doing, Compiling, Over
    <3>4. Compile \in ToSet(Tail(todo[p])) /\ \A x \in Pending(p) : x.do # "check"
      BY <3>3, CompilerLast
    <3>5. Pending(p)' = ToSet(Tail(todo[p])) /\ ToSet(Tail(todo[p])) \subseteq Pending(p)
      BY <3>2, <3>3, NextItem DEF Pending
    <3>6. ens' = ens
      BY <3>2, PlanChanges
    <3>7. Compiling(p)'
      BY <3>2, <3>3, <3>6 DEF Compiling, Call
    <3> QED
      BY <1>0, <1>2, <3>4, <3>5, <3>7
  <2>2. CASE \E c \in Classes : out'[c] # out[c]
    <3>1. PICK c \in Classes : out'[c] # out[c]
      BY <2>2
    <3>2. c \in job[p].parts /\ ToolWrites(p) /\ c[1] = "java"
      BY <3>1, Frame, JavaGuards
    <3>3. job[p] # NoJob
      BY <3>2 DEF NoJob
    <3>4. job[p].on = "java" /\ at[p] \in {"work", "dead"} /\ (at[p] = "dead" => "java" \in cut)
      BY <3>2, <3>3 DEF JobsCovered, JobFits
    <3>5. CASE at[p] = "work"
      <4>1. /\ todo[p] # <<>> /\ Head(todo[p]).do = "run" /\ Head(todo[p]).on = "java"
            /\ Head(todo[p]) \in Pending(p)
        BY <3>3, <3>4, <3>5, NextItem DEF JobsCovered, JobFits
      <4>2. Compiling(p)
        BY <3>5, <4>1, CallKnown, JavaGuards DEF PlansCovered, Covered, Compiling, Over
      <4>3. Pending(p) = {Compile}
        BY <4>1, <4>2, CompilerLast
      <4> QED
        BY <1>4, <1>5, <4>2, <4>3
    <3> QED
      BY <1>0, <1>1, <3>4, <3>5
  <2>3. CASE /\ \A f \in Source : disk'[f] = disk[f]
             /\ \A c \in Classes : out'[c] = out[c]
    BY <1>0, <1>6, <2>3 DEF ClassesOfSources, Classes
  <2> QED
    BY <2>1, <2>2, <2>3
<1> QED
  BY <1>0, <1>1, <1>3, <1>5, <1>6 DEF ClassesOfSources

LEMMA ClassesStep ==
  ASSUME Inv, NEW p \in Start, Act(p)
  PROVE  ClassesPlanned'
<1>1. \A q \in Start : ClassesDue(q)
  BY DEF Inv, ClassesPlanned
<1>2. cut \subseteq cut' /\ Compile' = Compile /\ Classes' = Classes /\ ver' = ver
  BY Frame DEF Compile, Run, Dir, Classes, Source
<1>3. ASSUME NEW q \in Start \ {p} PROVE ClassesDue(q)'
  <2>1. SUFFICES ASSUME Compiling(q), \E c \in Classes : out'[c] # out[c]
                 PROVE  "java" \in cut
    BY <1>1, <1>2, OthersKept DEF ClassesDue
  <2>2. PICK c \in Classes : out'[c] # out[c]
    BY <2>1
  <2>3. c \in job[p].parts /\ c[1] = "java"
    BY <2>2, Frame, JavaGuards
  <2>4. job[p] # NoJob
    BY <2>3 DEF NoJob
  <2>5. job[p].on = "java"
    BY <2>3, <2>4 DEF Inv, JobsCovered, JobFits
  <2> QED
    BY <2>1, <2>4, <2>5, OnlyOrphansMeet, JavaGuards DEF Compiling
<1>4. ClassesDue(p)'
  <2>1. CASE at'[p] # "work"
    BY <2>1 DEF ClassesDue, Compiling
  <2>2. ASSUME \A c \in Classes : out[c] = ver[p]
        PROVE  ClassesDue(p)'
    <3>1. \A c \in Classes : out'[c] = ver[p]
      BY <2>2, OutputsStay, JavaGuards
    <3> QED
      BY <1>2, <3>1 DEF ClassesDue
  <2>3. CASE "java" \in cut
    BY <1>2, <2>3 DEF ClassesDue
  <2>4. CASE at'[p] = "work" /\ ens' = ens /\ at[p] = "work" /\ todo' = todo
    <3>1. Compiling(p)' = Compiling(p) /\ Pending(p)' = Pending(p)
      BY <2>4 DEF Compiling, Pending, Call
    <3> QED
      BY <1>1, <1>2, <2>2, <2>3, <3>1 DEF ClassesDue
  <2>5. CASE /\ at'[p] = "work" /\ ens' = ens /\ at[p] = "work"
             /\ todo[p] # <<>> /\ todo'[p] = Tail(todo[p])
             /\ Files(p) \/ ToolSucceeds(p)
    <3>1. SUFFICES ASSUME Compiling(p), Compile \in Pending(p) PROVE ClassesDue(p)'
      BY <1>1, <2>2, <2>3, <2>5 DEF ClassesDue, Compiling, Call
    <3>2. Pending(p)' = ToSet(Tail(todo[p])) /\ Pending(p) = {Head(todo[p])} \cup Pending(p)'
      BY <2>5, NextItem DEF Pending, Inv
    <3>3. CASE Head(todo[p]) # Compile
      BY <1>2, <3>1, <3>2, <3>3 DEF ClassesDue
    <3>4. CASE Head(todo[p]) = Compile
      <4>1. Compile.do = "run" /\ Compile.on = "java" /\ Compile.parts = Classes
        BY DEF Compile, Run
      <4>2. ToolSucceeds(p)
        BY <2>5, <3>4, <4>1 DEF Files, Doing
      <4>3. job[p] # NoJob /\ job[p].parts = {}
        BY <4>2 DEF ToolSucceeds
      <4>4. "java" \in cut \/ \A c \in Classes : out[c] = ver[p]
        BY <2>5, <3>4, <4>1, <4>3 DEF Inv, JobsCovered, JobFits
      <4> QED
        BY <2>2, <2>3, <4>4
    <3> QED
      BY <3>3, <3>4
  <2>6. CASE /\ at'[p] = "work" /\ ens' = ens /\ at[p] = "lock" /\ Acquire(p)
             /\ todo'[p] = PlanOf(p, Call(p))
    <3>1. SUFFICES ASSUME Call(p) = "compiled" PROVE ClassesDue(p)'
      BY <2>6 DEF ClassesDue, Compiling, Call
    <3>2. Pending(p)' = ToSet(JavaPlan(p))
      BY <2>6, <3>1 DEF PlanOf, Pending
    <3>3. CASE JavaStale(p)
      BY <1>2, <3>2, <3>3, JavaItems DEF ClassesDue
    <3>4. CASE ~JavaStale(p) /\ \A c \in Classes : out[c] = disk[c]
      <4>1. \A f \in Source : disk[f] = ver[p]
        BY <3>4 DEF JavaStale, Differ
      <4> QED
        BY <2>2, <3>4, <4>1 DEF Classes
    <3>5. ASSUME NEW r \in Start, Compiling(r) PROVE FALSE
      <4>1. lock["java"] = r /\ r \in Start
        BY <3>5, JavaGuards DEF Inv, LocksHeld, Held, Compiling
      <4>2. Wanted(p) = "java" /\ lock[Wanted(p)] = Nobody
        BY <2>6, <3>1, NextLock, JavaGuards DEF Inv, Acquire
      <4> QED
        BY <4>1, <4>2, ProvisioningAssumption
    <3> QED
      BY <2>3, <3>3, <3>4, <3>5 DEF Inv, ClassesOfSources
  <2> QED
    BY <2>1, <2>4, <2>5, <2>6, PlanChanges
<1> QED
  BY <1>3, <1>4 DEF ClassesPlanned

-----------------------------------------------------------------------------
LEMMA Inductive == Spec => []Inv
<1>1. Inv /\ [Next]_vars => Inv'
  <2> SUFFICES ASSUME Inv, [Next]_vars PROVE Inv'
    OBVIOUS
  <2>1. ASSUME NEW p \in Start, Act(p) PROVE Inv'
    BY <2>1, TypeStep, LocksStep, PlansStep, JobsStep, FilesStep, OutputsStep, MarkerStep,
       JavaOrderStep, SourcesStep, ClassesStep DEF Inv
  <2>2. CASE UNCHANGED vars
    <3> USE <2>2 DEF vars, Call, Pending, Compiling
    <3>1. Typed' /\ LocksHeld' /\ IdleDoNothing'
      BY DEF Inv, Typed, LocksHeld, Held, IdleDoNothing
    <3>2. PlansCovered'
      BY DEF Inv, PlansCovered
    <3>3. JobsCovered' /\ FilesPlanned' /\ OutputsPlanned' /\ MarkerMeansWs'
      BY DEF Inv, JobsCovered, JobFits, FilesPlanned, FilesDue, OutputsPlanned, OutputsDue,
             MarkerMeansWs, WsMarker, UnlessCut
    <3>4. JavaInOrder' /\ ClassesOfSources' /\ ClassesPlanned'
      BY DEF Inv, JavaInOrder, InOrder, ClassesOfSources, ClassesPlanned, ClassesDue
    <3> QED
      BY <3>1, <3>2, <3>3, <3>4 DEF Inv
  <2>3. CASE Next
    BY <2>1, <2>2, <2>3 DEF Next, Act, Done
  <2> QED
    BY <2>2, <2>3
<1> QED
  BY <1>1, InitInv, PTL DEF Spec

(* Every reachable state is well typed: in particular a start that lives   *)
(* always has a call at hand, also after the last one (Proceed), and no    *)
(* more faults happen than are counted.                                    *)
THEOREM ProvisioningTyped == Spec => []TypeOK
<1>1. Inv => TypeOK
  <2> SUFFICES ASSUME Inv PROVE TypeOK
    OBVIOUS
  <2>1. ASSUME NEW p \in Start, NEW i \in DOMAIN todo[p]
        PROVE  todo[p][i].do \in {"check", "write", "run"} /\ todo[p][i].paths \subseteq Path
    <3>1. todo[p][i] \in Item
      BY DEF Inv, Typed
    <3> QED
      BY <3>1 DEF Item
  <2> QED
    BY <2>1 DEF Inv, Typed, TypeOK
<1> QED
  BY <1>1, Inductive, PTL

(* Whatever the starts, their adapters, versions and faults: two tools that *)
(* write the same adapter directory at the same time are never both those   *)
(* of a living start (acquire_provision_lock around every run_with_timeout).*)
THEOREM ToolsNeverMeet == Spec => []ToolsRunAlone
<1>1. Inv => ToolsRunAlone
  <2> SUFFICES ASSUME Inv, NEW p \in Start, NEW q \in Start, p # q,
                      job[p].on = job[q].on, job[p] # NoJob, "dead" \notin {at[p], at[q]}
               PROVE  FALSE
    BY DEF ToolsRunAlone
  <2>1. ASSUME NEW r \in Start, job[r] # NoJob, at[r] # "dead"
        PROVE  lock[job[r].on] = r
    <3>1. /\ at[r] = "work" /\ todo[r] # <<>> /\ Head(todo[r]).do = "run"
          /\ job[r].on = Head(todo[r]).on
      BY <2>1 DEF Inv, JobsCovered, JobFits
    <3>2. Head(todo[r]) \in Pending(r)
      BY <3>1, NextItem DEF Inv
    <3> QED
      BY <3>1, <3>2 DEF Inv, PlansCovered, Covered, LocksHeld, Held
  <2>2. job[q] # NoJob
    <3>1. job[p] \in Job
      BY DEF Inv, Typed
    <3>2. NoJob.on \notin Adapter
      BY DEF NoJob, Adapter
    <3> QED
      BY <3>1, <3>2 DEF Job
  <2> QED
    BY <2>1, <2>2
<1> QED
  BY <1>1, Inductive, PTL

(* How a call ends: there is nothing left to do, or it had nothing to do.  *)
LEMMA CallEnds ==
  ASSUME Inv, [Next]_vars, NEW p \in Start
  PROVE  /\ Returns(p) => at[p] = "work" /\ Pending(p) = {}
         /\ Skips(p) => FastPath(Call(p))
<1>1. CASE Returns(p) \/ Skips(p)
  <2>1. PICK q \in Start : Act(q)
    BY <1>1 DEF Next, Done, Act, vars, Returns, Skips
  <2>2. q = p
    BY <1>1, <2>1, Frame DEF Returns, Skips
  <2>3. CASE Probe(p)
    BY <1>1, <2>3 DEF Probe, Proceed, Returns, Skips
  <2>4. CASE Return(p)
    BY <2>4, NothingToDo DEF Return, Pending, Skips, Returns
  <2>5. CASE Acquire(p) \/ GiveUp(p) \/ OrphanEnds(p) \/ Crash(p)
    BY <1>1, <2>5 DEF Inv, Typed, Acquire, GiveUp, OrphanEnds, Crash, Bail, Returns, Skips
  <2>6. CASE Files(p) \/ WriteFails(p) \/ ToolFails(p)
    BY <1>1, <2>6 DEF Inv, Typed, Files, WriteFails, ToolFails, Bail, Returns, Skips
  <2>7. CASE StartTool(p) \/ ToolWrites(p) \/ ToolSucceeds(p)
    BY <1>1, <2>7 DEF Inv, Typed, StartTool, ToolWrites, ToolSucceeds, Returns, Skips
  <2> QED
    BY <2>1, <2>2, <2>3, <2>4, <2>5, <2>6, <2>7 DEF Act, Step
<1> QED
  BY <1>1

(* An ensure call that returns has left all files of its bridge as its own *)
(* binary embeds them, for any number of versions alternating in the       *)
(* directory and however the starts before it ended.                       *)
THEOREM ReturnsWithItsFiles == Spec => FilesAsEmbedded
<1>1. Inv /\ [Next]_vars =>
        \A p \in Start : Returns(p) => \A f \in FilesOf(Call(p)) : disk[f] = ver[p]
  BY CallEnds DEF Inv, FilesPlanned, FilesDue
<1> QED
  BY <1>1, Inductive, PTL DEF Spec, FilesAsEmbedded

(* What a call answers for works when it returns, also when it was skipped *)
(* on its fast path: debugpy always; the classes and `ws` unless a tool    *)
(* was cut off in their adapter (or npm is at it now).                     *)
THEOREM ReturnsWithItsOutputs == Spec => OutputsWork
<1>1. ASSUME Inv, [Next]_vars, NEW p \in Start, Returns(p) \/ Skips(p)
      PROVE  /\ Call(p) = "py" => HasDebugpy
             /\ Call(p) = "compiled" =>
                  UnlessCut("java") \/ \A c \in Classes : out[c] = ver[p]
             /\ Call(p) \in {"ws", "browserbridge"} =>
                  UnlessCut("node") \/ \A q \in Ws : out[q] # Absent
  <2>1. CASE Returns(p)
    <3>1. at[p] = "work" /\ Pending(p) = {}
      BY <1>1, <2>1, CallEnds
    <3>2. \A q \in Needs(Call(p)) : out[q] # Absent \/ (Call(p) # "py" /\ "node" \in cut)
      BY <1>1, <3>1 DEF Inv, OutputsPlanned, OutputsDue
    <3>3. Call(p) = "compiled" => "java" \in cut \/ \A c \in Classes : out[c] = ver[p]
      BY <1>1, <3>1 DEF Inv, ClassesPlanned, ClassesDue, Compiling
    <3> QED
      BY <3>2, <3>3 DEF Needs, HasDebugpy, UnlessCut
  <2>2. CASE Skips(p)
    <3>1. FastPath(Call(p))
      BY <1>1, <2>2, CallEnds
    <3> QED
      BY <1>1, <3>1 DEF FastPath, Inv, MarkerMeansWs
  <2> QED
    BY <1>1, <2>1, <2>2
<1>2. Inv /\ [Next]_vars =>
        \A p \in Start : Returns(p) \/ Skips(p) =>
          /\ Call(p) = "py" => HasDebugpy
          /\ Call(p) = "compiled" =>
               UnlessCut("java") \/ \A c \in Classes : out[c] = ver[p]
          /\ Call(p) \in {"ws", "browserbridge"} =>
               UnlessCut("node") \/ \A q \in Ws : out[q] # Absent
  BY <1>1
<1> QED
  BY <1>2, Inductive, PTL DEF Spec, OutputsWork

-----------------------------------------------------------------------------
(* Why every start settles: nobody waits in a circle, and no step is made  *)
(* in vain.  First, what a start can do next: the guards of Step.          *)
GetsOn(p) ==
  \/ at[p] = "probe"
  \/ at[p] = "lock" /\ lock[Wanted(p)] = Nobody
  \/ Doing(p, "check") \/ Doing(p, "write")
  \/ Doing(p, "run") /\ job[p] = NoJob
  \/ job[p].parts # {}
  \/ at[p] = "work" /\ job[p] # NoJob /\ job[p].parts = {}
  \/ at[p] = "work" /\ todo[p] = <<>>

WaitsFor(p, q) == at[p] = "lock" /\ lock[Wanted(p)] = q

(* A start that has not come to its end can go on, or waits for one that    *)
(* can, or for one that waits for one that can.                            *)
NobodyIsStuck ==
  \A p \in Start : at[p] \notin Over =>
    \/ GetsOn(p)
    \/ \E q \in Start \ {p} :
         /\ WaitsFor(p, q)
         /\ \/ GetsOn(q)
            \/ \E r \in Start \ {p, q} : WaitsFor(q, r) /\ at[r] = "work" /\ GetsOn(r)

(* How near a start is to its end.                                         *)
Stage(s) == IF s = "probe" THEN 3 ELSE IF s = "lock" THEN 2 ELSE IF s = "work" THEN 1 ELSE 0

Nearer(p) ==
  \/ Len(ens'[p]) < Len(ens[p])
  \/ /\ ens'[p] = ens[p]
     /\ \/ Stage(at'[p]) < Stage(at[p])
        \/ /\ at'[p] = at[p]
           /\ \/ Holds(p) \subseteq Holds(p)' /\ Holds(p) # Holds(p)'
              \/ /\ Holds(p)' = Holds(p)
                 /\ \/ Len(todo'[p]) < Len(todo[p])
                    \/ /\ todo'[p] = todo[p]
                       /\ \/ job[p] = NoJob /\ job'[p] # NoJob
                          \/ /\ job[p] # NoJob /\ job'[p] # NoJob
                             /\ job'[p].parts \subseteq job[p].parts /\ job'[p].parts # job[p].parts

Untouched(q) ==
  /\ ens'[q] = ens[q] /\ at'[q] = at[q] /\ todo'[q] = todo[q] /\ job'[q] = job[q]
  /\ Holds(q)' = Holds(q)

(* A step that fairness schedules is one nearer to its start's end and     *)
(* leaves the others where they are.                                       *)
StepsLeadToTheEnd ==
  [][\A p \in Start : Step(p) => Nearer(p) /\ \A q \in Start \ {p} : Untouched(q)]_vars
LEMMA WorkersGetOn ==
  ASSUME Inv, NEW p \in Start, at[p] = "work"
  PROVE  GetsOn(p)
<1>1. CASE todo[p] = <<>>
  BY <1>1 DEF GetsOn
<1>2. CASE todo[p] # <<>> /\ Head(todo[p]).do # "run"
  <2>1. Head(todo[p]) \in Item
    BY <1>2, NextItem DEF Inv
  <2> QED
    BY <1>2, <2>1 DEF GetsOn, Doing, Item
<1>3. CASE todo[p] # <<>> /\ Head(todo[p]).do = "run"
  BY <1>3 DEF GetsOn, Doing
<1> QED
  BY <1>1, <1>2, <1>3

(* Whose lock a start waits for: of a start at work, or, for the node lock, *)
(* of one that waits for the browser's.                                     *)
LEMMA HoldersWork ==
  ASSUME Inv, NEW p \in Start, at[p] = "lock", lock[Wanted(p)] # Nobody
  PROVE  LET q == lock[Wanted(p)]
         IN  /\ q \in Start /\ q # p /\ Wanted(p) \in Adapter
             /\ at[q] = "work" \/ (Wanted(p) = "node" /\ at[q] = "lock" /\ lock["node"] = q)
<1> DEFINE q == lock[Wanted(p)]
<1>1. Typed /\ LocksHeld
  BY DEF Inv
<1>2. Call(p) \in Ensure
  BY <1>1, CallKnown DEF Over
<1>3. Wanted(p) \in Adapter /\ lock[Wanted(p)] # p
  <2>1. CASE Call(p) # "browserbridge"
    <3>1. Guards(Call(p)) = {Wanted(p)} /\ \A a \in Adapter : lock[a] # p
      BY <1>1, <2>1, NextLock
    <3> QED
      BY <1>2, <3>1, GuardsAdapters
  <2>2. CASE Call(p) = "browserbridge" /\ Wanted(p) = "node" /\ \A a \in Adapter : lock[a] # p
    BY <2>2 DEF Adapter
  <2>3. CASE Call(p) = "browserbridge" /\ Wanted(p) = "browser" /\ lock["node"] = p
    <3>1. \A a \in Adapter : lock[a] = p => a = "node"
      BY <1>1 DEF LocksHeld, Held
    <3> QED
      BY <2>3, <3>1 DEF Adapter
  <2> QED
    BY <1>1, <2>1, <2>2, <2>3, NextLock
<1>4. q \in Start
  BY <1>1, <1>3 DEF Typed
<1>5. Held(q)
  BY <1>1, <1>4 DEF LocksHeld
<1> QED
  BY <1>3, <1>4, <1>5 DEF Held

LEMMA Waits ==
  ASSUME Inv PROVE NobodyIsStuck
<1> SUFFICES ASSUME NEW p \in Start, at[p] \notin Over, ~GetsOn(p)
             PROVE  \E q \in Start \ {p} :
                      /\ WaitsFor(p, q)
                      /\ \/ GetsOn(q)
                         \/ \E r \in Start \ {p, q} : WaitsFor(q, r) /\ at[r] = "work" /\ GetsOn(r)
  BY DEF NobodyIsStuck
<1>1. at[p] = "lock" /\ lock[Wanted(p)] # Nobody
  <2>1. at[p] \in {"probe", "lock", "work"}
    BY DEF Inv, Typed
  <2> QED
    BY <2>1, WorkersGetOn DEF GetsOn
<1> DEFINE q == lock[Wanted(p)]
<1>2. /\ q \in Start \ {p} /\ WaitsFor(p, q)
      /\ at[q] = "work" \/ (Wanted(p) = "node" /\ at[q] = "lock" /\ lock["node"] = q)
  BY <1>1, HoldersWork DEF WaitsFor
<1> HIDE DEF q
<1>3. CASE at[q] = "work"
  BY <1>2, <1>3, WorkersGetOn
<1>4. CASE at[q] = "lock" /\ lock["node"] = q /\ lock[Wanted(q)] = Nobody
  <2>1. GetsOn(q)
    BY <1>4 DEF GetsOn
  <2> QED
    BY <1>2, <2>1
<1>5. CASE at[q] = "lock" /\ lock["node"] = q /\ lock[Wanted(q)] # Nobody
  <2> DEFINE r == lock[Wanted(q)]
  <2>1. Wanted(q) = "browser"
    BY <1>2, <1>5, NextLock DEF Inv, Adapter
  <2>2. /\ r \in Start /\ r # q /\ at[r] = "work"
    BY <1>2, <1>5, <2>1, HoldersWork
  <2>3. r # p
    BY <1>1, <2>2
  <2>4. WaitsFor(q, r) /\ GetsOn(r)
    BY <1>5, <2>2, WorkersGetOn DEF WaitsFor
  <2> HIDE DEF r
  <2> QED
    BY <1>2, <2>2, <2>3, <2>4
<1> QED
  BY <1>2, <1>3, <1>4, <1>5

(* No start, of however many, ever waits in a circle: whoever waits for a   *)
(* lock waits for a living start that can go on, or for one that waits for  *)
(* such a one (node's lock before browser's, in ensure_browserbridge_in,    *)
(* whose locked inner functions take none again).                           *)
THEOREM NoCircularWait == Spec => []NobodyIsStuck
<1>1. Inv => NobodyIsStuck
  BY Waits
<1> QED
  BY <1>1, Inductive, PTL

LEMMA Shorter ==
  ASSUME NEW S, NEW s \in Seq(S), s # <<>>
  PROVE  Len(Tail(s)) < Len(s)
BY TakeFirst

LEMMA StepNearer ==
  ASSUME Inv, NEW p \in Start, Step(p)
  PROVE  Nearer(p)
<1>0. /\ Typed /\ ens[p] \in Seq(Ensure) /\ todo[p] \in Seq(Item)
      /\ at[p] \notin Over => ens[p] # <<>>
  BY DEF Inv, Typed
<1>1. ASSUME Proceed(p), at[p] \notin Over PROVE Len(ens'[p]) < Len(ens[p])
  <2>1. ens'[p] = Tail(ens[p])
    BY <1>0, <1>1 DEF Proceed, Typed
  <2> QED
    BY <1>0, <1>1, <2>1, Shorter
<1>2. CASE Probe(p)
  <2>1. CASE Proceed(p)
    BY <1>1, <1>2, <2>1 DEF Probe, Over, Nearer
  <2>2. CASE at' = [at EXCEPT ![p] = "lock"] /\ UNCHANGED ens
    <3>1. at[p] = "probe" /\ at'[p] = "lock" /\ ens'[p] = ens[p]
      BY <1>0, <1>2, <2>2 DEF Probe, Typed
    <3>2. Stage(at'[p]) < Stage(at[p])
      BY <3>1 DEF Stage
    <3> QED
      BY <3>1, <3>2 DEF Nearer
  <2> QED
    BY <1>2, <2>1, <2>2 DEF Probe
<1>3. CASE Acquire(p)
  <2> DEFINE last == Cardinality(Holds(p)) + 1 = Len(LocksOf(Call(p)))
  <2>1. at[p] = "lock" /\ ens'[p] = ens[p] /\ lock[Wanted(p)] = Nobody
    BY <1>3 DEF Acquire
  <2>2. CASE last
    <3>1. at'[p] = "work"
      BY <1>0, <1>3, <2>2 DEF Acquire, Typed
    <3>2. Stage(at'[p]) < Stage(at[p])
      BY <2>1, <3>1 DEF Stage
    <3> QED
      BY <2>1, <3>2 DEF Nearer
  <2>3. CASE ~last
    <3>1. at'[p] = at[p] /\ lock' = [lock EXCEPT ![Wanted(p)] = p]
      BY <1>3, <2>3 DEF Acquire
    <3>2. Wanted(p) = "node"
      BY <2>1, <2>3, NextLock DEF Inv
    <3>3. lock["node"] = Nobody /\ lock'["node"] = p
          /\ \A a \in Adapter : a # "node" => lock'[a] = lock[a]
      BY <1>0, <2>1, <3>1, <3>2 DEF Typed, Adapter
    <3>4. "node" \in Holds(p)' /\ "node" \notin Holds(p) /\ Holds(p) \subseteq Holds(p)'
      BY <3>3, ProvisioningAssumption DEF Holds, Adapter
    <3> QED
      BY <2>1, <3>1, <3>4 DEF Nearer
  <2> QED
    BY <2>2, <2>3
<1>4. CASE Files(p)
  <2>1. at[p] = "work" /\ todo[p] # <<>> /\ ens'[p] = ens[p]
    BY <1>4 DEF Files, Doing
  <2>2. CASE Bail(p)
    <3>1. at'[p] = "failed"
      BY <1>0, <2>2 DEF Bail, Typed
    <3>2. Stage(at'[p]) < Stage(at[p])
      BY <2>1, <3>1 DEF Stage
    <3> QED
      BY <2>1, <3>2 DEF Nearer
  <2>3. CASE todo' = [todo EXCEPT ![p] = Tail(@)] /\ UNCHANGED <<at, lock>>
    <3>1. todo'[p] = Tail(todo[p]) /\ at'[p] = at[p] /\ Holds(p)' = Holds(p)
      BY <1>0, <2>3 DEF Typed, Holds
    <3>2. Len(todo'[p]) < Len(todo[p])
      BY <1>0, <2>1, <3>1, Shorter
    <3> QED
      BY <2>1, <3>1, <3>2 DEF Nearer
  <2> QED
    BY <1>4, <2>2, <2>3 DEF Files
<1>5. CASE StartTool(p)
  <2>1. /\ ens'[p] = ens[p] /\ at'[p] = at[p] /\ Holds(p)' = Holds(p) /\ todo'[p] = todo[p]
        /\ job[p] = NoJob /\ todo[p] # <<>> /\ Head(todo[p]).do = "run" /\ at[p] = "work"
        /\ job'[p] = [on |-> Head(todo[p]).on, parts |-> Head(todo[p]).parts]
    BY <1>0, <1>5 DEF StartTool, Typed, Holds, Doing
  <2>2. Head(todo[p]).on \in Adapter
    <3>1. Covered(Head(todo[p]), Call(p))
      BY <2>1, NextItem DEF Inv, PlansCovered
    <3> QED
      BY <2>1, <3>1, <1>0, CallKnown, GuardsAdapters DEF Covered, Over
  <2>3. job'[p] # NoJob
    <3>1. "none" \notin Adapter
      BY DEF Adapter
    <3> QED
      BY <2>1, <2>2, <3>1 DEF NoJob
  <2> QED
    BY <2>1, <2>3 DEF Nearer
<1>6. CASE ToolWrites(p)
  <2>1. PICK q \in job[p].parts : job' = [job EXCEPT ![p].parts = @ \ {q}]
    BY <1>6 DEF ToolWrites
  <2>2. /\ ens'[p] = ens[p] /\ at'[p] = at[p] /\ Holds(p)' = Holds(p) /\ todo'[p] = todo[p]
    BY <1>6 DEF ToolWrites, Holds
  <2>3. job[p] # NoJob /\ job[p] \in Job
    BY <1>0, <2>1 DEF NoJob, Typed
  <2>4. job'[p].on = job[p].on /\ job'[p].parts = job[p].parts \ {q}
    BY <1>0, <2>1, <2>3 DEF Typed, Job
  <2>5. job'[p] # NoJob
    <3>1. job[p].on \in Adapter /\ "none" \notin Adapter
      BY <2>3 DEF Job, Adapter
    <3> QED
      BY <2>4, <3>1 DEF NoJob
  <2> QED
    BY <2>2, <2>3, <2>4, <2>5 DEF Nearer
<1>7. CASE ToolSucceeds(p)
  <2>1. /\ ens'[p] = ens[p] /\ at'[p] = at[p] /\ Holds(p)' = Holds(p)
        /\ todo'[p] = Tail(todo[p]) /\ job[p] # NoJob /\ at[p] = "work"
    BY <1>0, <1>7 DEF ToolSucceeds, Typed, Holds
  <2>2. todo[p] # <<>>
    BY <2>1 DEF Inv, JobsCovered, JobFits
  <2>3. Len(todo'[p]) < Len(todo[p])
    BY <1>0, <2>1, <2>2, Shorter
  <2> QED
    BY <2>1, <2>3 DEF Nearer
<1>8. CASE Return(p)
  BY <1>1, <1>8 DEF Return, Over, Nearer
<1> QED
  BY <1>2, <1>3, <1>4, <1>5, <1>6, <1>7, <1>8 DEF Step

(* Every step that fairness schedules brings its start nearer to its end in *)
(* an order that cannot fall for ever (fewer calls; then the next stage;    *)
(* then more of the four locks; then less to do; then less for the tool to  *)
(* write), and takes no other start further from its own.                   *)
THEOREM NoStepIsLost == Spec => StepsLeadToTheEnd
<1>1. ASSUME Inv, NEW p \in Start, Step(p), NEW q \in Start \ {p} PROVE Untouched(q)
  <2>1. Act(p)
    BY <1>1 DEF Act
  <2>2. /\ at'[q] = at[q] /\ ens'[q] = ens[q] /\ todo'[q] = todo[q] /\ job'[q] = job[q]
        /\ \A a \in Adapter : lock'[a] = q <=> lock[a] = q
    BY <1>1, <2>1, Frame
  <2> QED
    BY <2>2 DEF Untouched, Holds
<1>2. Inv => \A p \in Start : Step(p) => Nearer(p) /\ \A q \in Start \ {p} : Untouched(q)
  BY <1>1, StepNearer
<1> QED
  BY <1>2, Inductive, PTL DEF StepsLeadToTheEnd
=============================================================================
