---------------------------- MODULE Provisioning ----------------------------
(***************************************************************************)
(* The adapter directory that every start of the debugger fills on first   *)
(* use and shares with all others (bridge.rs): bridge scripts embedded in  *)
(* the binary, Java classes compiled from embedded sources, the npm        *)
(* package `ws` and a virtual environment with debugpy.                    *)
(*                                                                         *)
(* A start runs its adapter's `ensure` calls one after another.  Each takes *)
(* its kernel locks, compares the directory with what the binary embeds,   *)
(* writes the files that differ (atomically: own temporary and rename) and *)
(* runs external tools, which write their outputs piece by piece.  Starts  *)
(* of two versions of the binary meet in one directory; a start may be     *)
(* killed anywhere, and then its locks are free while its tool still runs. *)
(***************************************************************************)
EXTENDS Naturals, Sequences, FiniteSets, SequencesExt

CONSTANTS Start,     \* invocations that provision
          Unit,      \* compilation units of the Java bridge
          Shared,    \* files of the shared JavaScript core
          Version,   \* versions of the binary
          Mixes,     \* sets of adapters that are started side by side
          Nobody,    \* owner of a free lock
          MaxFaults  \* planted links, killed starts, failed writes and tools

Adapter == {"java", "python", "node", "browser"}
Absent  == 0

ASSUME ProvisioningAssumption ==
  /\ Nobody \notin Start /\ Mixes \subseteq SUBSET Adapter
  /\ Version \subseteq Nat \ {Absent}
  /\ IsFiniteSet(Unit) /\ IsFiniteSet(Shared)  \* arrays of the binary
  /\ Shared \cap {"bridge", "dir"} = {} /\ Unit \cap {"classes", "dir"} = {}
  /\ MaxFaults \in Nat

(* Files the binary writes itself, and what the external tools produce.    *)
Source == {<<"java", u>> : u \in Unit}
Bundle(a) == {<<a, f>> : f \in Shared \cup {"bridge"}}
File   == Source \cup {<<"python", "bridge">>} \cup Bundle("node") \cup Bundle("browser")

Classes == Source
Ws      == {<<"node", "manifest">>, <<"node", "rest">>}
Venv    == {<<"python", "interpreter">>, <<"python", "debugpy">>}
Part    == Classes \cup Ws \cup Venv

(* Directories, which a symbolic link may stand for like for a file.       *)
Dir(a)     == <<a, "dir">>
ClassesDir == <<"java", "classes">>
Path       == File \cup {Dir(a) : a \in Adapter} \cup {ClassesDir}

Ensure == {"compiled", "py", "pybridge", "nodebridge", "ws", "browserbridge"}

VARIABLES
  kind,   \* the adapter each start is for
  ver,    \* the version of the binary of each start
  links,  \* files and adapter directories replaced by a symbolic link
  disk,   \* version of each file, as written
  out,    \* version of each output of a tool
  lock,   \* the holder of each adapter's lock
  at,     \* where each start is
  ens,    \* the ensure calls it has still to make
  todo,   \* what the current one has still to write or run
  job,    \* the tool each start runs: its adapter and outputs to come
  faults,
  cut     \* history: adapters left by a start that had still to run a tool

vars == <<kind, ver, links, disk, out, lock, at, ens, todo, job, faults, cut>>

NoJob     == [on |-> "none", parts |-> {}]
Job       == [on : Adapter, parts : SUBSET Part]
Over      == {"ready", "failed", "dead"}
Call(p)   == Head(ens[p])
Holds(p)  == {a \in Adapter : lock[a] = p}

-----------------------------------------------------------------------------
(* What an ensure call does.                                               *)

EnsuresOf(k) ==
  CASE k = "java"    -> <<"compiled">>
    [] k = "python"  -> <<"py", "pybridge">>
    [] k = "node"    -> <<"nodebridge", "ws">>
    [] k = "browser" -> <<"browserbridge", "ws">>

LocksOfAlone(e) ==
  CASE e = "compiled" -> <<"java">> [] e \in {"py", "pybridge"} -> <<"python">>
    [] e \in {"nodebridge", "ws"} -> <<"node">> [] e = "browserbridge" -> <<"browser">>
LocksOfTwice(e) ==
  CASE e = "compiled" -> <<"java">> [] e \in {"py", "pybridge"} -> <<"python">>
    [] e \in {"nodebridge", "ws"} -> <<"node">>
    [] e = "browserbridge" -> <<"node", "node", "browser">>
LocksOf(e) ==
  CASE e = "compiled"            -> <<"java">>
    [] e \in {"py", "pybridge"}  -> <<"python">>
    [] e \in {"nodebridge", "ws"} -> <<"node">>
    [] e = "browserbridge"       -> <<"node", "browser">>

HasDebugpy == \A q \in Venv : out[q] # Absent
WsMarker   == out[<<"node", "manifest">>] # Absent

\* Probed before any lock is taken: nothing to do.
FastPath(e) == \/ e = "py" /\ HasDebugpy
               \/ e = "ws" /\ WsMarker

Check(F)  == [do |-> "check", paths |-> F, on |-> "none", parts |-> {}]
Write(f)  == [do |-> "write", paths |-> {}, on |-> f[1], parts |-> {f}]
Run(a, P) == [do |-> "run", paths |-> {Dir(a)}, on |-> a, parts |-> P]
Writes(F) == [i \in 1 .. Cardinality(F) |-> Write(SetToSeq(F)[i])]
Differ(p, F) == {f \in F : disk[f] # ver[p]}

\* Everything is looked at, compared and, if any of it is stale, rewritten.
JavaStale(p) == (\E c \in Classes : out[c] = Absent) \/ Differ(p, Source) # {}
JavaPlan(p) ==
  <<Check({Dir("java")} \cup Source)>> \o
  IF JavaStale(p) THEN <<Check({ClassesDir})>> \o Writes(Source) \o <<Run("java", Classes)>>
  ELSE <<>>

PyPlanByVenv ==
  IF out[<<"python", "interpreter">>] # Absent THEN <<>>
  ELSE <<Check({Dir("python")}), Run("python", {<<"python", "interpreter">>}),
         Run("python", {<<"python", "debugpy">>})>>
PyPlan ==
  IF HasDebugpy THEN <<>>
  ELSE <<Check({Dir("python")}), Run("python", {<<"python", "interpreter">>}),
         Run("python", {<<"python", "debugpy">>})>>

WsPlan == IF WsMarker THEN <<>> ELSE <<Check({Dir("node")}), Run("node", Ws)>>

\* The shared core first; the bridge too when any part of it changed.
Checked(w) == [w EXCEPT !.paths = w.parts]
BundlePlanShortCircuit(p, a) ==
  LET bridge == <<a, "bridge">>
      core   == Bundle(a) \ {bridge}
  IN  <<Check({Dir(a), bridge})>> \o
      IF Differ(p, {bridge}) # {} THEN <<Write(bridge)>> ELSE Writes(Differ(p, core))
BundlePlan(p, a) ==
  LET bridge == <<a, "bridge">>
      core   == Bundle(a) \ {bridge}
      stale  == Writes(Differ(p, core))
  IN  <<Check({Dir(a), bridge})>> \o [i \in DOMAIN stale |-> Checked(stale[i])] \o
      <<Check(core)>> \o IF Differ(p, Bundle(a)) = {} THEN <<>> ELSE <<Write(bridge)>>

PlanOf(p, e) ==
  CASE e = "compiled"      -> JavaPlan(p)
    [] e = "py"            -> PyPlan
    [] e = "pybridge"      -> <<Check({Dir("python"), <<"python", "bridge">>})>>
                                \o Writes(Differ(p, {<<"python", "bridge">>}))
    [] e = "ws"            -> WsPlan
    [] e = "nodebridge"    -> BundlePlan(p, "node")
    [] e = "browserbridge" -> WsPlan \o BundlePlan(p, "browser")

-----------------------------------------------------------------------------
Init ==
  /\ kind \in UNION {[Start -> K] : K \in Mixes} /\ ver \in [Start -> Version]
  /\ links \in {L \in SUBSET {x \in Path : \E p \in Start : kind[p] = x[1]} :
                 Cardinality(L) <= MaxFaults}
  /\ disk = [f \in File |-> Absent] /\ out = [q \in Part |-> Absent]
  /\ lock = [a \in Adapter |-> Nobody]
  /\ at = [p \in Start |-> "probe"]
  /\ ens = [p \in Start |-> EnsuresOf(kind[p])]
  /\ todo = [p \in Start |-> <<>>] /\ job = [p \in Start |-> NoJob]
  /\ faults = Cardinality(links) /\ cut = {}

Unlock(p) == [a \in Adapter |-> IF lock[a] = p THEN Nobody ELSE lock[a]]

\* This call is done: on to the next one, or to the launch of the bridge.
ProceedAlways(p) ==
  ens' = [ens EXCEPT ![p] = Tail(@)] /\ at' = [at EXCEPT ![p] = "probe"]
Proceed(p) ==
  /\ ens' = [ens EXCEPT ![p] = Tail(@)]
  /\ at' = [at EXCEPT ![p] = IF Len(ens[p]) = 1 THEN "ready" ELSE "probe"]

Undone(p) == {todo[p][i].on : i \in {n \in DOMAIN todo[p] : todo[p][n].do = "run"}}
Fault(p)  == faults < MaxFaults /\ faults' = faults + 1 /\ cut' = cut \cup Undone(p)

Bail(p) ==
  /\ at' = [at EXCEPT ![p] = "failed"] /\ lock' = Unlock(p)
  /\ todo' = [todo EXCEPT ![p] = <<>>]

Probe(p) ==
  /\ at[p] = "probe"
  /\ IF FastPath(Call(p)) THEN Proceed(p)
     ELSE at' = [at EXCEPT ![p] = "lock"] /\ UNCHANGED ens
  /\ UNCHANGED <<kind, ver, links, disk, out, lock, todo, job, faults, cut>>

\* The next lock of the call; with the last one, the comparison of the
\* directory, which no rival can change while the lock is held.
Wanted(p) == LocksOf(Call(p))[Cardinality(Holds(p)) + 1]
Acquire(p) ==
  /\ at[p] = "lock" /\ lock[Wanted(p)] = Nobody
  /\ LET mine == [lock EXCEPT ![Wanted(p)] = p]
         last == Cardinality(Holds(p)) + 1 = Len(LocksOf(Call(p)))
     IN  /\ lock' = mine
         /\ IF last THEN /\ at' = [at EXCEPT ![p] = "work"]
                         /\ todo' = [todo EXCEPT ![p] = PlanOf(p, Call(p))]
            ELSE UNCHANGED <<at, todo>>
  /\ UNCHANGED <<kind, ver, links, disk, out, ens, job, faults, cut>>

\* The holder took longer than PROVISION_LOCK_WAIT.
GiveUp(p) ==
  /\ at[p] = "lock" /\ lock[Wanted(p)] # Nobody /\ Bail(p)
  /\ UNCHANGED <<kind, ver, links, disk, out, ens, job, faults, cut>>

\* Paths are looked at, and a file is replaced by a rename.
Linked(F) == F \cap links # {}
Doing(p, what) == at[p] = "work" /\ todo[p] # <<>> /\ Head(todo[p]).do = what
Files(p) ==
  /\ Doing(p, "check") \/ Doing(p, "write")
  /\ IF Linked(Head(todo[p]).paths) THEN Bail(p) /\ UNCHANGED disk
     ELSE /\ disk' = [f \in File |-> IF f \in Head(todo[p]).parts THEN ver[p] ELSE disk[f]]
          /\ todo' = [todo EXCEPT ![p] = Tail(@)]
          /\ UNCHANGED <<at, lock>>
  /\ UNCHANGED <<kind, ver, links, out, ens, job, faults, cut>>

\* The disk is full, or the like: the temporary is removed.
WriteFails(p) ==
  /\ Doing(p, "write") /\ Fault(p) /\ Bail(p)
  /\ UNCHANGED <<kind, ver, links, disk, out, ens, job>>

\* javac, npm, venv or pip, under run_with_timeout.
StartTool(p) ==
  /\ Doing(p, "run") /\ job[p] = NoJob
  /\ job' = [job EXCEPT ![p] = [on |-> Head(todo[p]).on, parts |-> Head(todo[p]).parts]]
  /\ UNCHANGED <<kind, ver, links, disk, out, lock, at, ens, todo, faults, cut>>

\* A tool writes one of its outputs, whether or not its start still lives.
\* javac compiles the sources it read; the last one read is disk's.
ToolWrites(p) ==
  /\ \E q \in job[p].parts :
       /\ out' = [out EXCEPT ![q] = ver[p]]
       /\ job' = [job EXCEPT ![p].parts = @ \ {q}]
  /\ UNCHANGED <<kind, ver, links, disk, lock, at, ens, todo, faults, cut>>

ToolSucceeds(p) ==
  /\ at[p] = "work" /\ job[p] # NoJob /\ job[p].parts = {}
  /\ job' = [job EXCEPT ![p] = NoJob] /\ todo' = [todo EXCEPT ![p] = Tail(@)]
  /\ UNCHANGED <<kind, ver, links, disk, out, lock, at, ens, faults, cut>>

\* It exits with an error, or is killed with its tree at its time limit.
ToolFails(p) ==
  /\ at[p] = "work" /\ job[p] # NoJob /\ Fault(p)
  /\ job' = [job EXCEPT ![p] = NoJob] /\ Bail(p)
  /\ UNCHANGED <<kind, ver, links, disk, out, ens>>

Return(p) ==
  /\ at[p] = "work" /\ todo[p] = <<>>
  /\ Proceed(p) /\ lock' = Unlock(p)
  /\ UNCHANGED <<kind, ver, links, disk, out, todo, job, faults, cut>>

\* The start is killed.  The kernel frees its locks; its tool is orphaned.
Crash(p) ==
  /\ at[p] \notin Over /\ Fault(p)
  /\ at' = [at EXCEPT ![p] = "dead"] /\ lock' = Unlock(p)
  /\ todo' = [todo EXCEPT ![p] = <<>>]
  /\ UNCHANGED <<kind, ver, links, disk, out, ens, job>>

\* The orphan finishes, or dies of its closed pipe or of the same signal.
OrphanEnds(p) ==
  /\ at[p] = "dead" /\ job[p] # NoJob
  /\ job' = [job EXCEPT ![p] = NoJob]
  /\ UNCHANGED <<kind, ver, links, disk, out, lock, at, ens, todo, faults, cut>>

Step(p) == \/ Probe(p) \/ Acquire(p) \/ Files(p)
           \/ StartTool(p) \/ ToolWrites(p) \/ ToolSucceeds(p) \/ Return(p)

Done == (\A p \in Start : at[p] \in Over /\ job[p] = NoJob) /\ UNCHANGED vars

Next == \/ \E p \in Start : Step(p) \/ GiveUp(p) \/ WriteFails(p) \/ ToolFails(p) \/ Crash(p) \/ OrphanEnds(p)
        \/ Done

Spec == Init /\ [][Next]_vars

(* A live start is scheduled and its tools end.  Neither the lock's time    *)
(* limit nor any fault is assumed to come: nobody waits for them.          *)
FairSpec == Spec /\ \A p \in Start : WF_vars(Step(p))

-----------------------------------------------------------------------------
(* Properties.                                                             *)

TypeOK ==
  /\ kind \in [Start -> Adapter] /\ ver \in [Start -> Version]
  /\ links \subseteq Path
  /\ disk \in [File -> Version \cup {Absent}]
  /\ out \in [Part -> Version \cup {Absent}]
  /\ lock \in [Adapter -> Start \cup {Nobody}]
  /\ at \in [Start -> {"probe", "lock", "work"} \cup Over]
  /\ \A p \in Start : ens[p] \in Seq(Ensure) /\ (at[p] \notin Over => ens[p] # <<>>)
  /\ \A p \in Start : \A i \in DOMAIN todo[p] :
       todo[p][i].do \in {"check", "write", "run"} /\ todo[p][i].paths \subseteq Path
  /\ job \in [Start -> Job \cup {NoJob}]
  /\ faults \in 0 .. MaxFaults /\ cut \subseteq Adapter

Returns(p) == at[p] = "work" /\ at'[p] \in {"probe", "ready"}
Skips(p)   == at[p] = "probe" /\ ens'[p] # ens[p]

FilesOf(e) ==
  CASE e = "compiled" -> Source           [] e = "pybridge"      -> {<<"python", "bridge">>}
    [] e = "nodebridge" -> Bundle("node") [] e = "browserbridge" -> Bundle("browser")
    [] OTHER -> {}

(* An ensure call that returns has left every file of its bridge exactly as  *)
(* its own binary embeds it, whatever versions alternate in the directory   *)
(* and wherever an earlier start was killed between two files (the `||`     *)
(* short circuit that bridge.rs warns of leaves a new bridge with an old    *)
(* shared core).                                                            *)
FilesAsEmbedded ==
  [][\A p \in Start : Returns(p) => \A f \in FilesOf(Call(p)) : disk[f] = ver[p]]_vars

(* Whatever a call answers for (fast path or not) works: debugpy can be     *)
(* imported always; the classes are those of this binary and `ws` is whole  *)
(* unless a start once left that adapter before its tool had ended, or npm  *)
(* is at it now.                                                            *)
UnlessCut(a) == a \in cut \/ \E q \in Start : job[q].on = a
OutputsWork ==
  [][\A p \in Start : Returns(p) \/ Skips(p) =>
       /\ Call(p) = "py" => HasDebugpy
       /\ Call(p) = "compiled" => UnlessCut("java") \/ \A c \in Classes : out[c] = ver[p]
       /\ Call(p) \in {"ws", "browserbridge"} =>
            UnlessCut("node") \/ \A q \in Ws : out[q] # Absent]_vars

(* Two tools never write one adapter directory at a time, unless one of     *)
(* them is the orphan of a killed start: the locks cover the npm install    *)
(* that the browser's start makes for the node adapter, and a tool that     *)
(* runs out of time is dead before its start lets the lock go.              *)
ToolsRunAlone ==
  \A p, q \in Start : p # q /\ job[p].on = job[q].on /\ job[p] # NoJob
                      => "dead" \in {at[p], at[q]}

(* Every start comes to an end by itself, without the 200 s limit on the    *)
(* wait for a lock: holders never wait for each other (node before browser) *)
(* nor for themselves (the locked inner functions do not lock again).       *)
StartsSettle == \A p \in Start : <>(at[p] \in Over)

(* "A stale/damaged one always converges" (bridge.rs, file_matches): when   *)
(* ensure_compiled returns, the classes are those of the sources it embeds. *)
ClassesConverge ==
  [][\A p \in Start : Returns(p) /\ Call(p) = "compiled" =>
       \A c \in Classes : out[c] = ver[p]]_vars
=============================================================================
