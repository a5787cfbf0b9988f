---------------------------- MODULE BreakIntent ----------------------------
(***************************************************************************)
(* Line breakpoints of one live Python session, in the three places that   *)
(* record them: the bridge's intent and per-child records (pybridge.py),   *)
(* the breakpoints each debug adapter session really has, and the intent   *)
(* that CLI processes persist in stops.json (session/breaks.rs).           *)
(*                                                                         *)
(* A CLI process makes one request: breaks add, remove or clear, or a      *)
(* capture.  Its handler thread in the bridge is the same actor until the  *)
(* response.  A section under Session._gate is one step; between two       *)
(* sections any other handler may run.  One drainer attaches child         *)
(* processes with the gate released.  A key is a file, a line and a        *)
(* condition; a raw spec and the key it parses to are one.                 *)
(***************************************************************************)
EXTENDS Naturals, FiniteSets

CONSTANTS Cli,     \* CLI processes, each with one request
          Child,   \* child processes of the debuggee
          Key,     \* line breaks: a file, a line and a condition
          Startup, \* the breaks the session was started with
          NoOne    \* nobody: a free slot, a free lock

Main == "main"

Target == Child \cup {Main}
FileOf(k) == k[1]
Loc(k)    == <<k[1], k[2]>>
File      == {FileOf(k) : k \in Key}
FilesOf(keys) == {FileOf(k) : k \in keys}

VARIABLES
  intent,     \* the global intent: cfg.breaks with its break_raws
  copies,     \* inherited_keys of each child
  own,        \* target_raws of each child: its ephemeral breaks
  planted,    \* what each target's adapter session really has
  child,      \* phase of each child
  snap,       \* the intent the drainer arms a child from
  outstanding, \* the capture that holds each target's slot
  pc,         \* next section of each request
  req,        \* the requests
  token,      \* the capture break a handler has to remove
  read,       \* list a handler, or a CLI process, read and has yet to send
  result,     \* what each CLI process reports
  confirmed,  \* keys each CLI process has to persist
  file,       \* the breaks list of stops.json
  flock,      \* holder of breaks.lock
  holes       \* history: which cracks have opened

bridge  == <<intent, copies, own, planted>>
roster  == <<child, snap>>
persist == <<confirmed, file, flock>>
vars == <<bridge, roster, outstanding, pc, req, token, read, result, persist,
          holes>>

Goto(c, label) == pc' = [pc EXCEPT ![c] = label]

Report(c, r) ==
  result' = [result EXCEPT ![c] = IF @ = "none" THEN r ELSE @]

Fail(c) == Report(c, "error") /\ Goto(c, "done")

Live == {x \in Child : child[x] = "live"}

(* Requests of every shape; a key set that conflicts with itself is        *)
(* rejected by the parser's batch check.                                   *)
NoClash(keys) == \A k, l \in keys : Loc(k) = Loc(l) => k = l
Batch   == {keys \in SUBSET Key : keys # {} /\ NoClash(keys)}

ASSUME BreakIntentAssumption ==
  /\ NoOne \notin Cli
  /\ Main \notin Child
  /\ Startup \subseteq Key /\ NoClash(Startup)

Single  == {{k} : k \in Key}
NoReq   == [op |-> "none", target |-> Main, keys |-> {}, explicit |-> FALSE]
Request ==
  [op : {"add", "remove"}, target : Target, keys : Batch, explicit : {TRUE}]
    \cup [op : {"clear"}, target : Target, keys : {{}}, explicit : {TRUE}]
    \cup [op : {"capture"}, target : Target, keys : Single, explicit : BOOLEAN]

(* Mutant: a batch is only checked against itself.                         *)
AdmissibleInBatch(has, fresh) == NoClash(fresh)

(* A line carries one break: an add that would put a second condition on   *)
(* it is refused.                                                          *)
Admissible(has, fresh) == NoClash(has \cup fresh)

Op(c)  == req[c].op
Tgt(c) == req[c].target
KeyOf(c) == CHOOSE k \in Key : req[c].keys = {k}
NoToken == <<>>

(* Startup breaks are armed, persisted and free of conflicts.              *)
Init ==
  /\ intent = Startup
  /\ copies = [x \in Child |-> {}]
  /\ own = [x \in Child |-> {}]
  /\ planted = [t \in Target |-> IF t = Main THEN intent ELSE {}]
  /\ child = [x \in Child |-> "unborn"]
  /\ snap = [x \in Child |-> {}]
  /\ outstanding = [t \in Target |-> NoOne]
  /\ pc = [c \in Cli |-> "idle"]
  /\ req = [c \in Cli |-> NoReq]
  /\ token = [c \in Cli |-> NoToken]
  /\ read = [c \in Cli |-> {}]
  /\ result = [c \in Cli |-> "none"]
  /\ confirmed = [c \in Cli |-> {}]
  /\ file = intent
  /\ flock = NoOne
  /\ holes = {}

-----------------------------------------------------------------------------
(* setBreakpoints replaces a file: on each of files, the wire of target t  *)
(* has exactly the keys of sent afterwards.                                *)
Resent(has, sent, files) ==
  {k \in has : FileOf(k) \notin files} \cup {k \in sent : FileOf(k) \in files}

(* Mutant: a file is sent without the breaks it has.                       *)
NotMerged(has, fresh) == fresh

(* What is sent with a new break: the others of its file ride along.       *)
Merged(has, fresh) == has \cup fresh

(* Per target, the files whose request is confirmed, and those whose       *)
(* request was reported failed after the adapter had applied it.           *)
Outcomes(touched) ==
  {o \in [Target -> [ok : SUBSET File, late : SUBSET File]] :
     \A t \in Target : /\ o[t].ok \subseteq touched[t]
                       /\ o[t].late \subseteq touched[t] \ o[t].ok}

Late(o) == IF \E t \in Target : o[t].late # {} THEN {"late"} ELSE {}

(* A child request that fails only warns: its copies stay behind.          *)
Behind(o, touched) ==
  IF \E x \in Child : o[x].ok # touched[x] THEN {"behind"} ELSE {}

-----------------------------------------------------------------------------
(* dispatch, the acceptance section: a capture takes its target's slot, a  *)
(* global mutation conflicts with every slot, a scoped one with its own.   *)
Submit(c) ==
  /\ pc[c] = "idle"
  /\ \E r \in Request :
       /\ r.target \in Live \cup {Main}
       /\ req' = [req EXCEPT ![c] = r]
  /\ Goto(c, "accept")
  /\ UNCHANGED <<bridge, roster, outstanding, token, read, result, persist, holes>>

Busy(c) ==
  IF Op(c) # "capture" /\ Tgt(c) = Main
  THEN \E t \in Target : outstanding[t] # NoOne
  ELSE outstanding[Tgt(c)] # NoOne

Accept(c) ==
  /\ pc[c] = "accept"
  /\ \/ Busy(c) /\ Fail(c) /\ UNCHANGED outstanding
     \/ /\ ~Busy(c)
        /\ IF Op(c) = "capture"
           THEN /\ outstanding' = [outstanding EXCEPT ![Tgt(c)] = c]
                /\ Goto(c, "plant")
           ELSE /\ UNCHANGED outstanding
                /\ Goto(c, "run")
        /\ UNCHANGED result
  /\ UNCHANGED <<bridge, roster, req, token, read, persist, holes>>

Running(c, op, scoped) ==
  /\ pc[c] = "run" /\ Op(c) = op
  /\ (Tgt(c) # Main) = scoped

(* The response of a mutation: a client that gave up persists nothing, and *)
(* an ephemeral change never reaches stops.json.                           *)
Crossed(c, keys) ==
  IF \E d \in Cli \ {c} : /\ pc[d] \in {"lock", "read", "write"}
                          /\ confirmed[d] \cap keys # {}
                          /\ (Op(d) = "add") # (Op(c) = "add")
  THEN {"crossed"} ELSE {}

ToPersist(c, keys) == keys

Respond(c, keys, more) ==
  IF result[c] = "none"
  THEN /\ confirmed' = [confirmed EXCEPT ![c] = ToPersist(c, keys)]
       /\ holes' = holes \cup more \cup Crossed(c, keys)
       /\ IF keys # {} /\ Tgt(c) = Main
          THEN Goto(c, "lock") /\ UNCHANGED result
          ELSE Report(c, "ok") /\ Goto(c, "done")
       /\ UNCHANGED <<file, flock>>
  ELSE /\ holes' = holes \cup more
                     \cup (IF keys # {} /\ Tgt(c) = Main THEN {"unpersisted"} ELSE {})
       /\ Goto(c, "done")
       /\ UNCHANGED <<result, persist>>

(* A change none of whose files was confirmed is an error.                 *)
Answer(c, keys, more, faults) ==
  IF keys = {}
  THEN Fail(c) /\ holes' = holes \cup faults /\ UNCHANGED persist
  ELSE Respond(c, keys, more \cup faults)

Refuse(c) == Fail(c) /\ UNCHANGED <<bridge, persist, holes>>

(* Children arming while the intent changes keep the older one.            *)
Raced == IF \E x \in Child : child[x] = "arming" THEN {"raced"} ELSE {}

(* _inherit_global_add: what a child's adapter took is recorded as copies. *)
Inherit(x, added, ok) == copies[x] \cup {k \in added : FileOf(k) \in ok}

(* cmd_breaks_add on the global intent: idempotent on armed keys, refused  *)
(* on a conflict, per file otherwise; what main confirmed is inherited.    *)
AddGlobal(c) ==
  /\ Running(c, "add", FALSE)
  /\ LET fresh == req[c].keys \ intent IN
       \/ fresh = {} /\ Respond(c, {}, {}) /\ UNCHANGED bridge
       \/ ~Admissible(intent, fresh) /\ Refuse(c)
       \/ /\ fresh # {} /\ Admissible(intent, fresh)
          /\ \E ok \in SUBSET FilesOf(fresh) :
               LET added == {k \in fresh : FileOf(k) \in ok}
                   touched == [t \in Target |->
                     IF t = Main THEN FilesOf(fresh)
                     ELSE IF t \in Live THEN ok ELSE {}]
               IN \E o \in Outcomes(touched) :
                    /\ o[Main].ok = ok
                    /\ planted' = [t \in Target |-> Resent(planted[t],
                         IF t = Main THEN Merged(intent, fresh)
                         ELSE Merged(copies[t] \cup own[t], added),
                         o[t].ok \cup o[t].late)]
                    /\ intent' = intent \cup added
                    /\ copies' = [x \in Child |-> Inherit(x, added, o[x].ok)]
                    /\ Answer(c, added, Raced, Late(o) \cup Behind(o, touched))
                    /\ UNCHANGED own
  /\ UNCHANGED <<roster, outstanding, req, token, read>>

(* Mutant: the copies of all requested keys go, confirmed or not.          *)
PropagatedUnconfirmed(x, doomed, gone) == copies[x] \cap doomed

(* The copies that go with a removal: those main confirmed, and all of     *)
(* them when there is no intent left to keep.                              *)
Propagated(x, doomed, gone) ==
  IF doomed = {} THEN copies[x] ELSE copies[x] \cap gone

(* A clear drops what a child has of its own even where main refused the   *)
(* file; when that break is also a copy, the copy goes with it.            *)
CopiesLost(clear, gone) ==
  IF clear /\ \E x \in Live : (own[x] \cap copies[x]) \ gone # {} THEN {"shared"} ELSE {}

(* cmd_breaks_remove and cmd_breaks_clear on the global intent, with       *)
(* _drop_break_keys on main and then _drop_child_keys on every live child: *)
(* what each file confirmed goes.                                          *)
DropGlobal(c) ==
  /\ Running(c, "remove", FALSE) \/ Running(c, "clear", FALSE)
  /\ LET clear  == Op(c) = "clear"
         doomed == IF clear THEN intent ELSE intent \cap req[c].keys
     IN
       \/ doomed = {} /\ ~clear /\ Respond(c, {}, {}) /\ UNCHANGED bridge
       \/ /\ doomed # {} \/ clear
          /\ \E ok \in SUBSET FilesOf(doomed) :
               LET gone == {k \in doomed : FileOf(k) \in ok}
                   failed == doomed # {} /\ gone = {}
                   drop == [x \in Child |->
                     IF x \notin Live \/ failed THEN {}
                     ELSE Propagated(x, doomed, gone) \cup IF clear THEN own[x] ELSE {}]
                   touched == [t \in Target |->
                     IF t = Main THEN FilesOf(doomed) ELSE FilesOf(drop[t])]
               IN \E o \in Outcomes(touched) :
                    LET left == [x \in Child |->
                          {k \in drop[x] : FileOf(k) \in o[x].ok}] IN
                    /\ o[Main].ok = ok
                    /\ planted' = [t \in Target |-> Resent(planted[t],
                         IF t = Main THEN intent \ doomed
                         ELSE (copies[t] \cup own[t]) \ drop[t],
                         o[t].ok \cup o[t].late)]
                    /\ intent' = intent \ gone
                    /\ copies' = [x \in Child |-> copies[x] \ left[x]]
                    /\ own' = [x \in Child |-> own[x] \ left[x]]
                    /\ IF doomed = {} THEN Respond(c, {}, Late(o) \cup Behind(o, touched))
                       ELSE Answer(c, gone, Raced \cup CopiesLost(clear, gone),
                              Late(o) \cup Behind(o, touched))
  /\ UNCHANGED <<roster, outstanding, req, token, read>>

(* _drop_child_keys on one child, over the wire its scope serves.          *)
DropChild(x, drop, wire, ok, late) ==
  LET left == {k \in drop : FileOf(k) \in ok} IN
  /\ copies' = [copies EXCEPT ![x] = @ \ left]
  /\ own' = [own EXCEPT ![x] = @ \ left]
  /\ planted' = [planted EXCEPT ![wire] =
       Resent(@, (copies[x] \cup own[x]) \ drop, ok \cup late)]
  /\ UNCHANGED intent

(* A key both inherited and ephemeral loses both records to one drop.      *)
Shared(x, drop) == IF drop \cap copies[x] # {} THEN {"shared"} ELSE {}

(* The same operations with --target naming a child: its ephemeral breaks, *)
(* never the intent.                                                       *)
AddScoped(c) ==
  /\ Running(c, "add", TRUE)
  /\ LET x == Tgt(c)
         has == copies[x] \cup own[x]
         fresh == req[c].keys \ has
     IN
       \/ child[x] # "live" /\ Refuse(c)
       \/ child[x] = "live" /\ fresh = {} /\ Respond(c, {}, {}) /\ UNCHANGED bridge
       \/ child[x] = "live" /\ ~Admissible(has, fresh) /\ Refuse(c)
       \/ /\ child[x] = "live" /\ fresh # {} /\ Admissible(has, fresh)
          /\ \E ok \in SUBSET FilesOf(fresh) : \E late \in SUBSET (FilesOf(fresh) \ ok) :
               LET added == {k \in fresh : FileOf(k) \in ok} IN
               /\ planted' = [planted EXCEPT ![x] =
                    Resent(@, Merged(has, fresh), ok \cup late)]
               /\ own' = [own EXCEPT ![x] = @ \cup added]
               /\ Answer(c, added, {}, IF late # {} THEN {"late"} ELSE {})
          /\ UNCHANGED <<intent, copies>>
  /\ UNCHANGED <<roster, outstanding, req, token, read>>

DropScoped(c) ==
  /\ Running(c, "remove", TRUE) \/ Running(c, "clear", TRUE)
  /\ LET x == Tgt(c)
         drop == IF Op(c) = "clear" THEN own[x] ELSE own[x] \cap req[c].keys
     IN
       \/ child[x] # "live" /\ Refuse(c)
       \/ child[x] = "live" /\ drop = {} /\ Respond(c, {}, {}) /\ UNCHANGED bridge
       \/ /\ child[x] = "live" /\ drop # {}
          /\ \E ok \in SUBSET FilesOf(drop) : \E late \in SUBSET (FilesOf(drop) \ ok) :
               /\ DropChild(x, drop, x, ok, late)
               /\ Answer(c, {k \in drop : FileOf(k) \in ok}, Shared(x, drop),
                    IF late # {} THEN {"late"} ELSE {})
  /\ UNCHANGED <<roster, outstanding, req, token, read>>

-----------------------------------------------------------------------------
(* capture: plant, wait, collect, remove, resume.                          *)

(* Mutant: a handler whose client is gone keeps its slot.                  *)
ReleasedToClient(c) ==
  [t \in Target |-> IF outstanding[t] = c /\ result[c] = "none" THEN NoOne
                    ELSE outstanding[t]]

Released(c) ==
  [t \in Target |-> IF outstanding[t] = c THEN NoOne ELSE outstanding[t]]

EndCapture(c, r) ==
  /\ outstanding' = Released(c)
  /\ Report(c, r)
  /\ Goto(c, "done")

Recorded(t)   == IF t = Main THEN intent ELSE copies[t] \cup own[t]
On(f, keys)   == {k \in keys : FileOf(k) = f}
Reachable(t)  == t \in Live \cup {Main}

(* _capture_plant: the break is already there, conflicts, or has to be     *)
(* planted.  A target already parked is collected at once, one that is     *)
(* gone refused.                                                           *)
CheckPlant(c) ==
  /\ pc[c] = "plant"
  /\ LET t == Tgt(c)
         k == KeyOf(c)
         has == Recorded(t)
     IN \/ EndCapture(c, "ok") /\ UNCHANGED read
        \/ /\ ~Reachable(t) \/ ~Admissible(has, {k})
           /\ EndCapture(c, "error")
           /\ UNCHANGED read
        \/ /\ Reachable(t) /\ k \in has
           /\ Goto(c, "wait")
           /\ UNCHANGED <<outstanding, result, read>>
        \/ /\ Reachable(t) /\ k \notin has /\ Admissible(has, {k})
           /\ read' = [read EXCEPT ![c] = On(FileOf(k), has)]
           /\ Goto(c, "send")
           /\ UNCHANGED <<outstanding, result>>
  /\ UNCHANGED <<bridge, roster, req, token, persist, holes>>

(* The list that is sent is not the list any more.                         *)
Stale(f, sent, has) == IF sent # On(f, has) THEN {"stale"} ELSE {}

(* For main the list read before is sent.  For a child _add_ephemeral looks *)
(* again: a break that is there by now is not sent, and one that another   *)
(* request planted is taken for the capture's own.                         *)
SendPlant(c) ==
  /\ pc[c] = "send"
  /\ LET t == Tgt(c)
         k == KeyOf(c)
         f == FileOf(k)
         has == Recorded(t)
         sent == Merged(IF t = Main THEN read[c] ELSE has, {k})
         sending == planted' = [planted EXCEPT ![t] = Resent(@, sent, {f})]
         known == t # Main /\ k \in has
     IN \/ /\ Reachable(t) /\ ~known /\ (t = Main \/ Admissible(has, {k}))
           /\ sending
           /\ own' = IF t = Main THEN own ELSE [own EXCEPT ![t] = @ \cup {k}]
           /\ token' = [token EXCEPT ![c] = <<t, k>>]
           /\ holes' = holes \cup Stale(f, read[c], has)
           /\ Goto(c, "wait")
           /\ UNCHANGED <<outstanding, result>>
        \/ /\ Reachable(t) /\ known
           /\ token' = [token EXCEPT ![c] = IF k \in own[t] THEN <<t, k>> ELSE NoToken]
           /\ holes' = holes \cup Stale(f, read[c], has)
           /\ Goto(c, "wait")
           /\ UNCHANGED <<planted, own, outstanding, result>>
        \/ /\ EndCapture(c, "error")
           /\ \/ UNCHANGED <<planted, holes>>
              \/ Reachable(t) /\ ~known /\ sending /\ holes' = holes \cup {"late"}
           /\ UNCHANGED <<own, token>>
  /\ UNCHANGED <<intent, copies, roster, req, read, persist>>

(* _TargetScope: the wire that a scope of t serves inside a scope of p     *)
(* (Main when there is none).  A scope of main swaps nothing, and a second *)
(* scope of one child swaps back.                                          *)
Wire(p, t) == IF t = Main THEN p ELSE IF t = p THEN Main ELSE t

(* _capture_unplant in a scope of p: done, or failed and reported.         *)
Unplant(c, p, sent) ==
  \/ /\ token[c] = NoToken
     /\ EndCapture(c, "ok")
     /\ UNCHANGED <<bridge, holes>>
  \/ /\ token[c] # NoToken
     /\ LET t == Tgt(c)
            k == KeyOf(c)
            f == FileOf(k)
            w == Wire(p, t)
            misrouted == IF w # t THEN {"misrouted"} ELSE {}
        IN \/ /\ t = Main
              /\ planted' = [planted EXCEPT ![w] = Resent(@, sent, {f})]
              /\ holes' = holes \cup misrouted \cup Stale(f, sent, intent)
              /\ EndCapture(c, "ok")
              /\ UNCHANGED <<intent, copies, own>>
           \/ /\ t # Main /\ child[t] = "live"
              /\ DropChild(t, {k}, w, {f}, {})
              /\ holes' = holes \cup misrouted \cup Shared(t, {k})
              /\ EndCapture(c, "ok")
           \/ EndCapture(c, "error") /\ UNCHANGED <<bridge, holes>>

(* A fresh stop, on the named target or on any when none was named,        *)
(* collected and unplanted in one section of the parked target's scope.    *)
Park(c) ==
  /\ pc[c] = "wait"
  /\ \E p \in {t \in Target : Reachable(t) /\ (req[c].explicit => t = Tgt(c))} :
       Unplant(c, p, On(FileOf(KeyOf(c)), intent))
  /\ UNCHANGED <<roster, req, token, read, persist>>

(* The wait timed out or its target went: unplanted outside any scope, for *)
(* main in two sections.                                                   *)
Timeout(c) ==
  /\ pc[c] = "wait"
  /\ read' = [read EXCEPT ![c] = On(FileOf(KeyOf(c)), intent)]
  /\ Goto(c, "unplant")
  /\ UNCHANGED <<bridge, roster, outstanding, req, token, result, persist, holes>>

SendUnplant(c) ==
  /\ pc[c] = "unplant"
  /\ Unplant(c, Main, read[c])
  /\ UNCHANGED <<roster, req, token, read, persist>>

-----------------------------------------------------------------------------
(* Children: the drainer claims one at a time, with a snapshot of the      *)
(* intent, and commits it after a handshake outside the gate.              *)
Claim(x) ==
  /\ child[x] = "unborn"
  /\ \A y \in Child : child[y] # "arming"
  /\ child' = [child EXCEPT ![x] = "arming"]
  /\ snap' = [snap EXCEPT ![x] = intent]
  /\ UNCHANGED <<bridge, outstanding, pc, req, token, read, result, persist, holes>>

Commit(x) ==
  /\ child[x] = "arming"
  /\ \/ /\ child' = [child EXCEPT ![x] = "live"]
        /\ copies' = [copies EXCEPT ![x] = snap[x]]
        /\ planted' = [planted EXCEPT ![x] = snap[x]]
     \/ /\ child' = [child EXCEPT ![x] = "gone"]
        /\ UNCHANGED <<copies, planted>>
  /\ UNCHANGED <<intent, own, snap, outstanding, pc, req, token, read, result,
                 persist, holes>>

Exit(x) ==
  /\ child[x] = "live"
  /\ child' = [child EXCEPT ![x] = "gone"]
  /\ copies' = [copies EXCEPT ![x] = {}]
  /\ own' = [own EXCEPT ![x] = {}]
  /\ planted' = [planted EXCEPT ![x] = {}]
  /\ UNCHANGED <<intent, snap, outstanding, pc, req, token, read, result,
                 persist, holes>>

-----------------------------------------------------------------------------
(* The CLI process.                                                        *)

(* The client's deadline: "may or may not have applied".  The handler goes *)
(* on without it.                                                          *)
GiveUp(c) ==
  /\ pc[c] \in {"accept", "run", "plant", "send", "wait", "unplant"}
  /\ result[c] = "none"
  /\ Report(c, "error")
  /\ UNCHANGED <<bridge, roster, outstanding, pc, req, token, read, persist, holes>>

(* The change is live and the file is not written, and the caller told.    *)
Unpersisted(c) ==
  /\ Fail(c)
  /\ flock' = IF flock = c THEN NoOne ELSE flock
  /\ holes' = holes \cup {"unpersisted"}
  /\ UNCHANGED <<confirmed, file>>

(* Mutant: the lock excludes nobody.                                       *)
LockIgnored == TRUE

(* acquire_breaks_lock: exclusion is the system's, the wait is bounded.    *)
LockFree == flock = NoOne

Lock(c) ==
  /\ pc[c] = "lock"
  /\ \/ /\ LockFree
        /\ flock' = c
        /\ Goto(c, "read")
        /\ UNCHANGED <<result, confirmed, file, holes>>
     \/ ~LockFree /\ Unpersisted(c)
  /\ UNCHANGED <<bridge, roster, outstanding, req, token, read>>

ReadFile(c) ==
  /\ pc[c] = "read"
  /\ read' = [read EXCEPT ![c] = file]
  /\ Goto(c, "write")
  /\ UNCHANGED <<bridge, roster, outstanding, req, token, result, persist, holes>>

(* append_confirmed_breaks_in, remove_confirmed_breaks_in: the edited list *)
(* replaces the file by a rename, and the lock goes with its handle.       *)
Edited(c) ==
  IF Op(c) = "add" THEN read[c] \cup confirmed[c] ELSE read[c] \ confirmed[c]

WriteFile(c) ==
  /\ pc[c] = "write"
  /\ file' = Edited(c)
  /\ flock' = NoOne
  /\ Report(c, "ok")
  /\ Goto(c, "done")
  /\ UNCHANGED <<bridge, roster, outstanding, req, token, read, confirmed, holes>>

(* The file cannot be read or written, or the process is killed: the       *)
(* system drops the lock, the rename happened or did not.                  *)
PersistFails(c) ==
  /\ pc[c] \in {"lock", "read", "write"}
  /\ Unpersisted(c)
  /\ UNCHANGED <<bridge, roster, outstanding, req, token, read>>

-----------------------------------------------------------------------------
Handle(c) ==
  \/ Accept(c) \/ AddGlobal(c) \/ DropGlobal(c) \/ AddScoped(c) \/ DropScoped(c)
  \/ CheckPlant(c) \/ SendPlant(c) \/ Park(c) \/ Timeout(c) \/ SendUnplant(c)

Persist(c) == Lock(c) \/ ReadFile(c) \/ WriteFile(c)

Next ==
  \/ \E c \in Cli : Submit(c) \/ Handle(c) \/ GiveUp(c) \/ Persist(c) \/ PersistFails(c)
  \/ \E x \in Child : Claim(x) \/ Commit(x) \/ Exit(x)

Spec == Init /\ [][Next]_vars

(* Handler threads and CLI processes are scheduled; every wait has a       *)
(* deadline.                                                               *)
Fairness == \A c \in Cli : WF_vars(Handle(c)) /\ WF_vars(Persist(c))
FairSpec == Spec /\ Fairness

-----------------------------------------------------------------------------
(* The variables have their types; no line of the intent has two breaks.   *)
TypeOK ==
  /\ intent \in {keys \in SUBSET Key : NoClash(keys)}
  /\ copies \in [Child -> SUBSET Key]
  /\ own \in [Child -> SUBSET Key]
  /\ planted \in [Target -> SUBSET Key]
  /\ child \in [Child -> {"unborn", "arming", "live", "gone"}]
  /\ snap \in [Child -> SUBSET Key]
  /\ outstanding \in [Target -> Cli \cup {NoOne}]
  /\ pc \in [Cli -> {"idle", "accept", "run", "plant", "send", "wait", "unplant",
                     "lock", "read", "write", "done"}]
  /\ req \in [Cli -> Request \cup {NoReq}]
  /\ token \in [Cli -> (Target \X Key) \cup {NoToken}]
  /\ read \in [Cli -> SUBSET Key]
  /\ result \in [Cli -> {"none", "ok", "error"}]
  /\ confirmed \in [Cli -> SUBSET Key]
  /\ file \subseteq Key
  /\ flock \in Cli \cup {NoOne}
  /\ holes \subseteq {"late", "behind", "raced", "shared", "stale", "misrouted",
                       "crossed", "unpersisted"}

(* The cracks between an adapter and the bridge's records.                 *)
Drift == holes \ {"crossed", "unpersisted"}

(* Breaks of captures still on their way, and of captures that reported    *)
(* that they could not remove theirs.                                      *)
Ephemeral(t) ==
  {token[c][2] : c \in {d \in Cli : /\ token[d] # NoToken /\ token[d][1] = t
                                    /\ pc[d] # "done" \/ result[d] = "error"}}

(* Every adapter session has exactly the breaks the bridge records for it, *)
(* whatever adds, removals and captures interleave.                        *)
PlantedAsRecorded ==
  Drift = {} =>
    \A t \in Target : Reachable(t) =>
      /\ Recorded(t) \subseteq planted[t]
      /\ planted[t] \subseteq Recorded(t) \cup Ephemeral(t)

(* Every live child carries the global intent.                             *)
ChildrenInheritIntent == Drift = {} => \A x \in Live : copies[x] = intent

(* Keys that some CLI process has yet to write to stops.json.              *)
Pending(adds) ==
  UNION {confirmed[c] : c \in {d \in Cli : /\ pc[d] \in {"lock", "read", "write"}
                                           /\ (Op(d) = "add") = adds}}

(* stops.json is the live intent but for what is on its way there: no      *)
(* update is lost.                                                         *)
StopsFileTracksIntent ==
  holes \cap {"crossed", "unpersisted"} = {} =>
    file = (intent \ Pending(TRUE)) \cup Pending(FALSE)

(* Every slot is freed, whoever gives up and whichever target goes.        *)
SlotsAreFreed ==
  \A t \in Target : (outstanding[t] # NoOne) ~> (outstanding[t] = NoOne)

(* "The ephemeral never leaks" (protocol.md): after a capture that         *)
(* reported no failed removal, its break is gone.                          *)
CaptureNeverLeaks ==
  Drift \subseteq {"misrouted"} =>
    \A t \in Target : Reachable(t) => planted[t] \subseteq Recorded(t) \cup Ephemeral(t)

(* "Global breakpoint mutations conflict with any outstanding resume"      *)
(* (protocol.md): the intent does not change under a capture.              *)
CapturesExcludeMutations ==
  [][intent' # intent => \A t \in Target : outstanding[t] = NoOne]_vars

(* "New global intent inherits into every live child", also into one whose *)
(* handshake was under way.                                                *)
InheritanceIsComplete ==
  Drift \subseteq {"raced"} => \A x \in Live : copies[x] = intent

(* A removal scoped to a child "matches only X's ephemeral target-scoped   *)
(* records".                                                               *)
ScopedRemovalSparesIntent ==
  /\ Drift \subseteq {"shared"}
  /\ \A c \in Cli : Op(c) # "capture"
  => \A x \in Live : intent \subseteq planted[x]

(* "Applied-live-but-unpersisted is an explicit error, never silent        *)
(* divergence": when all reported success, stops.json is the intent.       *)
NoSilentDivergence ==
  (\A c \in Cli : pc[c] \in {"idle", "done"} /\ result[c] # "error") => file = intent
=============================================================================
