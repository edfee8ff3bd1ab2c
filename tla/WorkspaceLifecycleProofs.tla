---------------------- MODULE WorkspaceLifecycleProofs ----------------------
(***************************************************************************)
(* Proofs about the life of one workspace, for every number of requests,   *)
(* replicas and faults.  What a step does to the row, the sandboxes and    *)
(* its own handler is stated once, in the lemmas of the first section.     *)
(***************************************************************************)
EXTENDS WorkspaceLifecycle, TLAPS

----------------------------------------------------------------------------
(* The request has claimed the row, or has left a sandbox behind. *)
Active(c) == handler[c].created \/ sandbox[c] # "none"

(* Where a create can be, and what is then known of its sandbox. *)
CreateInv(c) ==
    /\ handler[c].pc \in {"idle", "poll", "admit", "release"} \/ handler[c].created
    /\ handler[c].created =>
          /\ handler[c].pc \in {"admit", "refuse", "provision", "allocate", "bind", "boot", "undo",
                                "fail", "start", "confirm", "finish", "kill", "mark", "release"}
          /\ handler[c].pc \in {"admit", "refuse", "provision", "allocate"} => sandbox[c] = "none"
          /\ handler[c].pc \in {"bind", "boot", "undo", "start", "confirm", "finish", "kill", "mark"}
                => sandbox[c] # "none"
          /\ handler[c].pc \in {"confirm", "finish"} => row.provider = c
    /\ faults = 0 /\ Live(c) =>
          \/ handler[c].created /\ handler[c].pc \in {"bind", "boot", "undo", "start"}
          \/ row.provider = c

(* What a handler has read of the provider's id is still true: the id of a *)
(* row is written once.                                                    *)
ViewInv(h) ==
    /\ handler[h].saw.provider \in {NoSandbox, row.provider}
    /\ h \notin Creates =>
          /\ ~handler[h].created
          /\ handler[h].pc \in {"attach", "advance", "status", "kill", "killOnly"}
                => handler[h].saw.provider # NoSandbox

(* At most one request ever claims the row, and the row is claimed for good. *)
LifeInv ==
    /\ LifecycleTypeOK
    /\ row.attachment => row.status # "absent"
    /\ StartedIsBound
    /\ row.provider # NoSandbox => sandbox[row.provider] # "none"
    /\ \A c \in Creates : Active(c) => row.attachment
    /\ \A c, d \in Creates : Active(c) /\ Active(d) => c = d
    /\ \A c \in Creates : CreateInv(c)
    /\ \A h \in Handlers : ViewInv(h)

(* Callers wait for the create: nobody else is at work while one runs, and *)
(* the row is ready only once its steps are over.                          *)
SerialInv ==
    /\ CreateInFlight => ~OthersInFlight
    /\ \A c \in Creates : handler[c].created /\ row.status = "ready" =>
          \/ handler[c].pc \in {"kill", "mark"} /\ faults > 0
          \/ handler[c].pc = "release" /\ faults > 1

(* The row and the slot at each step of the create, while nothing failed. *)
Stage(c) ==
    /\ handler[c].pc = "admit" => row.status = "requested" /\ slot = "none"
    /\ handler[c].pc = "refuse" => row.status = "requested"
    /\ handler[c].pc = "provision" => row.status = "requested" /\ slot = "held"
    /\ handler[c].pc \in {"allocate", "bind", "boot", "undo", "fail", "start"}
          => row.status = "provisioning" /\ slot = "held"
    /\ handler[c].pc \in {"confirm", "finish", "kill", "mark"}
          => row.status = "started" /\ slot = "held"
    /\ handler[c].pc = "release" => row.status = "terminated"
    /\ handler[c].pc \in {"fail", "mark", "release"} => ~Live(c)

(* What the other handlers rely on, while nothing failed: the row has only *)
(* moved to terminated since they read it.                                 *)
Calm(h) ==
    /\ handler[h].pc \in {"admit", "attach", "advance", "kill", "mark", "status"} =>
          handler[h].saw.status # "absent" /\ row.status \in {handler[h].saw.status, "terminated"}
    /\ handler[h].pc \in {"attach", "advance", "status"} => handler[h].saw.status = "ready"
    /\ handler[h].pc = "admit" =>
          /\ handler[h].saw.status \in {"ready", "terminated"}
          /\ handler[h].saw.status = "ready" => handler[h].saw.provider # NoSandbox
    /\ handler[h].pc = "mark" => \A c \in Creates : ~Live(c)
    /\ handler[h].pc = "release" => row.status = "terminated"
    /\ handler[h].pc \in {"candidate", "admit"} => row.attachment
    /\ h \in Loops =>
          /\ handler[h].pc \in {"idle", "status", "mark"}
          /\ handler[h].pc = "mark" => handler[h].saw.status = "ready"

(* While nothing failed. *)
CalmInv ==
    /\ ~row.attachment => slot = "none"
    /\ row.attachment /\ ~CreateInFlight => row.status \in {"ready", "terminated"}
    /\ row.status = "ready" => slot = "held"
    /\ row.status = "terminated" => \A c \in Creates : ~Live(c)
    /\ \A c \in Creates : handler[c].created => Stage(c)
    /\ \A h \in Handlers : ~handler[h].created => Calm(h)

SerialLifeInv == SerialInv /\ (faults = 0 => CalmInv)

----------------------------------------------------------------------------
(* Only the handler h moves. *)
OnlyMoves(h) ==
    /\ handler' \in [Handlers -> HandlerStates]
    /\ \A g \in Handlers \ {h} : handler'[g] = handler[g]

LEMMA Kinds ==
    /\ Creates \subseteq Handlers /\ Attaches \subseteq Handlers /\ Terminations \subseteq Handlers
    /\ Governors \subseteq Handlers /\ Loops \subseteq Handlers
  BY Zenon DEF Handlers

(* goto: the step changes, and what was read is kept except for a release. *)
LEMMA GotoMoves ==
    ASSUME LifecycleTypeOK, NEW h \in Handlers, NEW step \in Steps, Goto(h, step)
    PROVE  /\ OnlyMoves(h)
           /\ handler'[h].pc = step
           /\ handler'[h].created = handler[h].created
           /\ handler'[h].saw \in {handler[h].saw, NoView}
           /\ step # "release" => handler'[h].saw = handler[h].saw
<1> DEFINE v == IF step = "release" THEN NoView ELSE handler[h].saw
           s == [handler[h] EXCEPT !.pc = step, !.saw = v]
<1>1. handler \in [Handlers -> HandlerStates] /\ handler[h] \in HandlerStates
  BY Zenon DEF LifecycleTypeOK
<1>2. v \in Views /\ v \in {handler[h].saw, NoView} /\ (step # "release" => v = handler[h].saw)
  BY Zenon, <1>1 DEF NoView, Views, HandlerStates
<1>3. handler' = [handler EXCEPT ![h] = s]
  BY Zenon, <1>1 DEF Goto
<1> HIDE DEF v
<1>4. s \in HandlerStates /\ s.pc = step /\ s.created = handler[h].created /\ s.saw = v
  BY Zenon, <1>1, <1>2 DEF HandlerStates
<1> HIDE DEF s
<1> QED
  BY Zenon, <1>1, <1>2, <1>3, <1>4 DEF OnlyMoves

LEMMA AnswerMoves ==
    ASSUME LifecycleTypeOK, NEW h \in Handlers, Answer(h)
    PROVE  OnlyMoves(h) /\ handler'[h] = Idle
<1>1. handler \in [Handlers -> HandlerStates]
  BY Zenon DEF LifecycleTypeOK
<1>2. Idle \in HandlerStates
  BY Zenon DEF Idle, HandlerStates, Steps, NoView, Views
<1> QED
  BY Zenon, <1>1, <1>2 DEF Answer, OnlyMoves

LEMMA ReadMoves ==
    ASSUME LifecycleTypeOK, NEW h \in Handlers, NEW step \in Steps, Read(h, step)
    PROVE  /\ OnlyMoves(h)
           /\ handler'[h].pc = step
           /\ handler'[h].created = handler[h].created
           /\ handler'[h].saw = View
<1> DEFINE s == [handler[h] EXCEPT !.pc = step, !.saw = View]
<1>1. handler \in [Handlers -> HandlerStates] /\ handler[h] \in HandlerStates
  BY Zenon DEF LifecycleTypeOK
<1>2. View \in Views
  BY Zenon DEF View, Views, LifecycleTypeOK, Rows
<1>3. s \in HandlerStates /\ s.pc = step /\ s.created = handler[h].created /\ s.saw = View
  BY Zenon, <1>1, <1>2 DEF HandlerStates
<1>4. handler' = [handler EXCEPT ![h] = s]
  BY Zenon, <1>1 DEF Read
<1> HIDE DEF s
<1> QED
  BY Zenon, <1>1, <1>3, <1>4 DEF OnlyMoves

(* transition: a compare-and-set of the status, which may bind a sandbox.  *)
LEMMA TransitionSets ==
    ASSUME LifecycleTypeOK, NEW status \in Statuses, NEW provider \in Creates \cup {NoSandbox},
           NEW expected, transition(status, provider, expected)
    PROVE  /\ row' \in Rows
           /\ row'.attachment = row.attachment
           /\ row.status \notin expected => row' = row
           /\ row.status \in expected =>
                /\ row'.status = status
                /\ row'.provider = IF provider = NoSandbox THEN row.provider ELSE provider
<1>1. row \in Rows
  BY Zenon DEF LifecycleTypeOK
<1> QED
  BY Zenon, <1>1 DEF transition, Rows

LEMMA BindSets ==
    ASSUME LifecycleTypeOK, NEW c \in Creates, bindProviderWorkspaceId(c)
    PROVE  /\ row' \in Rows
           /\ row'.attachment = row.attachment /\ row'.status = row.status
           /\ \/ row' = row
              \/ row.provider \in {NoSandbox, c} /\ row'.provider = c
           /\ (row.status = "provisioning" /\ row.provider \in {NoSandbox, c}) => row'.provider = c
<1>1. row \in Rows
  BY Zenon DEF LifecycleTypeOK
<1> QED
  BY Zenon, <1>1 DEF bindProviderWorkspaceId, Rows

----------------------------------------------------------------------------
(* What a step of h may do to the row: a claim and a provider's id are     *)
(* never taken back, and only a create with a sandbox writes its id.       *)
RowStep(h) ==
    /\ row' \in Rows
    /\ row.attachment => row'.attachment
    /\ row'.attachment => row'.status # "absent"
    /\ row'.status \in {"started", "ready"} => row'.provider # NoSandbox
    /\ row'.provider # row.provider =>
          row.provider = NoSandbox /\ h \in Creates /\ row'.provider = h /\ sandbox'[h] # "none"

(* What it may do to the sandboxes: only h's own comes into being. *)
SandboxStep(h) ==
    /\ sandbox' \in [Creates -> SandboxStates]
    /\ \A c \in Creates : sandbox[c] # "none" => sandbox'[c] # "none"
    /\ \A c \in Creates \ {h} : (sandbox[c] = "none" => sandbox'[c] = "none") /\ (Live(c)' => Live(c))

LEMMA RowSame ==
    ASSUME LifeInv, NEW h, UNCHANGED row
    PROVE  RowStep(h)
  BY Zenon DEF LifeInv, LifecycleTypeOK, StartedIsBound, RowStep

(* A transition that binds nothing, to a status that needs no binding. *)
LEMMA RowMoved ==
    ASSUME LifeInv, NEW h, NEW status \in Statuses, NEW expected,
           transition(status, NoSandbox, expected),
           status \in {"started", "ready"} => row.provider # NoSandbox
    PROVE  RowStep(h) /\ row'.provider = row.provider /\ row'.attachment = row.attachment
<1>1. LifecycleTypeOK /\ NoSandbox \in Creates \cup {NoSandbox} /\ status # "absent"
  BY Zenon DEF LifeInv, Statuses
<1>2. /\ row' \in Rows
      /\ row'.attachment = row.attachment
      /\ row.status \notin expected => row' = row
      /\ row.status \in expected => row'.status = status /\ row'.provider = row.provider
  BY Zenon, <1>1, TransitionSets
<1> QED
  BY Zenon, <1>1, <1>2 DEF LifeInv, StartedIsBound, RowStep

LEMMA SandboxSame ==
    ASSUME LifeInv, NEW h, UNCHANGED sandbox
    PROVE  SandboxStep(h)
  BY Zenon DEF LifeInv, LifecycleTypeOK, SandboxStep, Live

(* A sandbox that exists is terminated, by whoever. *)
LEMMA SandboxKilled ==
    ASSUME LifeInv, NEW h, NEW c \in Creates, sandbox[c] # "none",
           sandbox' = [sandbox EXCEPT ![c] = "gone"]
    PROVE  SandboxStep(h) /\ sandbox'[c] = "gone" /\ \A d \in Creates \ {c} : sandbox'[d] = sandbox[d]
<1>1. sandbox \in [Creates -> SandboxStates] /\ "gone" \in SandboxStates
  BY Zenon DEF LifeInv, LifecycleTypeOK, SandboxStates
<1>2. sandbox' \in [Creates -> SandboxStates] /\ sandbox'[c] = "gone"
        /\ \A d \in Creates \ {c} : sandbox'[d] = sandbox[d]
  BY Zenon, <1>1
<1> QED
  BY <1>2 DEF SandboxStep, Live

(* The sandbox of c is allocated, or moves on. *)
LEMMA SandboxMoved ==
    ASSUME LifeInv, NEW c \in Creates, NEW s \in SandboxStates, s # "none",
           sandbox' = [sandbox EXCEPT ![c] = s]
    PROVE  SandboxStep(c) /\ sandbox'[c] = s /\ \A d \in Creates \ {c} : sandbox'[d] = sandbox[d]
<1>1. sandbox \in [Creates -> SandboxStates]
  BY Zenon DEF LifeInv, LifecycleTypeOK
<1>2. sandbox' \in [Creates -> SandboxStates] /\ sandbox'[c] = s
        /\ \A d \in Creates \ {c} : sandbox'[d] = sandbox[d]
  BY Zenon, <1>1
<1> QED
  BY Zenon, <1>2 DEF SandboxStep, Live

(* A step of h keeps the invariant when it keeps what concerns h. *)
LEMMA LifeCarried ==
    ASSUME LifeInv, NEW h \in Handlers, OnlyMoves(h), RowStep(h), SandboxStep(h),
           slot' \in Slots, faults' \in 0..MaxFaults, faults' = 0 => faults = 0,
           h \in Creates /\ handler'[h].created =>
               row'.attachment /\ (handler[h].created \/ \A c \in Creates : ~Active(c)),
           h \in Creates /\ sandbox'[h] # "none" => Active(h),
           h \in Creates => CreateInv(h)',
           ViewInv(h)'
    PROVE  LifeInv'
<1>1. LifecycleTypeOK'
  BY Zenon DEF LifecycleTypeOK, OnlyMoves, RowStep, SandboxStep
<1>2. (row.attachment => row.status # "absent")' /\ StartedIsBound'
  BY Zenon DEF RowStep, StartedIsBound
<1>3. row'.provider # NoSandbox => sandbox'[row'.provider] # "none"
  <2>1. row.provider \in Creates \cup {NoSandbox} /\ row'.provider \in Creates \cup {NoSandbox}
    BY Zenon DEF LifeInv, LifecycleTypeOK, RowStep, Rows
  <2> QED
    BY Zenon, <2>1 DEF LifeInv, RowStep, SandboxStep
<1>4. ASSUME NEW c \in Creates, c # h
      PROVE  handler'[c] = handler[c] /\ (Active(c)' <=> Active(c))
  <2>1. handler'[c] = handler[c]
    BY Zenon, <1>4 DEF OnlyMoves, Handlers
  <2>2. sandbox'[c] # "none" <=> sandbox[c] # "none"
    BY Zenon, <1>4 DEF SandboxStep
  <2> QED
    BY Zenon, <2>1, <2>2 DEF Active
<1>5. ASSUME NEW c \in Creates, Active(c)'  PROVE row'.attachment
  <2>1. CASE c # h
    BY Zenon, <1>4, <1>5, <2>1 DEF LifeInv, RowStep
  <2>2. CASE c = h
    BY Zenon, <1>5, <2>2 DEF Active, LifeInv, RowStep
  <2> QED
    BY Zenon, <2>1, <2>2
<1>6. ASSUME NEW c \in Creates, NEW d \in Creates, Active(c)', Active(d)'  PROVE c = d
  <2>1. \A e \in Creates : Active(e)' => Active(e) \/ (e = h /\ \A b \in Creates : ~Active(b))
    BY Zenon, <1>4 DEF Active
  <2> QED
    BY Zenon, <1>4, <1>6, <2>1 DEF LifeInv
<1>7. ASSUME NEW c \in Creates, c # h  PROVE CreateInv(c)'
  <2>1. CreateInv(c) /\ handler'[c] = handler[c]
    BY Zenon, <1>4, <1>7 DEF LifeInv
  <2>2. (sandbox[c] = "none" <=> sandbox'[c] = "none") /\ (Live(c)' => Live(c))
    BY Zenon, <1>7 DEF SandboxStep
  <2>3. row.provider = c => row'.provider = c
    BY Zenon, LifecycleAssumption DEF RowStep
  <2> QED
    BY Zenon, <2>1, <2>2, <2>3 DEF CreateInv
<1>8. ASSUME NEW g \in Handlers, g # h  PROVE ViewInv(g)'
  <2>1. ViewInv(g) /\ handler'[g] = handler[g]
    BY Zenon, <1>8 DEF LifeInv, OnlyMoves
  <2> QED
    BY Zenon, <2>1 DEF ViewInv, RowStep
<1> QED
  BY Zenon, <1>1, <1>2, <1>3, <1>5, <1>6, <1>7, <1>8 DEF LifeInv

LEMMA Faults ==
    ASSUME LifeInv, Fault \/ UNCHANGED faults
    PROVE  faults' \in 0..MaxFaults /\ (faults' = 0 => faults = 0) /\ (Fault => faults' # 0)
  BY LifecycleAssumption DEF LifeInv, LifecycleTypeOK, Fault

LEMMA SlotTyped ==
    ASSUME LifeInv, release \/ Decide \/ UNCHANGED slot
    PROVE  slot' \in Slots
  BY Zenon DEF LifeInv, LifecycleTypeOK, release, Decide, Slots

(* The view a handler keeps, drops or takes is one of the row's. *)
LEMMA GotoViews ==
    ASSUME LifeInv, NEW h \in Handlers, NEW step \in Steps, Goto(h, step), RowStep(h),
           h \notin Creates /\ step \in {"attach", "advance", "status", "kill", "killOnly"}
               => handler[h].saw.provider # NoSandbox
    PROVE  OnlyMoves(h) /\ ViewInv(h)'
<1>1. /\ OnlyMoves(h)
      /\ handler'[h].pc = step
      /\ handler'[h].created = handler[h].created
      /\ handler'[h].saw \in {handler[h].saw, NoView}
      /\ step # "release" => handler'[h].saw = handler[h].saw
  BY Zenon, GotoMoves DEF LifeInv
<1>2. ViewInv(h) /\ NoView.provider = NoSandbox
  BY Zenon DEF LifeInv, NoView
<1> QED
  BY Zenon, <1>1, <1>2 DEF ViewInv, RowStep

LEMMA AnswerViews ==
    ASSUME LifeInv, NEW h \in Handlers, Answer(h)
    PROVE  OnlyMoves(h) /\ ViewInv(h)' /\ ~handler'[h].created /\ handler'[h].pc = "idle"
<1>1. OnlyMoves(h) /\ handler'[h] = Idle
  BY Zenon, AnswerMoves DEF LifeInv
<1> QED
  BY <1>1 DEF ViewInv, Idle, NoView

LEMMA ReadViews ==
    ASSUME LifeInv, NEW h \in Handlers, NEW step \in Steps, Read(h, step), UNCHANGED row,
           h \notin Creates /\ step \in {"attach", "advance", "status", "kill", "killOnly"}
               => row.provider # NoSandbox
    PROVE  OnlyMoves(h) /\ ViewInv(h)'
<1>1. /\ OnlyMoves(h)
      /\ handler'[h].pc = step
      /\ handler'[h].created = handler[h].created
      /\ handler'[h].saw = View
  BY Zenon, ReadMoves DEF LifeInv
<1>2. ViewInv(h) /\ View.provider = row.provider
  BY Zenon DEF LifeInv, View
<1> QED
  BY Zenon, <1>1, <1>2 DEF ViewInv

----------------------------------------------------------------------------
(* The steps of a handler that is not a create. *)
LEMMA OtherCarried ==
    ASSUME LifeInv, NEW h \in Handlers \ Creates, OnlyMoves(h), RowStep(h), SandboxStep(h),
           slot' \in Slots, Fault \/ UNCHANGED faults, ViewInv(h)'
    PROVE  LifeInv'
  BY Zenon, LifeCarried, Faults

LEMMA KillKeeps ==
    ASSUME LifeInv, NEW h \in Handlers \ Creates, NEW step \in {"kill", "killOnly"},
           NEW next \in {"idle", "mark", "release"}, Kill(h, step, next)
    PROVE  LifeInv'
<1> DEFINE c == handler[h].saw.provider
<1>1. ViewInv(h) /\ handler[h].pc = step /\ c # NoSandbox /\ c = row.provider
  BY Zenon DEF LifeInv, ViewInv, Kill, At
<1>2. c \in Creates /\ sandbox[c] # "none"
  BY Zenon, <1>1 DEF LifeInv, LifecycleTypeOK, Rows
<1> HIDE DEF c
<1>3. sandbox' = [sandbox EXCEPT ![c] = "gone"] /\ UNCHANGED <<row, slot, faults>>
  BY Zenon DEF Kill, c
<1>4. SandboxStep(h)
  BY Zenon, <1>2, <1>3, SandboxKilled
<1>5. RowStep(h) /\ slot' \in Slots
  BY Zenon, <1>3, RowSame, SlotTyped
<1>6. OnlyMoves(h) /\ ViewInv(h)'
  <2>1. CASE next = "idle"
    BY Zenon, <2>1, AnswerViews DEF Kill
  <2>2. CASE next # "idle"
    <3>1. next \in Steps /\ Goto(h, next) /\ next \notin {"attach", "advance", "status", "kill", "killOnly"}
      BY Zenon, <2>2 DEF Kill, Steps
    <3> QED
      BY Zenon, <3>1, <1>5, GotoViews
  <2> QED
    BY Zenon, <2>1, <2>2
<1> QED
  BY Zenon, <1>3, <1>4, <1>5, <1>6, OtherCarried

LEMMA TailKeeps ==
    ASSUME LifeInv, NEW h \in Handlers \ Creates,
           KillFails(h) \/ MarkFails(h) \/ Release(h) \/ Crash(h)
    PROVE  LifeInv'
<1>1. UNCHANGED <<row, sandbox>> /\ Answer(h) /\ (release \/ UNCHANGED slot)
        /\ (Fault \/ UNCHANGED faults)
  BY Zenon DEF KillFails, MarkFails, Release, Crash
<1>2. RowStep(h) /\ SandboxStep(h) /\ slot' \in Slots /\ OnlyMoves(h) /\ ViewInv(h)'
  BY Zenon, <1>1, RowSame, SandboxSame, SlotTyped, AnswerViews
<1> QED
  BY Zenon, <1>1, <1>2, OtherCarried

LEMMA MarkKeeps ==
    ASSUME LifeInv, NEW h \in Handlers \ Creates, NEW expected, Mark(h, NoSandbox, expected)
    PROVE  LifeInv'
<1>1. /\ transition("terminated", NoSandbox, expected) /\ Goto(h, "release")
      /\ UNCHANGED <<slot, sandbox, faults>>
  BY Zenon DEF Mark
<1>2. "terminated" \in Statuses /\ "release" \in Steps
  BY Zenon DEF Statuses, Steps
<1>3. RowStep(h)
  BY Zenon, <1>1, <1>2, RowMoved
<1>4. SandboxStep(h) /\ slot' \in Slots
  BY Zenon, <1>1, SandboxSame, SlotTyped
<1>5. OnlyMoves(h) /\ ViewInv(h)'
  BY Zenon, <1>1, <1>2, <1>3, GotoViews
<1> QED
  BY Zenon, <1>1, <1>3, <1>4, <1>5, OtherCarried

(* A step that only reads the row, or moves on with what it has read. *)
LEMMA ReadKeeps ==
    ASSUME LifeInv, NEW h \in Handlers \ Creates, NEW step \in Steps, Read(h, step),
           UNCHANGED <<row, slot, sandbox, faults>>,
           step \in {"attach", "advance", "status", "kill", "killOnly"} => row.provider # NoSandbox
    PROVE  LifeInv'
<1>1. RowStep(h) /\ SandboxStep(h) /\ slot' \in Slots
  BY Zenon, RowSame, SandboxSame, SlotTyped
<1>2. OnlyMoves(h) /\ ViewInv(h)'
  BY Zenon, ReadViews
<1> QED
  BY Zenon, <1>1, <1>2, OtherCarried

LEMMA GotoKeeps ==
    ASSUME LifeInv, NEW h \in Handlers \ Creates, NEW step \in Steps, Goto(h, step),
           UNCHANGED <<row, slot, sandbox>>, Fault \/ UNCHANGED faults,
           step \in {"attach", "advance", "status", "kill", "killOnly"}
               => handler[h].saw.provider # NoSandbox
    PROVE  LifeInv'
<1>1. RowStep(h) /\ SandboxStep(h) /\ slot' \in Slots
  BY Zenon, RowSame, SandboxSame, SlotTyped
<1>2. OnlyMoves(h) /\ ViewInv(h)'
  BY Zenon, <1>1, GotoViews
<1> QED
  BY Zenon, <1>1, <1>2, OtherCarried

LEMMA AnswerKeeps ==
    ASSUME LifeInv, NEW h \in Handlers \ Creates, Answer(h),
           UNCHANGED <<row, slot, sandbox>>, Fault \/ UNCHANGED faults
    PROVE  LifeInv'
<1>1. RowStep(h) /\ SandboxStep(h) /\ slot' \in Slots
  BY Zenon, RowSame, SandboxSame, SlotTyped
<1>2. OnlyMoves(h) /\ ViewInv(h)'
  BY Zenon, AnswerViews
<1> QED
  BY Zenon, <1>1, <1>2, OtherCarried

(* One turn of attach's loop starts or readies a row only when it is bound. *)
LEMMA AdvanceKeeps ==
    ASSUME LifeInv, NEW a \in Attaches, AttachAdvance(a)
    PROVE  LifeInv'
<1> DEFINE seen == handler[a].saw.status
<1>1. a \in Handlers \ Creates
  BY Zenon, LifecycleAssumption, Kinds
<1>2. ViewInv(a) /\ handler[a].pc = "advance" /\ handler[a].saw.provider = row.provider
        /\ row.provider # NoSandbox
  BY Zenon, <1>1 DEF LifeInv, ViewInv, AttachAdvance, At
<1>3. UNCHANGED <<slot, sandbox, faults>> /\ SandboxStep(a) /\ slot' \in Slots
  BY Zenon, SandboxSame, SlotTyped DEF AttachAdvance
<1>4. CASE seen \notin DOMAIN progression
  BY Zenon, <1>1, <1>3, <1>4, AnswerKeeps DEF AttachAdvance
<1>5. CASE seen \in DOMAIN progression
  <2>1. progression[seen] \in Statuses
    BY <1>5 DEF progression, Statuses
  <2>2. transition(progression[seen], NoSandbox, {seen}) /\ handler' = [handler EXCEPT ![a].saw = View']
    BY Zenon, <1>5 DEF AttachAdvance
  <2>3. RowStep(a) /\ row'.provider = row.provider
    BY Zenon, <1>2, <2>1, <2>2, RowMoved
  <2>4. View' \in Views /\ View'.provider = row'.provider
    BY Zenon, <2>3 DEF RowStep, Rows, View, Views
  <2>5. handler \in [Handlers -> HandlerStates] /\ handler[a] \in HandlerStates
    BY Zenon, <1>1 DEF LifeInv, LifecycleTypeOK
  <2>6. /\ OnlyMoves(a)
        /\ handler'[a].created = handler[a].created /\ handler'[a].saw = View'
    <3> HIDE DEF View
    <3> QED
      BY Zenon, <1>1, <2>2, <2>4, <2>5 DEF OnlyMoves, HandlerStates
  <2>7. ViewInv(a)'
    BY Zenon, <1>1, <1>2, <2>3, <2>4, <2>6 DEF ViewInv
  <2> QED
    BY Zenon, <1>1, <1>3, <2>3, <2>6, <2>7, OtherCarried
<1> QED
  BY Zenon, <1>4, <1>5

LEMMA AttachKeeps ==
    ASSUME LifeInv, NEW a \in Attaches, AttachStep(a)
    PROVE  LifeInv'
<1>1. a \in Handlers \ Creates /\ ViewInv(a)
  BY Zenon, LifecycleAssumption, Kinds DEF LifeInv
<1>2. CASE AttachRead(a)
  <2> DEFINE step == CASE row.provider = NoSandbox -> "mark"
                       [] row.provider # NoSandbox /\ row.status = "terminated" -> "killOnly"
                       [] OTHER -> "attach"
  <2>1. step \in Steps /\ (step \in {"attach", "advance", "status", "kill", "killOnly"} => row.provider # NoSandbox)
    BY Zenon DEF Steps
  <2>2. Read(a, step) /\ UNCHANGED <<row, slot, sandbox, faults>>
    BY Zenon, <1>2 DEF AttachRead
  <2> HIDE DEF step
  <2> QED
    BY Zenon, <1>1, <2>1, <2>2, ReadKeeps
<1>3. CASE AttachProvider(a)
  <2>1. handler[a].saw.provider # NoSandbox /\ UNCHANGED <<row, slot, sandbox>>
    BY Zenon, <1>1, <1>3 DEF AttachProvider, At, ViewInv
  <2>2. /\ Fault \/ UNCHANGED faults
        /\ Goto(a, "advance") \/ Goto(a, "mark") \/ Goto(a, "kill") \/ Answer(a)
    BY Zenon, <1>3 DEF AttachProvider
  <2>3. {"advance", "mark", "kill"} \subseteq Steps
    BY Zenon DEF Steps
  <2> QED
    BY Zenon, <1>1, <2>1, <2>2, <2>3, GotoKeeps, AnswerKeeps
<1>4. CASE AttachAdvance(a)
  BY Zenon, <1>4, AdvanceKeeps
<1>5. CASE Kill(a, "killOnly", "idle") \/ Kill(a, "kill", "mark")
  BY Zenon, <1>1, <1>5, KillKeeps
<1>6. CASE KillFails(a) \/ MarkFails(a) \/ Release(a)
  BY Zenon, <1>1, <1>6, TailKeeps
<1>7. CASE Mark(a, NoSandbox, Statuses)
  BY Zenon, <1>1, <1>7, MarkKeeps
<1> QED
  BY Zenon, <1>2, <1>3, <1>4, <1>5, <1>6, <1>7 DEF AttachStep

LEMMA TerminateKeeps ==
    ASSUME LifeInv, NEW t \in Terminations, TerminateStep(t)
    PROVE  LifeInv'
<1>1. t \in Handlers \ Creates
  BY Zenon, LifecycleAssumption, Kinds
<1>2. CASE TerminateRead(t) \/ terminateProjectWorkspace(t)
  <2>1. PICK step \in {"release", "mark", "kill"} :
           /\ Read(t, step)
           /\ step = "kill" => row.provider # NoSandbox
    <3>1. CASE terminateProjectWorkspace(t)
      BY Zenon, <3>1 DEF terminateProjectWorkspace
    <3>2. CASE TerminateRead(t)
      <4>1. CASE row.status = "terminated"
        BY Zenon, <3>2, <4>1 DEF TerminateRead
      <4>2. CASE row.status # "terminated" /\ row.provider = NoSandbox
        BY Zenon, <3>2, <4>2 DEF TerminateRead
      <4>3. CASE row.status # "terminated" /\ row.provider # NoSandbox
        BY Zenon, <3>2, <4>3 DEF TerminateRead
      <4> QED
        BY Zenon, <4>1, <4>2, <4>3
    <3> QED
      BY Zenon, <1>2, <3>1, <3>2
  <2>2. UNCHANGED <<row, slot, sandbox, faults>> /\ step \in Steps
    BY Zenon, <1>2 DEF TerminateRead, terminateProjectWorkspace, Steps
  <2> QED
    BY Zenon, <1>1, <2>1, <2>2, ReadKeeps
<1>3. CASE Kill(t, "kill", "mark") \/ Kill(t, "kill", "release")
  BY Zenon, <1>1, <1>3, KillKeeps
<1>4. CASE KillFails(t) \/ MarkFails(t) \/ Release(t)
  BY Zenon, <1>1, <1>4, TailKeeps
<1>5. CASE Mark(t, NoSandbox, Statuses)
  BY Zenon, <1>1, <1>5, MarkKeeps
<1> QED
  BY Zenon, <1>2, <1>3, <1>4, <1>5 DEF TerminateStep

LEMMA GovernorKeeps ==
    ASSUME LifeInv, NEW g \in Governors, GovernorStep(g)
    PROVE  LifeInv'
<1>1. g \in Handlers \ Creates /\ "candidate" \in Steps /\ "release" \in Steps /\ "kill" \in Steps
  BY Zenon, LifecycleAssumption, Kinds DEF Steps
<1>2. CASE GovernorPick(g)
  BY Zenon, <1>1, <1>2, GotoKeeps DEF GovernorPick
<1>3. CASE terminateCandidate(g)
  <2>1. CASE row.provider = NoSandbox \/ row.status = "terminated"
    BY Zenon, <1>1, <1>3, <2>1, ReadKeeps DEF terminateCandidate
  <2>2. CASE ~(row.provider = NoSandbox \/ row.status = "terminated")
    BY Zenon, <1>1, <1>3, <2>2, ReadKeeps DEF terminateCandidate
  <2> QED
    BY Zenon, <2>1, <2>2
<1>4. CASE Kill(g, "kill", "mark")
  BY Zenon, <1>1, <1>4, KillKeeps
<1>5. CASE KillFails(g) \/ MarkFails(g) \/ Release(g)
  BY Zenon, <1>1, <1>5, TailKeeps
<1>6. CASE Mark(g, NoSandbox, {handler[g].saw.status})
  BY Zenon, <1>1, <1>6, MarkKeeps
<1> QED
  BY Zenon, <1>2, <1>3, <1>4, <1>5, <1>6 DEF GovernorStep

LEMMA LoopKeeps ==
    ASSUME LifeInv, NEW l \in Loops, LoopStep(l)
    PROVE  LifeInv'
<1>1. l \in Handlers \ Creates /\ "status" \in Steps /\ "mark" \in Steps /\ "terminated" \in Statuses
  BY Zenon, LifecycleAssumption, Kinds DEF Steps, Statuses
<1>2. CASE LoopList(l)
  BY Zenon, <1>1, <1>2, ReadKeeps DEF LoopList, Listed
<1>3. CASE LoopStatus(l)
  BY Zenon, <1>1, <1>3, GotoKeeps, AnswerKeeps DEF LoopStatus
<1>4. CASE LoopMark(l)
  <2>1. Answer(l) /\ UNCHANGED <<slot, sandbox>> /\ (Fault \/ UNCHANGED faults)
    BY Zenon, <1>4 DEF LoopMark
  <2>2. RowStep(l)
    <3>1. CASE transition("terminated", NoSandbox, {handler[l].saw.status})
      BY Zenon, <1>1, <3>1, RowMoved
    <3>2. CASE UNCHANGED row
      BY Zenon, <3>2, RowSame
    <3> QED
      BY Zenon, <1>4, <3>1, <3>2 DEF LoopMark
  <2>3. SandboxStep(l) /\ slot' \in Slots /\ OnlyMoves(l) /\ ViewInv(l)'
    BY Zenon, <1>1, <2>1, SandboxSame, SlotTyped, AnswerViews
  <2> QED
    BY Zenon, <1>1, <2>1, <2>2, <2>3, OtherCarried
<1> QED
  BY Zenon, <1>2, <1>3, <1>4 DEF LoopStep

----------------------------------------------------------------------------
(* The steps of a create. *)
LEMMA CreateCarried ==
    ASSUME LifeInv, NEW c \in Creates, OnlyMoves(c), RowStep(c), SandboxStep(c),
           slot' \in Slots, Fault \/ UNCHANGED faults,
           handler'[c].created => handler[c].created,
           sandbox'[c] # "none" => Active(c),
           CreateInv(c)', ViewInv(c)'
    PROVE  LifeInv'
<1>1. c \in Handlers
  BY Zenon, Kinds
<1>2. handler'[c].created => row'.attachment /\ handler[c].created
  BY Zenon DEF LifeInv, RowStep, Active
<1> QED
  BY Zenon, <1>1, <1>2, LifeCarried, Faults

LEMMA CreateAnswers ==
    ASSUME LifeInv, NEW c \in Creates, Answer(c), UNCHANGED sandbox, RowStep(c), slot' \in Slots,
           \/ Fault
           \/ UNCHANGED faults /\ handler[c].pc \notin {"bind", "boot", "undo", "start"}
    PROVE  LifeInv'
<1>1. OnlyMoves(c) /\ ViewInv(c)' /\ ~handler'[c].created /\ handler'[c].pc = "idle" /\ SandboxStep(c)
  BY Zenon, Kinds, AnswerViews, SandboxSame
<1>2. faults' = 0 => faults = 0 /\ handler[c].pc \notin {"bind", "boot", "undo", "start"}
  BY Zenon, Faults
<1>3. CreateInv(c)'
  <2>1. CreateInv(c) /\ (row.provider = c => row'.provider = c)
    BY Zenon, LifecycleAssumption DEF LifeInv, RowStep
  <2> QED
    BY Zenon, <1>1, <1>2, <2>1 DEF CreateInv, Live
<1> QED
  BY Zenon, <1>1, <1>3, CreateCarried DEF Active

LEMMA CreateGoes ==
    ASSUME LifeInv, NEW c \in Creates, NEW step \in Steps, Goto(c, step),
           UNCHANGED sandbox, RowStep(c), slot' \in Slots, Fault \/ UNCHANGED faults,
           ~handler[c].created => step \in {"poll", "admit", "release"},
           handler[c].created =>
               /\ step \in {"admit", "refuse", "provision", "allocate", "bind", "boot", "undo",
                            "fail", "start", "confirm", "finish", "kill", "mark", "release"}
               /\ step \in {"admit", "refuse", "provision", "allocate"} => sandbox[c] = "none"
               /\ step \in {"bind", "boot", "undo", "start", "confirm", "finish", "kill", "mark"}
                     => sandbox[c] # "none"
               /\ step \in {"confirm", "finish"} => row'.provider = c,
           faults' = 0 /\ Live(c) =>
               (handler[c].created /\ step \in {"bind", "boot", "undo", "start"}) \/ row'.provider = c
    PROVE  LifeInv'
<1>1. c \in Handlers /\ LifecycleTypeOK /\ SandboxStep(c)
  BY Zenon, Kinds, SandboxSame DEF LifeInv
<1>2. handler'[c].pc = step /\ handler'[c].created = handler[c].created
  BY Zenon, <1>1, GotoMoves
<1>3. OnlyMoves(c) /\ ViewInv(c)'
  BY Zenon, <1>1, GotoViews
<1>4. CreateInv(c)'
  BY Zenon, <1>2 DEF CreateInv, Live
<1> QED
  BY Zenon, <1>1, <1>2, <1>3, <1>4, CreateCarried DEF Active

LEMMA ClaimKeeps ==
    ASSUME LifeInv, NEW c \in Creates, CreateClaim(c)
    PROVE  LifeInv'
<1>1. /\ c \in Handlers /\ CreateInv(c) /\ handler[c].pc = "idle" /\ ~handler[c].created
      /\ UNCHANGED <<slot, sandbox, faults>> /\ slot' \in Slots /\ SandboxStep(c)
  BY Zenon, Kinds, SlotTyped, SandboxSame DEF LifeInv, CreateClaim, At, CreateInv
<1>2. CASE row.status = "absent" \/ Unclaimed
  <2>1. /\ row' = [row EXCEPT !.status = "requested", !.attachment = TRUE]
        /\ handler' = [handler EXCEPT ![c] = [pc |-> "admit", created |-> TRUE, saw |-> NoView]]
    BY Zenon, <1>2 DEF CreateClaim
  <2>2. ~row.attachment
    BY Zenon, <1>2 DEF Unclaimed, LifeInv
  <2>3. \A d \in Creates : ~Active(d)
    BY Zenon, <2>2 DEF LifeInv
  <2>4. RowStep(c) /\ row'.attachment /\ row'.provider = row.provider
    <3>1. row \in Rows
      BY Zenon DEF LifeInv, LifecycleTypeOK
    <3>2. /\ row' \in Rows /\ row'.status = "requested" /\ row'.attachment
          /\ row'.provider = row.provider
      BY Zenon, <2>1, <3>1 DEF Rows, Statuses
    <3> QED
      BY Zenon, <3>2 DEF RowStep
  <2>5. OnlyMoves(c) /\ handler'[c] = [pc |-> "admit", created |-> TRUE, saw |-> NoView]
    <3>1. handler \in [Handlers -> HandlerStates]
      BY Zenon DEF LifeInv, LifecycleTypeOK
    <3>2. [pc |-> "admit", created |-> TRUE, saw |-> NoView] \in HandlerStates
      BY Zenon DEF HandlerStates, Steps, NoView, Views
    <3> QED
      BY Zenon, <1>1, <2>1, <3>1, <3>2 DEF OnlyMoves
  <2>6. sandbox[c] = "none" /\ sandbox'[c] = "none"
    BY Zenon, <1>1, <2>3 DEF Active
  <2>7. CreateInv(c)'
    BY <2>5, <2>6 DEF CreateInv, Live
  <2>8. ViewInv(c)'
    BY <2>5 DEF ViewInv, NoView
  <2>9. faults' \in 0..MaxFaults /\ (faults' = 0 => faults = 0)
    BY Zenon, <1>1, Faults
  <2> QED
    BY Zenon, <1>1, <2>3, <2>4, <2>5, <2>6, <2>7, <2>8, <2>9, LifeCarried
<1>3. CASE ~(row.status = "absent" \/ Unclaimed)
  <2>1. Goto(c, "poll") /\ UNCHANGED row /\ RowStep(c) /\ "poll" \in Steps
    BY Zenon, <1>3, RowSame DEF CreateClaim, Steps
  <2>2. faults' = 0 /\ Live(c) => row'.provider = c
    BY Zenon, <1>1, <2>1 DEF CreateInv
  <2> QED
    BY Zenon, <1>1, <2>1, <2>2, CreateGoes
<1> QED
  BY Zenon, <1>2, <1>3

(* Up to the allocation there is no sandbox, and nothing is bound. *)
LEMMA AdmissionKeeps ==
    ASSUME LifeInv, NEW c \in Creates,
           CreatePoll(c) \/ CreateAdmit(c) \/ CreateAdmitThrows(c) \/ CreateRefuse(c) \/ CreateProvision(c)
    PROVE  LifeInv'
<1>1. /\ c \in Handlers /\ CreateInv(c) /\ UNCHANGED sandbox /\ (Fault \/ UNCHANGED faults)
      /\ handler[c].pc \in {"poll", "admit", "refuse", "provision"}
  BY Zenon, Kinds DEF LifeInv, CreatePoll, CreateAdmit, CreateAdmitThrows, CreateRefuse, CreateProvision, At
<1>2. slot' \in Slots
  BY Zenon, SlotTyped DEF CreatePoll, CreateAdmit, CreateAdmitThrows, CreateRefuse, CreateProvision
<1>3. faults' = 0 /\ Live(c) => ~handler[c].created /\ row.provider = c
  BY Zenon, <1>1, Faults DEF CreateInv, Live
<1>4. {"admit", "refuse", "provision", "allocate", "release"} \subseteq Steps
        /\ {"terminated", "provisioning"} \subseteq Statuses
  BY Zenon DEF Steps, Statuses
<1>5. handler[c].pc \in {"refuse", "provision"} => handler[c].created
  BY Zenon, <1>1 DEF CreateInv
<1>6. handler[c].created => sandbox[c] = "none" /\ handler[c].pc # "poll"
  BY Zenon, <1>1 DEF CreateInv
<1>7. CASE CreatePoll(c)
  <2>1. UNCHANGED <<row, slot, sandbox, faults>> /\ RowStep(c) /\ SandboxStep(c) /\ handler[c].pc = "poll"
    BY Zenon, <1>7, RowSame, SandboxSame DEF CreatePoll, At
  <2>2. CASE Answer(c)
    BY Zenon, <1>1, <1>2, <2>1, <2>2, CreateAnswers
  <2>3. CASE Read(c, "admit")
    <3>1. OnlyMoves(c) /\ ViewInv(c)' /\ handler'[c].pc = "admit" /\ ~handler'[c].created
      BY Zenon, <1>1, <1>4, <1>6, <2>1, <2>3, ReadViews, ReadMoves DEF LifeInv
    <3>2. CreateInv(c)'
      BY Zenon, <1>3, <2>1, <3>1 DEF CreateInv, Live
    <3> QED
      BY Zenon, <1>1, <1>2, <2>1, <3>1, <3>2, CreateCarried DEF Active
  <2> QED
    BY Zenon, <1>7, <2>2, <2>3 DEF CreatePoll
<1>8. CASE CreateAdmit(c) \/ CreateAdmitThrows(c)
  <2>1. RowStep(c) /\ UNCHANGED row /\ handler[c].pc = "admit"
    BY Zenon, <1>8, RowSame DEF CreateAdmit, CreateAdmitThrows, At
  <2>2. CASE handler[c].created
    <3>1. Goto(c, "provision") \/ Goto(c, "refuse")
      BY Zenon, <1>8, <2>2 DEF CreateAdmit, CreateAdmitThrows
    <3> QED
      BY Zenon, <1>1, <1>2, <1>3, <1>4, <1>6, <2>1, <2>2, <3>1, CreateGoes
  <2>3. CASE ~handler[c].created
    <3>1. Answer(c) \/ Goto(c, "release")
      <4>1. CASE CreateAdmitThrows(c)
        BY Zenon, <2>3, <4>1 DEF CreateAdmitThrows
      <4>2. CASE CreateAdmit(c) /\ handler[c].saw.status = "ready" /\ handler[c].saw.provider # NoSandbox
        BY Zenon, <2>3, <4>2 DEF CreateAdmit
      <4>3. CASE CreateAdmit(c) /\ ~(handler[c].saw.status = "ready" /\ handler[c].saw.provider # NoSandbox)
        BY Zenon, <2>3, <4>3 DEF CreateAdmit
      <4> QED
        BY Zenon, <1>8, <4>1, <4>2, <4>3
    <3>2. CASE Answer(c)
      BY Zenon, <1>1, <1>2, <2>1, <3>2, CreateAnswers
    <3>3. CASE Goto(c, "release")
      BY Zenon, <1>1, <1>2, <1>3, <1>4, <2>1, <2>3, <3>3, CreateGoes
    <3> QED
      BY Zenon, <3>1, <3>2, <3>3
  <2> QED
    BY Zenon, <2>2, <2>3
<1>9. CASE CreateRefuse(c)
  <2>1. RowStep(c)
    BY Zenon, <1>4, <1>9, RowMoved DEF CreateRefuse
  <2> QED
    BY Zenon, <1>1, <1>2, <1>9, <2>1, CreateAnswers DEF CreateRefuse, At
<1>10. CASE CreateProvision(c)
  <2>1. RowStep(c)
    <3>1. CASE transition("provisioning", NoSandbox, Statuses)
      BY Zenon, <1>4, <3>1, RowMoved
    <3> QED
      BY Zenon, <1>10, <3>1, RowSame DEF CreateProvision
  <2>2. handler[c].created /\ (Goto(c, "allocate") \/ Goto(c, "release"))
    BY Zenon, <1>5, <1>10 DEF CreateProvision, At
  <2> QED
    BY Zenon, <1>1, <1>2, <1>3, <1>4, <1>6, <2>1, <2>2, CreateGoes
<1> QED
  BY Zenon, <1>7, <1>8, <1>9, <1>10

(* Allocation: the only step that brings a sandbox into being. *)
LEMMA AllocateKeeps ==
    ASSUME LifeInv, NEW c \in Creates, CreateAllocate(c)
    PROVE  LifeInv'
<1>1. /\ c \in Handlers /\ CreateInv(c) /\ handler[c].pc = "allocate" /\ handler[c].created
      /\ UNCHANGED <<row, slot>> /\ (Fault \/ UNCHANGED faults)
  BY Zenon, Kinds DEF LifeInv, CreateAllocate, At, CreateInv
<1>2. RowStep(c) /\ slot' \in Slots /\ sandbox[c] = "none" /\ {"bind", "fail"} \subseteq Steps
        /\ LifecycleTypeOK
  BY Zenon, <1>1, RowSame, SlotTyped DEF CreateInv, Steps, SandboxStates, LifeInv
<1>3. CASE UNCHANGED sandbox /\ Goto(c, "fail")
  BY Zenon, <1>1, <1>2, <1>3, CreateGoes DEF Live
<1>4. CASE sandbox' = [sandbox EXCEPT ![c] = "up"] /\ Goto(c, "bind")
  <2>1. "up" \in SandboxStates
    BY Zenon DEF SandboxStates
  <2>2. SandboxStep(c) /\ sandbox'[c] = "up"
    BY Zenon, <1>4, <2>1, SandboxMoved
  <2>3. OnlyMoves(c) /\ ViewInv(c)' /\ handler'[c].pc = "bind" /\ handler'[c].created
    BY Zenon, <1>1, <1>2, <1>4, GotoViews, GotoMoves
  <2>4. CreateInv(c)'
    BY Zenon, <2>2, <2>3 DEF CreateInv
  <2> QED
    BY Zenon, <1>1, <1>2, <2>2, <2>3, <2>4, CreateCarried DEF Active
<1>5. CASE Fault /\ sandbox' = [sandbox EXCEPT ![c] = "late"] /\ Goto(c, "fail")
  <2>1. "late" \in SandboxStates /\ faults' # 0
    BY Zenon, <1>5, Faults DEF SandboxStates
  <2>2. SandboxStep(c) /\ sandbox'[c] = "late"
    BY Zenon, <1>5, <2>1, SandboxMoved
  <2>3. OnlyMoves(c) /\ ViewInv(c)' /\ handler'[c].pc = "fail" /\ handler'[c].created
    BY Zenon, <1>1, <1>2, <1>5, GotoViews, GotoMoves
  <2>4. CreateInv(c)'
    BY Zenon, <2>1, <2>2, <2>3 DEF CreateInv
  <2> QED
    BY Zenon, <1>1, <1>2, <2>2, <2>3, <2>4, CreateCarried DEF Active
<1> QED
  BY Zenon, <1>3, <1>4, <1>5 DEF CreateAllocate

(* The id in the row is that of the one create with a sandbox. *)
LEMMA OwnProvider ==
    ASSUME LifeInv, NEW c \in Creates, Active(c)
    PROVE  row.provider \in {NoSandbox, c} /\ row.attachment
<1>1. row.provider \in Creates \cup {NoSandbox}
  BY Zenon DEF LifeInv, LifecycleTypeOK, Rows
<1>2. row.provider # NoSandbox => Active(row.provider)
  BY Zenon DEF LifeInv, Active
<1> QED
  BY Zenon, <1>1, <1>2 DEF LifeInv

(* A transition that writes the create's own id. *)
LEMMA RowBound ==
    ASSUME LifeInv, NEW c \in Creates, NEW status \in Statuses, sandbox[c] # "none", UNCHANGED sandbox,
           transition(status, c, Statuses)
    PROVE  RowStep(c) /\ row'.provider = c
<1>1. /\ LifecycleTypeOK /\ c \in Creates \cup {NoSandbox} /\ c # NoSandbox /\ status # "absent"
      /\ row.provider \in {NoSandbox, c} /\ row.attachment /\ row.status \in Statuses
  BY Zenon, OwnProvider, LifecycleAssumption DEF LifeInv, Active, Statuses, LifecycleTypeOK, Rows
<1>2. /\ row' \in Rows /\ row'.attachment = row.attachment
      /\ row'.status = status /\ row'.provider = c
  BY Zenon, <1>1, TransitionSets
<1> QED
  BY Zenon, <1>1, <1>2 DEF RowStep

(* From the allocation to the row that says started. *)
LEMMA BootKeeps ==
    ASSUME LifeInv, NEW c \in Creates,
           CreateBind(c) \/ CreateBoot(c) \/ CreateUndo(c) \/ CreateFail(c) \/ CreateStart(c)
    PROVE  LifeInv'
<1>1. /\ c \in Handlers /\ CreateInv(c) /\ (Fault \/ UNCHANGED faults) /\ UNCHANGED slot
      /\ handler[c].pc \in {"bind", "boot", "undo", "fail", "start"}
  BY Zenon, Kinds DEF LifeInv, CreateBind, CreateBoot, CreateUndo, CreateFail, CreateStart, At
<1>2. /\ slot' \in Slots /\ handler[c].created /\ Active(c)
      /\ handler[c].pc # "fail" => sandbox[c] # "none"
  BY Zenon, <1>1, SlotTyped DEF CreateInv, Active
<1>3. row.provider \in {NoSandbox, c} /\ row.attachment /\ LifecycleTypeOK
  BY Zenon, <1>2, OwnProvider DEF LifeInv
<1>4. {"boot", "undo", "fail", "start", "confirm", "kill", "release"} \subseteq Steps
        /\ "terminated" \in Statuses /\ "started" \in Statuses
  BY Zenon DEF Steps, Statuses
<1>5. CASE CreateBind(c)
  <2>1. UNCHANGED sandbox /\ handler[c].pc = "bind" /\ (Goto(c, "boot") \/ Goto(c, "undo"))
    BY Zenon, <1>5 DEF CreateBind, At
  <2>2. RowStep(c)
    <3>1. CASE bindProviderWorkspaceId(c)
      <4>1. /\ row' \in Rows
            /\ row'.attachment = row.attachment /\ row'.status = row.status
            /\ row' = row \/ (row.provider \in {NoSandbox, c} /\ row'.provider = c)
        BY Zenon, <1>3, <3>1, BindSets
      <4> QED
        BY Zenon, <1>1, <1>2, <1>3, <2>1, <4>1, LifecycleAssumption DEF LifeInv, StartedIsBound, RowStep
    <3> QED
      BY Zenon, <1>5, <3>1, RowSame DEF CreateBind
  <2> QED
    BY Zenon, <1>1, <1>2, <1>4, <2>1, <2>2, CreateGoes
<1>6. CASE CreateBoot(c)
  <2>1. /\ UNCHANGED <<row, sandbox>> /\ handler[c].pc = "boot" /\ RowStep(c)
        /\ Goto(c, "start") \/ Goto(c, "undo")
    BY Zenon, <1>6, RowSame DEF CreateBoot, At
  <2> QED
    BY Zenon, <1>1, <1>2, <1>4, <2>1, CreateGoes
<1>7. CASE CreateUndo(c)
  <2>1. handler[c].pc = "undo" /\ Goto(c, "fail") /\ RowStep(c)
    BY Zenon, <1>7, RowSame DEF CreateUndo, At
  <2>2. CASE sandbox' = [sandbox EXCEPT ![c] = "gone"]
    <3>1. SandboxStep(c) /\ sandbox'[c] = "gone"
      BY Zenon, <1>2, <2>1, <2>2, SandboxKilled
    <3>2. OnlyMoves(c) /\ ViewInv(c)' /\ handler'[c].pc = "fail" /\ handler'[c].created
      BY Zenon, <1>1, <1>2, <1>3, <1>4, <2>1, GotoViews, GotoMoves
    <3>3. CreateInv(c)'
      BY Zenon, <3>1, <3>2 DEF CreateInv, Live
    <3> QED
      BY Zenon, <1>1, <1>2, <2>1, <3>1, <3>2, <3>3, CreateCarried
  <2>3. CASE Fault /\ UNCHANGED sandbox
    BY Zenon, <1>2, <1>4, <2>1, <2>3, CreateGoes, Faults
  <2> QED
    BY Zenon, <1>7, <2>2, <2>3 DEF CreateUndo
<1>8. CASE CreateFail(c)
  <2>1. UNCHANGED sandbox /\ handler[c].pc = "fail" /\ Goto(c, "release")
    BY Zenon, <1>8 DEF CreateFail, At
  <2>2. RowStep(c) /\ row'.provider = row.provider
    <3>1. CASE transition("terminated", NoSandbox, {"provisioning"})
      BY Zenon, <1>4, <3>1, RowMoved
    <3> QED
      BY Zenon, <1>8, <3>1, RowSame DEF CreateFail
  <2>3. faults' = 0 /\ Live(c) => row'.provider = c
    BY Zenon, <1>1, <2>1, <2>2, Faults DEF CreateInv
  <2> QED
    BY Zenon, <1>1, <1>2, <1>4, <2>1, <2>2, <2>3, CreateGoes
<1>9. CASE CreateStart(c)
  <2>1. UNCHANGED sandbox /\ handler[c].pc = "start"
    BY Zenon, <1>9 DEF CreateStart, At
  <2>2. CASE transition("started", c, Statuses) /\ Goto(c, "confirm")
    <3>1. RowStep(c) /\ row'.provider = c
      BY Zenon, <1>2, <1>4, <2>1, <2>2, RowBound
    <3> QED
      BY Zenon, <1>1, <1>2, <1>4, <2>1, <2>2, <3>1, CreateGoes
  <2>3. CASE Fault /\ Goto(c, "kill") /\ UNCHANGED row
    BY Zenon, <1>2, <1>4, <2>1, <2>3, CreateGoes, Faults, RowSame
  <2> QED
    BY Zenon, <1>9, <2>2, <2>3 DEF CreateStart
<1> QED
  BY Zenon, <1>5, <1>6, <1>7, <1>8, <1>9

(* From started to ready, or to the compensation and the slot's release. *)
LEMMA FinishKeeps ==
    ASSUME LifeInv, NEW c \in Creates,
           \/ CreateConfirm(c) \/ CreateFinish(c) \/ CreateCompensate(c) \/ KillFails(c)
           \/ Mark(c, c, Statuses) \/ MarkFails(c) \/ Release(c) \/ Crash(c)
    PROVE  LifeInv'
<1>1. c \in Handlers /\ CreateInv(c) /\ LifecycleTypeOK
  BY Zenon, Kinds DEF LifeInv
<1>2. {"finish", "kill", "mark", "release"} \subseteq Steps /\ "terminated" \in Statuses /\ "ready" \in Statuses
  BY Zenon DEF Steps, Statuses
<1>3. CASE CreateConfirm(c)
  <2>1. /\ UNCHANGED <<row, slot, sandbox, faults>> /\ handler[c].pc = "confirm"
        /\ RowStep(c) /\ slot' \in Slots
        /\ Goto(c, "finish") \/ Goto(c, "kill")
    BY Zenon, <1>3, RowSame, SlotTyped DEF CreateConfirm, At
  <2>2. handler[c].created /\ sandbox[c] # "none" /\ row.provider = c
    BY Zenon, <1>1, <2>1 DEF CreateInv
  <2> QED
    BY Zenon, <1>2, <2>1, <2>2, CreateGoes
<1>4. CASE CreateFinish(c)
  <2>1. /\ UNCHANGED <<slot, sandbox>> /\ handler[c].pc = "finish" /\ slot' \in Slots
        /\ Fault \/ UNCHANGED faults
    BY Zenon, <1>4, SlotTyped DEF CreateFinish, At
  <2>2. handler[c].created /\ sandbox[c] # "none" /\ row.provider = c /\ c # NoSandbox
    BY Zenon, <1>1, <2>1, LifecycleAssumption DEF CreateInv
  <2>3. RowStep(c) /\ row'.provider = c
    <3>1. CASE transition("ready", NoSandbox, Statuses)
      BY Zenon, <1>2, <2>2, <3>1, RowMoved
    <3> QED
      BY Zenon, <1>4, <2>2, <3>1, RowSame DEF CreateFinish
  <2>4. CASE Answer(c)
    BY Zenon, <2>1, <2>3, <2>4, CreateAnswers
  <2>5. CASE Goto(c, "kill")
    BY Zenon, <1>2, <2>1, <2>2, <2>3, <2>5, CreateGoes
  <2> QED
    BY Zenon, <1>4, <2>4, <2>5 DEF CreateFinish
<1>5. CASE CreateCompensate(c)
  <2>1. /\ handler[c].pc = "kill" /\ sandbox' = [sandbox EXCEPT ![c] = "gone"] /\ Goto(c, "mark")
        /\ UNCHANGED <<row, slot, faults>> /\ RowStep(c) /\ slot' \in Slots
    BY Zenon, <1>5, RowSame, SlotTyped DEF CreateCompensate, At
  <2>2. handler[c].created /\ sandbox[c] # "none"
    BY Zenon, <1>1, <2>1 DEF CreateInv
  <2>3. SandboxStep(c) /\ sandbox'[c] = "gone"
    BY Zenon, <2>1, <2>2, SandboxKilled
  <2>4. OnlyMoves(c) /\ ViewInv(c)' /\ handler'[c].pc = "mark" /\ handler'[c].created
    BY Zenon, <1>1, <1>2, <2>1, <2>2, GotoViews, GotoMoves
  <2>5. CreateInv(c)'
    BY Zenon, <2>3, <2>4 DEF CreateInv, Live
  <2> QED
    BY Zenon, <2>1, <2>2, <2>3, <2>4, <2>5, CreateCarried DEF Active
<1>6. CASE KillFails(c) \/ Crash(c)
  <2>1. UNCHANGED <<row, slot, sandbox>> /\ Fault /\ Answer(c) /\ RowStep(c) /\ slot' \in Slots
    BY Zenon, <1>6, RowSame, SlotTyped DEF KillFails, Crash
  <2> QED
    BY Zenon, <2>1, CreateAnswers
<1>7. CASE Mark(c, c, Statuses)
  <2>1. /\ handler[c].pc = "mark" /\ transition("terminated", c, Statuses) /\ Goto(c, "release")
        /\ UNCHANGED <<slot, sandbox, faults>> /\ slot' \in Slots
    BY Zenon, <1>7, SlotTyped DEF Mark, At
  <2>2. handler[c].created /\ sandbox[c] # "none"
    BY Zenon, <1>1, <2>1 DEF CreateInv
  <2>3. RowStep(c) /\ row'.provider = c
    BY Zenon, <1>2, <2>1, <2>2, RowBound
  <2> QED
    BY Zenon, <1>2, <2>1, <2>2, <2>3, CreateGoes
<1>8. CASE MarkFails(c)
  <2>1. /\ handler[c].pc = "mark" /\ Fault /\ Goto(c, "release")
        /\ UNCHANGED <<row, slot, sandbox>> /\ RowStep(c) /\ slot' \in Slots
    BY Zenon, <1>8, RowSame, SlotTyped DEF MarkFails, At
  <2>2. handler[c].created /\ faults' # 0
    BY Zenon, <1>1, <2>1, Faults DEF CreateInv
  <2> QED
    BY Zenon, <1>2, <2>1, <2>2, CreateGoes
<1>9. CASE Release(c)
  <2>1. /\ handler[c].pc = "release" /\ Answer(c) /\ (Fault \/ UNCHANGED faults)
        /\ UNCHANGED <<row, sandbox>> /\ RowStep(c) /\ slot' \in Slots
    BY Zenon, <1>9, RowSame, SlotTyped DEF Release, At
  <2> QED
    BY Zenon, <2>1, CreateAnswers
<1> QED
  BY Zenon, <1>3, <1>4, <1>5, <1>6, <1>7, <1>8, <1>9

(* The sandbox's own steps. *)
LEMMA SandboxKeeps ==
    ASSUME LifeInv, NEW c \in Creates, LateTerminate(c) \/ SandboxReady(c) \/ SandboxEnds(c)
    PROVE  LifeInv'
<1>1. /\ UNCHANGED <<row, slot, handler, faults>> /\ RowStep(c) /\ slot' \in Slots
      /\ Live(c)
  BY Zenon, RowSame, SlotTyped DEF LateTerminate, SandboxReady, SandboxEnds, Live
<1>2. PICK s \in {"ready", "gone"} : sandbox' = [sandbox EXCEPT ![c] = s]
  BY Zenon DEF LateTerminate, SandboxReady, SandboxEnds
<1>3. s \in SandboxStates /\ s # "none"
  BY Zenon, <1>2 DEF SandboxStates
<1>4. SandboxStep(c) /\ sandbox'[c] = s
  BY Zenon, <1>2, <1>3, SandboxMoved
<1>5. CreateInv(c) /\ ViewInv(c) /\ Active(c)
  BY Zenon, <1>1, Kinds DEF LifeInv, Live, Active
<1>6. OnlyMoves(c) /\ ViewInv(c)'
  BY Zenon, <1>1, <1>5 DEF OnlyMoves, ViewInv, LifeInv, LifecycleTypeOK
<1>7. CreateInv(c)'
  BY Zenon, <1>1, <1>3, <1>4, <1>5 DEF CreateInv, Live
<1> QED
  BY Zenon, <1>1, <1>4, <1>5, <1>6, <1>7, CreateCarried

----------------------------------------------------------------------------
(* LifeInv is inductive, whoever overlaps with whom. *)
LEMMA LifeInit == Init => LifeInv
<1> SUFFICES ASSUME Init PROVE LifeInv
  BY Zenon
<1>1. row \in Rows /\ ~row.attachment /\ row.provider = NoSandbox /\ row.status \in {"absent", "requested"}
  <2>1. CASE row = NoRow
    BY Zenon, <2>1 DEF NoRow, Rows
  <2>2. CASE row = [NoRow EXCEPT !.status = "requested"]
    BY Zenon, <2>2 DEF NoRow, Rows, Statuses
  <2> QED
    BY Zenon, <2>1, <2>2 DEF Init
<1>2. /\ slot \in Slots /\ sandbox \in [Creates -> SandboxStates] /\ faults \in 0..MaxFaults
      /\ \A c \in Creates : sandbox[c] = "none"
  BY LifecycleAssumption DEF Init, Slots, SandboxStates
<1>3. Idle \in HandlerStates
  BY Zenon DEF Idle, HandlerStates, Steps, NoView, Views
<1>4. handler \in [Handlers -> HandlerStates] /\ \A h \in Handlers : handler[h] = Idle
  BY Zenon, <1>3 DEF Init
<1>5. ASSUME NEW c \in Creates PROVE ~Active(c) /\ CreateInv(c)
  <2>1. handler[c].pc = "idle" /\ handler[c].created = FALSE /\ sandbox[c] = "none"
    BY <1>2, <1>4, Kinds DEF Idle
  <2> QED
    BY <2>1 DEF Active, CreateInv, Live
<1>6. \A h \in Handlers : ViewInv(h)
  BY <1>4 DEF ViewInv, Idle, NoView
<1>7. LifecycleTypeOK /\ StartedIsBound
  BY Zenon, <1>1, <1>2, <1>4 DEF LifecycleTypeOK, StartedIsBound
<1> QED
  BY Zenon, <1>1, <1>5, <1>6, <1>7 DEF LifeInv

LEMMA LifeStep == LifeInv /\ [Next]_vars => LifeInv'
<1> SUFFICES ASSUME LifeInv, [Next]_vars PROVE LifeInv'
  BY Zenon
<1>1. CASE UNCHANGED vars
  <2>1. LifecycleTypeOK' /\ StartedIsBound'
    BY Zenon, <1>1 DEF vars, LifeInv, LifecycleTypeOK, StartedIsBound
  <2>2. \A c \in Creates : CreateInv(c)' /\ (Active(c)' <=> Active(c))
    BY Zenon, <1>1 DEF vars, LifeInv, CreateInv, Active, Live
  <2>3. \A h \in Handlers : ViewInv(h)'
    BY Zenon, <1>1 DEF vars, LifeInv, ViewInv
  <2> QED
    BY Zenon, <1>1, <2>1, <2>2, <2>3 DEF vars, LifeInv
<1>2. ASSUME NEW c \in Creates, CreateStep(c)  PROVE LifeInv'
  BY Zenon, <1>2, ClaimKeeps, AdmissionKeeps, AllocateKeeps, BootKeeps, FinishKeeps DEF CreateStep
<1>3. ASSUME NEW c \in Creates, LateTerminate(c) \/ SandboxReady(c) \/ SandboxEnds(c)  PROVE LifeInv'
  BY Zenon, <1>3, SandboxKeeps
<1>4. ASSUME NEW h \in Handlers, Crash(h)  PROVE LifeInv'
  BY Zenon, <1>4, FinishKeeps, TailKeeps
<1> QED
  BY Zenon, <1>1, <1>2, <1>3, <1>4, AttachKeeps, TerminateKeeps, GovernorKeeps, LoopKeeps DEF Next

LEMMA LifeInvariant == Spec => []LifeInv
<1> QED
  BY LifeInit, LifeStep, PTL DEF Spec

(* The row is written with a status these routes know, the handlers are    *)
(* where their code can be, and the errors stay within their bound.        *)
THEOREM LifecycleTyped == Spec => []LifecycleTypeOK
<1>1. LifeInv => LifecycleTypeOK
  BY Zenon DEF LifeInv
<1> QED
  BY <1>1, LifeInvariant, PTL

(* However many requests repeat a create, whatever crashes and whoever     *)
(* else is at work on the workspace, claimCreate lets one of them allocate *)
(* a sandbox, once.                                                        *)
THEOREM CreatesOneSandbox == Spec => []OneSandbox
<1>1. LifeInv => OneSandbox
  BY Zenon DEF LifeInv, Active, OneSandbox
<1> QED
  BY <1>1, LifeInvariant, PTL

(* bindProviderWorkspaceId does nothing when the row has moved on, and yet *)
(* a row that says started or ready names a sandbox: start writes the id   *)
(* itself, and attach's loop moves on only a row that had one when read.   *)
THEOREM StartedRowsAreBound == Spec => []StartedIsBound
<1>1. LifeInv => StartedIsBound
  BY Zenon DEF LifeInv
<1> QED
  BY <1>1, LifeInvariant, PTL

LEMMA TransitionBinds ==
    ASSUME LifecycleTypeOK, NEW status, NEW provider, NEW expected,
           transition(status, provider, expected), row.provider # NoSandbox
    PROVE  row'.provider # NoSandbox
<1>1. row \in Rows
  BY Zenon DEF LifecycleTypeOK
<1> QED
  BY Zenon, <1>1 DEF transition, Rows

(* No step of a create takes the id of a row away. *)
LEMMA CreateBinds ==
    ASSUME LifeInv, NEW c \in Creates, CreateStep(c), row.provider # NoSandbox
    PROVE  row'.provider # NoSandbox
<1>1. LifecycleTypeOK /\ row \in Rows /\ c # NoSandbox
  BY Zenon, LifecycleAssumption DEF LifeInv, LifecycleTypeOK
<1>2. CASE CreateClaim(c)
  BY Zenon, <1>1, <1>2 DEF CreateClaim, Rows
<1>3. CASE CreateBind(c)
  BY Zenon, <1>1, <1>3, BindSets DEF CreateBind
<1>4. CASE CreateRefuse(c) \/ CreateProvision(c) \/ CreateFail(c) \/ CreateStart(c) \/ CreateFinish(c)
  BY Zenon, <1>1, <1>4, TransitionBinds
     DEF CreateRefuse, CreateProvision, CreateFail, CreateStart, CreateFinish
<1>5. CASE Mark(c, c, Statuses)
  BY Zenon, <1>1, <1>5, TransitionBinds DEF Mark
<1>6. CASE UNCHANGED row
  BY Zenon, <1>6
<1>7. \/ CreateClaim(c) \/ CreateBind(c) \/ CreateRefuse(c) \/ CreateProvision(c) \/ CreateFail(c)
      \/ CreateStart(c) \/ CreateFinish(c) \/ Mark(c, c, Statuses) \/ UNCHANGED row
  BY Zenon DEF CreateStep, CreatePoll, CreateAdmit, CreateAdmitThrows, CreateAllocate, CreateBoot,
               CreateUndo, CreateConfirm, CreateCompensate, KillFails, MarkFails, Release
<1> QED
  BY Zenon, <1>2, <1>3, <1>4, <1>5, <1>6, <1>7

(* Nor does any other handler: it only moves the status. *)
LEMMA OthersBind ==
    ASSUME LifeInv, row.provider # NoSandbox,
           \/ \E a \in Attaches : AttachStep(a)
           \/ \E t \in Terminations : TerminateStep(t)
           \/ \E g \in Governors : GovernorStep(g)
           \/ \E l \in Loops : LoopStep(l)
    PROVE  row'.provider # NoSandbox
<1>1. LifecycleTypeOK
  BY Zenon DEF LifeInv
<1>2. UNCHANGED row \/ \E status, provider, expected : transition(status, provider, expected)
  <2>1. CASE \E a \in Attaches : AttachStep(a)
    BY Zenon, <2>1 DEF AttachStep, AttachRead, AttachProvider, AttachAdvance, Kill, KillFails, Mark,
                       MarkFails, Release
  <2>2. CASE \E t \in Terminations : TerminateStep(t)
    BY Zenon, <2>2 DEF TerminateStep, TerminateRead, terminateProjectWorkspace, Kill, KillFails, Mark,
                       MarkFails, Release
  <2>3. CASE \E g \in Governors : GovernorStep(g)
    BY Zenon, <2>3 DEF GovernorStep, GovernorPick, terminateCandidate, Kill, KillFails, Mark, MarkFails,
                       Release
  <2>4. CASE \E l \in Loops : LoopStep(l)
    BY Zenon, <2>4 DEF LoopStep, LoopList, LoopStatus, LoopMark
  <2> QED
    BY Zenon, <2>1, <2>2, <2>3, <2>4
<1> QED
  BY Zenon, <1>1, <1>2, TransitionBinds

(* A sandbox that exists, or has existed, is never forgotten. *)
LEMMA SandboxStays ==
    ASSUME LifeInv, [Next]_vars, NEW c \in Creates, sandbox[c] # "none"
    PROVE  sandbox'[c] # "none"
<1>1. sandbox \in [Creates -> SandboxStates]
  BY Zenon DEF LifeInv, LifecycleTypeOK
<1>2. UNCHANGED sandbox \/ \E d, s : s # "none" /\ sandbox' = [sandbox EXCEPT ![d] = s]
  BY Zenon
     DEF Next, vars, CreateStep, CreateClaim, CreatePoll, CreateAdmit, CreateAdmitThrows, CreateRefuse,
         CreateProvision, CreateAllocate, CreateBind, CreateBoot, CreateUndo, CreateFail, CreateStart,
         CreateConfirm, CreateFinish, CreateCompensate, LateTerminate, SandboxReady, SandboxEnds,
         AttachStep, AttachRead, AttachProvider, AttachAdvance, TerminateStep, TerminateRead,
         terminateProjectWorkspace, GovernorStep, GovernorPick, terminateCandidate, LoopStep, LoopList,
         LoopStatus, LoopMark, Kill, KillFails, Mark, MarkFails, Release, Crash
<1> QED
  BY <1>1, <1>2

(* Whatever interleaves or fails, a row that names a sandbox names it for  *)
(* good: the only other id a step could write is that of a second request  *)
(* with a sandbox, and there is none.                                      *)
THEOREM ProviderNamedOnce == Spec => ProviderIsKept
<1>1. ASSUME LifeInv, LifeInv', [Next]_vars
      PROVE  [row.provider # NoSandbox => row'.provider = row.provider]_vars
  <2> SUFFICES ASSUME Next, row.provider # NoSandbox  PROVE row'.provider = row.provider
    BY Zenon, <1>1
  <2>1. row'.provider # NoSandbox
    BY Zenon, <1>1, CreateBinds, OthersBind DEF Next, LateTerminate, SandboxReady, SandboxEnds, Crash
  <2>2. row.provider \in Creates /\ row'.provider \in Creates
    BY <1>1, <2>1 DEF LifeInv, LifecycleTypeOK, Rows
  <2>3. sandbox'[row.provider] # "none" /\ sandbox'[row'.provider] # "none"
    BY Zenon, <1>1, <2>1, <2>2, SandboxStays DEF LifeInv
  <2> QED
    BY Zenon, <1>1, <2>2, <2>3 DEF LifeInv, Active
<1> QED
  BY <1>1, LifeInvariant, PTL DEF Spec, ProviderIsKept

(* As long as nothing crashes or fails, a create that is over leaves no    *)
(* sandbox running that the row does not name.                             *)
THEOREM OrphanedByFaultsOnly == Spec => []OrphansNeedAFault
<1>1. LifeInv => OrphansNeedAFault
  BY Zenon DEF LifeInv, CreateInv, OrphansNeedAFault
<1> QED
  BY <1>1, LifeInvariant, PTL

----------------------------------------------------------------------------
(* From here on callers wait for the create: ~Overlap.  First the handlers *)
(* that have not claimed the row.                                          *)
LEMMA BystanderSerial ==
    ASSUME LifeInv, SerialInv, NEW h \in Handlers, OnlyMoves(h),
           ~handler[h].created, ~handler'[h].created,
           h \notin Creates \cup Loops => handler[h].pc # "idle" \/ ~CreateInFlight,
           row'.status \in {row.status, "terminated"} \/ ~CreateInFlight,
           Fault \/ UNCHANGED faults
    PROVE  SerialInv' /\ (CreateInFlight' <=> CreateInFlight)
<1>1. ASSUME NEW c \in Creates
      PROVE  /\ handler'[c].created <=> handler[c].created
             /\ handler[c].created => handler'[c] = handler[c]
  BY Zenon, Kinds DEF OnlyMoves
<1>2. CreateInFlight' <=> CreateInFlight
  BY Zenon, <1>1 DEF CreateInFlight
<1>3. ASSUME CreateInFlight PROVE ~OthersInFlight'
  <2>1. ~OthersInFlight
    BY Zenon, <1>3 DEF SerialInv
  <2>2. h \in Creates \cup Loops
    BY Zenon, <1>3, <2>1 DEF OthersInFlight, At
  <2> QED
    BY Zenon, <2>1, <2>2 DEF OthersInFlight, At, OnlyMoves
<1>4. ASSUME NEW c \in Creates, handler'[c].created, row'.status = "ready"
      PROVE  \/ handler'[c].pc \in {"kill", "mark"} /\ faults' > 0
             \/ handler'[c].pc = "release" /\ faults' > 1
  <2>1. handler[c].created /\ handler'[c] = handler[c] /\ CreateInFlight
    BY Zenon, <1>1, <1>4 DEF CreateInFlight
  <2>2. row.status = "ready"
    BY Zenon, <1>4, <2>1
  <2>3. \/ handler[c].pc \in {"kill", "mark"} /\ faults > 0
        \/ handler[c].pc = "release" /\ faults > 1
    BY Zenon, <2>1, <2>2 DEF SerialInv
  <2>4. faults' >= faults /\ faults \in Nat /\ faults' \in Nat
    BY LifecycleAssumption DEF LifeInv, LifecycleTypeOK, Fault
  <2>5. (faults > 0 => faults' > 0) /\ (faults > 1 => faults' > 1)
    BY <2>4
  <2> QED
    BY Zenon, <2>1, <2>3, <2>5
<1> QED
  BY Zenon, <1>2, <1>3, <1>4 DEF SerialInv

(* What a handler that has not claimed the row is still about to do        *)
(* presupposes a row that is past its create.                              *)
LEMMA OthersWait ==
    ASSUME LifeInv, CalmInv, ~OthersInFlight, NEW g \in Handlers, ~handler[g].created,
           handler[g].pc \in {"admit", "attach", "advance", "kill", "mark", "status", "release"}
    PROVE  row.status \in {"ready", "terminated"}
<1>1. Calm(g)
  BY Zenon DEF CalmInv
<1>2. CASE g \in Creates
  <2>1. CreateInv(g)
    BY Zenon, <1>2 DEF LifeInv
  <2> QED
    BY Zenon, <1>1, <2>1 DEF CreateInv, Calm
<1>3. CASE g \in Loops
  BY Zenon, <1>1, <1>3 DEF Calm
<1>4. CASE g \notin Creates \cup Loops
  BY Zenon, <1>4 DEF OthersInFlight, At
<1> QED
  BY Zenon, <1>2, <1>3, <1>4

(* The others keep what they rely on. *)
LEMMA OthersCalm ==
    ASSUME LifeInv, CalmInv, NEW h, OnlyMoves(h), row.attachment => row'.attachment,
           \/ row'.status \in {row.status, "terminated"}
           \/ ~OthersInFlight /\ row.status \notin {"ready", "terminated"},
           \/ \A c \in Creates : Live(c)' => Live(c)
           \/ ~OthersInFlight /\ row.status \notin {"ready", "terminated"},
           NEW g \in Handlers, g # h, ~handler'[g].created
    PROVE  Calm(g)'
<1>1. handler'[g] = handler[g] /\ ~handler[g].created /\ Calm(g)
  BY Zenon DEF OnlyMoves, CalmInv
<1>2. handler[g].pc \in {"admit", "attach", "advance", "kill", "mark", "status", "release"} =>
         row'.status \in {row.status, "terminated"} /\ \A c \in Creates : Live(c)' => Live(c)
  BY Zenon, <1>1, OthersWait
<1> QED
  BY Zenon, <1>1, <1>2 DEF Calm

LEMMA Bystander ==
    ASSUME LifeInv, SerialLifeInv, NEW h \in Handlers, OnlyMoves(h),
           ~handler[h].created, ~handler'[h].created,
           h \notin Creates \cup Loops => handler[h].pc # "idle" \/ ~CreateInFlight,
           row'.status \in {row.status, "terminated"} \/ ~CreateInFlight,
           Fault \/ UNCHANGED faults,
           faults' = 0 =>
               /\ row'.attachment = row.attachment
               /\ \/ row'.status = row.status
                  \/ row'.status = "terminated" /\ ~CreateInFlight /\ \A c \in Creates : ~Live(c)
               /\ \A c \in Creates : Live(c)' => Live(c)
               /\ slot' = slot \/ (row.attachment /\ row.status = "terminated")
               /\ Calm(h)'
    PROVE  SerialLifeInv'
<1>1. SerialInv' /\ (CreateInFlight' <=> CreateInFlight)
  BY Zenon, BystanderSerial DEF SerialLifeInv
<1>2. ASSUME faults' = 0 PROVE CalmInv'
  <2>1. CalmInv
    BY Zenon, <1>2, Faults DEF SerialLifeInv
  <2>2. \A g \in Handlers : ~handler'[g].created => Calm(g)'
    BY Zenon, <1>2, <2>1, OthersCalm
  <2>3. ASSUME NEW c \in Creates, handler'[c].created PROVE Stage(c)'
    <3>1. handler'[c] = handler[c] /\ handler[c].created /\ CreateInFlight /\ Stage(c) /\ CreateInv(c)
      BY Zenon, <2>1, <2>3, Kinds DEF OnlyMoves, CreateInFlight, CalmInv, LifeInv
    <3>2. row'.status = row.status /\ (Live(c)' => Live(c))
      BY Zenon, <1>2, <3>1
    <3>3. slot' = slot \/ handler[c].pc = "release"
      BY Zenon, <1>2, <3>1 DEF Stage, CreateInv
    <3> QED
      BY Zenon, <3>1, <3>2, <3>3 DEF Stage
  <2>4. (~row.attachment => slot = "none")' /\ (row.status = "ready" => slot = "held")'
    BY Zenon, <1>2, <2>1 DEF CalmInv
  <2>5. (row.attachment /\ ~CreateInFlight => row.status \in {"ready", "terminated"})'
    BY Zenon, <1>1, <1>2, <2>1 DEF CalmInv
  <2>6. (row.status = "terminated" => \A c \in Creates : ~Live(c))'
    BY Zenon, <1>2, <2>1 DEF CalmInv
  <2> QED
    BY Zenon, <2>2, <2>3, <2>4, <2>5, <2>6 DEF CalmInv
<1> QED
  BY Zenon, <1>1, <1>2 DEF SerialLifeInv

(* A bystander that changes neither the row nor the slot. *)
LEMMA Onlooker ==
    ASSUME LifeInv, SerialLifeInv, NEW h \in Handlers, OnlyMoves(h),
           ~handler[h].created, ~handler'[h].created,
           h \notin Creates \cup Loops => handler[h].pc # "idle" \/ ~CreateInFlight,
           UNCHANGED <<row, slot>>, Fault \/ UNCHANGED faults,
           \A c \in Creates : Live(c)' => Live(c),
           faults' = 0 => Calm(h)'
    PROVE  SerialLifeInv'
  BY Zenon, Bystander

LEMMA AnswerCalms ==
    ASSUME LifeInv, NEW h \in Handlers, Answer(h)
    PROVE  OnlyMoves(h) /\ ~handler'[h].created /\ Calm(h)'
<1>1. OnlyMoves(h) /\ ~handler'[h].created /\ handler'[h].pc = "idle"
  BY Zenon, AnswerViews
<1> QED
  BY Zenon, <1>1 DEF Calm

LEMMA NotCreated ==
    ASSUME LifeInv, NEW h \in Handlers \ Creates
    PROVE  ~handler[h].created /\ (handler[h].pc # "idle" /\ h \notin Loops => OthersInFlight)
  BY Zenon DEF LifeInv, ViewInv, OthersInFlight, At

(* The shared tail, for a handler that is not a create. *)
LEMMA KillSerial ==
    ASSUME LifeInv, LifeInv', SerialLifeInv, NEW h \in Handlers \ (Creates \cup Loops),
           NEW step \in {"kill", "killOnly"}, NEW next \in {"idle", "mark", "release"}, Kill(h, step, next),
           next = "mark" => step = "kill",
           next = "release" => step = "kill" /\ handler[h].saw.status = "terminated"
    PROVE  SerialLifeInv'
<1> DEFINE c == handler[h].saw.provider
<1>1. ViewInv(h) /\ handler[h].pc = step /\ c # NoSandbox /\ c = row.provider /\ ~handler[h].created
  BY Zenon DEF LifeInv, ViewInv, Kill, At
<1>2. c \in Creates /\ sandbox[c] # "none"
  BY Zenon, <1>1 DEF LifeInv, LifecycleTypeOK, Rows
<1> HIDE DEF c
<1>3. sandbox' = [sandbox EXCEPT ![c] = "gone"] /\ UNCHANGED <<row, slot, faults>>
  BY Zenon DEF Kill, c
<1>4. sandbox'[c] = "gone" /\ \A d \in Creates \ {c} : sandbox'[d] = sandbox[d] /\ ~Active(d)
  BY Zenon, <1>2, <1>3, SandboxKilled DEF LifeInv, Active
<1>5. \A d \in Creates : ~Live(d)'
  BY Zenon, <1>4 DEF Live, Active
<1>6. CASE next = "idle"
  <2>1. Answer(h)
    BY Zenon, <1>6 DEF Kill
  <2> QED
    BY Zenon, <1>1, <1>3, <1>5, <2>1, AnswerCalms, Onlooker
<1>7. CASE next \in {"mark", "release"}
  <2>1. next \in Steps /\ Goto(h, next) /\ LifecycleTypeOK /\ handler[h].pc = "kill"
    BY Zenon, <1>1, <1>7 DEF Kill, Steps, LifeInv
  <2>2. /\ OnlyMoves(h) /\ handler'[h].pc = next /\ ~handler'[h].created
        /\ next = "mark" => handler'[h].saw = handler[h].saw
    BY Zenon, <1>1, <2>1, GotoMoves
  <2>3. ASSUME faults' = 0 PROVE Calm(h)'
    <3>1. Calm(h)
      BY Zenon, <1>1, <1>3, <2>3 DEF SerialLifeInv, CalmInv
    <3> QED
      BY Zenon, <1>3, <1>5, <1>7, <2>1, <2>2, <3>1 DEF Calm
  <2> QED
    BY Zenon, <1>1, <1>3, <1>5, <2>1, <2>2, <2>3, Onlooker
<1> QED
  BY Zenon, <1>6, <1>7

LEMMA TailSerial ==
    ASSUME LifeInv, SerialLifeInv, NEW h \in Handlers \ Creates,
           KillFails(h) \/ MarkFails(h) \/ Release(h) \/ Crash(h)
    PROVE  SerialLifeInv'
<1>1. /\ UNCHANGED <<row, sandbox>> /\ Answer(h) /\ (Fault \/ UNCHANGED faults)
      /\ handler[h].pc # "idle" /\ ~handler[h].created
  BY Zenon, NotCreated DEF KillFails, MarkFails, Release, Crash, At
<1>2. OnlyMoves(h) /\ ~handler'[h].created /\ Calm(h)' /\ \A c \in Creates : Live(c)' => Live(c)
  BY Zenon, <1>1, AnswerCalms DEF Live
<1>3. ASSUME faults' = 0 PROVE slot' = slot \/ (row.attachment /\ row.status = "terminated")
  <2>1. CalmInv /\ ~Fault
    BY Zenon, <1>1, <1>3, Faults DEF SerialLifeInv
  <2>2. Release(h) /\ release /\ handler[h].pc = "release"
    BY Zenon, <2>1 DEF KillFails, MarkFails, Release, Crash, At
  <2>3. Calm(h)
    BY Zenon, <1>1, <2>1 DEF CalmInv
  <2> QED
    BY Zenon, <2>1, <2>2, <2>3 DEF release, Calm, CalmInv
<1> QED
  BY Zenon, <1>1, <1>2, <1>3, Bystander

LEMMA MarkSerial ==
    ASSUME LifeInv, SerialLifeInv, NEW h \in Handlers \ (Creates \cup Loops), NEW expected,
           Mark(h, NoSandbox, expected), expected \in {Statuses, {handler[h].saw.status}}
    PROVE  SerialLifeInv'
<1>1. /\ transition("terminated", NoSandbox, expected) /\ Goto(h, "release")
      /\ UNCHANGED <<slot, sandbox, faults>> /\ handler[h].pc = "mark"
  BY Zenon DEF Mark, At
<1>2. "terminated" \in Statuses /\ "release" \in Steps /\ LifecycleTypeOK
        /\ NoSandbox \in Creates \cup {NoSandbox}
  BY Zenon DEF Statuses, Steps, LifeInv
<1>3. /\ row'.attachment = row.attachment
      /\ row.status \notin expected => row' = row
      /\ row.status \in expected => row'.status = "terminated"
  BY Zenon, <1>1, <1>2, TransitionSets
<1>4. OnlyMoves(h) /\ handler'[h].pc = "release" /\ handler'[h].created = handler[h].created
  BY Zenon, <1>1, <1>2, GotoMoves
<1>5. ~handler[h].created /\ ~CreateInFlight
  BY Zenon, <1>1, NotCreated DEF SerialLifeInv, SerialInv
<1>6. ASSUME faults' = 0 PROVE row'.status = "terminated" /\ \A c \in Creates : ~Live(c)
  <2>1. Calm(h)
    BY Zenon, <1>1, <1>5, <1>6 DEF SerialLifeInv, CalmInv
  <2>2. row.status \in {handler[h].saw.status, "terminated"} /\ row.status # "absent"
    BY Zenon, <1>1, <2>1 DEF Calm
  <2>3. row.status \in Statuses
    BY Zenon, <1>2, <2>2 DEF LifecycleTypeOK, Rows
  <2> QED
    BY Zenon, <1>1, <1>3, <2>1, <2>2, <2>3 DEF Calm
<1>7. faults' = 0 => Calm(h)'
  BY Zenon, <1>4, <1>6 DEF Calm
<1>8. \A c \in Creates : Live(c)' => Live(c)
  BY Zenon, <1>1 DEF Live
<1> QED
  BY Zenon, <1>1, <1>3, <1>4, <1>5, <1>6, <1>7, <1>8, Bystander

(* A handler of a caller that reads the row, or moves on. *)
LEMMA ReadSerial ==
    ASSUME LifeInv, SerialLifeInv, NEW h \in Handlers \ (Creates \cup Loops), NEW step \in Steps,
           Read(h, step), UNCHANGED <<row, slot, sandbox, faults>>,
           handler[h].pc # "idle" \/ ~CreateInFlight,
           step # "admit",
           faults = 0 =>
               /\ row.status # "absent"
               /\ step \in {"attach", "advance", "status"} => row.status = "ready"
               /\ step = "mark" => \A c \in Creates : ~Live(c)
               /\ step = "release" => row.status = "terminated"
               /\ step # "candidate"
    PROVE  SerialLifeInv'
<1>1. /\ OnlyMoves(h) /\ handler'[h].pc = step /\ handler'[h].created = handler[h].created
      /\ handler'[h].saw = View
  BY Zenon, ReadMoves DEF LifeInv
<1>2. ~handler[h].created /\ (\A c \in Creates : Live(c)' <=> Live(c)) /\ View.status = row.status
  BY Zenon, NotCreated DEF Live, View
<1>3. faults' = 0 => Calm(h)'
  BY Zenon, <1>1, <1>2 DEF Calm
<1> QED
  BY Zenon, <1>1, <1>2, <1>3, Onlooker

LEMMA GotoSerial ==
    ASSUME LifeInv, SerialLifeInv, NEW h \in Handlers \ Creates, NEW step \in Steps,
           Goto(h, step), UNCHANGED <<row, slot, sandbox>>, Fault \/ UNCHANGED faults,
           h \notin Loops => handler[h].pc # "idle" \/ ~CreateInFlight,
           step \notin {"admit", "release"},
           faults' = 0 =>
               /\ step \in {"attach", "advance", "kill", "mark", "status"} =>
                     handler[h].pc \in {"attach", "advance", "status"}
               /\ step = "mark" => \A c \in Creates : ~Live(c)
               /\ step = "candidate" => row.attachment
               /\ h \in Loops => step \in {"status", "mark"}
    PROVE  SerialLifeInv'
<1>1. /\ OnlyMoves(h) /\ handler'[h].pc = step /\ handler'[h].created = handler[h].created
      /\ handler'[h].saw = handler[h].saw
  BY Zenon, GotoMoves DEF LifeInv
<1>2. ~handler[h].created /\ (\A c \in Creates : Live(c)' <=> Live(c))
  BY Zenon, NotCreated DEF Live
<1>3. ASSUME faults' = 0 PROVE Calm(h)'
  <2>1. Calm(h)
    BY Zenon, <1>2, <1>3, Faults DEF SerialLifeInv, CalmInv
  <2> QED
    BY Zenon, <1>1, <1>2, <1>3, <2>1 DEF Calm
<1> QED
  BY Zenon, <1>1, <1>2, <1>3, Onlooker

LEMMA AnswerSerial ==
    ASSUME LifeInv, SerialLifeInv, NEW h \in Handlers \ Creates, Answer(h), handler[h].pc # "idle",
           UNCHANGED <<row, slot, sandbox>>, Fault \/ UNCHANGED faults
    PROVE  SerialLifeInv'
<1>1. ~handler[h].created /\ \A c \in Creates : Live(c)' => Live(c)
  BY Zenon, NotCreated DEF Live
<1> QED
  BY Zenon, <1>1, AnswerCalms, Onlooker

(* Between creates, no sandbox runs but the one the row names. *)
LEMMA NoneLive ==
    ASSUME LifeInv, faults = 0, ~CreateInFlight,
           row.provider = NoSandbox \/ sandbox[row.provider] = "gone"
    PROVE  \A c \in Creates : ~Live(c)
<1> SUFFICES ASSUME NEW c \in Creates, Live(c) PROVE FALSE
  BY Zenon
<1>1. row.provider = c
  BY Zenon DEF LifeInv, CreateInv, CreateInFlight
<1> QED
  BY Zenon, <1>1, LifecycleAssumption DEF Live

LEMMA AttachSerial ==
    ASSUME ~Overlap, LifeInv, LifeInv', SerialLifeInv, NEW a \in Attaches, AttachStep(a)
    PROVE  SerialLifeInv'
<1>1. a \in Handlers \ (Creates \cup Loops) /\ a \in Handlers \ Creates /\ ViewInv(a) /\ ~handler[a].created
  BY Zenon, LifecycleAssumption, Kinds DEF LifeInv, ViewInv
<1>2. handler[a].pc # "idle" => ~CreateInFlight
  BY Zenon, <1>1, NotCreated DEF SerialLifeInv, SerialInv
<1>3. CASE AttachRead(a)
  <2> DEFINE step == CASE row.provider = NoSandbox -> "mark"
                       [] row.provider # NoSandbox /\ row.status = "terminated" -> "killOnly"
                       [] OTHER -> "attach"
  <2>1. Read(a, step) /\ UNCHANGED <<row, slot, sandbox, faults>> /\ ~CreateInFlight /\ row.attachment
    BY Zenon, <1>3 DEF AttachRead, MayStart
  <2>2. /\ step \in {"mark", "killOnly", "attach"} /\ step \in Steps
        /\ step = "mark" => row.provider = NoSandbox
        /\ step = "attach" => row.status # "terminated"
    BY Zenon DEF Steps
  <2>3. faults = 0 => row.status \in {"ready", "terminated"}
    BY Zenon, <2>1 DEF SerialLifeInv, CalmInv
  <2>4. faults = 0 /\ step = "mark" => \A c \in Creates : ~Live(c)
    BY Zenon, <2>1, <2>2, NoneLive
  <2> HIDE DEF step
  <2> QED
    BY Zenon, <1>1, <2>1, <2>2, <2>3, <2>4, ReadSerial
<1>4. CASE AttachProvider(a)
  <2>1. /\ handler[a].pc = "attach" /\ UNCHANGED <<row, slot, sandbox>> /\ (Fault \/ UNCHANGED faults)
        /\ handler[a].saw.provider = row.provider
    BY Zenon, <1>1, <1>4 DEF AttachProvider, At, ViewInv
  <2>2. {"advance", "mark", "kill"} \subseteq Steps
    BY Zenon DEF Steps
  <2>3. CASE Answer(a)
    BY Zenon, <1>1, <2>1, <2>3, AnswerSerial
  <2>4. CASE Goto(a, "advance") \/ Goto(a, "kill")
    BY Zenon, <1>1, <2>1, <2>2, <2>4, GotoSerial
  <2>5. CASE Goto(a, "mark") /\ (sandbox[row.provider] = "gone" \/ Fault)
    <3>1. faults' = 0 => \A c \in Creates : ~Live(c)
      BY Zenon, <1>2, <2>1, <2>5, NoneLive, Faults
    <3> QED
      BY Zenon, <1>1, <2>1, <2>2, <2>5, <3>1, GotoSerial
  <2> QED
    BY Zenon, <1>4, <2>1, <2>3, <2>4, <2>5 DEF AttachProvider
<1>5. CASE AttachAdvance(a)
  <2>1. handler[a].pc = "advance" /\ UNCHANGED <<slot, sandbox, faults>>
    BY Zenon, <1>5 DEF AttachAdvance, At
  <2>2. CASE handler[a].saw.status \notin DOMAIN progression
    BY Zenon, <1>1, <1>5, <2>1, <2>2, AnswerSerial DEF AttachAdvance
  <2>3. CASE handler[a].saw.status \in DOMAIN progression
    <3>1. handler[a].saw.status # "ready"
      BY Zenon, <2>3 DEF progression
    <3>2. faults # 0
      BY Zenon, <1>1, <2>1, <3>1 DEF SerialLifeInv, CalmInv, Calm
    <3>3. OnlyMoves(a) /\ ~handler'[a].created
      <4>1. handler \in [Handlers -> HandlerStates] /\ handler' \in [Handlers -> HandlerStates]
        BY Zenon DEF LifeInv, LifecycleTypeOK
      <4>2. handler' = [handler EXCEPT ![a].saw = View']
        BY Zenon, <1>5, <2>3 DEF AttachAdvance
      <4>3. ~handler'[a].created
        BY Zenon, <1>1 DEF LifeInv, ViewInv
      <4> QED
        BY Zenon, <4>1, <4>2, <4>3 DEF OnlyMoves
    <3> QED
      BY Zenon, <1>1, <1>2, <2>1, <3>2, <3>3, Bystander
  <2> QED
    BY Zenon, <2>2, <2>3
<1>6. CASE Kill(a, "killOnly", "idle") \/ Kill(a, "kill", "mark")
  BY Zenon, <1>1, <1>6, KillSerial
<1>7. CASE KillFails(a) \/ MarkFails(a) \/ Release(a)
  BY Zenon, <1>1, <1>7, TailSerial
<1>8. CASE Mark(a, NoSandbox, Statuses)
  BY Zenon, <1>1, <1>8, MarkSerial
<1> QED
  BY Zenon, <1>3, <1>4, <1>5, <1>6, <1>7, <1>8 DEF AttachStep

LEMMA TerminateSerial ==
    ASSUME ~Overlap, LifeInv, LifeInv', SerialLifeInv, NEW t \in Terminations, TerminateStep(t)
    PROVE  SerialLifeInv'
<1>1. t \in Handlers \ (Creates \cup Loops) /\ t \in Handlers \ Creates
  BY Zenon, LifecycleAssumption, Kinds
<1>2. CASE TerminateRead(t) \/ terminateProjectWorkspace(t)
  <2>1. /\ UNCHANGED <<row, slot, sandbox, faults>> /\ ~CreateInFlight /\ row.status # "absent"
        /\ {"release", "mark", "kill"} \subseteq Steps
    BY Zenon, <1>2 DEF TerminateRead, terminateProjectWorkspace, MayStart, Steps
  <2>2. CASE Read(t, "release") /\ row.status = "terminated"
    BY Zenon, <1>1, <2>1, <2>2, ReadSerial
  <2>3. CASE Read(t, "mark") /\ row.provider = NoSandbox
    <3>1. faults = 0 => \A c \in Creates : ~Live(c)
      BY Zenon, <2>1, <2>3, NoneLive
    <3> QED
      BY Zenon, <1>1, <2>1, <2>3, <3>1, ReadSerial
  <2>4. CASE Read(t, "kill")
    BY Zenon, <1>1, <2>1, <2>4, ReadSerial
  <2>5. CASE terminateProjectWorkspace(t)
    BY Zenon, <2>4, <2>5 DEF terminateProjectWorkspace
  <2>6. CASE TerminateRead(t) /\ row.status = "terminated"
    BY Zenon, <2>2, <2>6 DEF TerminateRead
  <2>7. CASE TerminateRead(t) /\ row.status # "terminated" /\ row.provider = NoSandbox
    BY Zenon, <2>3, <2>7 DEF TerminateRead
  <2>8. CASE TerminateRead(t) /\ row.status # "terminated" /\ row.provider # NoSandbox
    BY Zenon, <2>4, <2>8 DEF TerminateRead
  <2> QED
    BY Zenon, <1>2, <2>5, <2>6, <2>7, <2>8
<1>3. CASE Kill(t, "kill", "mark") \/ (handler[t].saw.status = "terminated" /\ Kill(t, "kill", "release"))
  BY Zenon, <1>1, <1>3, KillSerial
<1>4. CASE KillFails(t) \/ MarkFails(t) \/ Release(t)
  BY Zenon, <1>1, <1>4, TailSerial
<1>5. CASE Mark(t, NoSandbox, Statuses)
  BY Zenon, <1>1, <1>5, MarkSerial
<1> QED
  BY Zenon, <1>2, <1>3, <1>4, <1>5 DEF TerminateStep

LEMMA GovernorSerial ==
    ASSUME ~Overlap, LifeInv, LifeInv', SerialLifeInv, NEW g \in Governors, GovernorStep(g)
    PROVE  SerialLifeInv'
<1>1. g \in Handlers \ (Creates \cup Loops) /\ g \in Handlers \ Creates /\ ~handler[g].created
        /\ "candidate" \in Steps /\ "release" \in Steps /\ "kill" \in Steps
  BY Zenon, LifecycleAssumption, Kinds, NotCreated DEF Steps
<1>2. CASE GovernorPick(g)
  <2>1. /\ Goto(g, "candidate") /\ UNCHANGED <<row, slot, sandbox, faults>> /\ ~CreateInFlight
        /\ slot = "held"
    BY Zenon, <1>2 DEF GovernorPick, MayStart
  <2>2. faults' = 0 => row.attachment
    BY Zenon, <2>1 DEF SerialLifeInv, CalmInv
  <2> QED
    BY Zenon, <1>1, <2>1, <2>2, GotoSerial
<1>3. CASE terminateCandidate(g)
  <2>1. handler[g].pc = "candidate" /\ UNCHANGED <<row, slot, sandbox, faults>>
    BY Zenon, <1>3 DEF terminateCandidate, At
  <2>2. ~CreateInFlight
    BY Zenon, <1>1, <2>1, NotCreated DEF SerialLifeInv, SerialInv
  <2>3. faults = 0 => row.status \in {"ready", "terminated"}
    BY Zenon, <1>1, <2>1, <2>2 DEF SerialLifeInv, CalmInv, Calm
  <2>4. row.status = "ready" => row.provider # NoSandbox
    BY Zenon DEF LifeInv, StartedIsBound
  <2>5. CASE row.provider = NoSandbox \/ row.status = "terminated"
    BY Zenon, <1>1, <1>3, <2>1, <2>2, <2>3, <2>4, <2>5, ReadSerial DEF terminateCandidate
  <2>6. CASE ~(row.provider = NoSandbox \/ row.status = "terminated")
    BY Zenon, <1>1, <1>3, <2>1, <2>2, <2>3, <2>6, ReadSerial DEF terminateCandidate
  <2> QED
    BY Zenon, <2>5, <2>6
<1>4. CASE Kill(g, "kill", "mark")
  BY Zenon, <1>1, <1>4, KillSerial
<1>5. CASE KillFails(g) \/ MarkFails(g) \/ Release(g)
  BY Zenon, <1>1, <1>5, TailSerial
<1>6. CASE Mark(g, NoSandbox, {handler[g].saw.status})
  BY Zenon, <1>1, <1>6, MarkSerial
<1> QED
  BY Zenon, <1>2, <1>3, <1>4, <1>5, <1>6 DEF GovernorStep

(* The attachment loop runs beside a create, on rows that are ready. *)
LEMMA LoopSerial ==
    ASSUME LifeInv, SerialLifeInv, NEW l \in Loops, LoopStep(l)
    PROVE  SerialLifeInv'
<1>1. l \in Handlers \ Creates /\ "status" \in Steps /\ "mark" \in Steps /\ "terminated" \in Statuses
        /\ NoSandbox \in Creates \cup {NoSandbox} /\ ViewInv(l) /\ ~handler[l].created /\ LifecycleTypeOK
  BY Zenon, LifecycleAssumption, Kinds, NotCreated DEF Steps, Statuses, LifeInv
<1>2. CASE LoopList(l)
  <2>1. Read(l, "status") /\ UNCHANGED <<row, slot, sandbox, faults>> /\ row.status = "ready"
    BY Zenon, <1>2 DEF LoopList, Listed
  <2>2. /\ OnlyMoves(l) /\ handler'[l].pc = "status" /\ handler'[l].created = handler[l].created
        /\ handler'[l].saw = View
    BY Zenon, <1>1, <2>1, ReadMoves
  <2>3. Calm(l)' /\ \A c \in Creates : Live(c)' => Live(c)
    BY <2>1, <2>2 DEF Calm, View, Live
  <2> QED
    BY Zenon, <1>1, <2>1, <2>2, <2>3, Onlooker
<1>3. CASE LoopStatus(l)
  <2>1. handler[l].pc = "status" /\ UNCHANGED <<row, slot, sandbox, faults>>
    BY Zenon, <1>3 DEF LoopStatus, At
  <2>2. CASE Answer(l)
    BY Zenon, <1>1, <2>1, <2>2, AnswerSerial
  <2>3. CASE Goto(l, "mark") /\ sandbox[handler[l].saw.provider] = "gone"
    <3>1. sandbox[row.provider] = "gone"
      BY Zenon, <1>1, <2>1, <2>3 DEF ViewInv
    <3>2. ASSUME faults = 0 PROVE \A c \in Creates : ~Live(c)
      <4>1. CASE CreateInFlight
        <5>1. PICK d \in Creates : handler[d].created
          BY Zenon, <4>1 DEF CreateInFlight
        <5>2. row.status \in {"ready", "terminated"}
          BY Zenon, <1>1, <2>1, <3>2 DEF SerialLifeInv, CalmInv, Calm
        <5>3. row.status = "terminated"
          BY Zenon, <3>2, <5>1, <5>2 DEF SerialLifeInv, CalmInv, Stage, LifeInv, CreateInv
        <5> QED
          BY Zenon, <3>2, <5>3 DEF SerialLifeInv, CalmInv
      <4>2. CASE ~CreateInFlight
        BY Zenon, <3>1, <3>2, <4>2, NoneLive
      <4> QED
        BY Zenon, <4>1, <4>2
    <3> QED
      BY Zenon, <1>1, <2>1, <2>3, <3>2, GotoSerial
  <2> QED
    BY Zenon, <1>3, <2>2, <2>3 DEF LoopStatus
<1>4. CASE LoopMark(l)
  <2>1. Answer(l) /\ UNCHANGED <<slot, sandbox>> /\ (Fault \/ UNCHANGED faults) /\ handler[l].pc = "mark"
    BY Zenon, <1>4 DEF LoopMark, At
  <2>2. /\ row'.attachment = row.attachment
        /\ \/ row' = row
           \/ row'.status = "terminated" /\ row.status = handler[l].saw.status
    <3>1. CASE transition("terminated", NoSandbox, {handler[l].saw.status})
      BY <1>1, <3>1, TransitionSets
    <3> QED
      BY Zenon, <1>4, <3>1 DEF LoopMark
  <2>3. OnlyMoves(l) /\ ~handler'[l].created /\ Calm(l)' /\ \A c \in Creates : Live(c)' => Live(c)
    BY Zenon, <1>1, <2>1, AnswerCalms DEF Live
  <2>4. ASSUME faults' = 0, row' # row  PROVE ~CreateInFlight /\ \A c \in Creates : ~Live(c)
    <3>1. CalmInv
      BY Zenon, <2>1, <2>4, Faults DEF SerialLifeInv
    <3>2. Calm(l)
      BY Zenon, <1>1, <3>1 DEF CalmInv
    <3>3. row.status = "ready" /\ \A c \in Creates : ~Live(c)
      BY Zenon, <2>1, <2>2, <2>4, <3>2 DEF Calm
    <3>4. \A c \in Creates : ~handler[c].created
      BY Zenon, <3>1, <3>3 DEF CalmInv, Stage, LifeInv, CreateInv
    <3> QED
      BY Zenon, <3>3, <3>4 DEF CreateInFlight
  <2> QED
    BY Zenon, <1>1, <2>1, <2>2, <2>3, <2>4, Bystander
<1> QED
  BY Zenon, <1>2, <1>3, <1>4 DEF LoopStep

----------------------------------------------------------------------------
(* A create that has claimed the row, or claims it. *)
LEMMA Creator ==
    ASSUME LifeInv, LifeInv', SerialLifeInv, NEW c \in Creates, OnlyMoves(c), ~OthersInFlight,
           Active(c) \/ \A d \in Creates : ~Active(d),
           \A d \in Creates \ {c} : sandbox'[d] = sandbox[d],
           Fault \/ UNCHANGED faults,
           handler'[c].created /\ row'.status = "ready" =>
               \/ handler'[c].pc \in {"kill", "mark"} /\ faults' > 0
               \/ handler'[c].pc = "release" /\ faults' > 1,
           faults' = 0 =>
               /\ row'.attachment
               /\ \/ row'.status \in {row.status, "terminated"}
                  \/ row.status \notin {"ready", "terminated"}
               /\ (Live(c)' => Live(c)) \/ row.status \notin {"ready", "terminated"}
               /\ row'.status = "ready" => slot' = "held"
               /\ row'.status = "terminated" => ~Live(c)'
               /\ handler'[c].created => Stage(c)'
               /\ ~handler'[c].created => Calm(c)' /\ row'.status \in {"ready", "terminated"}
    PROVE  SerialLifeInv'
<1>1. ASSUME NEW d \in Creates, d # c
      PROVE  ~Active(d) /\ ~handler'[d].created /\ ~Live(d)'
  <2>1. ~Active(d)
    BY Zenon, <1>1 DEF LifeInv
  <2>2. ~handler[d].created /\ sandbox[d] = "none"
    BY Zenon, <2>1 DEF Active
  <2>3. handler'[d] = handler[d] /\ sandbox'[d] = "none"
    BY Zenon, <1>1, <2>2, Kinds DEF OnlyMoves
  <2> QED
    BY Zenon, <2>1, <2>2, <2>3 DEF Live
<1>2. SerialInv'
  <2>1. ~OthersInFlight'
    BY Zenon DEF OthersInFlight, OnlyMoves, At
  <2> QED
    BY Zenon, <1>1, <2>1 DEF SerialInv
<1>3. ASSUME faults' = 0 PROVE CalmInv'
  <2>1. CalmInv
    BY Zenon, <1>3, Faults DEF SerialLifeInv
  <2>2. \A d \in Creates : Live(d)' => Live(d) \/ row.status \notin {"ready", "terminated"}
    BY Zenon, <1>1, <1>3
  <2>3. \A g \in Handlers : g # c /\ ~handler'[g].created => Calm(g)'
    BY Zenon, <1>3, <2>1, <2>2, OthersCalm
  <2>4. CreateInFlight' <=> handler'[c].created
    BY Zenon, <1>1 DEF CreateInFlight
  <2>5. (row.status = "terminated" => \A d \in Creates : ~Live(d))'
    BY Zenon, <1>1, <1>3
  <2> QED
    BY Zenon, <1>1, <1>3, <2>3, <2>4, <2>5 DEF CalmInv
<1> QED
  BY Zenon, <1>2, <1>3 DEF SerialLifeInv

LEMMA CreatedFacts ==
    ASSUME LifeInv, SerialLifeInv, NEW c \in Creates, handler[c].created
    PROVE  /\ c \in Handlers /\ LifecycleTypeOK /\ CreateInv(c) /\ Active(c) /\ row.attachment
           /\ ~OthersInFlight
           /\ row.status = "ready" => \/ handler[c].pc \in {"kill", "mark"} /\ faults > 0
                                      \/ handler[c].pc = "release" /\ faults > 1
           /\ faults = 0 => CalmInv /\ Stage(c)
           /\ faults = 0 /\ handler[c].pc # "release" => row.status \notin {"ready", "terminated"}
<1>1. c \in Handlers /\ LifecycleTypeOK /\ CreateInv(c) /\ Active(c) /\ row.attachment
  BY Zenon, Kinds DEF LifeInv, Active
<1>2. /\ ~OthersInFlight
      /\ row.status = "ready" => \/ handler[c].pc \in {"kill", "mark"} /\ faults > 0
                                 \/ handler[c].pc = "release" /\ faults > 1
  BY Zenon DEF SerialLifeInv, SerialInv, CreateInFlight
<1>3. faults = 0 => CalmInv /\ Stage(c)
  BY Zenon DEF SerialLifeInv, CalmInv
<1>4. faults = 0 /\ handler[c].pc # "release" => row.status \notin {"ready", "terminated"}
  BY Zenon, <1>1, <1>3 DEF CreateInv, Stage
<1> QED
  BY Zenon, <1>1, <1>2, <1>3, <1>4

(* The create goes on. *)
LEMMA CreatorGoes ==
    ASSUME LifeInv, LifeInv', SerialLifeInv, NEW c \in Creates, handler[c].created,
           handler[c].pc # "release", NEW step \in Steps, Goto(c, step),
           \A d \in Creates \ {c} : sandbox'[d] = sandbox[d],
           Fault \/ UNCHANGED faults,
           row'.status = "ready" =>
               \/ step \in {"kill", "mark"} /\ faults' > 0
               \/ step = "release" /\ faults' > 1,
           faults' = 0 => row'.status # "ready" /\ (row'.status = "terminated" => ~Live(c)') /\ Stage(c)'
    PROVE  SerialLifeInv'
<1>1. /\ c \in Handlers /\ LifecycleTypeOK /\ Active(c) /\ ~OthersInFlight
      /\ faults = 0 => row.status \notin {"ready", "terminated"}
  BY Zenon, CreatedFacts
<1>2. OnlyMoves(c) /\ handler'[c].pc = step /\ handler'[c].created
  BY Zenon, <1>1, GotoMoves
<1>3. row'.attachment
  BY Zenon, <1>2 DEF LifeInv, Active
<1>4. faults' = 0 => row.status \notin {"ready", "terminated"}
  BY Zenon, <1>1, Faults
<1> QED
  BY Zenon, <1>1, <1>2, <1>3, <1>4, Creator

(* The create is over. *)
LEMMA CreatorAnswers ==
    ASSUME LifeInv, LifeInv', SerialLifeInv, NEW c \in Creates, handler[c].created, Answer(c),
           UNCHANGED sandbox, Fault \/ UNCHANGED faults,
           faults' = 0 =>
               /\ row'.attachment
               /\ handler[c].pc = "release" => row'.status = row.status
               /\ row'.status \in {"ready", "terminated"}
               /\ row'.status = "ready" => slot' = "held"
               /\ row'.status = "terminated" => ~Live(c)
    PROVE  SerialLifeInv'
<1>1. /\ c \in Handlers /\ LifecycleTypeOK /\ Active(c) /\ ~OthersInFlight
      /\ faults = 0 /\ handler[c].pc # "release" => row.status \notin {"ready", "terminated"}
  BY Zenon, CreatedFacts
<1>2. OnlyMoves(c) /\ ~handler'[c].created /\ Calm(c)'
  BY Zenon, <1>1, AnswerCalms
<1>3. (Live(c)' <=> Live(c)) /\ \A d \in Creates \ {c} : sandbox'[d] = sandbox[d]
  BY Zenon DEF Live
<1>4. faults' = 0 => row'.status \in {row.status, "terminated"} \/ row.status \notin {"ready", "terminated"}
  BY Zenon, <1>1, Faults
<1> QED
  BY Zenon, <1>1, <1>2, <1>3, <1>4, Creator

LEMMA ClaimSerial ==
    ASSUME ~Overlap, LifeInv, LifeInv', SerialLifeInv, NEW c \in Creates, CreateClaim(c)
    PROVE  SerialLifeInv'
<1>1. /\ c \in Handlers /\ CreateInv(c) /\ handler[c].pc = "idle" /\ ~handler[c].created
      /\ UNCHANGED <<slot, sandbox, faults>> /\ ~OthersInFlight /\ LifecycleTypeOK
  BY Zenon, Kinds DEF LifeInv, CreateClaim, At, CreateInv
<1>2. CASE row.status = "absent" \/ Unclaimed
  <2>1. /\ row' = [row EXCEPT !.status = "requested", !.attachment = TRUE]
        /\ handler' = [handler EXCEPT ![c] = [pc |-> "admit", created |-> TRUE, saw |-> NoView]]
    BY Zenon, <1>2 DEF CreateClaim
  <2>2. ~row.attachment /\ row.status \in {"absent", "requested"}
    BY Zenon, <1>2 DEF Unclaimed, LifeInv
  <2>3. \A d \in Creates : ~Active(d)
    BY Zenon, <2>2 DEF LifeInv
  <2>4. row'.status = "requested" /\ row'.attachment
    BY Zenon, <1>1, <2>1 DEF LifecycleTypeOK, Rows
  <2>5. handler'[c] = [pc |-> "admit", created |-> TRUE, saw |-> NoView] /\ OnlyMoves(c)
    BY Zenon, <1>1, <2>1 DEF LifecycleTypeOK, LifeInv, OnlyMoves
  <2>6. faults' = 0 => slot' = "none"
    BY Zenon, <1>1, <2>2 DEF SerialLifeInv, CalmInv
  <2>7. faults' = 0 => Stage(c)'
    BY <2>4, <2>5, <2>6 DEF Stage
  <2> QED
    BY <1>1, <2>2, <2>3, <2>4, <2>5, <2>7, Creator
<1>3. CASE ~(row.status = "absent" \/ Unclaimed)
  <2>1. Goto(c, "poll") /\ UNCHANGED row /\ "poll" \in Steps
    BY Zenon, <1>3 DEF CreateClaim, Steps
  <2>2. OnlyMoves(c) /\ handler'[c].pc = "poll" /\ ~handler'[c].created
    BY Zenon, <1>1, <2>1, GotoMoves
  <2>3. Calm(c)' /\ \A d \in Creates : Live(d)' => Live(d)
    BY Zenon, <1>1, <2>2, LifecycleAssumption DEF Calm, Live
  <2> QED
    BY Zenon, <1>1, <2>1, <2>2, <2>3, Onlooker
<1> QED
  BY Zenon, <1>2, <1>3

(* A duplicate of the create: it waits, asks for the slot's decision, and  *)
(* frees the slot when the row is terminated.                              *)
LEMMA DuplicateSerial ==
    ASSUME LifeInv, LifeInv', SerialLifeInv, NEW c \in Creates, ~handler[c].created,
           CreatePoll(c) \/ CreateAdmit(c) \/ CreateAdmitThrows(c) \/ Release(c) \/ Crash(c)
    PROVE  SerialLifeInv'
<1>1. /\ c \in Handlers /\ c \notin Loops /\ LifecycleTypeOK /\ UNCHANGED <<row, sandbox>>
      /\ Fault \/ UNCHANGED faults
      /\ "admit" \in Steps /\ "release" \in Steps
  BY Zenon, Kinds, LifecycleAssumption DEF LifeInv, CreatePoll, CreateAdmit, CreateAdmitThrows, Release, Crash, Steps
<1>2. \A d \in Creates : Live(d)' => Live(d)
  BY Zenon, <1>1 DEF Live
<1>3. ASSUME faults' = 0, slot' # slot  PROVE row.attachment /\ row.status = "terminated"
  <2>1. CalmInv /\ ~Fault
    BY Zenon, <1>1, <1>3, Faults DEF SerialLifeInv
  <2>2. Calm(c)
    BY Zenon, <1>1, <2>1 DEF CalmInv
  <2>3. CASE CreateAdmit(c) \/ CreateAdmitThrows(c)
    <3>1. handler[c].pc = "admit" /\ Decide
      BY Zenon, <2>1, <2>3 DEF CreateAdmit, CreateAdmitThrows, At
    <3>2. slot = "none"
      BY Zenon, <1>3, <3>1 DEF Decide
    <3> QED
      BY Zenon, <2>1, <2>2, <3>1, <3>2 DEF Calm, CalmInv
  <2>4. CASE Release(c)
    BY Zenon, <1>3, <2>1, <2>2, <2>4 DEF Release, release, At, Calm, CalmInv
  <2> QED
    BY Zenon, <1>3, <2>1, <2>3, <2>4 DEF CreatePoll, Crash
<1>4. CASE Answer(c)
  BY Zenon, <1>1, <1>2, <1>3, <1>4, AnswerCalms, Bystander
<1>5. CASE CreatePoll(c) /\ ~Answer(c)
  <2>1. row.attachment /\ row.status \in {"ready", "terminated"} /\ Read(c, "admit")
    BY Zenon, <1>5 DEF CreatePoll
  <2>2. /\ OnlyMoves(c) /\ handler'[c].pc = "admit" /\ ~handler'[c].created
        /\ handler'[c].saw = View
    BY Zenon, <1>1, <2>1, ReadMoves
  <2>3. Calm(c)'
    BY <1>1, <2>1, <2>2 DEF Calm, View, LifeInv, StartedIsBound
  <2> QED
    BY Zenon, <1>1, <1>2, <1>3, <2>2, <2>3, Bystander
<1>6. CASE CreateAdmit(c) /\ ~Answer(c)
  <2>1. /\ ~(handler[c].saw.status = "ready" /\ handler[c].saw.provider # NoSandbox)
        /\ handler[c].pc = "admit" /\ UNCHANGED faults
    BY Zenon, <1>6 DEF CreateAdmit, At
  <2>2. Goto(c, "release")
    BY Zenon, <1>6, <2>1 DEF CreateAdmit
  <2>3. OnlyMoves(c) /\ handler'[c].pc = "release" /\ ~handler'[c].created
    BY Zenon, <1>1, <2>2, GotoMoves
  <2>4. ASSUME faults' = 0 PROVE Calm(c)'
    <3>1. Calm(c)
      BY Zenon, <1>1, <2>1, <2>4 DEF SerialLifeInv, CalmInv
    <3>2. row.status = "terminated"
      BY Zenon, <2>1, <3>1 DEF Calm
    <3> QED
      BY Zenon, <1>1, <2>3, <3>2 DEF Calm
  <2> QED
    BY Zenon, <1>1, <1>2, <1>3, <2>3, <2>4, Bystander
<1> QED
  BY Zenon, <1>4, <1>5, <1>6 DEF CreateAdmitThrows, Release, Crash

(* Admission and the provisioning row. *)
LEMMA AdmissionSerial ==
    ASSUME LifeInv, LifeInv', SerialLifeInv, NEW c \in Creates, handler[c].created,
           CreateAdmit(c) \/ CreateAdmitThrows(c) \/ CreateRefuse(c) \/ CreateProvision(c)
    PROVE  SerialLifeInv'
<1>1. /\ c \in Handlers /\ LifecycleTypeOK /\ CreateInv(c) /\ row.attachment
      /\ row.status = "ready" => \/ handler[c].pc \in {"kill", "mark"} /\ faults > 0
                                 \/ handler[c].pc = "release" /\ faults > 1
      /\ faults = 0 => Stage(c)
  BY Zenon, CreatedFacts
<1>2. /\ UNCHANGED sandbox /\ (Fault \/ UNCHANGED faults)
      /\ handler[c].pc \in {"admit", "refuse", "provision"}
  BY Zenon DEF CreateAdmit, CreateAdmitThrows, CreateRefuse, CreateProvision, At
<1>3. /\ row.status # "ready" /\ sandbox[c] = "none" /\ ~Live(c) /\ ~Live(c)'
      /\ \A d \in Creates \ {c} : sandbox'[d] = sandbox[d]
      /\ row.status \in Statuses
  BY Zenon, <1>1, <1>2 DEF CreateInv, Live, LifeInv, LifecycleTypeOK, Rows
<1>4. /\ {"refuse", "provision", "allocate", "release"} \subseteq Steps
      /\ "terminated" \in Statuses /\ "provisioning" \in Statuses /\ NoSandbox \in Creates \cup {NoSandbox}
  BY Zenon DEF Steps, Statuses
<1>5. CASE CreateAdmit(c)
  <2>1. Goto(c, "provision") /\ UNCHANGED <<row, faults>> /\ Decide /\ slot' # "queued" /\ handler[c].pc = "admit"
    BY Zenon, <1>5 DEF CreateAdmit, At
  <2>2. handler'[c].pc = "provision"
    BY Zenon, <1>1, <1>4, <2>1, GotoMoves
  <2>3. faults' = 0 => row'.status = "requested" /\ slot' = "held"
    BY Zenon, <1>1, <2>1 DEF Stage, Decide
  <2>4. faults' = 0 => Stage(c)'
    BY Zenon, <2>2, <2>3 DEF Stage
  <2> QED
    BY Zenon, <1>2, <1>3, <1>4, <2>1, <2>3, <2>4, CreatorGoes
<1>6. CASE CreateAdmitThrows(c)
  <2>1. Goto(c, "refuse") /\ UNCHANGED row /\ handler[c].pc = "admit"
    BY Zenon, <1>6 DEF CreateAdmitThrows, At
  <2>2. handler'[c].pc = "refuse"
    BY Zenon, <1>1, <1>4, <2>1, GotoMoves
  <2>3. faults' = 0 => row'.status = "requested"
    BY Zenon, <1>1, <1>2, <2>1, Faults DEF Stage
  <2>4. faults' = 0 => Stage(c)'
    BY Zenon, <2>2, <2>3 DEF Stage
  <2> QED
    BY Zenon, <1>2, <1>3, <1>4, <2>1, <2>3, <2>4, CreatorGoes
<1>7. CASE CreateRefuse(c)
  <2>1. transition("terminated", NoSandbox, Statuses) /\ Answer(c) /\ handler[c].pc = "refuse"
    BY Zenon, <1>7 DEF CreateRefuse, At
  <2>2. row'.status = "terminated" /\ row'.attachment = row.attachment
    BY Zenon, <1>1, <1>3, <1>4, <2>1, TransitionSets
  <2> QED
    BY Zenon, <1>1, <1>2, <1>3, <2>1, <2>2, CreatorAnswers
<1>8. CASE CreateProvision(c)
  <2>1. handler[c].pc = "provision" /\ UNCHANGED slot
    BY Zenon, <1>8 DEF CreateProvision, At
  <2>2. CASE transition("provisioning", NoSandbox, Statuses) /\ Goto(c, "allocate")
    <3>1. row'.status = "provisioning" /\ handler'[c].pc = "allocate"
      BY Zenon, <1>1, <1>3, <1>4, <2>2, TransitionSets, GotoMoves
    <3>2. faults' = 0 => Stage(c)'
      BY Zenon, <1>1, <1>2, <2>1, <3>1, Faults DEF Stage
    <3> QED
      BY Zenon, <1>2, <1>3, <1>4, <2>1, <2>2, <3>1, <3>2, CreatorGoes
  <2>3. CASE Fault /\ Goto(c, "release") /\ UNCHANGED row
    BY Zenon, <1>3, <1>4, <2>1, <2>3, CreatorGoes, Faults
  <2> QED
    BY Zenon, <1>8, <2>2, <2>3 DEF CreateProvision
<1> QED
  BY Zenon, <1>5, <1>6, <1>7, <1>8

(* From the allocation to the row that says started, or to its failure. *)
LEMMA BootSerial ==
    ASSUME LifeInv, LifeInv', SerialLifeInv, NEW c \in Creates,
           \/ CreateAllocate(c) \/ CreateBind(c) \/ CreateBoot(c)
           \/ CreateUndo(c) \/ CreateFail(c) \/ CreateStart(c)
    PROVE  SerialLifeInv'
<1>1. /\ UNCHANGED slot /\ (Fault \/ UNCHANGED faults)
      /\ handler[c].pc \in {"allocate", "bind", "boot", "undo", "fail", "start"} /\ handler[c].created
  <2>1. /\ UNCHANGED slot /\ (Fault \/ UNCHANGED faults)
        /\ handler[c].pc \in {"allocate", "bind", "boot", "undo", "fail", "start"}
    BY Zenon DEF CreateAllocate, CreateBind, CreateBoot, CreateUndo, CreateFail, CreateStart, At
  <2> QED
    BY Zenon, <2>1 DEF LifeInv, CreateInv
<1>2. /\ c \in Handlers /\ LifecycleTypeOK /\ CreateInv(c) /\ row.attachment
      /\ row.status = "ready" => \/ handler[c].pc \in {"kill", "mark"} /\ faults > 0
                                 \/ handler[c].pc = "release" /\ faults > 1
      /\ faults = 0 => Stage(c)
  BY Zenon, <1>1, CreatedFacts
<1>3. /\ row.status # "ready" /\ handler[c].pc # "release"
      /\ faults' = 0 => faults = 0 /\ row.status = "provisioning" /\ slot' = "held"
  BY Zenon, <1>1, <1>2, Faults DEF Stage
<1>4. {"bind", "boot", "undo", "fail", "start", "confirm", "kill", "release"} \subseteq Steps
        /\ "terminated" \in Statuses /\ "started" \in Statuses
  BY Zenon DEF Steps, Statuses
<1>5. CASE CreateAllocate(c) \/ CreateUndo(c)
  <2>1. PICK step \in {"bind", "fail"} :
           /\ Goto(c, step) /\ UNCHANGED row /\ step \in Steps
           /\ step = "fail" /\ faults' = 0 => ~Live(c)'
           /\ \A d \in Creates \ {c} : sandbox'[d] = sandbox[d]
    <3>1. CASE CreateAllocate(c)
      <4>1. sandbox[c] = "none" /\ UNCHANGED row
        BY Zenon, <1>1, <1>2, <3>1 DEF CreateAllocate, At, CreateInv
      <4>2. CASE sandbox' = [sandbox EXCEPT ![c] = "up"] /\ Goto(c, "bind")
        BY Zenon, <1>4, <4>1, <4>2 DEF LifeInv, LifecycleTypeOK
      <4>3. CASE Goto(c, "fail") /\ UNCHANGED sandbox
        BY Zenon, <1>4, <4>1, <4>3 DEF Live
      <4>4. CASE Fault /\ sandbox' = [sandbox EXCEPT ![c] = "late"] /\ Goto(c, "fail")
        BY Zenon, <1>4, <4>1, <4>4, Faults DEF LifeInv, LifecycleTypeOK
      <4> QED
        BY Zenon, <3>1, <4>2, <4>3, <4>4 DEF CreateAllocate
    <3>2. CASE CreateUndo(c)
      <4>1. Goto(c, "fail") /\ UNCHANGED row
        BY Zenon, <3>2 DEF CreateUndo
      <4>2. CASE sandbox' = [sandbox EXCEPT ![c] = "gone"]
        BY Zenon, <1>4, <4>1, <4>2 DEF LifeInv, LifecycleTypeOK, Live
      <4>3. CASE Fault /\ UNCHANGED sandbox
        BY Zenon, <1>4, <4>1, <4>3, Faults
      <4> QED
        BY Zenon, <3>2, <4>2, <4>3 DEF CreateUndo
    <3> QED
      BY Zenon, <1>5, <3>1, <3>2
  <2>2. handler'[c].pc = step
    BY Zenon, <1>2, <2>1, GotoMoves
  <2>3. faults' = 0 => Stage(c)'
    BY Zenon, <1>3, <2>1, <2>2 DEF Stage
  <2> QED
    BY Zenon, <1>1, <1>3, <2>1, <2>3, CreatorGoes
<1>6. CASE CreateBind(c) \/ CreateBoot(c)
  <2>1. PICK step \in {"boot", "undo", "start"} : Goto(c, step) /\ step \in Steps
    BY Zenon, <1>4, <1>6 DEF CreateBind, CreateBoot
  <2>2. UNCHANGED sandbox /\ row'.status = row.status
    <3>1. CASE bindProviderWorkspaceId(c) /\ UNCHANGED sandbox
      BY Zenon, <1>2, <3>1, BindSets
    <3> QED
      BY Zenon, <1>6, <3>1 DEF CreateBind, CreateBoot
  <2>3. handler'[c].pc = step
    BY Zenon, <1>2, <2>1, GotoMoves
  <2>4. faults' = 0 => Stage(c)'
    BY Zenon, <1>3, <2>1, <2>2, <2>3 DEF Stage
  <2> QED
    BY Zenon, <1>1, <1>3, <2>1, <2>2, <2>4, CreatorGoes
<1>7. CASE CreateFail(c)
  <2>1. UNCHANGED sandbox /\ handler[c].pc = "fail" /\ Goto(c, "release")
    BY Zenon, <1>7 DEF CreateFail, At
  <2>2. CASE transition("terminated", NoSandbox, {"provisioning"})
    <3>1. /\ row.status = "provisioning" => row'.status = "terminated"
          /\ row.status # "provisioning" => row'.status = row.status
      BY Zenon, <1>2, <1>4, <2>2, TransitionSets
    <3>2. handler'[c].pc = "release"
      BY Zenon, <1>2, <1>4, <2>1, GotoMoves
    <3>3. faults' = 0 => Stage(c)' /\ ~Live(c)'
      BY Zenon, <1>2, <1>3, <2>1, <3>1, <3>2 DEF Stage, Live
    <3> QED
      BY Zenon, <1>1, <1>3, <1>4, <2>1, <3>1, <3>3, CreatorGoes
  <2>3. CASE Fault /\ UNCHANGED row
    BY Zenon, <1>1, <1>3, <1>4, <2>1, <2>3, CreatorGoes, Faults
  <2> QED
    BY Zenon, <1>7, <2>2, <2>3 DEF CreateFail
<1>8. CASE CreateStart(c)
  <2>1. UNCHANGED sandbox /\ handler[c].pc = "start"
    BY Zenon, <1>8 DEF CreateStart, At
  <2>2. CASE transition("started", c, Statuses) /\ Goto(c, "confirm")
    <3>1. row.status \in Statuses /\ c \in Creates \cup {NoSandbox}
      BY Zenon, <1>2 DEF LifeInv, LifecycleTypeOK, Rows
    <3>2. row'.status = "started" /\ handler'[c].pc = "confirm"
      BY Zenon, <1>2, <1>4, <2>2, <3>1, TransitionSets, GotoMoves
    <3>3. faults' = 0 => Stage(c)'
      BY Zenon, <1>3, <3>2 DEF Stage
    <3> QED
      BY Zenon, <1>1, <1>3, <1>4, <2>1, <2>2, <3>2, <3>3, CreatorGoes
  <2>3. CASE Fault /\ Goto(c, "kill") /\ UNCHANGED row
    BY Zenon, <1>1, <1>3, <1>4, <2>1, <2>3, CreatorGoes, Faults
  <2> QED
    BY Zenon, <1>8, <2>2, <2>3 DEF CreateStart
<1> QED
  BY Zenon, <1>5, <1>6, <1>7, <1>8

(* From started to ready, or to the compensation and the slot's release. *)
LEMMA FinishSerial ==
    ASSUME LifeInv, LifeInv', SerialLifeInv, NEW c \in Creates, handler[c].created,
           \/ CreateConfirm(c) \/ CreateFinish(c) \/ CreateCompensate(c) \/ KillFails(c)
           \/ Mark(c, c, Statuses) \/ MarkFails(c) \/ Release(c) \/ Crash(c)
    PROVE  SerialLifeInv'
<1>1. /\ c \in Handlers /\ LifecycleTypeOK /\ CreateInv(c) /\ row.attachment
      /\ row.status = "ready" => \/ handler[c].pc \in {"kill", "mark"} /\ faults > 0
                                 \/ handler[c].pc = "release" /\ faults > 1
      /\ faults = 0 => Stage(c)
  BY Zenon, CreatedFacts
<1>2. /\ {"finish", "kill", "mark", "release"} \subseteq Steps
      /\ "terminated" \in Statuses /\ "ready" \in Statuses /\ row.status \in Statuses
      /\ NoSandbox \in Creates \cup {NoSandbox} /\ c \in Creates \cup {NoSandbox}
  BY Zenon, <1>1 DEF Steps, Statuses, LifeInv, LifecycleTypeOK, Rows
<1>3. /\ Fault => faults' > 0 /\ (faults > 0 => faults' > 1)
      /\ faults' = 0 => ~Fault
  BY <1>1 DEF Fault, LifecycleTypeOK
<1>4. CASE CreateConfirm(c)
  <2>1. UNCHANGED <<row, slot, sandbox, faults>> /\ handler[c].pc = "confirm"
    BY Zenon, <1>4 DEF CreateConfirm, At
  <2>2. PICK step \in {"finish", "kill"} : Goto(c, step) /\ step \in Steps
    BY Zenon, <1>2, <1>4 DEF CreateConfirm
  <2>3. handler'[c].pc = step /\ row.status # "ready"
    BY Zenon, <1>1, <2>1, <2>2, GotoMoves
  <2>4. faults' = 0 => Stage(c)' /\ row.status = "started"
    BY Zenon, <1>1, <2>1, <2>2, <2>3 DEF Stage
  <2> QED
    BY Zenon, <2>1, <2>2, <2>3, <2>4, CreatorGoes
<1>5. CASE CreateFinish(c)
  <2>1. UNCHANGED <<slot, sandbox>> /\ handler[c].pc = "finish"
    BY Zenon, <1>5 DEF CreateFinish, At
  <2>2. CASE transition("ready", NoSandbox, Statuses) /\ Answer(c) /\ UNCHANGED faults
    <3>1. row'.status = "ready" /\ row'.attachment
      BY Zenon, <1>1, <1>2, <2>2, TransitionSets
    <3>2. faults' = 0 => slot' = "held"
      BY Zenon, <1>1, <2>1, <2>2 DEF Stage
    <3> QED
      BY Zenon, <2>1, <2>2, <3>1, <3>2, CreatorAnswers
  <2>3. CASE Fault /\ Goto(c, "kill")
    BY Zenon, <1>2, <1>3, <2>1, <2>3, CreatorGoes
  <2> QED
    BY Zenon, <1>5, <2>2, <2>3 DEF CreateFinish
<1>6. CASE CreateCompensate(c)
  <2>1. /\ handler[c].pc = "kill" /\ sandbox' = [sandbox EXCEPT ![c] = "gone"] /\ Goto(c, "mark")
        /\ UNCHANGED <<row, slot, faults>>
    BY Zenon, <1>6 DEF CreateCompensate, At
  <2>2. handler'[c].pc = "mark"
    BY Zenon, <1>1, <1>2, <2>1, GotoMoves
  <2>3. ~Live(c)' /\ \A d \in Creates \ {c} : sandbox'[d] = sandbox[d]
    BY Zenon, <2>1 DEF LifeInv, LifecycleTypeOK, Live
  <2>4. faults' = 0 => Stage(c)' /\ row'.status = "started"
    BY Zenon, <1>1, <2>1, <2>2, <2>3 DEF Stage
  <2>5. row'.status = "ready" => faults' > 0
    BY Zenon, <1>1, <2>1
  <2> QED
    BY Zenon, <1>2, <2>1, <2>3, <2>4, <2>5, CreatorGoes
<1>7. CASE KillFails(c) \/ Crash(c)
  <2>1. UNCHANGED <<row, slot, sandbox>> /\ Fault /\ Answer(c)
    BY Zenon, <1>7 DEF KillFails, Crash
  <2> QED
    BY Zenon, <1>3, <2>1, CreatorAnswers
<1>8. CASE Mark(c, c, Statuses)
  <2>1. /\ handler[c].pc = "mark" /\ transition("terminated", c, Statuses) /\ Goto(c, "release")
        /\ UNCHANGED <<slot, sandbox, faults>>
    BY Zenon, <1>8 DEF Mark, At
  <2>2. row'.status = "terminated" /\ handler'[c].pc = "release"
    BY Zenon, <1>1, <1>2, <2>1, TransitionSets, GotoMoves
  <2>3. faults' = 0 => ~Live(c)' /\ Stage(c)'
    BY Zenon, <1>1, <2>1, <2>2 DEF Stage, Live
  <2> QED
    BY Zenon, <1>2, <2>1, <2>2, <2>3, CreatorGoes
<1>9. CASE MarkFails(c)
  <2>1. handler[c].pc = "mark" /\ Fault /\ Goto(c, "release") /\ UNCHANGED <<row, slot, sandbox>>
    BY Zenon, <1>9 DEF MarkFails, At
  <2>2. row'.status = "ready" => faults' > 1
    BY Zenon, <1>1, <1>3, <2>1
  <2> QED
    BY Zenon, <1>2, <1>3, <2>1, <2>2, CreatorGoes
<1>10. CASE Release(c)
  <2>1. handler[c].pc = "release" /\ Answer(c) /\ (Fault \/ UNCHANGED faults) /\ UNCHANGED <<row, sandbox>>
    BY Zenon, <1>10 DEF Release, At
  <2>2. faults' = 0 => row.status = "terminated" /\ ~Live(c)
    BY Zenon, <1>1, <1>3, <2>1 DEF Stage
  <2> QED
    BY Zenon, <1>1, <2>1, <2>2, CreatorAnswers
<1> QED
  BY Zenon, <1>4, <1>5, <1>6, <1>7, <1>8, <1>9, <1>10

(* The sandbox's own steps. *)
LEMMA SandboxSerial ==
    ASSUME LifeInv, LifeInv', SerialLifeInv, NEW c \in Creates,
           LateTerminate(c) \/ SandboxReady(c) \/ SandboxEnds(c)
    PROVE  SerialLifeInv'
<1>1. UNCHANGED <<row, slot, handler, faults>> /\ Live(c) /\ c \in Handlers
  BY Zenon, Kinds DEF LateTerminate, SandboxReady, SandboxEnds, Live
<1>2. PICK s \in {"ready", "gone"} : sandbox' = [sandbox EXCEPT ![c] = s]
  BY Zenon DEF LateTerminate, SandboxReady, SandboxEnds
<1>3. /\ \A d \in Creates \ {c} : sandbox'[d] = sandbox[d]
      /\ \A d \in Creates : Live(d)' => Live(d)
  BY Zenon, <1>1, <1>2 DEF LifeInv, LifecycleTypeOK, Live
<1>4. OnlyMoves(c)
  BY Zenon, <1>1 DEF OnlyMoves, LifeInv, LifecycleTypeOK
<1>5. CASE ~handler[c].created
  <2>1. faults' = 0 => Calm(c)'
    BY Zenon, <1>1, <1>3, <1>5 DEF SerialLifeInv, CalmInv, Calm
  <2> QED
    BY Zenon, <1>1, <1>3, <1>4, <1>5, <2>1, Onlooker
<1>6. CASE handler[c].created
  <2>1. /\ Active(c) /\ row.attachment /\ ~OthersInFlight
        /\ row.status = "ready" => \/ handler[c].pc \in {"kill", "mark"} /\ faults > 0
                                   \/ handler[c].pc = "release" /\ faults > 1
        /\ faults = 0 => CalmInv /\ Stage(c)
    BY Zenon, <1>6, CreatedFacts
  <2>2. faults' = 0 => Stage(c)' /\ (row.status = "ready" => slot = "held") /\ row.status # "terminated"
    BY Zenon, <1>1, <1>3, <2>1 DEF Stage, CalmInv
  <2> QED
    BY Zenon, <1>1, <1>3, <1>4, <1>6, <2>1, <2>2, Creator
<1> QED
  BY Zenon, <1>5, <1>6

----------------------------------------------------------------------------
LEMMA SerialInit == Init => SerialLifeInv
<1> SUFFICES ASSUME Init PROVE SerialLifeInv
  BY Zenon
<1>1. /\ ~row.attachment /\ row.status \notin {"ready", "terminated"} /\ slot = "none"
      /\ \A h \in Handlers : ~handler[h].created /\ handler[h].pc = "idle"
  <2>1. \A h \in Handlers : handler[h] = Idle
    BY Zenon DEF Init
  <2>2. \A h \in Handlers : ~handler[h].created /\ handler[h].pc = "idle"
    BY <2>1 DEF Idle
  <2> QED
    BY <2>2 DEF Init, NoRow
<1>2. \A h \in Handlers : Calm(h)
  BY Zenon, <1>1 DEF Calm
<1>3. SerialInv
  BY Zenon, <1>1, Kinds DEF SerialInv, CreateInFlight
<1> QED
  BY Zenon, <1>1, <1>2, <1>3, Kinds DEF SerialLifeInv, CalmInv

LEMMA SerialStep ==
    ASSUME ~Overlap, LifeInv, LifeInv', SerialLifeInv, [Next]_vars
    PROVE  SerialLifeInv'
<1>1. CASE UNCHANGED vars
  <2>1. (CreateInFlight' <=> CreateInFlight) /\ (OthersInFlight' <=> OthersInFlight)
    BY Zenon, <1>1 DEF vars, CreateInFlight, OthersInFlight, At
  <2>2. SerialInv'
    BY Zenon, <1>1, <2>1 DEF vars, SerialLifeInv, SerialInv
  <2>3. (\A c \in Creates : (Live(c)' <=> Live(c)) /\ (Stage(c) => Stage(c)'))
    BY Zenon, <1>1 DEF vars, Live, Stage
  <2>4. \A h \in Handlers : Calm(h) => Calm(h)'
    BY Zenon, <1>1, <2>3 DEF vars, Calm
  <2>5. faults = 0 => CalmInv'
    BY Zenon, <1>1, <2>1, <2>3, <2>4 DEF vars, SerialLifeInv, CalmInv
  <2> QED
    BY Zenon, <1>1, <2>2, <2>5 DEF vars, SerialLifeInv
<1>2. ASSUME NEW c \in Creates, CreateStep(c)  PROVE SerialLifeInv'
  <2>1. CASE CreateClaim(c)
    BY Zenon, <2>1, ClaimSerial
  <2>2. CASE CreateAllocate(c) \/ CreateBind(c) \/ CreateBoot(c) \/ CreateUndo(c) \/ CreateFail(c) \/ CreateStart(c)
    BY Zenon, <2>2, BootSerial
  <2>3. ASSUME ~handler[c].created
        PROVE  ~(\/ CreateRefuse(c) \/ CreateProvision(c) \/ CreateConfirm(c) \/ CreateFinish(c)
                 \/ CreateCompensate(c) \/ KillFails(c) \/ Mark(c, c, Statuses) \/ MarkFails(c))
    <3>1. handler[c].pc \in {"idle", "poll", "admit", "release"}
      BY Zenon, <2>3 DEF LifeInv, CreateInv
    <3> QED
      BY Zenon, <3>1 DEF CreateRefuse, CreateProvision, CreateConfirm, CreateFinish, CreateCompensate,
                  KillFails, Mark, MarkFails, At
  <2>4. handler[c].created => ~CreatePoll(c)
    BY Zenon DEF LifeInv, CreateInv, CreatePoll, At
  <2>5. CASE handler[c].created
    BY Zenon, <1>2, <2>1, <2>2, <2>4, <2>5, AdmissionSerial, FinishSerial DEF CreateStep
  <2>6. CASE ~handler[c].created
    BY Zenon, <1>2, <2>1, <2>2, <2>3, <2>6, DuplicateSerial DEF CreateStep
  <2> QED
    BY Zenon, <2>5, <2>6
<1>3. ASSUME NEW c \in Creates, LateTerminate(c) \/ SandboxReady(c) \/ SandboxEnds(c)  PROVE SerialLifeInv'
  BY Zenon, <1>3, SandboxSerial
<1>4. ASSUME NEW h \in Handlers, Crash(h)  PROVE SerialLifeInv'
  <2>1. CASE h \in Creates
    BY Zenon, <1>4, <2>1, DuplicateSerial, FinishSerial
  <2>2. CASE h \notin Creates
    BY Zenon, <1>4, <2>2, TailSerial
  <2> QED
    BY Zenon, <2>1, <2>2
<1> QED
  BY Zenon, <1>1, <1>2, <1>3, <1>4, AttachSerial, TerminateSerial, GovernorSerial, LoopSerial DEF Next

LEMMA SerialInvariant ==
    ASSUME ~Overlap
    PROVE  Spec => [](LifeInv /\ SerialLifeInv)
<1>1. LifeInv /\ LifeInv' /\ SerialLifeInv /\ [Next]_vars => SerialLifeInv'
  BY Zenon, SerialStep
<1> QED
  BY <1>1, SerialInit, LifeInvariant, PTL DEF Spec

(* When callers wait for the create, a sandbox that runs holds the         *)
(* workspace's slot as long as nothing has failed: every handler frees the *)
(* slot after the row says terminated, and the row says so only after the  *)
(* provider has confirmed the absence.                                     *)
THEOREM RunningSandboxIsCounted ==
    ASSUME ~Overlap
    PROVE  Spec => []SandboxHasSlot
<1>1. ASSUME LifeInv, SerialLifeInv PROVE SandboxHasSlot
  <2> SUFFICES ASSUME faults = 0, NEW c \in Creates, Live(c) PROVE slot = "held"
    BY Zenon DEF SandboxHasSlot
  <2>1. CalmInv /\ CreateInv(c) /\ Active(c)
    BY Zenon, <1>1 DEF SerialLifeInv, LifeInv, Active, Live
  <2>2. CASE handler[c].created
    <3>1. Stage(c)
      BY Zenon, <2>1, <2>2 DEF CalmInv
    <3> QED
      BY Zenon, <2>1, <2>2, <3>1 DEF CreateInv, Stage, Live
  <2>3. CASE ~handler[c].created
    <3>1. row.attachment /\ ~CreateInFlight
      BY Zenon, <1>1, <2>1, <2>3 DEF LifeInv, CreateInFlight, Active
    <3> QED
      BY Zenon, <2>1, <3>1 DEF CalmInv
  <2> QED
    BY Zenon, <2>2, <2>3
<1> QED
  BY <1>1, SerialInvariant, PTL

(* When callers wait for the create and nothing has failed, a terminated   *)
(* row has no sandbox running.                                             *)
THEOREM TerminatedRowsAreAbsent ==
    ASSUME ~Overlap
    PROVE  Spec => []TerminatedIsAbsent
<1>1. ASSUME SerialLifeInv PROVE TerminatedIsAbsent
  BY Zenon, <1>1 DEF SerialLifeInv, CalmInv, TerminatedIsAbsent
<1> QED
  BY <1>1, SerialInvariant, PTL

(* When callers wait for the create, a create that failed frees its slot   *)
(* with a row that is not ready, unless two errors met.                    *)
THEOREM FailedCreatesAreNotReady ==
    ASSUME ~Overlap
    PROVE  Spec => []FailedCreateNeverReady
<1>1. ASSUME LifeInv, SerialLifeInv PROVE FailedCreateNeverReady
  <2> SUFFICES ASSUME faults <= 1, NEW c \in Creates, handler[c].created, At(c, "release"),
                      row.status = "ready"
               PROVE  FALSE
    BY Zenon DEF FailedCreateNeverReady
  <2>1. handler[c].pc = "release" /\ faults > 1
    BY Zenon, <1>1 DEF SerialLifeInv, SerialInv, At
  <2>2. faults \in Nat
    BY <1>1 DEF LifeInv, LifecycleTypeOK
  <2> QED
    BY <2>1, <2>2
<1> QED
  BY <1>1, SerialInvariant, PTL

=============================================================================
