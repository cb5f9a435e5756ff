--------------------------- MODULE RequestWorkflow ---------------------------
(***************************************************************************)
(* One browser tab in which an employee drafts, submits or discards a new   *)
(* Request.  Four parts of the code interact here:                          *)
(*                                                                          *)
(*   - the session draft store  (employee/server-draft-store.js),           *)
(*   - the workflow reference of an editor                                  *)
(*     (employee/server-request-workflow.js),                               *)
(*   - the editors themselves   (employee/production-application.js,        *)
(*     renderRequest): every navigation makes a new one, and the promises   *)
(*     of an editor that was left keep running,                             *)
(*   - the backend, external to the repository, as                          *)
(*     docs/PRODUCTION-PERSISTENCE-CONTRACT.md and the browser test fixture *)
(*     describe it.                                                         *)
(*                                                                          *)
(* A workflow id is issued per idempotency key, so a key stands for both;   *)
(* a reference is "known" once its workflowId arrived.                      *)
(***************************************************************************)
EXTENDS Integers, FiniteSets

CONSTANTS
  Editors,    \* renderRequest() calls, each the birth of one editor
  Repeats,    \* those opened for the repeat of an earlier Request: no draft store
  Keys,       \* idempotency keys crypto.randomUUID() may hand out
  Contents,   \* what the form can hold
  Blank,      \* the content of an untouched form
  Refused,    \* contents validatedDraft() refuses to store
  MaxLate,    \* bound: requests without a waiting page that may still arrive
  NoEditor, NoKey, NoContent

ASSUME RepeatsAssumption == Repeats \subseteq Editors
ASSUME MaxLateAssumption == MaxLate \in Nat
ASSUME BlankAssumption == Blank \in Contents
ASSUME RefusedAssumption == Refused \subseteq Contents
ASSUME SentinelAssumption ==
  NoEditor \notin Editors /\ NoKey \notin Keys /\ NoContent \notin Contents

VARIABLES
  local,      \* the tab's draft: what sessionStorage holds, and the store's cached workflow
  session,    \* "active", or "expired" by the local clock
  life,       \* editor -> "unborn", "live", or "dead" after a reload of the page
  current,    \* the editor for which isCurrentEditor() holds
  content,    \* editor -> the values in its form
  ref,        \* editor -> the workflow reference of its createServerRequestWorkflow
  starting,   \* editor -> the start promise is pending
  op,         \* editor -> the step of Submit or Discard it awaits, under lockDraftMutation
  finished,   \* editor -> its workflow was closed by finish() or abandon()
  attempted,  \* editor -> startAttempted: the first edit was seen
  timer,      \* editor -> the 400 ms draft timer is armed
  wire,       \* requests on their way to the backend
  replies,    \* answers on their way back
  server,     \* key -> state of the backend's workflow
  revision,   \* key -> the payload of the first revision of its Request
  used,       \* history: keys handed out
  allocated   \* history: keys handed out by backed editors for the present draft

localVars  == <<local, session, allocated>>
editorVars == <<life, current, content, ref, starting, op, finished,
                attempted, timer>>
netVars    == <<wire, replies, server, revision, used>>
vars       == <<localVars, editorVars, netVars>>

-----------------------------------------------------------------------------

\* References and drafts
NoRef == [key |-> NoKey, known |-> FALSE]
Ref   == [key : Keys, known : BOOLEAN] \cup {NoRef}

Draft   == [content : Contents \cup {NoContent}, ref : Ref, own : BOOLEAN]
NoDraft == [content |-> NoContent, ref |-> NoRef, own |-> TRUE]
Local   == [stored : Draft, cached : Ref]
Cleared == [stored |-> NoDraft, cached |-> NoRef]

Backed(e) == e \notin Repeats

HasDraft(l) == l.stored.content # NoContent

\* Mutant: load() drops the workflow kept beside the draft
LoadWithoutWorkflow(l) ==
  IF session = "active" /\ (HasDraft(l) => l.stored.own) THEN [l EXCEPT !.cached = NoRef]
  ELSE Cleared

\* load(): a draft of another session, or any draft once the session has
\* expired, is removed; an empty store leaves the cache as it is
Load(l) ==
  IF session = "active" /\ HasDraft(l) /\ l.stored.own
  THEN [l EXCEPT !.cached = l.stored.ref]
  ELSE IF session = "active" /\ ~HasDraft(l) THEN l ELSE Cleared

\* save(value): keeps the cached workflow beside the new content; a refused
\* save leaves everything as it was
Save(l, c) ==
  IF session = "active" /\ c \notin Refused
  THEN [l EXCEPT !.stored = [content |-> c, ref |-> l.cached, own |-> TRUE]]
  ELSE l

\* Mutant: saveWorkflow() without the comparison of keys
SaveWorkflowUnchecked(l, r, expected) ==
  LET m == Load(l) IN
  IF HasDraft(m) THEN [stored |-> [m.stored EXCEPT !.ref = r], cached |-> r] ELSE m

\* saveWorkflow(value, expectedKey): completes only the draft that still
\* carries the expected key
SaveWorkflow(l, r, expected) ==
  LET m == Load(l) IN
  IF HasDraft(m) /\ m.cached.key = expected
  THEN [stored |-> [m.stored EXCEPT !.ref = r], cached |-> r]
  ELSE m

\* Mutant: the workflow of a repeat writes to the draft store as well
WriteRefAlways(e, l, r, expected) == SaveWorkflow(l, r, expected)

\* Mutant: the reserved key is not recorded beside the draft
WriteRefNever(e, l, r, expected) == l

\* draftStore?.saveWorkflow?.() of editor e's workflow
WriteRef(e, l, r, expected) == IF Backed(e) THEN SaveWorkflow(l, r, expected) ELSE l

\* Messages
Calls    == {"start", "abandon", "readback", "create"}
Terminal == {"submitted", "abandoned"}
States   == {"none", "started"} \cup Terminal
Request  == [op : Calls, key : Keys, body : Contents, from : Editors \cup {NoEditor}]
Reply    == [op : Calls, key : Keys, from : Editors, ok : BOOLEAN, status : States]

RequestOf(e, call, k, c) == [op |-> call, key |-> k, body |-> c, from |-> e]

\* The call an editor's Submit or Discard is waiting for
Pending(e) == CASE op[e] \in {"submitStart", "discardStart"} -> "start"
                [] op[e] = "idle" -> "none"
                [] OTHER -> op[e]

Init ==
  /\ local = Cleared
  /\ session = "active"
  /\ life = [e \in Editors |-> "unborn"]
  /\ current = NoEditor
  /\ content = [e \in Editors |-> Blank]
  /\ ref = [e \in Editors |-> NoRef]
  /\ starting = [e \in Editors |-> FALSE]
  /\ op = [e \in Editors |-> "idle"]
  /\ finished = [e \in Editors |-> FALSE]
  /\ attempted = [e \in Editors |-> FALSE]
  /\ timer = [e \in Editors |-> FALSE]
  /\ wire = {}
  /\ replies = {}
  /\ server = [k \in Keys |-> "none"]
  /\ revision = [k \in Keys |-> NoContent]
  /\ used = {}
  /\ allocated = {}

-----------------------------------------------------------------------------
(* The life of an editor *)

\* Mutant: restores without looking whether there was a draft
OpenNewUnchecked(e) ==
  /\ Backed(e) /\ life[e] = "unborn" /\ current = NoEditor
  /\ local' = Load(local)
  /\ content' = [content EXCEPT ![e] = local'.stored.content]
  /\ ref' = [ref EXCEPT ![e] = local'.cached]
  /\ life' = [life EXCEPT ![e] = "live"]
  /\ current' = e
  /\ UNCHANGED <<session, allocated, starting, op, finished, attempted, timer, netVars>>

\* renderRequest() after its catalogue arrived: a new-Request editor restores
\* the stored draft and its reference
OpenNew(e) ==
  /\ Backed(e) /\ life[e] = "unborn" /\ current = NoEditor
  /\ local' = Load(local)
  /\ IF HasDraft(local')
     THEN /\ content' = [content EXCEPT ![e] = local'.stored.content]
          /\ ref' = [ref EXCEPT ![e] = local'.cached]
          /\ UNCHANGED allocated
     ELSE /\ allocated' = {}
          /\ UNCHANGED <<content, ref>>
  /\ life' = [life EXCEPT ![e] = "live"]
  /\ current' = e
  /\ UNCHANGED <<session, starting, op, finished, attempted, timer, netVars>>

\* The same for a queued repeat: filled from the earlier Request, no draft store
OpenRepeat(e) ==
  /\ ~Backed(e) /\ life[e] = "unborn" /\ current = NoEditor
  /\ \E c \in Contents \ {Blank} : content' = [content EXCEPT ![e] = c]
  /\ life' = [life EXCEPT ![e] = "live"]
  /\ current' = e
  /\ UNCHANGED <<localVars, ref, starting, op, finished, attempted, timer, netVars>>

\* Another view, another renderRequest(), the inactivity lock: isCurrentEditor()
\* turns false for good, the editor's promises and timer go on
Leave ==
  /\ current # NoEditor
  /\ current' = NoEditor
  /\ UNCHANGED <<localVars, life, content, ref, starting, op, finished,
                 attempted, timer, netVars>>

\* The same requests, nobody waiting for their answers
Late(requests) == {[r EXCEPT !.from = NoEditor] : r \in requests}

\* A reload ends every editor; what it had asked for may still reach the backend.
\* signIn: the session is a new one, with another expiry, to which the stored
\* draft does not belong
Reload(signIn) ==
  /\ \E e \in Editors : life[e] = "live"
  /\ signIn \/ session = "active"
  /\ life' = [e \in Editors |-> IF life[e] = "live" THEN "dead" ELSE life[e]]
  /\ current' = NoEditor
  /\ content' = [e \in Editors |-> Blank]
  /\ ref' = [e \in Editors |-> NoRef]
  /\ starting' = [e \in Editors |-> FALSE]
  /\ op' = [e \in Editors |-> "idle"]
  /\ finished' = [e \in Editors |-> FALSE]
  /\ attempted' = [e \in Editors |-> FALSE]
  /\ timer' = [e \in Editors |-> FALSE]
  /\ \E late \in SUBSET wire : wire' = Late(late)
  /\ Cardinality(wire') <= MaxLate
  /\ replies' = {}
  /\ session' = "active"
  /\ local' = [stored |-> [local.stored EXCEPT !.own = @ /\ (signIn => ~HasDraft(local))],
               cached |-> NoRef]
  /\ UNCHANGED <<server, revision, used, allocated>>

\* sessionExpiry passes on the local clock
Expire ==
  /\ session = "active"
  /\ session' = "expired"
  /\ UNCHANGED <<local, allocated, editorVars, netVars>>

-----------------------------------------------------------------------------
(* Editing *)

\* ensureStarted() on the draft l, sending also the requests in more: nothing to
\* do when the workflow is known or its start pending; otherwise a key is
\* reserved, recorded beside the draft and only then sent
EnsureStarted(e, l) ==
  \/ /\ ref[e].known \/ starting[e]
     /\ local' = l
     /\ UNCHANGED <<ref, starting, wire, used, allocated>>
  \/ /\ ~starting[e] /\ ref[e] = NoRef
     /\ \E k \in Keys \ used :
          LET r == [key |-> k, known |-> FALSE] IN
          /\ ref' = [ref EXCEPT ![e] = r]
          /\ local' = WriteRef(e, l, r, NoKey)
          /\ wire' = wire \cup {RequestOf(e, "start", k, Blank)}
          /\ used' = used \cup {k}
          /\ allocated' = IF Backed(e) THEN allocated \cup {k} ELSE allocated
     /\ starting' = [starting EXCEPT ![e] = TRUE]
  \/ /\ ~starting[e] /\ ref[e].key # NoKey /\ ~ref[e].known
     /\ wire' = wire \cup {RequestOf(e, "start", ref[e].key, Blank)}
     /\ starting' = [starting EXCEPT ![e] = TRUE]
     /\ local' = l
     /\ UNCHANGED <<ref, used, allocated>>

Usable(e) == current = e /\ op[e] = "idle"

\* saveDraft() of editor e
SaveDraft(e, c) == IF Backed(e) THEN Save(local, c) ELSE local

\* An input event.  The first one saves at once and starts the workflow, later
\* ones arm the 400 ms timer
FirstEdit(e) ==
  /\ Usable(e) /\ ~attempted[e]
  /\ \E c \in Contents :
       /\ content' = [content EXCEPT ![e] = c]
       /\ EnsureStarted(e, SaveDraft(e, c))
  /\ attempted' = [attempted EXCEPT ![e] = TRUE]
  /\ timer' = [timer EXCEPT ![e] = FALSE]
  /\ UNCHANGED <<session, life, current, op, finished, replies, server, revision>>

LaterEdit(e) ==
  /\ Usable(e) /\ attempted[e]
  /\ \E c \in Contents : content' = [content EXCEPT ![e] = c]
  /\ timer' = [timer EXCEPT ![e] = Backed(e)]
  /\ UNCHANGED <<localVars, life, current, ref, starting, op, finished,
                 attempted, netVars>>

\* moveToStep(): saves at once and starts nothing
MoveStep(e) ==
  /\ Usable(e)
  /\ local' = SaveDraft(e, content[e])
  /\ timer' = [timer EXCEPT ![e] = FALSE]
  /\ UNCHANGED <<session, allocated, life, current, content, ref, starting,
                 op, finished, attempted, netVars>>

\* Mutant: the timer saves for an editor that was left
SaveTimerAlways(e) ==
  /\ timer[e]
  /\ timer' = [timer EXCEPT ![e] = FALSE]
  /\ local' = SaveDraft(e, content[e])
  /\ UNCHANGED <<session, allocated, life, current, content, ref, starting,
                 op, finished, attempted, netVars>>

\* The timer of an editor that is no longer current saves nothing
SaveTimer(e) ==
  /\ timer[e]
  /\ timer' = [timer EXCEPT ![e] = FALSE]
  /\ local' = IF current = e THEN SaveDraft(e, content[e]) ELSE local
  /\ UNCHANGED <<session, allocated, life, current, content, ref, starting,
                 op, finished, attempted, netVars>>

-----------------------------------------------------------------------------
(* Submit and Discard *)

\* The click on Submit: ensureStarted() and, when it resolves at once, the create
Submit(e) ==
  /\ Usable(e) /\ content[e] \in Contents \ (Refused \cup {Blank})
  /\ IF ref[e].known
     THEN /\ wire' = wire \cup {RequestOf(e, "create", ref[e].key, content[e])}
          /\ op' = [op EXCEPT ![e] = "create"]
          /\ UNCHANGED <<local, ref, starting, used, allocated>>
     ELSE /\ EnsureStarted(e, local)
          /\ op' = [op EXCEPT ![e] = "submitStart"]
  /\ UNCHANGED <<session, life, current, content, finished, attempted, timer,
                 replies, server, revision>>

\* Mutant: clear() forgets the cached workflow
ConcludeKeepingCache(e) ==
  IF current = e
  THEN /\ local' = IF Backed(e) THEN [local EXCEPT !.stored = NoDraft] ELSE local
       /\ allocated' = IF Backed(e) THEN {} ELSE allocated
       /\ timer' = [timer EXCEPT ![e] = FALSE]
       /\ current' = NoEditor
  ELSE UNCHANGED <<local, allocated, timer, current>>

\* Mutant: a repeat clears the draft store too
ConcludeAnyDraft(e) ==
  IF current = e
  THEN /\ local' = Cleared
       /\ allocated' = {}
       /\ timer' = [timer EXCEPT ![e] = FALSE]
       /\ current' = NoEditor
  ELSE UNCHANGED <<local, allocated, timer, current>>

\* What a current editor does once its draft has become a Request or was
\* discarded: the store is cleared, the timer stopped, the view left.  An editor
\* that is no longer current does none of it
Conclude(e) ==
  IF current = e
  THEN /\ local' = IF Backed(e) THEN Cleared ELSE local
       /\ allocated' = IF Backed(e) THEN {} ELSE allocated
       /\ timer' = [timer EXCEPT ![e] = FALSE]
       /\ current' = NoEditor
  ELSE UNCHANGED <<local, allocated, timer, current>>

\* Mutant: a start whose answer is missing counts as untouched
DiscardUnconfirmed(e) ==
  /\ Usable(e) /\ ~ref[e].known
  /\ finished' = [finished EXCEPT ![e] = TRUE]
  /\ Conclude(e)
  /\ UNCHANGED <<session, life, content, ref, starting, op, attempted, netVars>>

\* The confirmed Discard of a form that never reserved a key ends locally
DiscardUntouched(e) ==
  /\ Usable(e) /\ ref[e] = NoRef
  /\ finished' = [finished EXCEPT ![e] = TRUE]
  /\ Conclude(e)
  /\ UNCHANGED <<session, life, content, ref, starting, op, attempted, netVars>>

\* Otherwise abandon(): ensureStarted(), then the abandon call
DiscardStarted(e) ==
  /\ Usable(e) /\ ref[e] # NoRef
  /\ IF ref[e].known
     THEN /\ wire' = wire \cup {RequestOf(e, "abandon", ref[e].key, Blank)}
          /\ op' = [op EXCEPT ![e] = "abandon"]
          /\ UNCHANGED <<local, ref, starting, used, allocated>>
     ELSE /\ EnsureStarted(e, local)
          /\ op' = [op EXCEPT ![e] = "discardStart"]
  /\ UNCHANGED <<session, life, current, content, finished, attempted, timer,
                 replies, server, revision>>

-----------------------------------------------------------------------------
(* Answers *)

\* The start promise resolves: the reference is completed, in the store only if
\* its draft still carries the key; Submit goes on to create if its editor is
\* still current, Discard goes on to abandon in any case
AfterStart(e, k) ==
  \/ /\ op[e] = "submitStart" /\ current = e
     /\ op' = [op EXCEPT ![e] = "create"]
     /\ wire' = wire \cup {RequestOf(e, "create", k, content[e])}
  \/ /\ op[e] = "submitStart" /\ current # e
     /\ op' = [op EXCEPT ![e] = "idle"]
     /\ UNCHANGED wire
  \/ /\ op[e] = "discardStart"
     /\ op' = [op EXCEPT ![e] = "abandon"]
     /\ wire' = wire \cup {RequestOf(e, "abandon", k, Blank)}
  \/ /\ op[e] \notin {"submitStart", "discardStart"}
     /\ UNCHANGED <<op, wire>>

\* Mutant: the answer completes whatever draft is stored
ReceiveStartUnchecked(e) ==
  \E m \in replies :
    /\ m.from = e /\ m.op = "start"
    /\ replies' = replies \ {m}
    /\ LET r == [key |-> m.key, known |-> TRUE] IN
       /\ ref' = [ref EXCEPT ![e] = r]
       /\ local' = WriteRef(e, local, r, local.stored.ref.key)
    /\ starting' = [starting EXCEPT ![e] = FALSE]
    /\ AfterStart(e, m.key)
    /\ UNCHANGED <<session, allocated, life, current, content, finished,
                   attempted, timer, server, revision, used>>

ReceiveStart(e) ==
  \E m \in replies :
    /\ m.from = e /\ m.op = "start"
    /\ replies' = replies \ {m}
    /\ LET r == [key |-> m.key, known |-> TRUE] IN
       /\ ref' = [ref EXCEPT ![e] = r]
       /\ local' = WriteRef(e, local, r, m.key)
    /\ starting' = [starting EXCEPT ![e] = FALSE]
    /\ AfterStart(e, m.key)
    /\ UNCHANGED <<session, allocated, life, current, content, finished,
                   attempted, timer, server, revision, used>>

\* The step succeeded: the workflow is closed before the editor looks whether it
\* is still current
Finish(e) ==
  /\ finished' = [finished EXCEPT ![e] = TRUE]
  /\ op' = [op EXCEPT ![e] = "idle"]
  /\ Conclude(e)
  /\ UNCHANGED <<session, life, content, ref, starting, attempted>>

\* The step failed: the finally block releases the lock, the draft stays
Release(e) ==
  /\ op' = [op EXCEPT ![e] = "idle"]
  /\ UNCHANGED <<localVars, life, current, content, ref, starting, finished,
                 attempted, timer>>

\* createRequest() resolves, or the backend answers 409
ReceiveCreate(e) ==
  \E m \in replies :
    /\ m.from = e /\ m.op = "create"
    /\ replies' = replies \ {m}
    /\ IF m.ok THEN Finish(e) ELSE Release(e)
    /\ UNCHANGED <<wire, server, revision, used>>

\* abandonRequestWorkflow() resolves; on 409 REQUEST_STATE_CONFLICT the same key
\* is read back
ReceiveAbandon(e) ==
  \E m \in replies :
    /\ m.from = e /\ m.op = "abandon"
    /\ replies' = replies \ {m}
    /\ \/ m.ok /\ Finish(e) /\ UNCHANGED wire
       \/ /\ ~m.ok
          /\ op' = [op EXCEPT ![e] = "readback"]
          /\ wire' = wire \cup {RequestOf(e, "readback", m.key, Blank)}
          /\ UNCHANGED <<localVars, life, current, content, ref, starting,
                         finished, attempted, timer>>
    /\ UNCHANGED <<server, revision, used>>

\* The conflict is settled only when the readback says "submitted"
ReceiveReadback(e) ==
  \E m \in replies :
    /\ m.from = e /\ m.op = "readback"
    /\ replies' = replies \ {m}
    /\ IF m.status = "submitted" THEN Finish(e) ELSE Release(e)
    /\ UNCHANGED <<wire, server, revision, used>>

\* A call of e fails in the browser: refused, lost on the way, or answered too
\* late.  Its request may still be processed.  Only an authority failure
\* invalidates the editor, and a failed Submit does so even when its editor was
\* left: editorRenderGeneration moves on and the present editor loses its place
DropCall(e, call) ==
  LET mine(x) == x.from = e /\ x.op = call IN
  /\ \E r \in wire \cup replies : mine(r)
  /\ \/ wire' = {r \in wire : ~mine(r)}
     \/ /\ wire' = {r \in wire : ~mine(r)} \cup Late({r \in wire : mine(r)})
        /\ Cardinality({r \in wire' : r.from = NoEditor}) <= MaxLate
  /\ replies' = {m \in replies : ~mine(m)}

\* Mutant: the lock is released on success only
FailKeepingLock(e, call, authority) ==
  /\ DropCall(e, call)
  /\ starting' = [starting EXCEPT ![e] = @ /\ call # "start"]
  /\ current' = IF authority /\ (current = e \/ op[e] \in {"submitStart", "create"})
                THEN NoEditor ELSE current
  /\ UNCHANGED <<localVars, life, content, ref, op, finished, attempted, timer,
                 server, revision, used>>

\* Mutant: finish() runs in the finally block of Submit
FailFinishing(e, call, authority) ==
  /\ DropCall(e, call)
  /\ starting' = [starting EXCEPT ![e] = @ /\ call # "start"]
  /\ op' = [op EXCEPT ![e] = IF Pending(e) = call THEN "idle" ELSE @]
  /\ finished' = [finished EXCEPT ![e] = @ \/ op[e] = "create"]
  /\ current' = IF authority /\ (current = e \/ op[e] \in {"submitStart", "create"})
                THEN NoEditor ELSE current
  /\ UNCHANGED <<localVars, life, content, ref, attempted, timer,
                 server, revision, used>>

Fail(e, call, authority) ==
  /\ DropCall(e, call)
  /\ starting' = [starting EXCEPT ![e] = @ /\ call # "start"]
  /\ op' = [op EXCEPT ![e] = IF Pending(e) = call THEN "idle" ELSE @]
  /\ current' = IF authority /\ (current = e \/ op[e] \in {"submitStart", "create"})
                THEN NoEditor ELSE current
  /\ UNCHANGED <<localVars, life, content, ref, finished, attempted, timer,
                 server, revision, used>>

-----------------------------------------------------------------------------
(* The backend *)

Accepts(r) ==
  CASE r.op \in {"start", "readback"} -> TRUE
    [] r.op = "abandon" -> server[r.key] # "submitted"
    [] r.op = "create" -> \/ server[r.key] = "started"
                          \/ server[r.key] = "submitted" /\ revision[r.key] = r.body

StatusAfter(r) ==
  CASE r.op \in {"start", "readback"} ->
         IF server[r.key] = "none" THEN "started" ELSE server[r.key]
    [] r.op = "abandon" /\ Accepts(r) -> "abandoned"
    [] r.op = "create" /\ Accepts(r) -> "submitted"
    [] OTHER -> server[r.key]

Serve(e) ==
  \E r \in wire :
    /\ r.from = e
    /\ wire' = wire \ {r}
    /\ server' = [server EXCEPT ![r.key] = StatusAfter(r)]
    /\ revision' = IF r.op = "create" /\ Accepts(r)
                   THEN [revision EXCEPT ![r.key] = r.body] ELSE revision
    /\ replies' = IF e = NoEditor THEN replies
                  ELSE replies \cup {[op |-> r.op, key |-> r.key, from |-> e,
                                      ok |-> Accepts(r), status |-> StatusAfter(r)]}
    /\ UNCHANGED <<localVars, editorVars, used>>

-----------------------------------------------------------------------------

\* The transport settles every call of a page that stays open
Settle(e) ==
  \/ ReceiveStart(e) \/ ReceiveCreate(e) \/ ReceiveAbandon(e) \/ ReceiveReadback(e)
  \/ \E call \in Calls, authority \in BOOLEAN : Fail(e, call, authority)

User(e) ==
  \/ OpenNew(e) \/ OpenRepeat(e)
  \/ FirstEdit(e) \/ LaterEdit(e) \/ MoveStep(e) \/ SaveTimer(e)
  \/ Submit(e) \/ DiscardUntouched(e) \/ DiscardStarted(e)

Next ==
  \/ \E e \in Editors : User(e) \/ Settle(e)
  \/ \E e \in Editors \cup {NoEditor} : Serve(e)
  \/ Leave \/ Expire
  \/ \E signIn \in BOOLEAN : Reload(signIn)

Spec == Init /\ [][Next]_vars

FairSpec == Spec /\ \A e \in Editors : WF_vars(Settle(e))

-----------------------------------------------------------------------------
(* Properties *)

\* Every variable keeps its type.
TypeOK ==
  /\ local \in Local
  /\ session \in {"active", "expired"}
  /\ life \in [Editors -> {"unborn", "live", "dead"}]
  /\ current \in Editors \cup {NoEditor}
  /\ content \in [Editors -> Contents]
  /\ ref \in [Editors -> Ref]
  /\ starting \in [Editors -> BOOLEAN]
  /\ op \in [Editors -> {"idle", "submitStart", "create", "discardStart", "abandon",
                         "readback"}]
  /\ finished \in [Editors -> BOOLEAN]
  /\ attempted \in [Editors -> BOOLEAN]
  /\ timer \in [Editors -> BOOLEAN]
  /\ wire \subseteq Request
  /\ replies \subseteq Reply
  /\ server \in [Keys -> States]
  /\ revision \in [Keys -> Contents \cup {NoContent}]
  /\ used \subseteq Keys
  /\ allocated \subseteq Keys

\* An editor that closed its workflow (finish(), or abandon() resolving) knows
\* that the backend has a terminal state for it, whatever was lost, repeated or
\* overtaken on the way.
FinishedIsTerminal ==
  \A e \in Editors : finished[e] /\ ref[e] # NoRef => server[ref[e].key] \in Terminal

\* A draft is started under one idempotency key only, across navigation, reload
\* and retries ("Repeated starts use the same key").
OneKeyPerDraft == Cardinality(allocated) <= 1

\* The stored draft never carries the key of an earlier draft: neither a late
\* answer nor a save with a stale cached workflow revives one.
KeyBelongsToDraft ==
  HasDraft(local) /\ local.stored.own => local.stored.ref.key \in allocated \cup {NoKey}

\* What a reload would resume is what the present editor submits under.
ResumeKeepsKey ==
  \A e \in Editors :
    current = e /\ Backed(e) /\ HasDraft(local) => local.stored.ref.key = ref[e].key

\* The stored draft is what the present form holds, unless a save is due: no
\* timer or answer of an editor that was left writes over it.
StoredIsCurrent ==
  \A e \in Editors :
    /\ current = e /\ Backed(e) /\ attempted[e] /\ ~timer[e] /\ session = "active"
    /\ content[e] \notin Refused
    => HasDraft(local) /\ local.stored.content = content[e]

\* Within a session the stored draft is removed only when the backend holds a
\* terminal state for every workflow that was started for it.
ClearedOnlyWhenTerminal ==
  [][ session = "active" /\ HasDraft(local) /\ local.stored.own /\ ~HasDraft(local')
      => \A k \in allocated : server[k] \in Terminal ]_vars

\* The late answer to a start never changes the content or the key of the draft
\* that is stored by then, whichever editor wrote it.
LateStartKeepsDraft ==
  [][ \A e \in Editors :
        starting[e] /\ ~starting'[e] /\ HasDraft(local')
        => /\ local'.stored.content = local.stored.content
           /\ local'.stored.ref.key = local.stored.ref.key ]_vars

\* The lock Submit and Discard put on the form is released.
LockReleased == \A e \in Editors : op[e] # "idle" ~> op[e] = "idle"
=============================================================================
