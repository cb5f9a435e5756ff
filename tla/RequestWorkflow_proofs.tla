----------------------- MODULE RequestWorkflow_proofs -----------------------
(***************************************************************************)
(* Type correctness of RequestWorkflow, and its safety properties through   *)
(* inductive invariants, for every set of editors, keys and contents.       *)
(***************************************************************************)
EXTENDS RequestWorkflow, FiniteSetTheorems, TLAPS

USE BlankAssumption, SentinelAssumption

-----------------------------------------------------------------------------
(* Lemmas about the draft store *)

\* The store's operations stay within its type.
LEMMA LoadType == ASSUME NEW l \in Local PROVE Load(l) \in Local
  BY DEF Load, Local, Cleared, NoDraft, NoRef, Draft, Ref, HasDraft

LEMMA SaveType == ASSUME NEW l \in Local, NEW c \in Contents PROVE Save(l, c) \in Local
  BY DEF Save, Local, Draft, Ref

LEMMA SaveWorkflowType ==
  ASSUME NEW l \in Local, NEW r \in Ref, NEW k PROVE SaveWorkflow(l, r, k) \in Local
<1>1. Load(l) \in Local
  BY LoadType
<1> QED
  BY <1>1 DEF SaveWorkflow, Local, Draft

LEMMA SaveDraftType ==
  ASSUME local \in Local, NEW e, NEW c \in Contents PROVE SaveDraft(e, c) \in Local
  BY SaveType DEF SaveDraft

-----------------------------------------------------------------------------
(* Types *)

\* ensureStarted() keeps the types of everything it may change.
LEMMA EnsureStartedType ==
  ASSUME TypeOK, NEW e \in Editors, NEW l \in Local, EnsureStarted(e, l)
  PROVE  /\ ref' \in [Editors -> Ref]
         /\ local' \in Local
         /\ starting' \in [Editors -> BOOLEAN]
         /\ wire' \subseteq Request
         /\ used' \subseteq Keys
         /\ allocated' \subseteq Keys
<1>1. CASE ref[e].known \/ starting[e]
  <2>1. CASE /\ local' = l /\ UNCHANGED <<ref, starting, wire, used, allocated>>
    BY <2>1 DEF TypeOK
  <2> QED
    BY <1>1, <2>1 DEF EnsureStarted, NoRef, TypeOK
<1>2. CASE ~starting[e] /\ ref[e] = NoRef
  <2>1. PICK k \in Keys \ used :
          LET r == [key |-> k, known |-> FALSE] IN
          /\ ref' = [ref EXCEPT ![e] = r]
          /\ local' = WriteRef(e, l, r, NoKey)
          /\ wire' = wire \cup {RequestOf(e, "start", k, Blank)}
          /\ used' = used \cup {k}
          /\ allocated' = IF Backed(e) THEN allocated \cup {k} ELSE allocated
          /\ starting' = [starting EXCEPT ![e] = TRUE]
    BY <1>2 DEF EnsureStarted, NoRef, WriteRef
  <2>2. [key |-> k, known |-> FALSE] \in Ref
    BY DEF Ref
  <2>3. local' \in Local
    BY <2>1, <2>2, SaveWorkflowType DEF WriteRef
  <2> QED
    BY <2>1, <2>2, <2>3 DEF TypeOK, Request, Calls, RequestOf
<1>3. CASE ~starting[e] /\ ref[e].key # NoKey /\ ~ref[e].known
  <2>1. ref[e].key \in Keys
    BY <1>3 DEF TypeOK, Ref, NoRef
  <2>2. /\ wire' = wire \cup {RequestOf(e, "start", ref[e].key, Blank)}
        /\ starting' = [starting EXCEPT ![e] = TRUE]
        /\ local' = l
        /\ UNCHANGED <<ref, used, allocated>>
    BY <1>3 DEF EnsureStarted, NoRef
  <2> QED
    BY <2>1, <2>2 DEF TypeOK, Request, Calls, RequestOf
<1> QED
  BY <1>1, <1>2, <1>3 DEF EnsureStarted

\* What a call's request and its answer carry stays in their types.
LEMMA RequestType ==
  ASSUME NEW e \in Editors, NEW call \in Calls, NEW k \in Keys, NEW c \in Contents
  PROVE  RequestOf(e, call, k, c) \in Request
  BY DEF RequestOf, Request

LEMMA LateType ==
  ASSUME NEW R, R \subseteq Request
  PROVE  Late(R) \subseteq Request /\ \A r \in Late(R) : r.from = NoEditor
  BY DEF Late, Request

\* The end of a Submit or Discard keeps the types.
LEMMA ConcludeType ==
  ASSUME TypeOK, NEW e \in Editors, Conclude(e)
  PROVE  /\ local' \in Local
         /\ allocated' \subseteq Keys
         /\ timer' \in [Editors -> BOOLEAN]
         /\ current' \in Editors \cup {NoEditor}
<1>1. Cleared \in Local
  BY DEF Cleared, Local, Draft, NoDraft, NoRef, Ref
<1> QED
  BY <1>1 DEF TypeOK, Conclude

\* So do the two ways in which a call of Submit or Discard ends.
LEMMA FinishType ==
  ASSUME TypeOK, NEW e \in Editors, Finish(e), wire' \subseteq Request,
         replies' \subseteq Reply, UNCHANGED <<server, revision, used>>
  PROVE  TypeOK'
<1>1. Conclude(e)
  BY DEF Finish
<1>2. /\ finished' \in [Editors -> BOOLEAN]
      /\ op' \in [Editors -> {"idle", "submitStart", "create", "discardStart", "abandon",
                              "readback"}]
  BY DEF Finish, TypeOK
<1> QED
  BY <1>1, <1>2, ConcludeType DEF Finish, TypeOK

LEMMA ReleaseType ==
  ASSUME TypeOK, NEW e \in Editors, Release(e), wire' \subseteq Request,
         replies' \subseteq Reply, UNCHANGED <<server, revision, used>>
  PROVE  TypeOK'
  BY DEF Release, TypeOK, localVars

\* Every step keeps the types.
LEMMA TypeStep == TypeOK /\ [Next]_vars => TypeOK'
<1> SUFFICES ASSUME TypeOK, [Next]_vars PROVE TypeOK'
  OBVIOUS
<1> USE DEF localVars, editorVars, netVars
<1>1. ASSUME NEW e \in Editors, OpenNew(e) PROVE TypeOK'
  <2>1. local' \in Local
    BY <1>1, LoadType DEF OpenNew, TypeOK
  <2>2. HasDraft(local') => local'.stored.content \in Contents
    BY <2>1 DEF Local, Draft, HasDraft
  <2>3. local'.cached \in Ref
    BY <2>1 DEF Local
  <2> QED
    BY <1>1, <2>1, <2>2, <2>3 DEF OpenNew, TypeOK
<1>2. ASSUME NEW e \in Editors, OpenRepeat(e) PROVE TypeOK'
  BY <1>2 DEF OpenRepeat, TypeOK
<1>3. ASSUME NEW e \in Editors, FirstEdit(e) PROVE TypeOK'
  <2>1. PICK c \in Contents : /\ content' = [content EXCEPT ![e] = c]
                              /\ EnsureStarted(e, SaveDraft(e, c))
    BY <1>3 DEF FirstEdit
  <2>2. SaveDraft(e, c) \in Local
    BY SaveDraftType DEF TypeOK
  <2> QED
    BY <1>3, <2>1, <2>2, EnsureStartedType DEF FirstEdit, TypeOK
<1>4. ASSUME NEW e \in Editors, LaterEdit(e) PROVE TypeOK'
  BY <1>4 DEF LaterEdit, TypeOK, Backed
<1>5. ASSUME NEW e \in Editors, MoveStep(e) PROVE TypeOK'
  <2>1. SaveDraft(e, content[e]) \in Local
    BY SaveDraftType DEF TypeOK
  <2> QED
    BY <1>5, <2>1 DEF MoveStep, TypeOK
<1>6. ASSUME NEW e \in Editors, SaveTimer(e) PROVE TypeOK'
  <2>1. SaveDraft(e, content[e]) \in Local
    BY SaveDraftType DEF TypeOK
  <2> QED
    BY <1>6, <2>1 DEF SaveTimer, TypeOK
<1>7. ASSUME NEW e \in Editors, Submit(e) PROVE TypeOK'
  <2>1. CASE ref[e].known
    <3>1. ref[e].key \in Keys
      BY <2>1 DEF TypeOK, Ref, NoRef
    <3> QED
      BY <1>7, <2>1, <3>1, RequestType DEF Submit, TypeOK, Calls
  <2>2. CASE ~ref[e].known
    <3>1. EnsureStarted(e, local)
      BY <1>7, <2>2 DEF Submit
    <3>2. local \in Local
      BY DEF TypeOK
    <3> QED
      BY <1>7, <2>2, <3>1, <3>2, EnsureStartedType DEF Submit, TypeOK
  <2> QED
    BY <2>1, <2>2
<1>8. ASSUME NEW e \in Editors, DiscardUntouched(e) PROVE TypeOK'
  BY <1>8, ConcludeType DEF DiscardUntouched, TypeOK
<1>9. ASSUME NEW e \in Editors, DiscardStarted(e) PROVE TypeOK'
  <2>1. CASE ref[e].known
    <3>1. ref[e].key \in Keys
      BY <2>1 DEF TypeOK, Ref, NoRef
    <3>2. RequestOf(e, "abandon", ref[e].key, Blank) \in Request
      BY <3>1, RequestType DEF Calls
    <3> QED
      BY <1>9, <2>1, <3>2 DEF DiscardStarted, TypeOK
  <2>2. CASE ~ref[e].known
    <3>1. EnsureStarted(e, local)
      BY <1>9, <2>2 DEF DiscardStarted
    <3>2. local \in Local
      BY DEF TypeOK
    <3> QED
      BY <1>9, <2>2, <3>1, <3>2, EnsureStartedType DEF DiscardStarted, TypeOK
  <2> QED
    BY <2>1, <2>2
<1>10. ASSUME NEW e \in Editors, ReceiveStart(e) PROVE TypeOK'
  <2>1. PICK m \in replies :
          /\ m.from = e /\ m.op = "start"
          /\ replies' = replies \ {m}
          /\ LET r == [key |-> m.key, known |-> TRUE] IN
             /\ ref' = [ref EXCEPT ![e] = r]
             /\ local' = WriteRef(e, local, r, m.key)
          /\ starting' = [starting EXCEPT ![e] = FALSE]
          /\ AfterStart(e, m.key)
          /\ UNCHANGED <<session, allocated, life, current, content, finished,
                         attempted, timer, server, revision, used>>
    BY <1>10 DEF ReceiveStart
  <2>2. m.key \in Keys
    BY DEF TypeOK, Reply
  <2>3. [key |-> m.key, known |-> TRUE] \in Ref
    BY <2>2 DEF Ref
  <2>4. local' \in Local
    BY <2>1, <2>3, SaveWorkflowType DEF WriteRef, TypeOK
  <2>5. /\ wire' \subseteq Request
        /\ op' \in [Editors -> {"idle", "submitStart", "create", "discardStart", "abandon",
                                "readback"}]
    <3>1. /\ RequestOf(e, "create", m.key, content[e]) \in Request
          /\ RequestOf(e, "abandon", m.key, Blank) \in Request
      BY <2>2, RequestType DEF TypeOK, Calls
    <3> QED
      BY <2>1, <3>1 DEF AfterStart, TypeOK
  <2> QED
    BY <2>1, <2>3, <2>4, <2>5 DEF TypeOK
<1>11. ASSUME NEW e \in Editors, ReceiveCreate(e) PROVE TypeOK'
  <2>1. /\ Finish(e) \/ Release(e)
        /\ wire' \subseteq Request /\ replies' \subseteq Reply
        /\ UNCHANGED <<server, revision, used>>
    BY <1>11 DEF ReceiveCreate, TypeOK
  <2> QED
    BY <2>1, FinishType, ReleaseType
<1>12. ASSUME NEW e \in Editors, ReceiveAbandon(e) PROVE TypeOK'
  <2>1. PICK m \in replies :
          /\ replies' = replies \ {m}
          /\ \/ m.ok /\ Finish(e) /\ UNCHANGED wire
             \/ /\ op' = [op EXCEPT ![e] = "readback"]
                /\ wire' = wire \cup {RequestOf(e, "readback", m.key, Blank)}
                /\ UNCHANGED <<localVars, life, current, content, ref, starting,
                               finished, attempted, timer>>
          /\ UNCHANGED <<server, revision, used>>
    BY <1>12 DEF ReceiveAbandon
  <2>2. RequestOf(e, "readback", m.key, Blank) \in Request
    BY RequestType DEF TypeOK, Reply, Calls
  <2>3. replies' \subseteq Reply
    BY <2>1 DEF TypeOK
  <2>4. CASE Finish(e) /\ UNCHANGED wire
    <3>1. wire' \subseteq Request
      BY <2>4 DEF TypeOK
    <3> QED
      BY <2>1, <2>3, <2>4, <3>1, FinishType
  <2>5. CASE UNCHANGED <<localVars, life, current, content, ref, starting,
                         finished, attempted, timer>>
             /\ op' = [op EXCEPT ![e] = "readback"]
             /\ wire' = wire \cup {RequestOf(e, "readback", m.key, Blank)}
    BY <2>1, <2>2, <2>3, <2>5 DEF TypeOK
  <2> QED
    BY <2>1, <2>4, <2>5
<1>13. ASSUME NEW e \in Editors, ReceiveReadback(e) PROVE TypeOK'
  <2>1. /\ Finish(e) \/ Release(e)
        /\ wire' \subseteq Request /\ replies' \subseteq Reply
        /\ UNCHANGED <<server, revision, used>>
    BY <1>13 DEF ReceiveReadback, TypeOK
  <2> QED
    BY <2>1, FinishType, ReleaseType
<1>14. ASSUME NEW e \in Editors, NEW call \in Calls, NEW authority \in BOOLEAN,
              Fail(e, call, authority)
       PROVE  TypeOK'
  <2>1. wire' \subseteq Request /\ replies' \subseteq Reply
    <3>1. Late({r \in wire : r.from = e /\ r.op = call}) \subseteq Request
      BY LateType DEF TypeOK
    <3> QED
      BY <1>14, <3>1 DEF Fail, DropCall, TypeOK
  <2> QED
    BY <1>14, <2>1 DEF Fail, TypeOK
<1>15. ASSUME NEW e \in Editors \cup {NoEditor}, Serve(e) PROVE TypeOK'
  <2>1. PICK r \in wire :
          /\ r.from = e
          /\ wire' = wire \ {r}
          /\ server' = [server EXCEPT ![r.key] = StatusAfter(r)]
          /\ revision' = IF r.op = "create" /\ Accepts(r)
                         THEN [revision EXCEPT ![r.key] = r.body] ELSE revision
          /\ replies' = IF e = NoEditor THEN replies
                        ELSE replies \cup {[op |-> r.op, key |-> r.key, from |-> e,
                                            ok |-> Accepts(r), status |-> StatusAfter(r)]}
          /\ UNCHANGED <<localVars, editorVars, used>>
    BY <1>15 DEF Serve
  <2>2. /\ r.op \in Calls /\ r.key \in Keys /\ r.body \in Contents
        /\ Accepts(r) \in BOOLEAN
    BY DEF TypeOK, Request, Accepts, Calls
  <2>3. StatusAfter(r) \in States
    BY <2>2 DEF StatusAfter, TypeOK, Calls, States, Terminal
  <2> QED
    BY <2>1, <2>2, <2>3 DEF TypeOK, Reply
<1>16. CASE Leave
  BY <1>16 DEF Leave, TypeOK
<1>17. CASE Expire
  BY <1>17 DEF Expire, TypeOK
<1>18. ASSUME NEW signIn \in BOOLEAN, Reload(signIn) PROVE TypeOK'
  <2>1. local' \in Local
    BY <1>18 DEF Reload, TypeOK, Local, Draft, Ref, HasDraft
  <2>2. wire' \subseteq Request
    BY <1>18, LateType DEF Reload, TypeOK
  <2> QED
    BY <1>18, <2>1, <2>2 DEF Reload, TypeOK, Ref
<1>19. CASE UNCHANGED vars
  BY <1>19 DEF vars, TypeOK
<1> QED
  BY <1>1, <1>2, <1>3, <1>4, <1>5, <1>6, <1>7, <1>8, <1>9, <1>10, <1>11, <1>12, <1>13,
     <1>14, <1>15, <1>16, <1>17, <1>18, <1>19
     DEF Next, User, Settle
\* Type correctness: every variable of the draft store, the editors, the network
\* and the backend keeps its type.
THEOREM TypeCorrect == Spec => []TypeOK
<1>1. Init => TypeOK
  BY DEF Init, TypeOK, Cleared, Local, Draft, NoDraft, NoRef, Ref, States
<1> QED
  BY <1>1, TypeStep, PTL DEF Spec

-----------------------------------------------------------------------------
(* FinishedIsTerminal.  It is not inductive: an editor is finished by an answer,
   so an answer that lets it finish must be evidence that the backend has ended
   the workflow, and be about the key the editor still has. *)

\* The answers that make an editor finish its workflow
Settles(m) == \/ m.op \in {"create", "abandon"} /\ m.ok
              \/ m.op = "readback" /\ m.status = "submitted"

UnbornClean  == \A e \in Editors : life[e] = "unborn" => ref[e] = NoRef /\ ~finished[e]
CurrentOpen  == \A e \in Editors : current = e => life[e] = "live" /\ ~finished[e]
WireKeys     == \A r \in wire : r.from \in Editors => ref[r.from].key = r.key
ReplyKeys    == \A m \in replies : ref[m.from].key = m.key
SettledReply == \A m \in replies : Settles(m) => server[m.key] \in Terminal

IInv == /\ TypeOK
        /\ UnbornClean
        /\ CurrentOpen
        /\ WireKeys
        /\ ReplyKeys
        /\ SettledReply
        /\ FinishedIsTerminal
\* A key is a key, so an editor with a call under way has been born.
LEMMA CallerIsBorn ==
  ASSUME IInv, NEW x \in wire \cup replies, x.from \in Editors
  PROVE  /\ ref[x.from].key = x.key
         /\ ref[x.from] # NoRef
         /\ life[x.from] # "unborn"
<1>1. x.key \in Keys
  BY DEF IInv, TypeOK, Request, Reply
<1>2. ref[x.from].key = x.key
  BY DEF IInv, WireKeys, ReplyKeys
<1> QED
  BY <1>1, <1>2 DEF IInv, UnbornClean, NoRef

\* The steps that touch neither references nor messages nor the backend, open or
\* finish nothing, and at most leave the present editor.
LEMMA QuietStep ==
  ASSUME IInv, TypeOK', UNCHANGED <<life, finished, ref, wire, replies, server>>,
         current' \in {current, NoEditor}
  PROVE  IInv'
  BY DEF IInv, UnbornClean, CurrentOpen, WireKeys, ReplyKeys, SettledReply,
         Settles, FinishedIsTerminal

\* A request of an editor for its own key.
LEMMA SendStep ==
  ASSUME IInv, TypeOK', UNCHANGED <<life, current, finished, ref, server>>,
         replies' \subseteq replies,
         NEW e \in Editors, NEW call, NEW c, ref[e].key \in Keys,
         wire' \subseteq wire \cup {RequestOf(e, call, ref[e].key, c)}
  PROVE  IInv'
<1>1. WireKeys'
  BY DEF IInv, WireKeys, RequestOf
<1> QED
  BY <1>1 DEF IInv, UnbornClean, CurrentOpen, ReplyKeys, SettledReply, Settles,
              FinishedIsTerminal

\* ensureStarted() of the present editor: a fresh reference replaces none.
LEMMA EnsureStartedStep ==
  ASSUME IInv, TypeOK', UNCHANGED <<life, current, finished, replies, server>>,
         NEW e \in Editors, NEW l, current = e, EnsureStarted(e, l)
  PROVE  IInv'
<1>1. CASE UNCHANGED <<ref, wire>>
  BY <1>1, QuietStep
<1>2. CASE ref[e] = NoRef /\ ~starting[e]
  <2>0. ~ref[e].known /\ ref[e].key = NoKey
    BY <1>2 DEF NoRef
  <2>1. PICK k \in Keys : /\ ref' = [ref EXCEPT ![e] = [key |-> k, known |-> FALSE]]
                          /\ wire' = wire \cup {RequestOf(e, "start", k, Blank)}
    BY <1>2, <2>0 DEF EnsureStarted
  <2>2. \A f \in Editors \ {e} : ref'[f] = ref[f]
    BY <2>1 DEF IInv, TypeOK
  <2>3. ref'[e].key = k
    BY <2>1 DEF IInv, TypeOK
  <2>4. \A x \in wire \cup replies : x.from # e
    BY <1>2, CallerIsBorn
  <2>5. WireKeys'
    <3> SUFFICES ASSUME NEW r \in wire', r.from \in Editors PROVE ref'[r.from].key = r.key
      BY DEF WireKeys
    <3>1. CASE r \in wire
      BY <3>1, <2>2, <2>4 DEF IInv, WireKeys
    <3>2. CASE r = RequestOf(e, "start", k, Blank)
      BY <3>2, <2>3 DEF RequestOf
    <3> QED
      BY <2>1, <3>1, <3>2
  <2>6. ReplyKeys'
    <3>1. \A m \in replies : m.from \in Editors
      BY DEF IInv, TypeOK, Reply
    <3> QED
      BY <3>1, <2>2, <2>4 DEF IInv, ReplyKeys
  <2>7. life[e] = "live" /\ ~finished[e]
    BY DEF IInv, CurrentOpen
  <2>8. UnbornClean' /\ FinishedIsTerminal'
    BY <2>2, <2>7 DEF IInv, UnbornClean, FinishedIsTerminal
  <2> QED
    BY <2>5, <2>6, <2>8 DEF IInv, CurrentOpen, SettledReply, Settles
<1>3. CASE ~starting[e] /\ ref[e].key # NoKey /\ ~ref[e].known
  <2>1. ref[e].key \in Keys
    BY <1>3 DEF IInv, TypeOK, Ref, NoRef
  <2>2. UNCHANGED ref /\ wire' = wire \cup {RequestOf(e, "start", ref[e].key, Blank)}
    BY <1>3 DEF EnsureStarted, NoRef
  <2> QED
    BY <2>1, <2>2, SendStep
<1> QED
  BY <1>1, <1>2, <1>3 DEF EnsureStarted

\* An answer that settles its editor's workflow lets it finish.
LEMMA FinishStep ==
  ASSUME IInv, TypeOK', NEW e \in Editors, NEW m \in replies, m.from = e, Settles(m),
         Finish(e), replies' = replies \ {m}, UNCHANGED <<wire, server>>
  PROVE  IInv'
<1>1. ref[e].key = m.key /\ life[e] # "unborn"
  BY CallerIsBorn
<1>2. server[ref[e].key] \in Terminal
  BY <1>1 DEF IInv, SettledReply
<1>3. /\ finished' = [finished EXCEPT ![e] = TRUE]
      /\ UNCHANGED <<life, ref>>
      /\ current' = IF current = e THEN NoEditor ELSE current
  BY DEF Finish, Conclude
<1>4. UnbornClean' /\ CurrentOpen' /\ FinishedIsTerminal'
  BY <1>1, <1>2, <1>3 DEF IInv, TypeOK, UnbornClean, CurrentOpen, FinishedIsTerminal
<1> QED
  BY <1>3, <1>4 DEF IInv, WireKeys, ReplyKeys, SettledReply, Settles

\* The backend never leaves a terminal state, and what it answers is true.
LEMMA ServerStep ==
  ASSUME TypeOK, NEW r \in wire
  PROVE  /\ server[r.key] \in Terminal => StatusAfter(r) \in Terminal
         /\ r.op \in {"create", "abandon"} /\ Accepts(r) => StatusAfter(r) \in Terminal
  BY DEF TypeOK, Request, StatusAfter, Accepts, Terminal, Calls
\* Every step keeps the inductive invariant.
LEMMA InvStep == IInv /\ [Next]_vars => IInv'
<1> SUFFICES ASSUME IInv, [Next]_vars PROVE IInv'
  OBVIOUS
<1> USE DEF localVars, editorVars, netVars
<1>0. TypeOK /\ TypeOK'
  BY TypeStep DEF IInv
<1>1. ASSUME NEW e \in Editors, OpenNew(e) \/ OpenRepeat(e) PROVE IInv'
  <2>1. /\ life[e] = "unborn" /\ life' = [life EXCEPT ![e] = "live"]
        /\ current = NoEditor /\ current' = e
        /\ \A f \in Editors \ {e} : ref'[f] = ref[f]
        /\ UNCHANGED <<finished, wire, replies, server>>
    BY <1>0, <1>1 DEF OpenNew, OpenRepeat, TypeOK
  <2>2. ~finished[e] /\ \A x \in wire \cup replies : x.from # e
    BY <2>1, CallerIsBorn DEF IInv, UnbornClean
  <2>3. \A m \in replies : m.from \in Editors
    BY <1>0 DEF TypeOK, Reply
  <2>4. WireKeys' /\ ReplyKeys'
    BY <2>1, <2>2, <2>3 DEF IInv, WireKeys, ReplyKeys
  <2>5. UnbornClean' /\ CurrentOpen' /\ FinishedIsTerminal'
    BY <1>0, <2>1, <2>2
       DEF IInv, TypeOK, UnbornClean, CurrentOpen, FinishedIsTerminal
  <2> QED
    BY <1>0, <2>1, <2>4, <2>5 DEF IInv, SettledReply, Settles
<1>2. ASSUME NEW e \in Editors, FirstEdit(e) PROVE IInv'
  <2>1. /\ current = e
        /\ \E l : EnsureStarted(e, l)
        /\ UNCHANGED <<life, current, finished, replies, server>>
    BY <1>2 DEF FirstEdit, Usable
  <2> QED
    BY <1>0, <2>1, EnsureStartedStep
<1>3. ASSUME NEW e \in Editors, LaterEdit(e) \/ MoveStep(e) \/ SaveTimer(e) PROVE IInv'
  BY <1>0, <1>3, QuietStep DEF LaterEdit, MoveStep, SaveTimer
<1>4. ASSUME NEW e \in Editors, Submit(e) \/ DiscardStarted(e) PROVE IInv'
  <2>1. current = e /\ UNCHANGED <<life, current, finished, replies, server>>
    BY <1>4 DEF Submit, DiscardStarted, Usable
  <2>2. CASE ref[e].known
    <3>1. ref[e].key \in Keys
      BY <1>0, <2>2 DEF TypeOK, Ref, NoRef
    <3>2. PICK call, c : /\ wire' = wire \cup {RequestOf(e, call, ref[e].key, c)}
                         /\ UNCHANGED ref
      BY <1>4, <2>2 DEF Submit, DiscardStarted
    <3> QED
      BY <1>0, <2>1, <3>1, <3>2, SendStep
  <2>3. CASE ~ref[e].known
    <3>1. EnsureStarted(e, local)
      BY <1>4, <2>3 DEF Submit, DiscardStarted
    <3> QED
      BY <1>0, <2>1, <3>1, EnsureStartedStep
  <2> QED
    BY <2>2, <2>3
<1>5. ASSUME NEW e \in Editors, DiscardUntouched(e) PROVE IInv'
  <2>1. /\ current = e /\ ref[e] = NoRef /\ current' = NoEditor
        /\ finished' = [finished EXCEPT ![e] = TRUE]
        /\ UNCHANGED <<life, ref, wire, replies, server>>
    BY <1>5 DEF DiscardUntouched, Usable, Conclude
  <2>2. UnbornClean' /\ CurrentOpen' /\ FinishedIsTerminal'
    BY <1>0, <2>1 DEF IInv, TypeOK, UnbornClean, CurrentOpen, FinishedIsTerminal
  <2> QED
    BY <1>0, <2>1, <2>2 DEF IInv, WireKeys, ReplyKeys, SettledReply, Settles
<1>6. ASSUME NEW e \in Editors, ReceiveStart(e) PROVE IInv'
  <2>1. PICK m \in replies :
          /\ m.from = e
          /\ replies' = replies \ {m}
          /\ ref' = [ref EXCEPT ![e] = [key |-> m.key, known |-> TRUE]]
          /\ AfterStart(e, m.key)
          /\ UNCHANGED <<life, current, finished, server>>
    BY <1>6 DEF ReceiveStart
  <2>2. ref[e].key = m.key /\ ref[e] # NoRef /\ life[e] # "unborn"
    BY <2>1, CallerIsBorn
  <2>3. \A f \in Editors : ref'[f].key = ref[f].key /\ (f # e => ref'[f] = ref[f])
    BY <1>0, <2>1, <2>2 DEF TypeOK
  <2>4. \A r \in wire' : r \in wire \/ (r.from = e /\ r.key = m.key)
    BY <2>1 DEF AfterStart, RequestOf
  <2>5. WireKeys'
    BY <2>2, <2>3, <2>4 DEF IInv, WireKeys
  <2>6. ReplyKeys'
    <3>1. \A n \in replies : n.from \in Editors
      BY <1>0 DEF TypeOK, Reply
    <3> QED
      BY <2>1, <2>3, <3>1 DEF IInv, ReplyKeys
  <2>7. UnbornClean' /\ CurrentOpen'
    BY <2>1, <2>2, <2>3 DEF IInv, UnbornClean, CurrentOpen
  <2>8. FinishedIsTerminal'
    BY <2>1, <2>2, <2>3 DEF IInv, FinishedIsTerminal
  <2> QED
    BY <1>0, <2>1, <2>5, <2>6, <2>7, <2>8 DEF IInv, SettledReply, Settles
<1>7. ASSUME NEW e \in Editors, NEW m \in replies, m.from = e, replies' = replies \ {m},
             Release(e), UNCHANGED <<wire, server>>
      PROVE  IInv'
  BY <1>0, <1>7 DEF Release, IInv, UnbornClean, CurrentOpen, WireKeys, ReplyKeys,
                    SettledReply, Settles, FinishedIsTerminal
<1>8. ASSUME NEW e \in Editors, ReceiveCreate(e) \/ ReceiveReadback(e) PROVE IInv'
  <2>1. PICK m \in replies : /\ m.from = e /\ replies' = replies \ {m}
                             /\ ((Settles(m) /\ Finish(e)) \/ Release(e))
                             /\ UNCHANGED <<wire, server>>
    BY <1>8 DEF ReceiveCreate, ReceiveReadback, Settles
  <2> QED
    BY <1>0, <1>7, <2>1, FinishStep
<1>9. ASSUME NEW e \in Editors, ReceiveAbandon(e) PROVE IInv'
  <2>1. PICK m \in replies :
          /\ m.from = e /\ m.op = "abandon" /\ replies' = replies \ {m}
          /\ UNCHANGED server
          /\ \/ m.ok /\ Finish(e) /\ UNCHANGED wire
             \/ /\ wire' = wire \cup {RequestOf(e, "readback", m.key, Blank)}
                /\ UNCHANGED <<life, current, ref, finished>>
    BY <1>9 DEF ReceiveAbandon
  <2>2. CASE m.ok /\ Finish(e) /\ UNCHANGED wire
    BY <1>0, <2>1, <2>2, FinishStep DEF Settles
  <2>3. CASE /\ wire' = wire \cup {RequestOf(e, "readback", m.key, Blank)}
             /\ UNCHANGED <<life, current, ref, finished>>
    <3>1. ref[e].key = m.key
      BY <2>1, CallerIsBorn
    <3>2. m.key \in Keys
      BY <1>0 DEF TypeOK, Reply
    <3> QED
      BY <1>0, <2>1, <2>3, <3>1, <3>2, SendStep
  <2> QED
    BY <2>1, <2>2, <2>3
<1>10. ASSUME NEW e \in Editors, NEW call \in Calls, NEW authority \in BOOLEAN,
              Fail(e, call, authority)
       PROVE  IInv'
  <2>1. /\ \A r \in wire' : r \in wire \/ r.from = NoEditor
        /\ replies' \subseteq replies
    <3>1. \A r \in Late({r \in wire : r.from = e /\ r.op = call}) : r.from = NoEditor
      BY <1>0, LateType DEF TypeOK
    <3> QED
      BY <1>10, <3>1 DEF Fail, DropCall
  <2>2. current' \in {current, NoEditor} /\ UNCHANGED <<life, ref, finished, server>>
    BY <1>10 DEF Fail
  <2>3. WireKeys'
    BY <2>1, <2>2 DEF IInv, WireKeys
  <2> QED
    BY <1>0, <2>1, <2>2, <2>3
       DEF IInv, UnbornClean, CurrentOpen, ReplyKeys, SettledReply, Settles,
           FinishedIsTerminal
<1>11. ASSUME NEW e \in Editors \cup {NoEditor}, Serve(e) PROVE IInv'
  <2>1. PICK r \in wire :
          /\ r.from = e
          /\ wire' = wire \ {r}
          /\ server' = [server EXCEPT ![r.key] = StatusAfter(r)]
          /\ replies' = IF e = NoEditor THEN replies
                        ELSE replies \cup {[op |-> r.op, key |-> r.key, from |-> e,
                                            ok |-> Accepts(r), status |-> StatusAfter(r)]}
          /\ UNCHANGED <<life, current, ref, finished>>
    BY <1>11 DEF Serve
  <2>2. r.key \in Keys
    BY <1>0 DEF TypeOK, Request
  <2>3. server'[r.key] = StatusAfter(r) /\ \A k \in Keys \ {r.key} : server'[k] = server[k]
    BY <1>0, <2>1, <2>2 DEF TypeOK
  <2>4. \A k \in Keys : server[k] \in Terminal => server'[k] \in Terminal
    BY <1>0, <2>3, ServerStep
  <2>5. SettledReply'
    <3> SUFFICES ASSUME NEW m \in replies', Settles(m) PROVE server'[m.key] \in Terminal
      BY DEF SettledReply, Settles
    <3>1. CASE m \in replies
      <4>1. m.key \in Keys
        BY <1>0, <3>1 DEF TypeOK, Reply
      <4> QED
        BY <2>4, <3>1, <4>1 DEF IInv, SettledReply
    <3>2. CASE m = [op |-> r.op, key |-> r.key, from |-> e,
                    ok |-> Accepts(r), status |-> StatusAfter(r)]
      BY <1>0, <2>3, <3>2, ServerStep DEF Settles, Terminal
    <3> QED
      BY <2>1, <3>1, <3>2
  <2>6. ReplyKeys' /\ WireKeys'
    BY <2>1 DEF IInv, ReplyKeys, WireKeys
  <2>7. FinishedIsTerminal'
    <3>1. \A f \in Editors : ref[f] # NoRef => ref[f].key \in Keys
      BY <1>0 DEF TypeOK, Ref
    <3> QED
      BY <2>1, <2>4, <3>1 DEF IInv, FinishedIsTerminal
  <2> QED
    BY <1>0, <2>1, <2>5, <2>6, <2>7 DEF IInv, UnbornClean, CurrentOpen
<1>12. CASE Leave
  BY <1>0, <1>12, QuietStep DEF Leave
<1>13. CASE Expire
  BY <1>0, <1>13, QuietStep DEF Expire
<1>14. ASSUME NEW signIn \in BOOLEAN, Reload(signIn) PROVE IInv'
  <2>1. /\ \A f \in Editors : ref'[f] = NoRef /\ ~finished'[f]
        /\ current' = NoEditor /\ replies' = {}
        /\ \A r \in wire' : r.from = NoEditor
    <3>1. \A late \in SUBSET wire : \A r \in Late(late) : r.from = NoEditor
      BY <1>0, LateType DEF TypeOK
    <3> QED
      BY <1>14, <3>1 DEF Reload
  <2> QED
    BY <1>0, <2>1 DEF IInv, UnbornClean, CurrentOpen, WireKeys, ReplyKeys, SettledReply,
                      FinishedIsTerminal
<1>15. CASE UNCHANGED vars
  BY <1>0, <1>15, QuietStep DEF vars
<1> QED
  BY <1>1, <1>2, <1>3, <1>4, <1>5, <1>6, <1>8, <1>9, <1>10, <1>11, <1>12, <1>13, <1>14, <1>15
     DEF Next, User, Settle

\* An editor that closed its workflow, by finish() or by abandon(), has done so on
\* the evidence of the backend: the workflow of its key is submitted or abandoned
\* there, for any number of editors, keys and contents.
THEOREM FinishedEditorsAreTerminal == Spec => []FinishedIsTerminal
<1>1. Init => IInv
  <2>1. Init => TypeOK
    BY DEF Init, TypeOK, Cleared, Local, Draft, NoDraft, NoRef, Ref, States
  <2> QED
    BY <2>1 DEF Init, IInv, UnbornClean, CurrentOpen, WireKeys, ReplyKeys, SettledReply,
                FinishedIsTerminal
<1>2. IInv => FinishedIsTerminal
  BY DEF IInv
<1> QED
  BY <1>1, <1>2, InvStep, PTL DEF Spec
-----------------------------------------------------------------------------
(* The stored draft.  Only the present editor writes to it, and only after it was
   loaded: so what is cached is what is stored. *)

UnbornBlank    == \A e \in Editors :
                    life[e] = "unborn" => /\ ref[e] = NoRef
                                          /\ content[e] = Blank
                                          /\ ~attempted[e]
EmptyIsCleared == ~HasDraft(local) => local = Cleared
PresentLoaded  == \A e \in Editors :
                    current = e /\ Backed(e) /\ HasDraft(local)
                    => local.stored.own /\ local.cached = local.stored.ref

DraftInv == /\ TypeOK
            /\ UnbornBlank
            /\ EmptyIsCleared
            /\ PresentLoaded
            /\ KeyBelongsToDraft
            /\ StoredIsCurrent

\* A draft as the present editor finds and leaves it, its key one of K
Loaded(l, K) ==
  /\ ~HasDraft(l) => l = Cleared
  /\ HasDraft(l) => /\ l.stored.own
                    /\ l.cached = l.stored.ref
                    /\ l.stored.ref.key \in K \cup {NoKey}

\* What saveWorkflow() makes of a draft that is there
Completed(l, r, expected) ==
  LET new == IF l.stored.ref.key = expected THEN r ELSE l.stored.ref
  IN  [stored |-> [l.stored EXCEPT !.ref = new], cached |-> new]

\* What is loaded is the draft of this session, with its reference cached.
LEMMA LoadOutcome ==
  ASSUME NEW l \in Local
  PROVE  /\ session = "active" /\ HasDraft(l) /\ l.stored.own
            => /\ Load(l).stored = l.stored
               /\ Load(l).cached = l.stored.ref
               /\ HasDraft(Load(l))
         /\ session = "active" /\ ~HasDraft(l) => Load(l) = l
         /\ session # "active" \/ (HasDraft(l) /\ ~l.stored.own) => Load(l) = Cleared
         /\ ~HasDraft(Cleared)
  BY DEF Load, Local, HasDraft, Cleared, NoDraft

\* So saveWorkflow() completes such a draft, or leaves none.
LEMMA SaveWorkflowOutcome ==
  ASSUME NEW l \in Local, NEW r, NEW expected
  PROVE  /\ session = "active" /\ HasDraft(l) /\ l.stored.own
            => SaveWorkflow(l, r, expected) = Completed(l, r, expected)
         /\ session = "active" /\ ~HasDraft(l) => SaveWorkflow(l, r, expected) = l
         /\ session # "active" \/ (HasDraft(l) /\ ~l.stored.own)
            => SaveWorkflow(l, r, expected) = Cleared
<1>1. CASE session = "active" /\ HasDraft(l) /\ l.stored.own
  <2>1. /\ Load(l).stored = l.stored
        /\ Load(l).cached = l.stored.ref
        /\ HasDraft(Load(l))
        /\ Load(l) \in Local
    BY <1>1, LoadOutcome, LoadType
  <2>2. CASE l.stored.ref.key = expected
    BY <2>1, <2>2, <1>1 DEF SaveWorkflow, Completed
  <2>3. CASE l.stored.ref.key # expected
    <3>1. SaveWorkflow(l, r, expected) = Load(l)
      BY <2>1, <2>3 DEF SaveWorkflow
    <3>2. Completed(l, r, expected) = [stored |-> l.stored, cached |-> l.stored.ref]
      BY <2>3 DEF Completed, Local, Draft
    <3>3. Load(l) = [stored |-> l.stored, cached |-> l.stored.ref]
      BY <2>1 DEF Local
    <3> QED
      BY <3>1, <3>2, <3>3, <1>1
  <2> QED
    BY <2>2, <2>3
<1>2. CASE ~(session = "active" /\ HasDraft(l) /\ l.stored.own)
  BY <1>2, LoadOutcome DEF SaveWorkflow
<1> QED
  BY <1>1, <1>2

\* A completed draft keeps its content; it keeps its key if it is completed with it.
LEMMA CompletedDraft ==
  ASSUME NEW l \in Local, NEW r \in Ref, NEW expected
  PROVE  LET m == Completed(l, r, expected) IN
         /\ m.stored.content = l.stored.content
         /\ m.stored.own = l.stored.own
         /\ m.cached = m.stored.ref
         /\ m.stored.ref = IF l.stored.ref.key = expected THEN r ELSE l.stored.ref
         /\ HasDraft(m) <=> HasDraft(l)
  BY DEF Completed, Local, Draft, HasDraft

\* The present editor's view of the store.
LEMMA PresentIsLoaded ==
  ASSUME DraftInv, NEW e \in Editors, current = e, Backed(e)
  PROVE  Loaded(local, allocated)
  BY DEF DraftInv, EmptyIsCleared, PresentLoaded, KeyBelongsToDraft, Loaded

\* saveDraft() leaves it so; in a session it stores what it does not refuse.
LEMMA SaveDraftOutcome ==
  ASSUME NEW e, Backed(e), local \in Local, Loaded(local, allocated), NEW c \in Contents
  PROVE  /\ Loaded(SaveDraft(e, c), allocated)
         /\ session = "active" /\ c \notin Refused
            => /\ HasDraft(SaveDraft(e, c))
               /\ SaveDraft(e, c).stored.content = c
               /\ SaveDraft(e, c).stored.ref = local.cached
         /\ session # "active" \/ c \in Refused => SaveDraft(e, c) = local
<1>1. CASE session = "active" /\ c \notin Refused
  <2>1. SaveDraft(e, c)
          = [local EXCEPT !.stored = [content |-> c, ref |-> local.cached, own |-> TRUE]]
    BY <1>1 DEF SaveDraft, Save
  <2>2. /\ SaveDraft(e, c).stored = [content |-> c, ref |-> local.cached, own |-> TRUE]
        /\ SaveDraft(e, c).cached = local.cached
    BY <2>1 DEF Local
  <2>3. HasDraft(SaveDraft(e, c))
    BY <2>2 DEF HasDraft
  <2>4. local.cached.key \in allocated \cup {NoKey}
    BY DEF Loaded, Cleared, NoRef
  <2> QED
    BY <1>1, <2>2, <2>3, <2>4 DEF Loaded
<1>2. CASE ~(session = "active" /\ c \notin Refused)
  BY <1>2 DEF SaveDraft, Save
<1> QED
  BY <1>1, <1>2

\* Steps that leave the draft and the present form alone, and at most leave the editor.
LEMMA DraftUntouched ==
  ASSUME DraftInv, TypeOK', UnbornBlank', UNCHANGED <<local, session, allocated>>,
         current' \in {current, NoEditor},
         current' \in Editors => UNCHANGED <<content, attempted>>
                                 /\ (timer[current'] => timer'[current'])
  PROVE  DraftInv'
<1>1. \A e \in Editors : current' = e => current = e
  OBVIOUS
<1>2. EmptyIsCleared' /\ KeyBelongsToDraft'
  BY DEF DraftInv, EmptyIsCleared, KeyBelongsToDraft, HasDraft
<1>3. PresentLoaded'
  BY <1>1 DEF DraftInv, PresentLoaded, HasDraft
<1>4. StoredIsCurrent'
  BY <1>1 DEF DraftInv, StoredIsCurrent, HasDraft
<1> QED
  BY <1>2, <1>3, <1>4 DEF DraftInv

\* Steps of the present editor that leave a draft with what the form holds.
LEMMA DraftStored ==
  ASSUME TypeOK', UnbornBlank', NEW e \in Editors, current' = e, Backed(e),
         Loaded(local', allocated'),
         attempted'[e] /\ ~timer'[e] /\ session' = "active" /\ content'[e] \notin Refused
           => HasDraft(local') /\ local'.stored.content = content'[e]
  PROVE  DraftInv'
  BY DEF DraftInv, EmptyIsCleared, PresentLoaded, KeyBelongsToDraft, StoredIsCurrent, Loaded

\* Steps without a backed editor before or after them.
LEMMA DraftUnattended ==
  ASSUME TypeOK', UnbornBlank', \A e \in Editors : current' = e => ~Backed(e),
         EmptyIsCleared', KeyBelongsToDraft'
  PROVE  DraftInv'
  BY DEF DraftInv, PresentLoaded, StoredIsCurrent

\* ensureStarted() writes the reference of a new key beside a draft, and nothing else.
LEMMA EnsureStartedDraft ==
  ASSUME TypeOK, NEW e \in Editors, Backed(e), NEW l \in Local, Loaded(l, allocated),
         EnsureStarted(e, l)
  PROVE  /\ Loaded(local', allocated')
         /\ session = "active" /\ HasDraft(l)
            => HasDraft(local') /\ local'.stored.content = l.stored.content
<1>1. CASE local' = l /\ UNCHANGED allocated
  BY <1>1
<1>2. CASE ~starting[e] /\ ref[e] = NoRef
  <2>0. ~ref[e].known /\ ref[e].key = NoKey
    BY <1>2 DEF NoRef
  <2> DEFINE r(k) == [key |-> k, known |-> FALSE]
  <2>1. PICK k \in Keys \ used : /\ local' = WriteRef(e, l, r(k), NoKey)
                                 /\ allocated' = allocated \cup {k}
    BY <1>2, <2>0 DEF EnsureStarted
  <2>2. local' = SaveWorkflow(l, r(k), NoKey)
    BY <2>1 DEF WriteRef
  <2>3. r(k) \in Ref /\ r(k).key = k
    BY DEF Ref
  <2> HIDE DEF r
  <2>4. CASE session = "active" /\ HasDraft(l)
    <3>1. local' = Completed(l, r(k), NoKey)
      BY <2>2, <2>4, SaveWorkflowOutcome DEF Loaded
    <3> QED
      BY <2>1, <2>3, <2>4, <3>1, CompletedDraft DEF Loaded
  <2>5. CASE ~(session = "active" /\ HasDraft(l))
    <3>1. local' = Cleared
      BY <2>2, <2>5, SaveWorkflowOutcome DEF Loaded
    <3> QED
      BY <2>5, <3>1, LoadOutcome DEF Loaded
  <2> QED
    BY <2>4, <2>5
<1> QED
  BY <1>1, <1>2 DEF EnsureStarted

\* A repeat touches no draft.
LEMMA EnsureStartedRepeat ==
  ASSUME TypeOK, NEW e \in Editors, ~Backed(e), EnsureStarted(e, local)
  PROVE  UNCHANGED <<local, allocated>>
  BY DEF EnsureStarted, WriteRef

\* The editor that asks for a key is born.
LEMMA EnsureStartedBlank ==
  ASSUME UnbornBlank, TypeOK, NEW e \in Editors, NEW l, EnsureStarted(e, l), life[e] # "unborn",
         UNCHANGED life, \A f \in Editors \ {e} : content'[f] = content[f] /\ attempted'[f] = attempted[f]
  PROVE  UnbornBlank'
<1>1. \A f \in Editors \ {e} : ref'[f] = ref[f]
  BY DEF EnsureStarted, TypeOK
<1> QED
  BY <1>1 DEF UnbornBlank

\* An answer to a start: the draft that carries its key is completed, or none is left.
LEMMA ReceiveStartDraft ==
  ASSUME DraftInv, NEW e \in Editors, NEW k \in Keys,
         local' = WriteRef(e, local, [key |-> k, known |-> TRUE], k)
  PROVE  /\ local' = local \/ local' = Cleared
              \/ /\ session = "active" /\ HasDraft(local) /\ local.stored.own
                 /\ HasDraft(local') /\ local'.stored.own
                 /\ local'.cached = local'.stored.ref
                 /\ local'.stored.content = local.stored.content
                 /\ local'.stored.ref.key = local.stored.ref.key
         /\ session = "active" /\ HasDraft(local) /\ local.stored.own => HasDraft(local')
<1>0. local \in Local
  BY DEF DraftInv, TypeOK
<1> DEFINE r == [key |-> k, known |-> TRUE]
<1>1. CASE ~Backed(e)
  BY <1>1 DEF WriteRef
<1>2. CASE Backed(e)
  <2>1. local' = SaveWorkflow(local, r, k)
    BY <1>2 DEF WriteRef
  <2>2. r \in Ref /\ r.key = k
    BY DEF Ref
  <2> HIDE DEF r
  <2>3. CASE session = "active" /\ HasDraft(local) /\ local.stored.own
    <3>1. local' = Completed(local, r, k)
      BY <1>0, <2>1, <2>3, SaveWorkflowOutcome
    <3> QED
      BY <1>0, <2>2, <2>3, <3>1, CompletedDraft
  <2>4. CASE ~(session = "active" /\ HasDraft(local) /\ local.stored.own)
    BY <1>0, <2>1, <2>4, SaveWorkflowOutcome
  <2> QED
    BY <2>3, <2>4
<1> QED
  BY <1>1, <1>2

\* Every step keeps the invariant of the draft.
LEMMA DraftStep == DraftInv /\ IInv /\ [Next]_vars => DraftInv'
<1> SUFFICES ASSUME DraftInv, IInv, [Next]_vars PROVE DraftInv'
  OBVIOUS
<1> USE DEF localVars, editorVars, netVars
<1>0. TypeOK /\ TypeOK' /\ local \in Local
  BY TypeStep DEF DraftInv, TypeOK
<1>1. ASSUME NEW e \in Editors, OpenNew(e) PROVE DraftInv'
  <2>1. /\ Backed(e) /\ life[e] = "unborn" /\ current' = e /\ local' = Load(local)
        /\ \A f \in Editors \ {e} : content'[f] = content[f] /\ ref'[f] = ref[f]
        /\ \A f \in Editors : life'[f] = "unborn" => life[f] = "unborn" /\ f # e
        /\ UNCHANGED <<session, attempted>>
    BY <1>0, <1>1 DEF OpenNew, TypeOK
  <2>2. UnbornBlank' /\ ~attempted'[e]
    BY <2>1 DEF DraftInv, UnbornBlank
  <2>3. Loaded(local', allocated')
    <3>1. CASE session = "active" /\ HasDraft(local) /\ local.stored.own
      <4>1. HasDraft(local') /\ local'.stored = local.stored /\ local'.cached = local.stored.ref
        BY <1>0, <2>1, <3>1, LoadOutcome
      <4>2. UNCHANGED allocated
        BY <1>1, <4>1 DEF OpenNew
      <4> QED
        BY <3>1, <4>1, <4>2 DEF DraftInv, KeyBelongsToDraft, Loaded
    <3>2. CASE ~(session = "active" /\ HasDraft(local) /\ local.stored.own)
      <4>1. local' = Cleared /\ ~HasDraft(local')
        BY <1>0, <2>1, <3>2, LoadOutcome DEF DraftInv, EmptyIsCleared
      <4> QED
        BY <4>1 DEF Loaded
    <3> QED
      BY <3>1, <3>2
  <2> QED
    BY <1>0, <2>1, <2>2, <2>3, DraftStored
<1>2. ASSUME NEW e \in Editors, OpenRepeat(e) PROVE DraftInv'
  <2>1. /\ ~Backed(e) /\ life[e] = "unborn" /\ current' = e
        /\ \A f \in Editors \ {e} : content'[f] = content[f]
        /\ \A f \in Editors : life'[f] = "unborn" => life[f] = "unborn" /\ f # e
        /\ UNCHANGED <<local, session, allocated, ref, attempted>>
    BY <1>0, <1>2 DEF OpenRepeat, TypeOK
  <2>2. UnbornBlank' /\ EmptyIsCleared' /\ KeyBelongsToDraft'
    BY <2>1 DEF DraftInv, UnbornBlank, EmptyIsCleared, KeyBelongsToDraft, HasDraft
  <2> QED
    BY <1>0, <2>1, <2>2, DraftUnattended
<1>3. ASSUME NEW e \in Editors, FirstEdit(e) PROVE DraftInv'
  <2>1. PICK c \in Contents : /\ content' = [content EXCEPT ![e] = c]
                              /\ EnsureStarted(e, SaveDraft(e, c))
    BY <1>3 DEF FirstEdit
  <2>2. /\ current = e /\ current' = e
        /\ content'[e] = c
        /\ \A f \in Editors \ {e} : content'[f] = content[f] /\ attempted'[f] = attempted[f]
        /\ UNCHANGED <<session, life>>
    BY <1>0, <1>3, <2>1 DEF FirstEdit, Usable, TypeOK
  <2>3. life[e] # "unborn"
    BY <2>2 DEF IInv, CurrentOpen
  <2>4. UnbornBlank'
    BY <1>0, <2>1, <2>2, <2>3, EnsureStartedBlank DEF DraftInv
  <2>5. CASE Backed(e)
    <3>1. Loaded(local, allocated)
      BY <2>2, <2>5, PresentIsLoaded
    <3>2. SaveDraft(e, c) \in Local
      BY <1>0, SaveDraftType
    <3>3. /\ Loaded(SaveDraft(e, c), allocated)
          /\ session = "active" /\ c \notin Refused
             => HasDraft(SaveDraft(e, c)) /\ SaveDraft(e, c).stored.content = c
      BY <1>0, <2>5, <3>1, SaveDraftOutcome
    <3>4. /\ Loaded(local', allocated')
          /\ session = "active" /\ HasDraft(SaveDraft(e, c))
             => HasDraft(local') /\ local'.stored.content = SaveDraft(e, c).stored.content
      BY <1>0, <2>1, <2>5, <3>2, <3>3, EnsureStartedDraft
    <3> QED
      BY <1>0, <2>2, <2>4, <2>5, <3>3, <3>4, DraftStored
  <2>6. CASE ~Backed(e)
    <3>1. SaveDraft(e, c) = local
      BY <2>6 DEF SaveDraft
    <3>2. UNCHANGED <<local, allocated>>
      BY <1>0, <2>1, <2>6, <3>1, EnsureStartedRepeat
    <3>3. EmptyIsCleared' /\ KeyBelongsToDraft'
      BY <3>2 DEF DraftInv, EmptyIsCleared, KeyBelongsToDraft, HasDraft
    <3> QED
      BY <1>0, <2>2, <2>4, <2>6, <3>3, DraftUnattended
  <2> QED
    BY <2>5, <2>6
<1>4. ASSUME NEW e \in Editors, LaterEdit(e) PROVE DraftInv'
  <2>1. /\ current = e /\ current' = e /\ (Backed(e) => timer'[e])
        /\ \A f \in Editors \ {e} : content'[f] = content[f]
        /\ UNCHANGED <<local, session, allocated, life, ref, attempted>>
    BY <1>0, <1>4 DEF LaterEdit, Usable, TypeOK
  <2>2. life[e] # "unborn"
    BY <2>1 DEF IInv, CurrentOpen
  <2>3. UnbornBlank'
    BY <2>1, <2>2 DEF DraftInv, UnbornBlank
  <2>4. CASE Backed(e)
    BY <1>0, <2>1, <2>3, <2>4, PresentIsLoaded, DraftStored DEF Loaded, HasDraft
  <2>5. CASE ~Backed(e)
    <3>1. EmptyIsCleared' /\ KeyBelongsToDraft'
      BY <2>1 DEF DraftInv, EmptyIsCleared, KeyBelongsToDraft, HasDraft
    <3> QED
      BY <1>0, <2>1, <2>3, <2>5, <3>1, DraftUnattended
  <2> QED
    BY <2>4, <2>5
<1>5. ASSUME NEW e \in Editors, MoveStep(e) \/ (SaveTimer(e) /\ current = e)
      PROVE  DraftInv'
  <2>1. /\ current = e /\ current' = e /\ local' = SaveDraft(e, content[e])
        /\ UNCHANGED <<session, allocated, life, content, ref, attempted>>
    BY <1>5 DEF MoveStep, SaveTimer, Usable
  <2>2. UnbornBlank' /\ content[e] \in Contents
    BY <1>0, <2>1 DEF DraftInv, UnbornBlank, TypeOK
  <2>3. CASE Backed(e)
    <3>1. Loaded(local, allocated)
      BY <2>1, <2>3, PresentIsLoaded
    <3>2. /\ Loaded(local', allocated)
          /\ session = "active" /\ content[e] \notin Refused
             => HasDraft(local') /\ local'.stored.content = content[e]
      BY <1>0, <2>1, <2>2, <2>3, <3>1, SaveDraftOutcome
    <3> QED
      BY <1>0, <2>1, <2>2, <2>3, <3>2, DraftStored
  <2>4. CASE ~Backed(e)
    <3>1. UNCHANGED local
      BY <2>1, <2>4 DEF SaveDraft
    <3>2. EmptyIsCleared' /\ KeyBelongsToDraft'
      BY <2>1, <3>1 DEF DraftInv, EmptyIsCleared, KeyBelongsToDraft, HasDraft
    <3> QED
      BY <1>0, <2>1, <2>2, <2>4, <3>2, DraftUnattended
  <2> QED
    BY <2>3, <2>4
<1>6. ASSUME NEW e \in Editors, SaveTimer(e), current # e PROVE DraftInv'
  <2>1. /\ UNCHANGED <<local, session, allocated, life, current, content, ref, attempted>>
        /\ \A f \in Editors \ {e} : timer'[f] = timer[f]
    BY <1>0, <1>6 DEF SaveTimer, TypeOK
  <2>2. UnbornBlank'
    BY <2>1 DEF DraftInv, UnbornBlank
  <2> QED
    BY <1>0, <1>6, <2>1, <2>2, DraftUntouched
<1>7. ASSUME NEW e \in Editors, Submit(e) \/ DiscardStarted(e) PROVE DraftInv'
  <2>1. /\ current = e
        /\ UNCHANGED <<session, life, current, content, attempted, timer>>
    BY <1>7 DEF Submit, DiscardStarted, Usable
  <2>2. life[e] # "unborn"
    BY <2>1 DEF IInv, CurrentOpen
  <2>3. CASE ref[e].known
    <3>1. UNCHANGED <<local, ref, allocated>>
      BY <1>7, <2>3 DEF Submit, DiscardStarted
    <3>2. UnbornBlank'
      BY <2>1, <3>1 DEF DraftInv, UnbornBlank
    <3> QED
      BY <1>0, <2>1, <3>1, <3>2, DraftUntouched
  <2>4. CASE ~ref[e].known
    <3>1. EnsureStarted(e, local)
      BY <1>7, <2>4 DEF Submit, DiscardStarted
    <3>2. UnbornBlank'
      BY <1>0, <2>1, <2>2, <3>1, EnsureStartedBlank DEF DraftInv
    <3>3. CASE Backed(e)
      <4>1. Loaded(local, allocated)
        BY <2>1, <3>3, PresentIsLoaded
      <4>2. /\ Loaded(local', allocated')
            /\ session = "active" /\ HasDraft(local)
               => HasDraft(local') /\ local'.stored.content = local.stored.content
        BY <1>0, <3>1, <3>3, <4>1, EnsureStartedDraft
      <4>3. attempted[e] /\ ~timer[e] /\ session = "active" /\ content[e] \notin Refused
              => HasDraft(local) /\ local.stored.content = content[e]
        BY <2>1, <3>3 DEF DraftInv, StoredIsCurrent
      <4> QED
        BY <1>0, <2>1, <3>2, <3>3, <4>2, <4>3, DraftStored
    <3>4. CASE ~Backed(e)
      <4>1. UNCHANGED <<local, allocated>>
        BY <1>0, <3>1, <3>4, EnsureStartedRepeat
      <4> QED
        BY <1>0, <2>1, <3>2, <4>1, DraftUntouched
    <3> QED
      BY <3>3, <3>4
  <2> QED
    BY <2>3, <2>4
<1>8. ASSUME NEW e \in Editors, Conclude(e),
             UNCHANGED <<session, life, content, ref, attempted>>
      PROVE  DraftInv'
  <2>1. UnbornBlank'
    BY <1>8 DEF DraftInv, UnbornBlank
  <2>2. CASE current = e
    <3>1. current' = NoEditor
      BY <1>8, <2>2 DEF Conclude
    <3>2. \/ local' = local /\ allocated' = allocated
          \/ local' = Cleared
      BY <1>8, <2>2 DEF Conclude
    <3>3. EmptyIsCleared' /\ KeyBelongsToDraft'
      BY <1>0, <3>2, LoadOutcome
         DEF DraftInv, EmptyIsCleared, KeyBelongsToDraft, HasDraft
    <3> QED
      BY <1>0, <2>1, <3>1, <3>3, DraftUnattended
  <2>3. CASE current # e
    BY <1>0, <1>8, <2>1, <2>3, DraftUntouched DEF Conclude
  <2> QED
    BY <2>2, <2>3
<1>9. ASSUME NEW e \in Editors, DiscardUntouched(e) \/ Finish(e) PROVE DraftInv'
  BY <1>8, <1>9 DEF DiscardUntouched, Finish
<1>10. ASSUME NEW e \in Editors, ReceiveStart(e) PROVE DraftInv'
  <2>1. PICK m \in replies :
          /\ m.from = e
          /\ ref' = [ref EXCEPT ![e] = [key |-> m.key, known |-> TRUE]]
          /\ local' = WriteRef(e, local, [key |-> m.key, known |-> TRUE], m.key)
          /\ UNCHANGED <<session, allocated, life, current, content, attempted, timer>>
    BY <1>10 DEF ReceiveStart
  <2>2. m.key \in Keys /\ life[e] # "unborn"
    BY <1>0, <2>1, CallerIsBorn DEF TypeOK, Reply
  <2>3. UnbornBlank'
    BY <1>0, <2>1, <2>2 DEF DraftInv, UnbornBlank, TypeOK
  <2>4. CASE local' = local
    BY <1>0, <2>1, <2>3, <2>4, DraftUntouched
  <2>5. CASE local' # local
    <3>1. \/ local' = Cleared /\ ~(session = "active" /\ HasDraft(local) /\ local.stored.own)
          \/ /\ session = "active" /\ HasDraft(local) /\ local.stored.own
             /\ HasDraft(local') /\ local'.stored.own
             /\ local'.cached = local'.stored.ref
             /\ local'.stored.content = local.stored.content
             /\ local'.stored.ref.key = local.stored.ref.key
      BY <1>0, <2>1, <2>2, <2>5, ReceiveStartDraft, LoadOutcome
    <3>2. EmptyIsCleared' /\ KeyBelongsToDraft' /\ PresentLoaded'
      BY <1>0, <2>1, <3>1, LoadOutcome
         DEF DraftInv, EmptyIsCleared, KeyBelongsToDraft, PresentLoaded
    <3>3. StoredIsCurrent'
      BY <2>1, <3>1 DEF DraftInv, StoredIsCurrent, PresentLoaded
    <3> QED
      BY <1>0, <2>3, <3>2, <3>3 DEF DraftInv
  <2> QED
    BY <2>4, <2>5
<1>11. ASSUME UNCHANGED <<local, session, allocated, life, content, ref, attempted, timer>>,
              current' \in {current, NoEditor}
       PROVE  DraftInv'
  <2>1. UnbornBlank'
    BY <1>11 DEF DraftInv, UnbornBlank
  <2> QED
    BY <1>0, <1>11, <2>1, DraftUntouched
<1>12. ASSUME NEW e \in Editors,
              ReceiveCreate(e) \/ ReceiveAbandon(e) \/ ReceiveReadback(e)
       PROVE  DraftInv'
  <2>1. \/ Finish(e)
        \/ UNCHANGED <<local, session, allocated, life, current, content, ref, attempted, timer>>
    BY <1>12 DEF ReceiveCreate, ReceiveAbandon, ReceiveReadback, Release
  <2> QED
    BY <1>9, <1>11, <2>1
<1>13. ASSUME NEW e \in Editors, NEW call \in Calls, NEW authority \in BOOLEAN,
              Fail(e, call, authority)
       PROVE  DraftInv'
  BY <1>11, <1>13 DEF Fail
<1>14. ASSUME NEW e \in Editors \cup {NoEditor}, Serve(e) PROVE DraftInv'
  BY <1>11, <1>14 DEF Serve
<1>15. CASE Leave
  BY <1>11, <1>15 DEF Leave
<1>16. CASE Expire
  <2>1. UNCHANGED <<local, allocated, editorVars>> /\ session' # "active"
    BY <1>16 DEF Expire
  <2>2. UnbornBlank' /\ EmptyIsCleared' /\ PresentLoaded' /\ KeyBelongsToDraft'
    BY <2>1 DEF DraftInv, UnbornBlank, EmptyIsCleared, PresentLoaded, KeyBelongsToDraft, HasDraft
  <2> QED
    BY <1>0, <2>1, <2>2 DEF DraftInv, StoredIsCurrent
<1>17. ASSUME NEW signIn \in BOOLEAN, Reload(signIn) PROVE DraftInv'
  <2>1. /\ current' = NoEditor /\ UNCHANGED allocated
        /\ \A f \in Editors : ref'[f] = NoRef /\ content'[f] = Blank /\ ~attempted'[f]
        /\ local' = [stored |-> [local.stored EXCEPT !.own = @ /\ (signIn => ~HasDraft(local))],
                     cached |-> NoRef]
    BY <1>17 DEF Reload
  <2>2. UnbornBlank'
    BY <2>1 DEF UnbornBlank
  <2>3. /\ local'.stored.content = local.stored.content
        /\ local'.stored.ref = local.stored.ref
        /\ local'.stored.own => local.stored.own
        /\ ~HasDraft(local) => local'.stored.own = local.stored.own
    BY <1>0, <2>1 DEF Local, Draft
  <2>4. EmptyIsCleared'
    <3>1. CASE ~HasDraft(local')
      <4>1. local = Cleared
        BY <2>3, <3>1 DEF DraftInv, EmptyIsCleared, HasDraft
      <4>2. ~HasDraft(local)
        BY <1>0, <4>1, LoadOutcome
      <4>3. local'.stored = [content |-> NoContent, ref |-> NoRef, own |-> TRUE]
        BY <2>1, <4>1, <4>2 DEF Cleared, NoDraft
      <4> QED
        BY <2>1, <4>3 DEF EmptyIsCleared, Cleared, NoDraft
    <3> QED
      BY <3>1 DEF EmptyIsCleared
  <2>5. KeyBelongsToDraft'
    BY <2>1, <2>3 DEF DraftInv, KeyBelongsToDraft, HasDraft
  <2> QED
    BY <1>0, <2>1, <2>2, <2>4, <2>5, DraftUnattended
<1>18. CASE UNCHANGED vars
  BY <1>11, <1>18 DEF vars
<1>19. ASSUME NEW e \in Editors, User(e) PROVE DraftInv'
  <2>1. SaveTimer(e) => DraftInv'
    BY <1>5, <1>6
  <2>2. OpenNew(e) => DraftInv'
    BY <1>1
  <2>5. OpenRepeat(e) => DraftInv'
    BY <1>2
  <2>6. FirstEdit(e) \/ LaterEdit(e)  => DraftInv'
    BY <1>3, <1>4
  <2>7. MoveStep(e) => DraftInv'
    BY <1>5
  <2>3. Submit(e) \/ DiscardUntouched(e) \/ DiscardStarted(e) => DraftInv'
    BY <1>7, <1>9
  <2> QED
    BY <1>19, <2>1, <2>2, <2>3, <2>5, <2>6, <2>7 DEF User
<1>20. ASSUME NEW e \in Editors, Settle(e) PROVE DraftInv'
  BY <1>10, <1>12, <1>13, <1>20 DEF Settle
<1> QED
  BY <1>14, <1>15, <1>16, <1>17, <1>18, <1>19, <1>20 DEF Next

\* The invariants of the workflow and of the draft hold in every reachable state.
LEMMA DraftInvariant == Spec => [](IInv /\ DraftInv)
<1>1. Init => IInv /\ DraftInv
  <2> SUFFICES ASSUME Init PROVE IInv /\ DraftInv
    OBVIOUS
  <2>1. TypeOK
    BY DEF Init, TypeOK, Cleared, Local, Draft, NoDraft, NoRef, Ref, States
  <2>2. IInv
    BY <2>1 DEF Init, IInv, UnbornClean, CurrentOpen, WireKeys, ReplyKeys, SettledReply,
                FinishedIsTerminal
  <2>3. ~HasDraft(Cleared)
    BY DEF HasDraft, Cleared, NoDraft
  <2> QED
    BY <2>1, <2>2, <2>3 DEF Init, DraftInv, UnbornBlank, EmptyIsCleared, PresentLoaded,
                            KeyBelongsToDraft, StoredIsCurrent
<1> QED
  BY <1>1, InvStep, DraftStep, PTL DEF Spec

\* The stored draft never carries the key of an earlier draft.
THEOREM DraftKeepsItsKey == Spec => []KeyBelongsToDraft
<1>1. DraftInv => KeyBelongsToDraft
  BY DEF DraftInv
<1> QED
  BY <1>1, DraftInvariant, PTL

\* The stored draft is what the present form holds, unless a save is due.
THEOREM DraftIsCurrent == Spec => []StoredIsCurrent
<1>1. DraftInv => StoredIsCurrent
  BY DEF DraftInv
<1> QED
  BY <1>1, DraftInvariant, PTL

-----------------------------------------------------------------------------
(* LateStartKeepsDraft *)

\* saveWorkflow() changes neither the content nor the key of a draft it leaves, for
\* the reference of the key it expects.
LEMMA SaveWorkflowKeeps ==
  ASSUME NEW l \in Local, NEW r \in Ref
  PROVE  LET m == SaveWorkflow(l, r, r.key) IN
         HasDraft(m) => /\ m.stored.content = l.stored.content
                        /\ m.stored.ref.key = l.stored.ref.key
<1>1. CASE session = "active" /\ HasDraft(l) /\ l.stored.own
  BY <1>1, SaveWorkflowOutcome, CompletedDraft
<1>2. CASE ~(session = "active" /\ HasDraft(l) /\ l.stored.own)
  BY <1>2, SaveWorkflowOutcome, LoadOutcome
<1> QED
  BY <1>1, <1>2

\* The claim about one editor and one step
LateStart(e) ==
  starting[e] /\ ~starting'[e] /\ HasDraft(local')
  => /\ local'.stored.content = local.stored.content
     /\ local'.stored.ref.key = local.stored.ref.key

\* ensureStarted() ends no start.
LEMMA EnsureStartedStarts ==
  ASSUME TypeOK, NEW e \in Editors, NEW l, EnsureStarted(e, l), NEW f \in Editors, starting[f]
  PROVE  starting'[f]
  BY DEF EnsureStarted, TypeOK

\* Nobody waits for a start any more once its answer is received, its call has
\* failed or the page is reloaded; each of these keeps the draft.
LEMMA LateStartStep == TypeOK /\ [Next]_vars => \A e \in Editors : LateStart(e)
<1> SUFFICES ASSUME TypeOK, [Next]_vars, NEW f \in Editors, starting[f], ~starting'[f],
                    HasDraft(local')
             PROVE  /\ local'.stored.content = local.stored.content
                    /\ local'.stored.ref.key = local.stored.ref.key
  BY DEF LateStart
<1> USE DEF localVars, editorVars, netVars
<1>1. CASE UNCHANGED <<local, starting>>
  BY <1>1
<1>2. ASSUME UNCHANGED starting PROVE FALSE
  BY <1>2
<1>3. ASSUME NEW e \in Editors, User(e) PROVE FALSE
  <2>1. ~\E l : EnsureStarted(e, l)
    BY EnsureStartedStarts
  <2>2. ~UNCHANGED starting
    BY <1>2
  <2>3. ~(OpenNew(e) \/ OpenRepeat(e) \/ LaterEdit(e) \/ MoveStep(e) \/ SaveTimer(e))
    BY <2>2 DEF OpenNew, OpenRepeat, LaterEdit, MoveStep, SaveTimer
  <2>4. ~(FirstEdit(e) \/ Submit(e) \/ DiscardUntouched(e) \/ DiscardStarted(e))
    BY <2>1, <2>2 DEF FirstEdit, Submit, DiscardUntouched, DiscardStarted
  <2> QED
    BY <1>3, <2>3, <2>4 DEF User
<1>4. ASSUME NEW e \in Editors, Settle(e)
      PROVE  /\ local'.stored.content = local.stored.content
             /\ local'.stored.ref.key = local.stored.ref.key
  <2>1. CASE ReceiveStart(e)
    <3>1. PICK m \in replies : local' = WriteRef(e, local, [key |-> m.key, known |-> TRUE], m.key)
      BY <2>1 DEF ReceiveStart
    <3>2. m.key \in Keys /\ local \in Local
      BY DEF TypeOK, Reply
    <3> DEFINE r == [key |-> m.key, known |-> TRUE]
    <3>3. r \in Ref /\ r.key = m.key
      BY <3>2 DEF Ref
    <3> HIDE DEF r
    <3>4. local' = local \/ local' = SaveWorkflow(local, r, r.key)
      BY <3>1, <3>3 DEF WriteRef, r
    <3> QED
      BY <3>2, <3>3, <3>4, SaveWorkflowKeeps
  <2>2. CASE ReceiveCreate(e) \/ ReceiveAbandon(e) \/ ReceiveReadback(e)
    BY <1>2, <2>2 DEF ReceiveCreate, ReceiveAbandon, ReceiveReadback, Finish, Release
  <2>3. CASE \E call \in Calls, authority \in BOOLEAN : Fail(e, call, authority)
    BY <2>3 DEF Fail
  <2> QED
    BY <1>4, <2>1, <2>2, <2>3 DEF Settle
<1>5. ASSUME NEW signIn \in BOOLEAN, Reload(signIn)
      PROVE  /\ local'.stored.content = local.stored.content
             /\ local'.stored.ref.key = local.stored.ref.key
  BY <1>5 DEF Reload, TypeOK, Local, Draft
<1>6. CASE Leave \/ Expire \/ UNCHANGED vars \/ \E e \in Editors \cup {NoEditor} : Serve(e)
  BY <1>2, <1>6 DEF Leave, Expire, vars, Serve
<1> QED
  BY <1>3, <1>4, <1>5, <1>6 DEF Next

\* Whoever wrote the draft that is stored when the answer to a start arrives, or
\* fails to: the answer changes neither its content nor its key.
THEOREM LateStartsKeepTheDraft == Spec => LateStartKeepsDraft
<1>1. TypeOK /\ [Next]_vars
      => [\A e \in Editors :
            starting[e] /\ ~starting'[e] /\ HasDraft(local')
            => /\ local'.stored.content = local.stored.content
               /\ local'.stored.ref.key = local.stored.ref.key]_vars
  BY LateStartStep DEF LateStart
<1> QED
  BY <1>1, TypeCorrect, PTL DEF Spec, LateStartKeepsDraft

-----------------------------------------------------------------------------
(* One key per draft.  Where validatedDraft() refuses what the form holds, a
   workflow is started whose key no stored draft carries, and a second one after
   it: so all of this is about forms whose contents the store accepts. *)

\* The keys handed out for the draft are the one stored with it, and the one its
\* editor has; a session's empty store is that of an untouched form
KeysOfDraft  == HasDraft(local) /\ local.stored.own
                => allocated = {local.stored.ref.key} \ {NoKey}
KeysOfEditor == \A e \in Editors :
                  current = e /\ Backed(e) => allocated = {ref[e].key} \ {NoKey}
Untouched    == \A e \in Editors :
                  current = e /\ Backed(e) /\ session = "active" /\ ~HasDraft(local)
                  => ref[e] = NoRef /\ content[e] = Blank /\ ~attempted[e]
AtMostOne    == \E k \in Keys \cup {NoKey} : allocated \subseteq {k}

KeyInv == KeysOfDraft /\ KeysOfEditor /\ Untouched /\ AtMostOne

\* Steps that leave draft, keys and references alone, and at most leave the editor.
LEMMA KeysUntouched ==
  ASSUME KeyInv, UNCHANGED <<local, allocated, ref>>, current' \in {current, NoEditor},
         session' = "active" => session = "active",
         \A e \in Editors : current' = e /\ ~HasDraft(local) /\ session = "active" /\ ~attempted[e]
                            => content'[e] = content[e] /\ ~attempted'[e]
  PROVE  KeyInv'
<1>1. \A e \in Editors : current' = e => current = e
  OBVIOUS
<1> QED
  BY <1>1 DEF KeyInv, KeysOfDraft, KeysOfEditor, Untouched, AtMostOne, HasDraft

\* Steps that leave no backed editor, and of the draft either nothing or its key.
LEMMA KeysUnattended ==
  ASSUME KeyInv, \A e \in Editors : current' = e => ~Backed(e),
         \/ ~HasDraft(local') /\ allocated' = {}
         \/ /\ HasDraft(local') /\ local'.stored.own => HasDraft(local) /\ local.stored.own
            /\ local'.stored.ref.key = local.stored.ref.key
            /\ UNCHANGED allocated
  PROVE  KeyInv'
  BY DEF KeyInv, KeysOfDraft, KeysOfEditor, Untouched, AtMostOne

\* Steps of the present editor, by the draft and the reference it has after them.
LEMMA KeysStored ==
  ASSUME TypeOK', NEW e \in Editors, current' = e,
         allocated' = {ref'[e].key} \ {NoKey},
         HasDraft(local') => allocated' = {local'.stored.ref.key} \ {NoKey},
         session' = "active" /\ ~HasDraft(local')
           => ref'[e] = NoRef /\ content'[e] = Blank /\ ~attempted'[e]
  PROVE  KeyInv'
<1>1. ref'[e].key \in Keys \cup {NoKey}
  BY DEF TypeOK, Ref, NoRef
<1> QED
  BY <1>1 DEF KeyInv, KeysOfDraft, KeysOfEditor, Untouched, AtMostOne

\* saveDraft() stores the reference that is cached: that of the draft, or none.
LEMMA SaveDraftKeys ==
  ASSUME KeyInv, NEW e \in Editors, current = e, Backed(e),
         local \in Local, Loaded(local, allocated), NEW c \in Contents
  PROVE  HasDraft(SaveDraft(e, c)) => allocated = {SaveDraft(e, c).stored.ref.key} \ {NoKey}
<1>1. HasDraft(local) => allocated = {local.stored.ref.key} \ {NoKey}
  BY DEF KeyInv, KeysOfDraft, Loaded
<1>2. CASE session = "active" /\ c \notin Refused
  <2>1. SaveDraft(e, c).stored.ref = local.cached
    BY <1>2, SaveDraftOutcome
  <2>2. CASE HasDraft(local)
    BY <1>1, <2>1, <2>2 DEF Loaded
  <2>3. CASE ~HasDraft(local)
    <3>1. local.cached.key = NoKey /\ ref[e].key = NoKey
      BY <1>2, <2>3 DEF KeyInv, Untouched, Loaded, Cleared, NoRef
    <3> QED
      BY <2>1, <3>1 DEF KeyInv, KeysOfEditor
  <2> QED
    BY <2>2, <2>3
<1>3. CASE ~(session = "active" /\ c \notin Refused)
  BY <1>1, <1>3, SaveDraftOutcome
<1> QED
  BY <1>2, <1>3

\* ensureStarted() hands out the first key of the draft, and records it with it.
LEMMA EnsureStartedKeys ==
  ASSUME TypeOK, NEW e \in Editors, Backed(e), NEW l \in Local, Loaded(l, allocated),
         EnsureStarted(e, l), allocated = {ref[e].key} \ {NoKey},
         HasDraft(l) => allocated = {l.stored.ref.key} \ {NoKey}
  PROVE  /\ allocated' = {ref'[e].key} \ {NoKey}
         /\ HasDraft(local') => allocated' = {local'.stored.ref.key} \ {NoKey}
<1>1. CASE local' = l /\ UNCHANGED <<allocated, ref>>
  BY <1>1
<1>2. CASE ~starting[e] /\ ref[e] = NoRef
  <2>0. ~ref[e].known /\ ref[e].key = NoKey
    BY <1>2 DEF NoRef
  <2> DEFINE r(k) == [key |-> k, known |-> FALSE]
  <2>1. PICK k \in Keys \ used : /\ local' = WriteRef(e, l, r(k), NoKey)
                                 /\ ref' = [ref EXCEPT ![e] = r(k)]
                                 /\ allocated' = allocated \cup {k}
    BY <1>2, <2>0 DEF EnsureStarted
  <2>2. local' = SaveWorkflow(l, r(k), NoKey)
    BY <2>1 DEF WriteRef
  <2>3. r(k) \in Ref /\ r(k).key = k
    BY DEF Ref
  <2> HIDE DEF r
  <2>4. allocated' = {k} /\ k # NoKey /\ ref'[e].key = k
    BY <2>0, <2>1, <2>3 DEF TypeOK
  <2>5. CASE session = "active" /\ HasDraft(l)
    <3>1. local' = Completed(l, r(k), NoKey)
      BY <2>2, <2>5, SaveWorkflowOutcome DEF Loaded
    <3>2. l.stored.ref.key = NoKey
      BY <2>0, <2>5
    <3>3. local'.stored.ref.key = k
      BY <2>3, <3>1, <3>2, CompletedDraft
    <3> QED
      BY <2>4, <3>3
  <2>6. CASE ~(session = "active" /\ HasDraft(l))
    <3>1. local' = Cleared
      BY <2>2, <2>6, SaveWorkflowOutcome DEF Loaded
    <3> QED
      BY <2>4, <3>1, LoadOutcome
  <2> QED
    BY <2>5, <2>6
<1> QED
  BY <1>1, <1>2 DEF EnsureStarted

\* Every step keeps it, where the store refuses nothing.
LEMMA KeyStep ==
  ASSUME Refused = {}
  PROVE  KeyInv /\ DraftInv /\ IInv /\ [Next]_vars => KeyInv'
<1> SUFFICES ASSUME KeyInv, DraftInv, IInv, [Next]_vars PROVE KeyInv'
  OBVIOUS
<1> USE DEF localVars, editorVars, netVars
<1>0. TypeOK /\ TypeOK' /\ local \in Local
  BY TypeStep DEF DraftInv, TypeOK
<1>1. ASSUME NEW e \in Editors, OpenNew(e) PROVE KeyInv'
  <2>1. /\ life[e] = "unborn" /\ current' = e /\ local' = Load(local)
        /\ ref[e] = NoRef /\ content[e] = Blank /\ ~attempted[e] /\ UNCHANGED attempted
    BY <1>1 DEF OpenNew, DraftInv, UnbornBlank
  <2>2. CASE HasDraft(local')
    <3>1. HasDraft(local) /\ local.stored.own /\ local' = [local EXCEPT !.cached = local.stored.ref]
      BY <1>0, <2>1, <2>2, LoadOutcome DEF Load
    <3>2. local'.stored = local.stored /\ local'.cached = local.stored.ref
      BY <1>0, <3>1 DEF Local
    <3>3. allocated' = allocated /\ ref'[e] = local.stored.ref
      BY <1>0, <1>1, <2>2, <3>2 DEF OpenNew, TypeOK
    <3> QED
      BY <1>0, <2>1, <2>2, <3>1, <3>2, <3>3, KeysStored DEF KeyInv, KeysOfDraft
  <2>3. CASE ~HasDraft(local')
    <3>1. allocated' = {} /\ UNCHANGED <<ref, content>>
      BY <1>1, <2>3 DEF OpenNew
    <3>2. ref[e].key = NoKey
      BY <2>1 DEF NoRef
    <3> QED
      BY <1>0, <2>1, <2>3, <3>1, <3>2, KeysStored
  <2> QED
    BY <2>2, <2>3
<1>2. ASSUME NEW e \in Editors, OpenRepeat(e) PROVE KeyInv'
  BY <1>2, KeysUnattended DEF OpenRepeat, HasDraft
<1>3. ASSUME NEW e \in Editors, FirstEdit(e) PROVE KeyInv'
  <2>1. PICK c \in Contents : /\ content' = [content EXCEPT ![e] = c]
                              /\ EnsureStarted(e, SaveDraft(e, c))
    BY <1>3 DEF FirstEdit
  <2>2. current = e /\ current' = e /\ UNCHANGED session
    BY <1>3 DEF FirstEdit, Usable
  <2>3. CASE Backed(e)
    <3>1. Loaded(local, allocated)
      BY <2>2, <2>3, PresentIsLoaded
    <3>2. /\ SaveDraft(e, c) \in Local
          /\ Loaded(SaveDraft(e, c), allocated)
          /\ session = "active" => HasDraft(SaveDraft(e, c))
          /\ HasDraft(SaveDraft(e, c)) => allocated = {SaveDraft(e, c).stored.ref.key} \ {NoKey}
      BY <1>0, <2>2, <2>3, <3>1, SaveDraftType, SaveDraftOutcome, SaveDraftKeys
    <3>3. session = "active" => HasDraft(local')
      BY <1>0, <2>1, <2>3, <3>2, EnsureStartedDraft
    <3>4. allocated = {ref[e].key} \ {NoKey}
      BY <2>2, <2>3 DEF KeyInv, KeysOfEditor
    <3>5. /\ allocated' = {ref'[e].key} \ {NoKey}
          /\ HasDraft(local') => allocated' = {local'.stored.ref.key} \ {NoKey}
      BY <1>0, <2>1, <2>3, <3>2, <3>4, EnsureStartedKeys
    <3> QED
      BY <1>0, <2>2, <3>3, <3>5, KeysStored
  <2>4. CASE ~Backed(e)
    <3>1. UNCHANGED <<local, allocated>>
      BY <1>0, <2>1, <2>4, EnsureStartedRepeat DEF SaveDraft
    <3> QED
      BY <2>2, <2>4, <3>1, KeysUnattended DEF HasDraft
  <2> QED
    BY <2>3, <2>4
<1>4. ASSUME NEW e \in Editors, LaterEdit(e) PROVE KeyInv'
  <2>1. /\ current = e /\ current' = e /\ attempted[e]
        /\ UNCHANGED <<local, allocated, ref, session>>
    BY <1>4 DEF LaterEdit, Usable
  <2> QED
    BY <2>1, KeysUntouched
<1>5. ASSUME NEW e \in Editors, MoveStep(e) \/ (SaveTimer(e) /\ current = e)
      PROVE  KeyInv'
  <2>1. /\ current = e /\ current' = e /\ local' = SaveDraft(e, content[e])
        /\ content[e] \in Contents
        /\ UNCHANGED <<session, allocated, content, ref>>
    BY <1>0, <1>5 DEF MoveStep, SaveTimer, Usable, TypeOK
  <2>2. CASE Backed(e)
    <3>1. Loaded(local, allocated)
      BY <2>1, <2>2, PresentIsLoaded
    <3>2. /\ session = "active" => HasDraft(local')
          /\ HasDraft(local') => allocated = {local'.stored.ref.key} \ {NoKey}
      BY <1>0, <2>1, <2>2, <3>1, SaveDraftOutcome, SaveDraftKeys
    <3>3. allocated = {ref[e].key} \ {NoKey}
      BY <2>1, <2>2 DEF KeyInv, KeysOfEditor
    <3> QED
      BY <1>0, <2>1, <3>2, <3>3, KeysStored
  <2>3. CASE ~Backed(e)
    BY <2>1, <2>3, KeysUnattended DEF SaveDraft, HasDraft
  <2> QED
    BY <2>2, <2>3
<1>6. ASSUME NEW e \in Editors, SaveTimer(e), current # e PROVE KeyInv'
  BY <1>6, KeysUntouched DEF SaveTimer
<1>7. ASSUME NEW e \in Editors, Submit(e) \/ DiscardStarted(e) PROVE KeyInv'
  <2>1. /\ current = e /\ current' = e /\ UNCHANGED <<session, content>>
        /\ content[e] # Blank \/ ref[e] # NoRef
    BY <1>7 DEF Submit, DiscardStarted, Usable
  <2>2. CASE ref[e].known
    BY <1>7, <2>1, <2>2, KeysUntouched DEF Submit, DiscardStarted
  <2>3. CASE ~ref[e].known
    <3>1. EnsureStarted(e, local)
      BY <1>7, <2>3 DEF Submit, DiscardStarted
    <3>2. CASE Backed(e)
      <4>1. Loaded(local, allocated)
        BY <2>1, <3>2, PresentIsLoaded
      <4>2. session = "active" => HasDraft(local)
        BY <2>1, <3>2 DEF KeyInv, Untouched
      <4>3. session = "active" => HasDraft(local')
        BY <1>0, <3>1, <3>2, <4>1, <4>2, EnsureStartedDraft
      <4>4. /\ allocated = {ref[e].key} \ {NoKey}
            /\ HasDraft(local) => allocated = {local.stored.ref.key} \ {NoKey}
        BY <2>1, <3>2, <4>1 DEF KeyInv, KeysOfEditor, KeysOfDraft, Loaded
      <4>5. /\ allocated' = {ref'[e].key} \ {NoKey}
            /\ HasDraft(local') => allocated' = {local'.stored.ref.key} \ {NoKey}
        BY <1>0, <3>1, <3>2, <4>1, <4>4, EnsureStartedKeys
      <4> QED
        BY <1>0, <2>1, <4>3, <4>5, KeysStored
    <3>3. CASE ~Backed(e)
      <4>1. UNCHANGED <<local, allocated>>
        BY <1>0, <3>1, <3>3, EnsureStartedRepeat
      <4> QED
        BY <2>1, <3>3, <4>1, KeysUnattended DEF HasDraft
    <3> QED
      BY <3>2, <3>3
  <2> QED
    BY <2>2, <2>3
<1>8. ASSUME NEW e \in Editors, Conclude(e), UNCHANGED <<session, content, ref, attempted>>
      PROVE  KeyInv'
  <2>1. CASE current = e
    <3>1. \/ ~HasDraft(local') /\ allocated' = {}
          \/ UNCHANGED <<local, allocated>>
      BY <1>0, <1>8, <2>1, LoadOutcome DEF Conclude
    <3>2. current' = NoEditor
      BY <1>8, <2>1 DEF Conclude
    <3> QED
      BY <3>1, <3>2, KeysUnattended DEF HasDraft
  <2>2. CASE current # e
    BY <1>8, <2>2, KeysUntouched DEF Conclude
  <2> QED
    BY <2>1, <2>2
<1>9. ASSUME NEW e \in Editors, DiscardUntouched(e) \/ Finish(e) PROVE KeyInv'
  BY <1>8, <1>9 DEF DiscardUntouched, Finish
<1>10. ASSUME NEW e \in Editors, ReceiveStart(e) PROVE KeyInv'
  <2>1. PICK m \in replies :
          /\ m.from = e
          /\ ref' = [ref EXCEPT ![e] = [key |-> m.key, known |-> TRUE]]
          /\ local' = WriteRef(e, local, [key |-> m.key, known |-> TRUE], m.key)
          /\ UNCHANGED <<session, allocated, current, content, attempted>>
    BY <1>10 DEF ReceiveStart
  <2>2. m.key \in Keys /\ ref[e].key = m.key /\ ref[e] # NoRef
    BY <1>0, <2>1, CallerIsBorn DEF TypeOK, Reply
  <2>3. \A f \in Editors : ref'[f].key = ref[f].key /\ (f # e => ref'[f] = ref[f])
    BY <1>0, <2>1, <2>2 DEF TypeOK
  <2>4. /\ \/ local' = local \/ ~HasDraft(local')
           \/ /\ HasDraft(local) /\ local.stored.own
              /\ local'.stored.ref.key = local.stored.ref.key
        /\ session = "active" /\ HasDraft(local) /\ local.stored.own => HasDraft(local')
    BY <1>0, <2>1, <2>2, ReceiveStartDraft, LoadOutcome
  <2>5. KeysOfDraft'
    BY <2>1, <2>4 DEF KeyInv, KeysOfDraft, HasDraft
  <2>6. KeysOfEditor'
    BY <2>1, <2>3 DEF KeyInv, KeysOfEditor
  <2>7. Untouched'
    <3> SUFFICES ASSUME NEW f \in Editors, current = f, Backed(f), session = "active",
                        ~HasDraft(local')
                 PROVE  ref'[f] = NoRef /\ content[f] = Blank /\ ~attempted[f]
      BY <2>1 DEF Untouched
    <3>1. ~HasDraft(local)
      BY <2>4 DEF DraftInv, PresentLoaded
    <3>2. ref[f] = NoRef /\ content[f] = Blank /\ ~attempted[f]
      BY <3>1 DEF KeyInv, Untouched
    <3> QED
      BY <2>2, <2>3, <3>2
  <2> QED
    BY <2>1, <2>5, <2>6, <2>7 DEF KeyInv, AtMostOne
<1>11. ASSUME UNCHANGED <<local, session, allocated, content, ref, attempted>>,
              current' \in {current, NoEditor}
       PROVE  KeyInv'
  BY <1>11, KeysUntouched
<1>12. ASSUME NEW e \in Editors,
              ReceiveCreate(e) \/ ReceiveAbandon(e) \/ ReceiveReadback(e)
       PROVE  KeyInv'
  <2>1. \/ Finish(e)
        \/ UNCHANGED <<local, session, allocated, current, content, ref, attempted>>
    BY <1>12 DEF ReceiveCreate, ReceiveAbandon, ReceiveReadback, Release
  <2> QED
    BY <1>9, <1>11, <2>1
<1>13. ASSUME NEW e \in Editors, NEW call \in Calls, NEW authority \in BOOLEAN,
              Fail(e, call, authority)
       PROVE  KeyInv'
  BY <1>11, <1>13 DEF Fail
<1>14. ASSUME NEW e \in Editors \cup {NoEditor}, Serve(e) PROVE KeyInv'
  BY <1>11, <1>14 DEF Serve
<1>15. CASE Leave
  BY <1>11, <1>15 DEF Leave
<1>16. CASE Expire
  BY <1>16, KeysUntouched DEF Expire
<1>17. ASSUME NEW signIn \in BOOLEAN, Reload(signIn) PROVE KeyInv'
  <2>1. /\ current' = NoEditor /\ UNCHANGED allocated
        /\ local' = [stored |-> [local.stored EXCEPT !.own = @ /\ (signIn => ~HasDraft(local))],
                     cached |-> NoRef]
    BY <1>17 DEF Reload
  <2>2. /\ local'.stored.content = local.stored.content
        /\ local'.stored.ref = local.stored.ref
        /\ local'.stored.own => local.stored.own
    BY <1>0, <2>1 DEF Local, Draft
  <2> QED
    BY <2>1, <2>2, KeysUnattended DEF HasDraft
<1>18. CASE UNCHANGED vars
  BY <1>11, <1>18 DEF vars
<1>19. ASSUME NEW e \in Editors, User(e) PROVE KeyInv'
  <2>1. OpenNew(e) \/ OpenRepeat(e) => KeyInv'
    BY <1>1, <1>2
  <2>2. FirstEdit(e) \/ LaterEdit(e) => KeyInv'
    BY <1>3, <1>4
  <2>3. MoveStep(e) \/ SaveTimer(e) => KeyInv'
    BY <1>5, <1>6
  <2>4. Submit(e) \/ DiscardUntouched(e) \/ DiscardStarted(e) => KeyInv'
    BY <1>7, <1>9
  <2> QED
    BY <1>19, <2>1, <2>2, <2>3, <2>4 DEF User
<1>20. ASSUME NEW e \in Editors, Settle(e) PROVE KeyInv'
  BY <1>10, <1>12, <1>13, <1>20 DEF Settle
<1> QED
  BY <1>14, <1>15, <1>16, <1>17, <1>18, <1>19, <1>20 DEF Next

\* Where the store refuses nothing, so does the invariant of the keys.
LEMMA KeyInvariant ==
  ASSUME Refused = {}
  PROVE  Spec => [](IInv /\ DraftInv /\ KeyInv)
<1>1. Init => KeyInv
  <2>1. ~HasDraft(Cleared)
    BY DEF HasDraft, Cleared, NoDraft
  <2> QED
    BY <2>1 DEF Init, KeyInv, KeysOfDraft, KeysOfEditor, Untouched, AtMostOne
<1>2. KeyInv /\ DraftInv /\ IInv /\ [Next]_vars => KeyInv'
  BY KeyStep
<1> QED
  BY <1>1, <1>2, DraftInvariant, PTL DEF Spec

\* Where the store refuses nothing, a draft is started under one idempotency key
\* only: across navigation, reloads, lost answers and retries.
THEOREM DraftsHaveOneKey ==
  ASSUME Refused = {}
  PROVE  Spec => []OneKeyPerDraft
<1>1. KeyInv => OneKeyPerDraft
  <2> SUFFICES ASSUME KeyInv PROVE Cardinality(allocated) <= 1
    BY DEF OneKeyPerDraft
  <2>1. PICK k : allocated \subseteq {k}
    BY DEF KeyInv, AtMostOne
  <2>2. IsFiniteSet({k}) /\ Cardinality({k}) = 1
    BY FS_Singleton
  <2> QED
    BY <2>1, <2>2, FS_Subset
<1> QED
  BY <1>1, KeyInvariant, PTL

\* Where the store refuses nothing, what a reload would resume is what the present
\* editor submits under.
THEOREM ReloadsResumeTheKey ==
  ASSUME Refused = {}
  PROVE  Spec => []ResumeKeepsKey
<1>1. IInv /\ DraftInv /\ KeyInv => ResumeKeepsKey
  <2> SUFFICES ASSUME IInv, DraftInv, KeyInv, NEW e \in Editors,
                      current = e, Backed(e), HasDraft(local)
               PROVE  local.stored.ref.key = ref[e].key
    BY DEF ResumeKeepsKey
  <2>1. {local.stored.ref.key} \ {NoKey} = {ref[e].key} \ {NoKey}
    BY DEF KeyInv, KeysOfDraft, KeysOfEditor, DraftInv, PresentLoaded
  <2> QED
    BY <2>1
<1> QED
  BY <1>1, KeyInvariant, PTL

\* A session's draft is removed by its editor alone, once its workflow has ended.
LEMMA ClearedStep ==
  ASSUME IInv, DraftInv, KeyInv, [Next]_vars, Refused = {},
         session = "active", HasDraft(local), local.stored.own, ~HasDraft(local')
  PROVE  \A k \in allocated : server[k] \in Terminal
<1> USE DEF localVars, editorVars, netVars
<1>0. TypeOK /\ local \in Local
  BY DEF DraftInv, TypeOK
<1>1. ~UNCHANGED local
  BY DEF HasDraft
<1>2. ASSUME NEW e \in Editors, current = e, Backed(e),
             ref[e] = NoRef \/ server[ref[e].key] \in Terminal
      PROVE  \A k \in allocated : server[k] \in Terminal
  BY <1>2 DEF KeyInv, KeysOfEditor, NoRef
<1>3. ASSUME NEW e \in Editors, NEW c \in Contents, current = e
      PROVE  /\ HasDraft(SaveDraft(e, c))
             /\ ~EnsureStarted(e, SaveDraft(e, c))
             /\ ~EnsureStarted(e, local)
  <2>1. CASE Backed(e)
    <3>1. Loaded(local, allocated)
      BY <1>3, <2>1, PresentIsLoaded
    <3>2. /\ SaveDraft(e, c) \in Local
          /\ Loaded(SaveDraft(e, c), allocated)
          /\ HasDraft(SaveDraft(e, c))
      BY <1>0, <2>1, <3>1, SaveDraftType, SaveDraftOutcome
    <3> QED
      BY <1>0, <2>1, <3>1, <3>2, EnsureStartedDraft
  <2>2. CASE ~Backed(e)
    BY <1>0, <1>1, <2>2, EnsureStartedRepeat DEF SaveDraft
  <2> QED
    BY <2>1, <2>2
<1>4. ASSUME NEW e \in Editors, Conclude(e) PROVE current = e /\ Backed(e)
  BY <1>1, <1>4 DEF Conclude
<1>5. ASSUME NEW e \in Editors, NEW m \in replies, m.from = e, Settles(m), Finish(e)
      PROVE  \A k \in allocated : server[k] \in Terminal
  <2>1. current = e /\ Backed(e)
    BY <1>4, <1>5 DEF Finish
  <2>2. ref[e].key = m.key /\ server[m.key] \in Terminal
    BY <1>5, CallerIsBorn DEF IInv, SettledReply
  <2> QED
    BY <1>2, <2>1, <2>2
<1>6. ASSUME NEW e \in Editors, User(e) PROVE \A k \in allocated : server[k] \in Terminal
  <2>1. ~OpenNew(e)
    BY <1>0, LoadOutcome DEF OpenNew
  <2>2. ~OpenRepeat(e) /\ ~LaterEdit(e)
    BY <1>1 DEF OpenRepeat, LaterEdit
  <2>3. ~FirstEdit(e)
    BY <1>3 DEF FirstEdit, Usable
  <2>4. ~MoveStep(e) /\ ~SaveTimer(e)
    BY <1>0, <1>1, <1>3 DEF MoveStep, SaveTimer, Usable, TypeOK
  <2>5. ~Submit(e) /\ ~DiscardStarted(e)
    BY <1>1, <1>3 DEF Submit, DiscardStarted, Usable
  <2>6. DiscardUntouched(e)
    BY <1>6, <2>1, <2>2, <2>3, <2>4, <2>5 DEF User
  <2> QED
    BY <1>2, <1>4, <2>6 DEF DiscardUntouched
<1>7. ASSUME NEW e \in Editors, Settle(e) PROVE \A k \in allocated : server[k] \in Terminal
  <2>1. ~ReceiveStart(e)
    BY <1>0, ReceiveStartDraft DEF ReceiveStart, TypeOK, Reply
  <2>2. ~\E call \in Calls, authority \in BOOLEAN : Fail(e, call, authority)
    BY <1>1 DEF Fail
  <2>3. CASE ReceiveCreate(e)
    BY <1>1, <1>5, <2>3 DEF ReceiveCreate, Release, Settles
  <2>4. CASE ReceiveAbandon(e)
    BY <1>1, <1>5, <2>4 DEF ReceiveAbandon, Settles
  <2>5. CASE ReceiveReadback(e)
    BY <1>1, <1>5, <2>5 DEF ReceiveReadback, Release, Settles
  <2> QED
    BY <1>7, <2>1, <2>2, <2>3, <2>4, <2>5 DEF Settle
<1>8. ASSUME NEW signIn \in BOOLEAN PROVE ~Reload(signIn)
  BY <1>0 DEF Reload, Local, Draft, HasDraft
<1> QED
  BY <1>1, <1>6, <1>7, <1>8 DEF Next, Leave, Expire, Serve, vars

\* Where the store refuses nothing, a session's draft is removed only when the
\* backend has ended every workflow that was started for it.
THEOREM DraftsEndWithTheirWorkflow ==
  ASSUME Refused = {}
  PROVE  Spec => ClearedOnlyWhenTerminal
<1>1. IInv /\ DraftInv /\ KeyInv /\ [Next]_vars
      => [session = "active" /\ HasDraft(local) /\ local.stored.own /\ ~HasDraft(local')
          => \A k \in allocated : server[k] \in Terminal]_vars
  BY ClearedStep
<1> QED
  BY <1>1, KeyInvariant, PTL DEF Spec, ClearedOnlyWhenTerminal

=============================================================================
