---------------------------- MODULE CustomerSignIn ----------------------------
(***************************************************************************)
(* Signing in by invitation: an eight-digit code sent by mail, or Microsoft,   *)
(* proves a transaction, which the browser holds as a cookie; a proved          *)
(* transaction offers memberships, and the one selected opens the session.      *)
(*                                                                              *)
(* platform/customer-authentication/controller.js, what its view (view.js)      *)
(* offers in each phase, the clients (client.js, microsoft-client.js) and       *)
(* completeSession() (bootstrap.js).  The controller makes one call at a time.   *)
(* Any call may be lost on its way there or back, and one that was given up      *)
(* may still arrive.                                                             *)
(*                                                                              *)
(* The CSRF tokens come with the answers that lead to the phases that need them, *)
(* and are not modelled.                                                         *)
(***************************************************************************)

CONSTANTS Transactions, NoTransaction

VARIABLES
  phase,      \* state.phase, "absent" while the document has no such view
  offered,    \* state.items is not empty
  microsoft,  \* the choices are those of a Microsoft transaction
  call,       \* the call that is awaited; the controller is busy meanwhile
  jar,        \* the browser's cookies: the transaction of each kind
  stage,      \* backend: the transactions
  session,    \* backend: the session of the browser
  stray,      \* calls given up that may still arrive
  sent        \* history: transactions a selection was sent in since the view was created,
              \* and those in which it was sent again

viewVars == <<phase, offered, microsoft, call>>
vars     == <<viewVars, jar, stage, session, stray, sent>>

-----------------------------------------------------------------------------

Phases == {"absent", "loading", "email", "code", "choices", "resume_required",
           "refresh_required", "authenticated"}
Stages == {"unused", "code", "proved", "over"}
Cookie == Transactions \cup {NoTransaction}

Kinds    == {"pending", "challenge", "verify", "choices", "select", "bootstrap"}
\* What the controller is doing: recover(true), recover(false), or an operation
Purposes == {"load", "resume", "request", "verify", "select", "check"}
Answers  == {"awaited", "done", "code", "proved", "empty", "denied", "limited"}

Call   == [kind : Kinds, purpose : Purposes, of : Cookie, answer : Answers]
NoCall == [kind |-> "none", purpose |-> "none", of |-> NoTransaction, answer |-> "awaited"]

Idle == call = NoCall

Current == IF microsoft THEN jar.microsoft ELSE jar.email

Init ==
  /\ phase = "absent"
  /\ offered = FALSE
  /\ microsoft = FALSE
  /\ call = NoCall
  /\ jar = [email |-> NoTransaction, microsoft |-> NoTransaction]
  /\ stage = [t \in Transactions |-> "unused"]
  /\ session = "none"
  /\ stray = {}
  /\ sent = [once |-> {}, again |-> {}]

-----------------------------------------------------------------------------
(* The controller *)

\* What a call leaves behind when nobody waits for it any more
Abandoned == IF call.kind \in {"verify", "select"} /\ call.answer = "awaited"
             THEN stray \cup {[kind |-> call.kind, of |-> call.of]} ELSE stray

\* A call of the controller, in the transaction that goes with it
Ask(kind, purpose, of) ==
  /\ phase' = "loading"
  /\ call' = [kind |-> kind, purpose |-> purpose, of |-> of, answer |-> "awaited"]

\* createSignInView() and load(), after a callback of Microsoft or without
Open(callback) ==
  /\ phase = "absent"
  /\ microsoft' = callback
  /\ IF callback THEN Ask("choices", "load", jar.microsoft)
                 ELSE Ask("pending", "load", jar.email)
  /\ UNCHANGED <<offered, jar, stage, session, stray, sent>>

\* The document is replaced, by the user or by completeSession()
Close ==
  /\ phase # "absent"
  /\ phase' = "absent"
  /\ offered' = FALSE
  /\ microsoft' = FALSE
  /\ call' = NoCall
  /\ stray' = Abandoned
  /\ sent' = [once |-> {}, again |-> {}]
  /\ UNCHANGED <<jar, stage, session>>

\* request()
Request ==
  /\ phase = "email" /\ Idle
  /\ microsoft' = FALSE
  /\ Ask("challenge", "request", NoTransaction)
  /\ UNCHANGED <<offered, jar, stage, session, stray, sent>>

\* verify()
Verify ==
  /\ phase = "code" /\ Idle
  /\ Ask("verify", "verify", jar.email)
  /\ UNCHANGED <<offered, microsoft, jar, stage, session, stray, sent>>

\* resume()
Resume ==
  /\ phase = "resume_required" /\ Idle
  /\ IF microsoft THEN Ask("choices", "resume", jar.microsoft)
                  ELSE Ask("pending", "resume", jar.email)
  /\ UNCHANGED <<offered, microsoft, jar, stage, session, stray, sent>>

\* select(), of a membership that is offered
Select ==
  /\ phase = "choices" /\ offered /\ Idle
  /\ Ask("select", "select", Current)
  /\ sent' = [once |-> sent.once \cup {Current},
              again |-> sent.again \cup (sent.once \cap {Current})]
  /\ UNCHANGED <<offered, microsoft, jar, stage, session, stray>>

\* checkSession()
CheckSession ==
  /\ phase = "refresh_required" /\ Idle
  /\ Ask("bootstrap", "check", NoTransaction)
  /\ UNCHANGED <<offered, microsoft, jar, stage, session, stray, sent>>

\* restart()
Restart ==
  /\ phase \in {"code", "choices", "resume_required", "refresh_required"} /\ Idle
  /\ phase' = "email"
  /\ offered' = FALSE
  /\ microsoft' = FALSE
  /\ UNCHANGED <<call, jar, stage, session, stray, sent>>

-----------------------------------------------------------------------------
(* The backend *)

Reply(answer) == call' = [call EXCEPT !.answer = answer]

\* A new challenge; a message that was not sent is an answer of no use
ServeChallenge ==
  /\ call.kind = "challenge" /\ call.answer = "awaited"
  /\ \/ \E t \in Transactions :
          /\ stage[t] = "unused"
          /\ stage' = [stage EXCEPT ![t] = "code"]
          /\ call' = [call EXCEPT !.answer = "done", !.of = t]
     \/ UNCHANGED stage /\ Reply("limited")
  /\ UNCHANGED <<phase, offered, microsoft, jar, session, stray, sent>>

StageOf(t) == IF t \in Transactions THEN stage[t] ELSE "over"

ServePending ==
  /\ call.kind = "pending" /\ call.answer = "awaited"
  /\ Reply(IF StageOf(call.of) \in {"code", "proved"} THEN StageOf(call.of) ELSE "denied")
  /\ UNCHANGED <<phase, offered, microsoft, jar, stage, session, stray, sent>>

\* The right code, or a wrong one, which may have been the last attempt
ServeVerify ==
  /\ call.kind = "verify" /\ call.answer = "awaited"
  /\ \/ /\ StageOf(call.of) = "code"
        /\ stage' = [stage EXCEPT ![call.of] = "proved"]
        /\ Reply("done")
     \/ /\ StageOf(call.of) = "code"
        /\ stage' = [stage EXCEPT ![call.of] = "over"]
        /\ Reply("denied")
     \/ \E refusal \in {"denied", "limited"} : UNCHANGED stage /\ Reply(refusal)
  /\ UNCHANGED <<phase, offered, microsoft, jar, session, stray, sent>>

ServeChoices ==
  /\ call.kind = "choices" /\ call.answer = "awaited"
  /\ IF StageOf(call.of) = "proved" THEN Reply("done") \/ Reply("empty") ELSE Reply("denied")
  /\ UNCHANGED <<phase, offered, microsoft, jar, stage, session, stray, sent>>

\* A selection ends its transaction and opens the session
ServeSelect ==
  /\ call.kind = "select" /\ call.answer = "awaited"
  /\ \/ /\ StageOf(call.of) = "proved"
        /\ stage' = [stage EXCEPT ![call.of] = "over"]
        /\ session' = "open"
        /\ Reply("done")
     \/ UNCHANGED <<stage, session>> /\ Reply("denied")
  /\ UNCHANGED <<phase, offered, microsoft, jar, stray, sent>>

ServeBootstrap ==
  /\ call.kind = "bootstrap" /\ call.answer = "awaited"
  /\ Reply(IF session = "open" THEN "done" ELSE "denied")
  /\ UNCHANGED <<phase, offered, microsoft, jar, stage, session, stray, sent>>

\* A call that was given up arrives
ServeStray(c) ==
  /\ stray' = stray \ {c}
  /\ IF c.kind = "verify" /\ StageOf(c.of) = "code"
     THEN stage' = [stage EXCEPT ![c.of] = "proved"] /\ UNCHANGED session
     ELSE IF c.kind = "select" /\ StageOf(c.of) = "proved"
     THEN stage' = [stage EXCEPT ![c.of] = "over"] /\ session' = "open"
     ELSE UNCHANGED <<stage, session>>
  /\ UNCHANGED <<viewVars, jar, sent>>

\* Transactions and sessions expire
Expire(t) ==
  /\ stage[t] \in {"code", "proved"}
  /\ stage' = [stage EXCEPT ![t] = "over"]
  /\ UNCHANGED <<viewVars, jar, session, stray, sent>>

EndSession ==
  /\ session = "open"
  /\ session' = "none"
  /\ UNCHANGED <<viewVars, jar, stage, stray, sent>>

\* signIn() of the production session leaves for Microsoft, which proves a transaction
\* and calls back; the view of the document is gone
Microsoft(t) ==
  /\ phase = "absent" /\ stage[t] = "unused"
  /\ stage' = [stage EXCEPT ![t] = "proved"]
  /\ jar' = [jar EXCEPT !.microsoft = t]
  /\ UNCHANGED <<viewVars, session, stray, sent>>

-----------------------------------------------------------------------------
(* Answers *)

\* publish() at the end of an operation
Settle(next) == phase' = next /\ call' = NoCall

\* A challenge was sent: its transaction is the browser's from here on
GetChallenge ==
  /\ call.kind = "challenge" /\ call.answer = "done"
  /\ jar' = [jar EXCEPT !.email = call.of]
  /\ offered' = FALSE
  /\ Settle("code")
  /\ UNCHANGED <<microsoft, stage, session, stray, sent>>

\* recover(): where the transaction is
GetPending ==
  /\ call.kind = "pending"
  /\ \/ call.answer = "code" /\ Settle("code")
     \/ call.answer = "proved" /\ Ask("choices", call.purpose, call.of)
  /\ UNCHANGED <<offered, microsoft, jar, stage, session, stray, sent>>

\* The code was right, and the choices are read
GetVerified ==
  /\ call.kind = "verify" /\ call.answer = "done"
  /\ Ask("choices", "verify", call.of)
  /\ UNCHANGED <<offered, microsoft, jar, stage, session, stray, sent>>

GetChoices ==
  /\ call.kind = "choices" /\ call.answer \in {"done", "empty"}
  /\ offered' = (call.answer = "done")
  /\ Settle("choices")
  /\ UNCHANGED <<microsoft, jar, stage, session, stray, sent>>

\* The selection was accepted: the session has to be confirmed
GetSelected ==
  /\ call.kind = "select" /\ call.answer = "done"
  /\ Ask("bootstrap", "select", NoTransaction)
  /\ UNCHANGED <<offered, microsoft, jar, stage, session, stray, sent>>

\* completeSession() found the session, and replaces the document
GetSession ==
  /\ call.kind = "bootstrap" /\ call.answer = "done"
  /\ offered' = FALSE
  /\ Settle("authenticated")
  /\ UNCHANGED <<microsoft, jar, stage, session, stray, sent>>

\* A 401 of recover(): there is no such transaction
IsNoTransaction == call.purpose \in {"load", "resume"} /\ call.answer = "denied"

\* Mutant: what became of a selection is asked of the transaction
FailurePhaseResumed ==
  IF call.kind \in {"select", "bootstrap"} THEN "resume_required"
  ELSE IF call.kind = "verify" /\ call.answer \in {"denied", "limited"} THEN "code"
  ELSE IF call.purpose \in {"verify", "resume"} THEN "resume_required"
  ELSE "email"

\* The phase an operation ends in that fails, whatever becomes of its calls
FailurePhase ==
  IF call.kind \in {"select", "bootstrap"} THEN "refresh_required"
  ELSE IF call.kind = "verify" /\ call.answer \in {"denied", "limited"} THEN "code"
  ELSE IF call.purpose \in {"verify", "resume"} THEN "resume_required"
  ELSE "email"

\* Mutant: an error is not caught
FailUncaught ==
  /\ ~Idle
  /\ ~IsNoTransaction
  /\ IF call.purpose = "check" THEN UNCHANGED phase ELSE phase' = FailurePhase
  /\ call' = NoCall
  /\ stray' = Abandoned
  /\ UNCHANGED <<offered, microsoft, jar, stage, session, sent>>

\* A call is refused, or lost, or takes longer than its time limit
Fail ==
  /\ ~Idle
  /\ ~IsNoTransaction
  /\ Settle(FailurePhase)
  /\ stray' = Abandoned
  /\ UNCHANGED <<offered, microsoft, jar, stage, session, sent>>

\* recover() without a transaction: another start by email; with Microsoft, the choices
\* of an account that is not linked
FailRecover ==
  /\ IsNoTransaction
  /\ offered' = IF microsoft THEN FALSE ELSE offered
  /\ Settle(IF microsoft THEN "choices" ELSE "email")
  /\ UNCHANGED <<microsoft, jar, stage, session, stray, sent>>

-----------------------------------------------------------------------------

Operation ==
  Request \/ Verify \/ Resume \/ Select \/ CheckSession \/ Restart

Serve ==
  \/ ServeChallenge \/ ServePending \/ ServeVerify \/ ServeChoices
  \/ ServeSelect \/ ServeBootstrap

Receive ==
  \/ GetChallenge \/ GetPending \/ GetVerified \/ GetChoices \/ GetSelected \/ GetSession
  \/ Fail \/ FailRecover

Elsewhere ==
  \/ \E c \in stray : ServeStray(c)
  \/ \E t \in Transactions : Expire(t) \/ Microsoft(t)
  \/ EndSession

Next ==
  \/ \E callback \in BOOLEAN : Open(callback)
  \/ Close \/ Operation \/ Serve \/ Receive \/ Elsewhere

Spec == Init /\ [][Next]_vars

-----------------------------------------------------------------------------
(* Properties *)

\* Every variable keeps its type, and a call is awaited exactly while the phase is
\* "loading".
TypeOK ==
  /\ phase \in Phases
  /\ offered \in BOOLEAN
  /\ microsoft \in BOOLEAN
  /\ call \in Call \cup {NoCall}
  /\ ~Idle <=> phase = "loading"
  /\ jar \in [email : Cookie, microsoft : Cookie]
  /\ stage \in [Transactions -> Stages]
  /\ session \in {"none", "open"}
  /\ stray \subseteq [kind : {"verify", "select"}, of : Cookie]
  /\ sent \in [once : SUBSET Cookie, again : SUBSET Cookie]

\* In whatever way its answer is lost, and whatever the user does then, a selection is
\* not sent twice in one transaction by the same view ("Selection is sent once ... never
\* automatic acceptance replay", CUSTOMER-INVITED-LOGIN.md).
SelectionSentOnce == sent.again = {}

\* Whatever is lost, the view comes back from "loading" to a phase that offers controls,
\* unless its document is replaced.
LeavesLoading == phase = "loading" ~> phase # "loading"
=============================================================================
