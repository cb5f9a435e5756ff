------------------------- MODULE CustomerSession_proofs -------------------------
(***************************************************************************)
(* Type correctness of CustomerSession and of the shell it extends, and the  *)
(* safety properties of both, for every set of projections and transactions. *)
(***************************************************************************)
EXTENDS CustomerSession, TLAPS

USE NoAnswerAssumption

-----------------------------------------------------------------------------
(* The types of the shell, by what its operators write *)

Statuses == {"bootstrap", "projections", "discovery", "authenticated", "unauthenticated",
             "unavailable"}

\* The context and its backend
ContextType ==
  /\ page \in Nat \ {0}
  /\ status \in Statuses
  /\ context \in [Projections -> Versions]
  /\ session \in {"none", "open"}
  /\ version \in Nat

\* The rendering of a view
RenderingType ==
  /\ refresh \in Nat
  /\ revision \in Nat
  /\ renders \subseteq Render
  /\ entry \in {"none", "loading", "signIn", "unavailable"}
  /\ worked \in BOOLEAN

\* The root of the application, with the view that is open
RootType ==
  /\ view \in Views
  /\ content \in {"nothing", "welcome", "unavailable", "work", "denied"}
  /\ content \in {"welcome", "unavailable", "denied"} => view = "welcome"
  /\ content = "work" => view = "work"

\* Dialogs, signing out and the lock
DialogType ==
  /\ dialog \in {"none", "profile", "help"}
  /\ help \in Nat
  /\ logout \in {"none", "posted", "done"}
  /\ guarded \in BOOLEAN
  /\ locked \in BOOLEAN
  /\ unlock \in {"none", "posted"}

ShellType == ContextType /\ RenderingType /\ RootType /\ DialogType

\* The four are the type invariant.
LEMMA ShellTypes == TypeOK <=> ShellType
  BY DEF TypeOK, ShellType, ContextType, RenderingType, RootType, DialogType, Statuses

\* Nothing is a context.
LEMMA NothingType == Nothing \in [Projections -> Versions]
  BY DEF Nothing, Versions

\* Rendering a view fills the root with it, or leaves it empty.
LEMMA RenderingTypes ==
  ASSUME TypeOK, NEW v \in Views, NEW s, Rendering(v, s)
  PROVE  /\ RenderingType'
         /\ content' = "nothing" \/ (content' = "work" /\ v = "work" /\ s = "authenticated")
<1>1. refresh \in Nat /\ revision \in Nat /\ renders \subseteq Render /\ worked \in BOOLEAN
  BY DEF TypeOK
<1>2. [revision |-> revision + 1, refresh |-> refresh + 1, read |-> Nothing,
       outcome |-> [p \in Projections |-> "awaited"]] \in Render
  BY <1>1, NothingType DEF Render
<1>3. /\ refresh' \in Nat /\ revision' \in Nat /\ worked' \in BOOLEAN
      /\ entry' \in {"none", "loading", "signIn", "unavailable"}
      /\ content' = "nothing" \/ (content' = "work" /\ v = "work" /\ s = "authenticated")
  <2>1. CASE s # "authenticated"
    BY <1>1, <2>1 DEF Rendering
  <2>2. CASE s = "authenticated" /\ v = "welcome"
    BY <1>1, <2>2 DEF Rendering
  <2>3. CASE s = "authenticated" /\ v = "work"
    BY <1>1, <2>3 DEF Rendering
  <2> QED
    BY <2>1, <2>2, <2>3 DEF Views
<1>4. renders' \subseteq Render
  BY <1>1, <1>2 DEF Rendering
<1> QED
  BY <1>3, <1>4 DEF RenderingType

\* A new document is blank.
LEMMA ReplaceTypes ==
  ASSUME TypeOK, Replace, UNCHANGED backendVars
  PROVE  ShellType'
<1>1. ContextType'
  BY NothingType DEF TypeOK, Replace, Blank, backendVars, ContextType, Statuses
<1>2. RenderingType' /\ RootType' /\ DialogType'
  BY DEF Replace, Blank, RenderingType, RootType, DialogType, Views
<1> QED
  BY <1>1, <1>2 DEF ShellType

\* What an authority failure leaves.
LEMMA InvalidateTypes ==
  ASSUME TypeOK, Invalidate
  PROVE  /\ status' = "unauthenticated" /\ context' = Nothing /\ dialog' = "none"
         /\ refresh' = refresh + 1 /\ revision' = revision + 1
         /\ refresh' \in Nat /\ revision' \in Nat
         /\ content' = IF locked THEN "nothing" ELSE "denied"
         /\ RootType'
  BY DEF TypeOK, Invalidate, Kept, RootType, Views

\* A call of a rendering is answered: the rendering stays, with what it was answered.
Answered(x, y) ==
  /\ Becomes(x, y)
  /\ y \in Render /\ y.revision = x.revision /\ y.refresh = x.refresh
  /\ \A p \in Projections : y.read[p] \in {x.read[p], NoAnswer, version}

\* So is every call that arrives, is taken or fails.
LEMMA CallAnswers ==
  ASSUME TypeOK, NEW x \in renders, NEW p \in Projections,
         Serve(x, p) \/ Receive(x, p) \/ FailCall(x, p)
  PROVE  \E y : Answered(x, y) /\ (Receive(x, p) => y.read[p] = NoAnswer)
<1>0. x \in Render /\ version \in Versions /\ NoAnswer \in Versions
  BY DEF TypeOK, Versions
<1>1. CASE Serve(x, p)
  <2> DEFINE y == [x EXCEPT !.read[p] = version]
  <2>1. /\ y \in Render /\ y.revision = x.revision /\ y.refresh = x.refresh
        /\ \A q \in Projections : y.read[q] = IF q = p THEN version ELSE x.read[q]
    BY <1>0 DEF Render
  <2>2. Becomes(x, y) /\ x.read[p] = NoAnswer
    BY <1>1 DEF Serve
  <2>3. ~Receive(x, p)
    BY <2>2 DEF Receive
  <2> HIDE DEF y
  <2> QED
    BY <2>1, <2>2, <2>3 DEF Answered
<1>2. ASSUME NEW o \in {"done", "failed", "denied"},
             Becomes(x, [x EXCEPT !.outcome[p] = o, !.read[p] = NoAnswer])
      PROVE  \E y : Answered(x, y) /\ y.read[p] = NoAnswer
  <2> DEFINE y == [x EXCEPT !.outcome[p] = o, !.read[p] = NoAnswer]
  <2>1. /\ y \in Render /\ y.revision = x.revision /\ y.refresh = x.refresh
        /\ \A q \in Projections : y.read[q] = IF q = p THEN NoAnswer ELSE x.read[q]
    BY <1>0 DEF Render
  <2>2. Becomes(x, y)
    BY <1>2
  <2> HIDE DEF y
  <2> QED
    BY <2>1, <2>2 DEF Answered
<1>3. CASE Receive(x, p) \/ FailCall(x, p)
  BY <1>2, <1>3 DEF Receive, FailCall
<1> QED
  BY <1>1, <1>3

\* The types after a document starts.
LEMMA StartTypes ==
  ASSUME TypeOK, Start
  PROVE  ShellType'
<1> USE DEF lockVars, backendVars
<1>0. ContextType /\ RenderingType /\ RootType /\ DialogType
  BY ShellTypes DEF ShellType
<1>1. ASSUME NEW v \in Views, NEW s, Rendering(v, s), view' = v PROVE RenderingType' /\ RootType'
  BY <1>1, RenderingTypes DEF RootType
<1>2. DialogType'
  BY <1>0, InvalidateTypes DEF Start, Bootstrap, FailStart, LoadProjections, Discover,
                               DiscoverDenied, DialogType
<1>3. CASE Bootstrap
  <2>1. ContextType'
    BY <1>0, <1>3 DEF Bootstrap, ContextType, Statuses
  <2>2. CASE session = "open"
    BY <1>0, <1>2, <1>3, <2>1, <2>2 DEF ShellType, Bootstrap, RenderingType, RootType
  <2>3. CASE session # "open"
    <3>1. RenderingType' /\ RootType'
      BY <1>0, <1>1, <1>3, <2>3 DEF Bootstrap, RootType
    <3> QED
      BY <1>2, <2>1, <3>1 DEF ShellType
  <2> QED
    BY <2>2, <2>3
<1>4. CASE FailStart
  <2>1. ContextType' /\ RenderingType' /\ RootType'
    BY <1>0, <1>1, <1>4 DEF FailStart, ContextType, Statuses, RootType
  <2> QED
    BY <1>2, <2>1 DEF ShellType
<1>5. ASSUME NEW missing \in SUBSET Optional, LoadProjections(missing) PROVE ShellType'
  <2>1. ContextType'
    BY <1>0, <1>5 DEF LoadProjections, ContextType, Statuses, Versions
  <2>2. CASE session = "open"
    BY <1>0, <1>2, <1>5, <2>1, <2>2 DEF ShellType, LoadProjections, RenderingType, RootType
  <2>3. CASE session # "open"
    <3>1. RenderingType' /\ RootType'
      BY <1>0, <1>1, <1>5, <2>3 DEF LoadProjections, RootType
    <3> QED
      BY <1>2, <2>1, <3>1 DEF ShellType
  <2> QED
    BY <2>2, <2>3
<1>6. ASSUME NEW v \in Views, Discover(v) PROVE ShellType'
  <2>1. ContextType' /\ RenderingType' /\ RootType'
    BY <1>0, <1>1, <1>6 DEF Discover, ContextType, Statuses
  <2> QED
    BY <1>2, <2>1 DEF ShellType
<1>7. CASE DiscoverDenied
  <2>1. ContextType' /\ RootType'
    BY <1>0, <1>7, InvalidateTypes, NothingType DEF DiscoverDenied, ContextType, Statuses
  <2>2. RenderingType'
    BY <1>0, <1>7, InvalidateTypes DEF DiscoverDenied, RenderingType
  <2> QED
    BY <1>2, <2>1, <2>2 DEF ShellType
<1> QED
  BY <1>3, <1>4, <1>5, <1>6, <1>7 DEF Start

\* Those after an answer to a rendering, or the end of it.
LEMMA AnswerTypes ==
  ASSUME TypeOK, Answer
  PROVE  ShellType'
<1> USE DEF contextVars, lockVars, backendVars
<1>0. ContextType /\ RenderingType /\ RootType /\ DialogType
  BY ShellTypes DEF ShellType
<1>1. ASSUME NEW x \in renders, NEW p \in Projections,
             Serve(x, p) \/ Receive(x, p) \/ FailCall(x, p)
      PROVE  ShellType'
  <2>1. renders' \subseteq Render
    BY <1>0, <1>1, CallAnswers DEF Answered, Becomes, RenderingType
  <2>2. /\ UNCHANGED <<page, status, session, version>>
        /\ UNCHANGED <<refresh, revision, entry, worked, view, content>>
        /\ UNCHANGED <<dialog, help, logout, guarded, locked, unlock>>
    BY <1>1 DEF Serve, Receive, FailCall
  <2>3. context' \in [Projections -> Versions]
    <3>1. x.read[p] \in Versions
      BY <1>0 DEF RenderingType, Render
    <3> QED
      BY <1>0, <1>1, <3>1 DEF Serve, Receive, FailCall, ContextType
  <2>4. ContextType'
    BY <1>0, <2>2, <2>3 DEF ContextType
  <2>5. RenderingType' /\ RootType' /\ DialogType'
    BY <1>0, <2>1, <2>2 DEF RenderingType, RootType, DialogType
  <2> QED
    BY <2>4, <2>5 DEF ShellType
<1>2. ASSUME NEW x \in renders, FinishDenied(x) PROVE ShellType'
  <2>1. ContextType' /\ RootType'
    BY <1>0, <1>2, InvalidateTypes, NothingType DEF FinishDenied, ContextType, Statuses
  <2>2. RenderingType'
    BY <1>0, <1>2, InvalidateTypes DEF FinishDenied, RenderingType
  <2>3. DialogType'
    BY <1>0, <1>2, InvalidateTypes DEF FinishDenied, DialogType
  <2> QED
    BY <2>1, <2>2, <2>3 DEF ShellType
<1>3. ASSUME NEW x \in renders, Finish(x) PROVE ShellType'
  <2>1. ContextType' /\ RenderingType' /\ DialogType'
    BY <1>0, <1>3 DEF Finish, ContextType, RenderingType, DialogType
  <2>2. RootType'
    BY <1>0, <1>3 DEF Finish, Kept, RootType
  <2> QED
    BY <2>1, <2>2 DEF ShellType
<1> QED
  BY <1>1, <1>2, <1>3 DEF Answer

\* Those after a step of the dialogs and of signing out.
LEMMA DialogTypes ==
  ASSUME TypeOK, Dialogs
  PROVE  ShellType'
<1> USE DEF contextVars, lockVars, backendVars
<1>0. ContextType /\ RenderingType /\ RootType /\ DialogType
  BY ShellTypes DEF ShellType
<1>1. CASE ChangeLanguage
  <2>1. RenderingType' /\ RootType'
    BY <1>0, <1>1, RenderingTypes DEF ChangeLanguage, RootType
  <2>2. ContextType' /\ DialogType'
    BY <1>0, <1>1 DEF ChangeLanguage, ContextType, DialogType
  <2> QED
    BY <2>1, <2>2 DEF ShellType
<1>2. CASE OpenProfile \/ CloseDialog \/ AskHelp \/ OpenHelp \/ SignOut \/ FailSignOut
  <2>1. ContextType' /\ RenderingType' /\ RootType'
    BY <1>0, <1>2 DEF OpenProfile, CloseDialog, AskHelp, OpenHelp, SignOut, FailSignOut,
                      ContextType, RenderingType, RootType
  <2>2. DialogType'
    BY <1>0, <1>2 DEF OpenProfile, CloseDialog, AskHelp, OpenHelp, SignOut, FailSignOut,
                      DialogType, RenderingType
  <2> QED
    BY <2>1, <2>2 DEF ShellType
<1>3. CASE ServeSignOut
  <2>1. ContextType' /\ RenderingType' /\ RootType' /\ DialogType'
    BY <1>0, <1>3 DEF ServeSignOut, ContextType, RenderingType, RootType, DialogType
  <2> QED
    BY <2>1 DEF ShellType
<1>4. CASE RefuseSignOut
  <2>1. ContextType' /\ RootType'
    BY <1>0, <1>4, InvalidateTypes, NothingType DEF RefuseSignOut, ContextType, Statuses
  <2>2. RenderingType'
    BY <1>0, <1>4, InvalidateTypes DEF RefuseSignOut, RenderingType
  <2>3. DialogType'
    BY <1>0, <1>4, InvalidateTypes DEF RefuseSignOut, DialogType
  <2> QED
    BY <2>1, <2>2, <2>3 DEF ShellType
<1> QED
  BY <1>1, <1>2, <1>3, <1>4 DEF Dialogs

\* Those after any step of the shell.
LEMMA ShellStep == TypeOK /\ Next => TypeOK'
<1> SUFFICES ASSUME TypeOK, Next PROVE ShellType'
  BY ShellTypes, PTL
<1> USE DEF contextVars, lockVars, backendVars
<1>0. ContextType /\ RenderingType /\ RootType /\ DialogType
  BY ShellTypes DEF ShellType
<1>1. CASE WorkDenied
  <2>1. ContextType' /\ RootType'
    BY <1>0, <1>1, InvalidateTypes, NothingType DEF WorkDenied, ContextType, Statuses
  <2>2. RenderingType'
    BY <1>0, <1>1, InvalidateTypes DEF WorkDenied, RenderingType
  <2>3. DialogType'
    BY <1>0, <1>1, InvalidateTypes DEF WorkDenied, DialogType
  <2> QED
    BY <2>1, <2>2, <2>3 DEF ShellType
<1>2. CASE Lock
  <2>1. ContextType' /\ RenderingType' /\ RootType' /\ DialogType'
    BY <1>0, <1>2 DEF Lock, ContextType, RenderingType, RootType, DialogType
  <2> QED
    BY <2>1 DEF ShellType
<1>3. CASE Unlock \/ FailUnlock \/ Change
  <2>1. ContextType' /\ RenderingType' /\ RootType' /\ DialogType'
    BY <1>0, <1>3 DEF Unlock, FailUnlock, Change, pageVars,
                      ContextType, RenderingType, RootType, DialogType
  <2> QED
    BY <2>1 DEF ShellType
<1>4. CASE Documents
  BY <1>4, ReplaceTypes DEF Documents, SignedOut, Unlocked, Reload
<1>5. ASSUME NEW v \in Views, Show(v) PROVE ShellType'
  <2>1. view' \in Views /\ Rendering(view', status)
    BY <1>5 DEF Show, Views
  <2>2. RenderingType' /\ RootType'
    BY <2>1, RenderingTypes DEF RootType
  <2>3. ContextType' /\ DialogType'
    BY <1>0, <1>5 DEF Show, ContextType, DialogType
  <2> QED
    BY <2>2, <2>3 DEF ShellType
<1> QED
  BY <1>1, <1>2, <1>3, <1>4, <1>5, StartTypes, AnswerTypes, DialogTypes DEF Next, Locking

-----------------------------------------------------------------------------
(* The types of the view for signing in *)

\* The view, and what outlives it
ViewType ==
  /\ phase \in SignIn!Phases
  /\ offered \in BOOLEAN
  /\ microsoft \in BOOLEAN
  /\ call \in SignIn!Call \cup {SignIn!NoCall}
  /\ call # SignIn!NoCall <=> phase = "loading"

StoreType ==
  /\ jar \in [email : SignIn!Cookie, microsoft : SignIn!Cookie]
  /\ stage \in [Transactions -> SignIn!Stages]
  /\ session \in {"none", "open"}
  /\ stray \subseteq [kind : {"verify", "select"}, of : SignIn!Cookie]
  /\ sent \in [once : SUBSET SignIn!Cookie, again : SUBSET SignIn!Cookie]

\* The two are the type invariant.
LEMMA SignInTypes == SignIn!TypeOK <=> ViewType /\ StoreType
  BY DEF SignIn!TypeOK, SignIn!Idle, ViewType, StoreType

\* A call that is made is awaited, and the phase says so.
LEMMA AskTypes ==
  ASSUME NEW k \in SignIn!Kinds, NEW u \in SignIn!Purposes, NEW t \in SignIn!Cookie,
         SignIn!Ask(k, u, t)
  PROVE  /\ phase' = "loading" /\ phase' \in SignIn!Phases
         /\ call' \in SignIn!Call /\ call' # SignIn!NoCall
         /\ call'.kind = k /\ call'.purpose = u /\ call'.of = t /\ call'.answer = "awaited"
<1>1. [kind |-> k, purpose |-> u, of |-> t, answer |-> "awaited"] \in SignIn!Call
  BY DEF SignIn!Call, SignIn!Answers
<1>2. "none" \notin SignIn!Kinds
  BY DEF SignIn!Kinds
<1> QED
  BY <1>1, <1>2 DEF SignIn!Ask, SignIn!Phases, SignIn!NoCall

\* The cookie that goes with the view is a cookie, and so is that of a call.
LEMMA CookieTypes ==
  ASSUME SignIn!TypeOK
  PROVE  /\ jar.email \in SignIn!Cookie /\ jar.microsoft \in SignIn!Cookie
         /\ SignIn!Current \in SignIn!Cookie /\ NoTransaction \in SignIn!Cookie
         /\ call \in SignIn!Call => call.of \in SignIn!Cookie /\ call.kind \in SignIn!Kinds
                                    /\ call.purpose \in SignIn!Purposes
  BY DEF SignIn!TypeOK, SignIn!Current, SignIn!Cookie, SignIn!Call

\* A call of some kind is a call.
LEMMA CallKinds ==
  ASSUME SignIn!TypeOK, call.kind \in SignIn!Kinds
  PROVE  call \in SignIn!Call /\ call # SignIn!NoCall /\ phase = "loading"
<1>1. "none" \notin SignIn!Kinds
  BY DEF SignIn!Kinds
<1> QED
  BY <1>1 DEF SignIn!TypeOK, SignIn!Idle, SignIn!NoCall

\* An answered call is still the call it was.
LEMMA ReplyTypes ==
  ASSUME SignIn!TypeOK, call.kind \in SignIn!Kinds, NEW a \in SignIn!Answers, SignIn!Reply(a)
  PROVE  /\ call' \in SignIn!Call /\ call' # SignIn!NoCall
         /\ call'.kind = call.kind /\ call'.purpose = call.purpose
         /\ call'.of = call.of /\ call'.answer = a
<1>1. call \in SignIn!Call /\ call # SignIn!NoCall /\ "none" \notin SignIn!Kinds
  BY CallKinds DEF SignIn!Kinds
<1>2. call' = [call EXCEPT !.answer = a]
  BY DEF SignIn!Reply
<1>3. call' \in SignIn!Call /\ call'.kind = call.kind /\ call'.purpose = call.purpose
      /\ call'.of = call.of /\ call'.answer = a
  BY <1>1, <1>2 DEF SignIn!Call
<1> QED
  BY <1>1, <1>3 DEF SignIn!NoCall

\* What is left behind of a call that was given up may still arrive.
LEMMA AbandonedType ==
  ASSUME SignIn!TypeOK
  PROVE  SignIn!Abandoned \subseteq [kind : {"verify", "select"}, of : SignIn!Cookie]
<1>1. CASE call.kind \in {"verify", "select"} /\ call.answer = "awaited"
  <2>1. call.of \in SignIn!Cookie
    BY <1>1, CallKinds, CookieTypes DEF SignIn!Kinds
  <2>2. [kind |-> call.kind, of |-> call.of] \in [kind : {"verify", "select"}, of : SignIn!Cookie]
    BY <1>1, <2>1
  <2> QED
    BY <1>1, <2>2 DEF SignIn!Abandoned, SignIn!TypeOK
<1>2. CASE ~(call.kind \in {"verify", "select"} /\ call.answer = "awaited")
  BY <1>2 DEF SignIn!Abandoned, SignIn!TypeOK
<1> QED
  BY <1>1, <1>2

\* The types after the view is made or goes with its document.
LEMMA SignInViewTypes ==
  ASSUME SignIn!TypeOK, SignIn!Close \/ \E callback \in BOOLEAN : SignIn!Open(callback)
  PROVE  ViewType' /\ StoreType'
<1>0. ViewType /\ StoreType
  BY SignInTypes
<1>1. CASE SignIn!Close
  <2>1. ViewType'
    BY <1>1 DEF SignIn!Close, SignIn!Phases, ViewType
  <2>2. StoreType'
    BY <1>0, <1>1, AbandonedType DEF SignIn!Close, StoreType
  <2> QED
    BY <2>1, <2>2
<1>2. ASSUME NEW callback \in BOOLEAN, SignIn!Open(callback) PROVE ViewType' /\ StoreType'
  <2>1. microsoft' \in BOOLEAN /\ offered' \in BOOLEAN /\ StoreType'
    BY <1>0, <1>2 DEF SignIn!Open, ViewType, StoreType
  <2>2. \E k \in SignIn!Kinds, u \in SignIn!Purposes, t \in SignIn!Cookie : SignIn!Ask(k, u, t)
    BY <1>2, CookieTypes DEF SignIn!Open, SignIn!Kinds, SignIn!Purposes
  <2> QED
    BY <2>1, <2>2, AskTypes DEF ViewType
<1> QED
  BY <1>1, <1>2

\* Those after what the user does.
LEMMA OperationTypes ==
  ASSUME SignIn!TypeOK, SignIn!Operation
  PROVE  ViewType' /\ StoreType'
<1>0. ViewType /\ StoreType
  BY SignInTypes
<1>1. CASE SignIn!Request \/ SignIn!Verify \/ SignIn!Resume \/ SignIn!CheckSession
  <2>1. microsoft' \in BOOLEAN /\ offered' \in BOOLEAN /\ StoreType'
    BY <1>0, <1>1 DEF SignIn!Request, SignIn!Verify, SignIn!Resume, SignIn!CheckSession,
                      ViewType, StoreType
  <2>2. \E k \in SignIn!Kinds, u \in SignIn!Purposes, t \in SignIn!Cookie : SignIn!Ask(k, u, t)
    BY <1>1, CookieTypes DEF SignIn!Request, SignIn!Verify, SignIn!Resume, SignIn!CheckSession,
                             SignIn!Kinds, SignIn!Purposes
  <2> QED
    BY <2>1, <2>2, AskTypes DEF ViewType
<1>2. CASE SignIn!Select
  <2>1. SignIn!Current \in SignIn!Cookie
    BY CookieTypes
  <2>2. StoreType'
    BY <1>0, <1>2, <2>1 DEF SignIn!Select, StoreType
  <2>3. \E k \in SignIn!Kinds, u \in SignIn!Purposes, t \in SignIn!Cookie : SignIn!Ask(k, u, t)
    BY <1>2, <2>1 DEF SignIn!Select, SignIn!Kinds, SignIn!Purposes
  <2>4. UNCHANGED <<offered, microsoft>>
    BY <1>2 DEF SignIn!Select
  <2> QED
    BY <1>0, <2>2, <2>3, <2>4, AskTypes DEF ViewType
<1>3. CASE SignIn!Restart
  BY <1>0, <1>3 DEF SignIn!Restart, SignIn!Idle, SignIn!Phases, ViewType, StoreType
<1> QED
  BY <1>1, <1>2, <1>3 DEF SignIn!Operation

\* Those after a call arrives.
LEMMA ServeTypes ==
  ASSUME SignIn!TypeOK, SignIn!Serve
  PROVE  ViewType' /\ StoreType'
<1>0. ViewType /\ StoreType
  BY SignInTypes
<1>1. ASSUME NEW a \in SignIn!Answers, SignIn!Reply(a), call.kind \in SignIn!Kinds,
             UNCHANGED <<phase, offered, microsoft>>
      PROVE  ViewType'
  BY <1>0, <1>1, ReplyTypes, CallKinds DEF ViewType
<1>2. CASE SignIn!ServeChallenge
  <2>0. call.kind \in SignIn!Kinds
    BY <1>2 DEF SignIn!ServeChallenge, SignIn!Kinds
  <2>1. UNCHANGED <<phase, offered, microsoft, jar, session, stray, sent>>
    BY <1>2 DEF SignIn!ServeChallenge
  <2>2. ASSUME NEW t \in Transactions, stage' = [stage EXCEPT ![t] = "code"],
               call' = [call EXCEPT !.answer = "done", !.of = t]
        PROVE  ViewType' /\ StoreType'
    <3>1. call \in SignIn!Call /\ call # SignIn!NoCall /\ phase = "loading"
      BY <2>0, CallKinds
    <3>2. call' \in SignIn!Call /\ call'.kind = call.kind
      BY <2>2, <3>1 DEF SignIn!Call, SignIn!Cookie, SignIn!Answers
    <3>3. call' # SignIn!NoCall
      <4>1. call.kind = "challenge"
        BY <1>2 DEF SignIn!ServeChallenge
      <4> QED
        BY <3>2, <4>1 DEF SignIn!NoCall
    <3>4. StoreType'
      BY <1>0, <2>1, <2>2 DEF StoreType, SignIn!Stages
    <3> QED
      BY <1>0, <2>1, <3>1, <3>2, <3>3, <3>4 DEF ViewType
  <2>3. ASSUME UNCHANGED stage, SignIn!Reply("limited") PROVE ViewType' /\ StoreType'
    <3>1. "limited" \in SignIn!Answers
      BY DEF SignIn!Answers
    <3> QED
      BY <1>0, <1>1, <2>0, <2>1, <2>3, <3>1 DEF StoreType
  <2> QED
    BY <1>2, <2>2, <2>3 DEF SignIn!ServeChallenge
<1>3. CASE \/ SignIn!ServePending \/ SignIn!ServeVerify \/ SignIn!ServeChoices
           \/ SignIn!ServeSelect \/ SignIn!ServeBootstrap
  <2>1. UNCHANGED <<phase, offered, microsoft, jar, stray, sent>>
    BY <1>3 DEF SignIn!ServePending, SignIn!ServeVerify, SignIn!ServeChoices,
                SignIn!ServeSelect, SignIn!ServeBootstrap
  <2>2. call.kind \in SignIn!Kinds
    BY <1>3 DEF SignIn!ServePending, SignIn!ServeVerify, SignIn!ServeChoices,
                SignIn!ServeSelect, SignIn!ServeBootstrap, SignIn!Kinds
  <2>3. \E a \in SignIn!Answers : SignIn!Reply(a)
    <3>1. SignIn!Answers = {"awaited", "done", "code", "proved", "empty", "denied", "limited"}
      BY DEF SignIn!Answers
    <3>2. CASE SignIn!ServePending
      BY <3>1, <3>2 DEF SignIn!ServePending
    <3>3. CASE SignIn!ServeVerify
      BY <3>1, <3>3 DEF SignIn!ServeVerify
    <3>4. CASE SignIn!ServeChoices
      BY <3>1, <3>4 DEF SignIn!ServeChoices
    <3>5. CASE SignIn!ServeSelect
      BY <3>1, <3>5 DEF SignIn!ServeSelect
    <3>6. CASE SignIn!ServeBootstrap
      BY <3>1, <3>6 DEF SignIn!ServeBootstrap
    <3> QED
      BY <1>3, <3>2, <3>3, <3>4, <3>5, <3>6
  <2>4. stage' \in [Transactions -> SignIn!Stages] /\ session' \in {"none", "open"}
    BY <1>0, <1>3 DEF SignIn!ServePending, SignIn!ServeVerify, SignIn!ServeChoices,
                      SignIn!ServeSelect, SignIn!ServeBootstrap, SignIn!Stages, StoreType
  <2>5. StoreType'
    BY <1>0, <2>1, <2>4 DEF StoreType
  <2> QED
    BY <1>1, <2>1, <2>2, <2>3, <2>5
<1> QED
  BY <1>2, <1>3 DEF SignIn!Serve

\* Those after an answer, or without one.
LEMMA ReceiveTypes ==
  ASSUME SignIn!TypeOK, SignIn!Receive
  PROVE  ViewType' /\ StoreType'
<1>0. ViewType /\ StoreType
  BY SignInTypes
<1>1. ASSUME NEW next \in SignIn!Phases \ {"loading"}, SignIn!Settle(next),
             offered' \in BOOLEAN, microsoft' \in BOOLEAN
      PROVE  ViewType'
  BY <1>1 DEF SignIn!Settle, ViewType
<1>2. ASSUME NEW k \in SignIn!Kinds, NEW u \in SignIn!Purposes, NEW t \in SignIn!Cookie,
             SignIn!Ask(k, u, t), UNCHANGED <<offered, microsoft>>
      PROVE  ViewType'
  BY <1>0, <1>2, AskTypes DEF ViewType
<1>3. SignIn!Phases \ {"loading"} = {"absent", "email", "code", "choices", "resume_required",
                                     "refresh_required", "authenticated"}
  BY DEF SignIn!Phases
<1>4. call.kind \in SignIn!Kinds
      => call.of \in SignIn!Cookie /\ call.purpose \in SignIn!Purposes
  BY CallKinds, CookieTypes
<1>5. CASE SignIn!GetChallenge
  <2>1. call.of \in SignIn!Cookie
    BY <1>4, <1>5 DEF SignIn!GetChallenge, SignIn!Kinds
  <2> QED
    BY <1>0, <1>1, <1>3, <1>5, <2>1 DEF SignIn!GetChallenge, ViewType, StoreType
<1>6. CASE SignIn!GetPending \/ SignIn!GetVerified \/ SignIn!GetSelected
  <2>1. StoreType' /\ UNCHANGED <<offered, microsoft>>
    BY <1>0, <1>6 DEF SignIn!GetPending, SignIn!GetVerified, SignIn!GetSelected, StoreType
  <2>2. CASE SignIn!Settle("code")
    BY <1>0, <1>1, <1>3, <2>1, <2>2 DEF ViewType
  <2>3. ASSUME ~SignIn!Settle("code")
        PROVE  \E k \in SignIn!Kinds, u \in SignIn!Purposes, t \in SignIn!Cookie : SignIn!Ask(k, u, t)
    BY <1>4, <1>6, <2>3, CookieTypes DEF SignIn!GetPending, SignIn!GetVerified, SignIn!GetSelected,
                                         SignIn!Kinds, SignIn!Purposes
  <2> QED
    BY <1>2, <2>1, <2>2, <2>3
<1>7. CASE SignIn!GetChoices \/ SignIn!GetSession
  BY <1>0, <1>1, <1>3, <1>7 DEF SignIn!GetChoices, SignIn!GetSession, ViewType, StoreType
<1>8. CASE SignIn!Fail
  <2>1. SignIn!FailurePhase \in SignIn!Phases \ {"loading"}
    BY <1>3 DEF SignIn!FailurePhase
  <2> QED
    BY <1>0, <1>1, <1>8, <2>1, AbandonedType DEF SignIn!Fail, ViewType, StoreType
<1>9. CASE SignIn!FailRecover
  BY <1>0, <1>1, <1>3, <1>9 DEF SignIn!FailRecover, ViewType, StoreType
<1> QED
  BY <1>5, <1>6, <1>7, <1>8, <1>9 DEF SignIn!Receive

\* Those after what happens elsewhere.
LEMMA ElsewhereTypes ==
  ASSUME SignIn!TypeOK, SignIn!Elsewhere
  PROVE  ViewType' /\ StoreType'
<1>0. ViewType /\ StoreType
  BY SignInTypes
<1>1. UNCHANGED <<phase, offered, microsoft, call, sent>>
  BY DEF SignIn!Elsewhere, SignIn!ServeStray, SignIn!Expire, SignIn!Microsoft, SignIn!EndSession,
         SignIn!viewVars
<1>2. ViewType'
  BY <1>0, <1>1 DEF ViewType
<1>3. stage' \in [Transactions -> SignIn!Stages] /\ session' \in {"none", "open"}
  BY <1>0 DEF SignIn!Elsewhere, SignIn!ServeStray, SignIn!Expire, SignIn!Microsoft,
              SignIn!EndSession, StoreType, SignIn!Stages
<1>4. jar' \in [email : SignIn!Cookie, microsoft : SignIn!Cookie] /\ stray' \subseteq stray
  BY <1>0 DEF SignIn!Elsewhere, SignIn!ServeStray, SignIn!Expire, SignIn!Microsoft,
              SignIn!EndSession, StoreType, SignIn!Cookie
<1> QED
  BY <1>0, <1>1, <1>2, <1>3, <1>4 DEF StoreType

\* Every step of the view keeps its types.
LEMMA SignInStepTypes == SignIn!TypeOK /\ SignIn!Next => SignIn!TypeOK'
<1> SUFFICES ASSUME SignIn!TypeOK, SignIn!Next PROVE ViewType' /\ StoreType'
  BY SignInTypes, PTL
<1> QED
  BY SignInViewTypes, OperationTypes, ServeTypes, ReceiveTypes, ElsewhereTypes DEF SignIn!Next

\* In a step of the tab the shell and the view for signing in each make a step of theirs
\* or none; only the session is theirs both.
LEMMA TabSteps ==
  ASSUME [TabNext]_tabVars
  PROVE  /\ Next \/ UNCHANGED shellVars
         /\ SignIn!Next \/ UNCHANGED signInVars
         /\ Next \/ SignIn!Next \/ UNCHANGED session
<1>1. CASE Shell
  BY <1>1 DEF Shell, SignInView, SignIn!Next
<1>2. CASE SignInStep
  <2>1. UNCHANGED shellVars
    BY <1>2 DEF SignInStep
  <2>2. SignIn!Next
    BY <1>2 DEF SignInStep, SignIn!Next, SignIn!Elsewhere
  <2> QED
    BY <2>1, <2>2
<1>3. CASE UNCHANGED tabVars
  BY <1>3 DEF tabVars
<1> QED
  BY <1>1, <1>2, <1>3 DEF TabNext

\* Type correctness: the shell and the view for signing in keep their types, whatever
\* documents follow each other and whatever calls are lost; and a call is awaited exactly
\* while the phase of the view is "loading".
THEOREM TabTypeCorrect == TabSpec => []TabTypeOK
<1>1. TabInit => TypeOK
  <2> SUFFICES ASSUME TabInit PROVE ShellType
    BY ShellTypes
  <2>1. ContextType
    BY NothingType DEF TabInit, Init, ContextType, Statuses
  <2>2. RenderingType /\ RootType /\ DialogType
    BY DEF TabInit, Init, RenderingType, RootType, DialogType, Views
  <2> QED
    BY <2>1, <2>2 DEF ShellType
<1>2. TabInit => SignIn!TypeOK
  <2> SUFFICES ASSUME TabInit PROVE ViewType /\ StoreType
    BY SignInTypes
  <2>1. ViewType
    BY DEF TabInit, SignIn!Init, ViewType, SignIn!Phases
  <2>2. StoreType
    BY DEF TabInit, SignIn!Init, StoreType, SignIn!Cookie, SignIn!Stages
  <2> QED
    BY <2>1, <2>2
<1>3. TabTypeOK /\ [TabNext]_tabVars => TabTypeOK'
  <2> SUFFICES ASSUME TypeOK, SignIn!TypeOK, [TabNext]_tabVars PROVE TypeOK' /\ SignIn!TypeOK'
    BY DEF TabTypeOK
  <2>1. Next => TypeOK'
    BY ShellStep
  <2>2. SignIn!Next => SignIn!TypeOK'
    BY SignInStepTypes
  <2>3. session' \in {"none", "open"}
    BY <2>1, <2>2, TabSteps DEF TypeOK, SignIn!TypeOK
  <2>4. UNCHANGED shellVars => TypeOK'
    BY <2>3 DEF shellVars, contextVars, pageVars, lockVars, TypeOK
  <2>5. UNCHANGED signInVars => SignIn!TypeOK'
    BY <2>3 DEF signInVars, SignIn!TypeOK, SignIn!Idle
  <2> QED
    BY <2>1, <2>2, <2>4, <2>5, TabSteps
<1>4. TabInit => TabTypeOK
  BY <1>1, <1>2 DEF TabTypeOK
<1> QED
  BY <1>3, <1>4, PTL DEF TabSpec

-----------------------------------------------------------------------------
(* NothingWithoutAuthority.  A rendering may fill the page as long as its revision is the
   present one; a lock and an authority failure each take the next one, so that no
   rendering begun before is present when the authority is gone. *)

\* Until a document has its first view nothing is rendered, no lock is installed and no
\* dialog is open or asked for
StartsAlone ==
  Starting => /\ ~guarded /\ ~locked /\ refresh = 0 /\ renders = {}
              /\ content = "nothing" /\ dialog = "none" /\ help = 0

RendersTrusted == \A x \in renders : x.revision <= revision /\ (x.revision = revision => Trusted)

AuthorityInv == StartsAlone /\ RendersTrusted /\ NothingWithoutAuthority

\* What rendering adds: a rendering of the welcome page, asked for anew, or none.
LEMMA RenderingAdds ==
  ASSUME NEW v, NEW s, Rendering(v, s)
  PROVE  /\ revision' = revision + 1
         /\ s # "authenticated" => content' = "nothing"
         /\ \/ UNCHANGED <<renders, refresh>>
            \/ /\ s = "authenticated" /\ refresh' = refresh + 1
               /\ \E z : /\ renders' = renders \cup {z}
                         /\ z.revision = revision + 1 /\ z.refresh = refresh + 1
                         /\ \A p \in Projections : z.read[p] = NoAnswer
<1> DEFINE z == [revision |-> revision + 1, refresh |-> refresh + 1, read |-> Nothing,
                 outcome |-> [p \in Projections |-> "awaited"]]
<1>1. /\ z.revision = revision + 1 /\ z.refresh = refresh + 1
      /\ \A p \in Projections : z.read[p] = NoAnswer
  BY DEF Nothing
<1>2. \/ UNCHANGED <<renders, refresh>>
      \/ s = "authenticated" /\ refresh' = refresh + 1 /\ renders' = renders \cup {z}
  BY DEF Rendering
<1>3. revision' = revision + 1 /\ (s # "authenticated" => content' = "nothing")
  BY DEF Rendering
<1> HIDE DEF z
<1> QED
  BY <1>1, <1>2, <1>3

\* Steps that render, where nothing is locked.
LEMMA RenderingAuthority ==
  ASSUME TypeOK, AuthorityInv, NEW v, Rendering(v, status'), ~locked', UNCHANGED session,
         ~Starting',
         ~Trusted' => dialog' = "none" /\ context' = Nothing
  PROVE  AuthorityInv'
<1>1. revision \in Nat /\ \A x \in renders : x.revision \in Nat
  BY DEF TypeOK, Render
<1>2. RendersTrusted'
  BY <1>1, RenderingAdds DEF AuthorityInv, RendersTrusted, Trusted
<1>3. StartsAlone' /\ NothingWithoutAuthority'
  BY RenderingAdds DEF StartsAlone, Starting, NothingWithoutAuthority, Trusted, Nothing, Projections
<1> QED
  BY <1>2, <1>3 DEF AuthorityInv

\* Steps that take the authority away.
LEMMA InvalidateAuthority ==
  ASSUME TypeOK, AuthorityInv, Invalidate, UNCHANGED locked, renders' \subseteq renders
  PROVE  AuthorityInv'
<1>1. revision \in Nat /\ \A x \in renders : x.revision \in Nat
  BY DEF TypeOK, Render
<1>2. RendersTrusted'
  BY <1>1, InvalidateTypes DEF AuthorityInv, RendersTrusted
<1>3. StartsAlone' /\ NothingWithoutAuthority'
  BY InvalidateTypes DEF StartsAlone, Starting, NothingWithoutAuthority, Trusted, Nothing
<1> QED
  BY <1>2, <1>3 DEF AuthorityInv

\* Steps of a rendering that was begun before.
LEMMA AnswerAuthority ==
  ASSUME TypeOK, AuthorityInv, Answer
  PROVE  AuthorityInv'
<1> USE DEF contextVars, lockVars, backendVars
<1>1. ASSUME NEW x \in renders, NEW p \in Projections,
             Serve(x, p) \/ Receive(x, p) \/ FailCall(x, p)
      PROVE  AuthorityInv'
  <2>1. UNCHANGED <<status, refresh, revision, content, dialog, locked>> /\ ~Starting
    BY <1>1 DEF Serve, Receive, FailCall, AuthorityInv, StartsAlone
  <2>2. ~Trusted => UNCHANGED context
    BY <1>1 DEF Serve, Receive, FailCall
  <2>3. StartsAlone' /\ NothingWithoutAuthority'
    BY <2>1, <2>2 DEF AuthorityInv, StartsAlone, Starting, NothingWithoutAuthority, Trusted, Nothing
  <2>4. RendersTrusted'
    BY <1>1, <2>1, CallAnswers DEF AuthorityInv, RendersTrusted, Trusted, Answered, Becomes
  <2> QED
    BY <2>3, <2>4 DEF AuthorityInv
<1>2. ASSUME NEW x \in renders, FinishDenied(x) PROVE AuthorityInv'
  BY <1>2, InvalidateAuthority DEF FinishDenied
<1>3. ASSUME NEW x \in renders, Finish(x) PROVE AuthorityInv'
  <2>1. /\ renders' = renders \ {x}
        /\ UNCHANGED <<status, context, refresh, revision, dialog, locked>> /\ ~Starting
    BY <1>3 DEF Finish, AuthorityInv, StartsAlone
  <2>2. content' = content \/ (Trusted /\ (locked => content' = "nothing"))
    BY <1>3 DEF Finish, Kept, AuthorityInv, RendersTrusted
  <2>3. StartsAlone' /\ RendersTrusted' /\ NothingWithoutAuthority'
    BY <2>1, <2>2 DEF AuthorityInv, StartsAlone, Starting, RendersTrusted,
                      NothingWithoutAuthority, Trusted, Nothing
  <2> QED
    BY <2>3 DEF AuthorityInv
<1> QED
  BY <1>1, <1>2, <1>3 DEF Answer

\* Steps that start a document.
LEMMA StartAuthority ==
  ASSUME TypeOK, AuthorityInv, Start
  PROVE  AuthorityInv'
<1> USE DEF contextVars, lockVars, backendVars
<1>0. /\ ~locked /\ ~guarded /\ refresh = 0 /\ renders = {}
      /\ content = "nothing" /\ dialog = "none" /\ help = 0
      /\ status # "discovery" => ~Trusted /\ context = Nothing
  BY DEF Start, Bootstrap, FailStart, LoadProjections, Discover, DiscoverDenied, Starting, Trusted,
         AuthorityInv, StartsAlone, NothingWithoutAuthority
<1>1. UNCHANGED <<locked, session>> /\ (UNCHANGED dialog \/ DiscoverDenied)
  BY DEF Start, Bootstrap, FailStart, LoadProjections, Discover, DiscoverDenied
<1>2. CASE Bootstrap /\ session = "open"
  <2>1. status' = "projections" /\ UNCHANGED <<revision, content, refresh, renders, context>>
    BY <1>2 DEF Bootstrap
  <2>2. context = Nothing /\ UNCHANGED <<dialog, help, guarded>>
    BY <1>0, <1>2 DEF Bootstrap
  <2> QED
    BY <1>0, <1>1, <2>1, <2>2 DEF AuthorityInv, StartsAlone, Starting, RendersTrusted,
                                  NothingWithoutAuthority, Nothing
<1>3. CASE (Bootstrap /\ session # "open") \/ FailStart
  <2>1. /\ status' \in {"unauthenticated", "unavailable"} /\ UNCHANGED <<context, dialog>>
        /\ context = Nothing /\ Rendering(view, status')
    BY <1>0, <1>3 DEF Bootstrap, FailStart
  <2> QED
    BY <1>0, <1>1, <2>1, RenderingAuthority DEF Starting, Nothing
<1>4. ASSUME NEW missing \in SUBSET Optional, LoadProjections(missing) PROVE AuthorityInv'
  <2>1. CASE session = "open"
    <3>1. status' = "discovery" /\ UNCHANGED <<content, refresh, renders, dialog, help, guarded>>
      BY <1>4, <2>1 DEF LoadProjections
    <3> QED
      BY <1>0, <1>1, <3>1 DEF AuthorityInv, StartsAlone, Starting, RendersTrusted,
                              NothingWithoutAuthority, Trusted
  <2>2. CASE session # "open"
    <3>1. /\ status' = "unauthenticated" /\ UNCHANGED <<context, dialog>>
          /\ context = Nothing /\ Rendering(view, status')
      BY <1>0, <1>4, <2>2 DEF LoadProjections
    <3> QED
      BY <1>0, <1>1, <3>1, RenderingAuthority DEF Starting, Nothing
  <2> QED
    BY <2>1, <2>2
<1>5. ASSUME NEW v \in Views, Discover(v) PROVE AuthorityInv'
  <2>1. status' = "authenticated" /\ Rendering(v, status')
    BY <1>5 DEF Discover
  <2> QED
    BY <1>0, <1>1, <2>1, RenderingAuthority DEF Starting, Trusted
<1>6. CASE DiscoverDenied
  BY <1>1, <1>6, InvalidateAuthority DEF DiscoverDenied
<1> QED
  BY <1>2, <1>3, <1>4, <1>5, <1>6 DEF Start

\* Every step of the shell keeps it.
LEMMA AuthorityStep == TypeOK /\ AuthorityInv /\ Next => AuthorityInv'
<1> SUFFICES ASSUME TypeOK, AuthorityInv, Next PROVE AuthorityInv'
  OBVIOUS
<1> USE DEF contextVars, pageVars, lockVars, backendVars
<1>1. CASE WorkDenied \/ RefuseSignOut
  BY <1>1, InvalidateAuthority DEF WorkDenied, RefuseSignOut
<1>2. ASSUME ChangeLanguage \/ \E v \in Views : Show(v) PROVE AuthorityInv'
  <2>1. /\ ~locked' /\ UNCHANGED <<status, context, session>> /\ dialog' \in {dialog, "none"}
        /\ ~Starting' /\ \E v : Rendering(v, status')
    BY <1>2 DEF ChangeLanguage, Show, Rendered, Starting
  <2> QED
    BY <2>1, RenderingAuthority DEF AuthorityInv, NothingWithoutAuthority, Trusted, Nothing
<1>3. CASE Documents
  <2>1. Blank
    BY <1>3 DEF Documents, SignedOut, Unlocked, Reload, Replace
  <2> QED
    BY <2>1 DEF Blank, AuthorityInv, StartsAlone, Starting, RendersTrusted,
                NothingWithoutAuthority, Trusted, Nothing
<1>4. CASE Lock
  <2>1. revision \in Nat /\ \A x \in renders : x.revision \in Nat
    BY DEF TypeOK, Render
  <2>2. revision' = revision + 1 /\ content' = "nothing" /\ dialog' = "none"
        /\ UNCHANGED <<status, context, refresh, renders, guarded>> /\ guarded
    BY <1>4 DEF Lock
  <2>3. StartsAlone'
    BY <2>2 DEF AuthorityInv, StartsAlone, Starting
  <2>4. RendersTrusted' /\ NothingWithoutAuthority'
    BY <2>1, <2>2 DEF AuthorityInv, RendersTrusted, NothingWithoutAuthority, Trusted, Nothing
  <2> QED
    BY <2>3, <2>4 DEF AuthorityInv
<1>5. CASE OpenProfile \/ CloseDialog \/ AskHelp \/ OpenHelp \/ SignOut \/ ServeSignOut \/ FailSignOut
  <2>1. UNCHANGED <<status, context, refresh, renders, revision, content, guarded, locked>>
    BY <1>5 DEF OpenProfile, CloseDialog, AskHelp, OpenHelp, SignOut, ServeSignOut, FailSignOut
  <2>2. dialog' \in {dialog, "none"} \/ (Trusted /\ ~locked)
    BY <1>5 DEF OpenProfile, CloseDialog, AskHelp, OpenHelp, SignOut, ServeSignOut, FailSignOut
  <2>3. Starting => UNCHANGED <<dialog, help>>
    BY <1>5 DEF OpenProfile, CloseDialog, AskHelp, OpenHelp, SignOut, ServeSignOut, FailSignOut,
                AuthorityInv, StartsAlone
  <2> QED
    BY <2>1, <2>2, <2>3 DEF AuthorityInv, StartsAlone, Starting, RendersTrusted,
                            NothingWithoutAuthority, Trusted, Nothing
<1>6. CASE Unlock \/ FailUnlock \/ Change
  <2>1. UNCHANGED <<status, context, refresh, renders, revision, content, dialog, help, guarded, locked>>
    BY <1>6 DEF Unlock, FailUnlock, Change
  <2> QED
    BY <2>1 DEF AuthorityInv, StartsAlone, Starting, RendersTrusted, NothingWithoutAuthority,
                Trusted, Nothing
<1> QED
  BY <1>1, <1>2, <1>3, <1>4, <1>5, <1>6, StartAuthority, AnswerAuthority
     DEF Next, Dialogs, Locking

\* Nothing of a session is on the page when it is locked or its authority is gone, for any
\* number of documents, renderings and projections.
THEOREM NothingStaysWithoutAuthority == TabSpec => []NothingWithoutAuthority
<1>1. TabInit => AuthorityInv
  BY DEF TabInit, Init, AuthorityInv, StartsAlone, Starting, RendersTrusted,
         NothingWithoutAuthority, Nothing
<1>2. TabTypeOK /\ AuthorityInv /\ [TabNext]_tabVars => AuthorityInv'
  <2> SUFFICES ASSUME TypeOK, AuthorityInv, [TabNext]_tabVars PROVE AuthorityInv'
    BY DEF TabTypeOK
  <2>1. CASE UNCHANGED shellVars
    BY <2>1 DEF shellVars, contextVars, pageVars, lockVars, AuthorityInv, StartsAlone, Starting,
                RendersTrusted, NothingWithoutAuthority, Trusted, Nothing
  <2> QED
    BY <2>1, AuthorityStep, TabSteps
<1> QED
  BY <1>1, <1>2, TabTypeCorrect, PTL DEF TabSpec, AuthorityInv

-----------------------------------------------------------------------------
(* ContextNeverBack.  An answer is taken while its refresh is the present one, which is of
   one rendering; what that rendering was answered is newer than what the context had when
   it was begun. *)

RefreshesOnce == \A x \in renders : /\ x.refresh <= refresh
                                    /\ \A y \in renders : x.refresh = y.refresh => x = y

\* Versions the backend has or had
Past(c) == \A p \in Projections : c[p] # NoAnswer => c[p] <= version

\* What the present refresh was answered is no older than the context
NewerRead == \A x \in renders, p \in Projections :
  x.refresh = refresh /\ NoAnswer \notin {x.read[p], context[p]} => context[p] <= x.read[p]

ContextInv == RefreshesOnce /\ Past(context) /\ (\A x \in renders : Past(x.read)) /\ NewerRead

\* The values that are compared are versions.
LEMMA VersionsRead ==
  ASSUME TypeOK
  PROVE  /\ version \in Nat /\ refresh \in Nat
         /\ \A p \in Projections : context[p] \in Versions
         /\ \A x \in renders : x.refresh \in Nat /\ \A p \in Projections : x.read[p] \in Versions
  BY DEF TypeOK, Render

\* The backend takes no version back.
LEMMA VersionGrows == ASSUME TypeOK, Next PROVE version <= version'
<1> USE DEF contextVars, pageVars, lockVars, backendVars
<1>0. version \in Nat
  BY DEF TypeOK
<1>1. CASE Change
  BY <1>0, <1>1 DEF Change
<1>2. CASE Start
  BY <1>0, <1>2 DEF Start, Bootstrap, FailStart, LoadProjections, Discover, DiscoverDenied
<1>3. CASE Answer
  <2>1. ASSUME NEW x \in renders, NEW p \in Projections,
               Serve(x, p) \/ Receive(x, p) \/ FailCall(x, p)
        PROVE  UNCHANGED version
    BY <2>1 DEF Serve, Receive, FailCall
  <2>2. ASSUME NEW x \in renders, FinishDenied(x) \/ Finish(x) PROVE UNCHANGED version
    BY <2>2 DEF FinishDenied, Finish
  <2> QED
    BY <1>0, <1>3, <2>1, <2>2 DEF Answer
<1>4. CASE Dialogs
  BY <1>0, <1>4 DEF Dialogs, ChangeLanguage, OpenProfile, CloseDialog, AskHelp, OpenHelp,
                    SignOut, ServeSignOut, FailSignOut, RefuseSignOut
<1>5. CASE Locking \/ Documents \/ WorkDenied \/ \E v \in Views : Show(v)
  BY <1>0, <1>5 DEF Locking, Lock, Unlock, FailUnlock, Documents, SignedOut, Unlocked, Reload,
                    WorkDenied, Show
<1> QED
  BY <1>1, <1>2, <1>3, <1>4, <1>5 DEF Next

\* Steps that begin no rendering and leave the context.
LEMMA QuietContext ==
  ASSUME TypeOK, ContextInv, renders' \subseteq renders, UNCHANGED <<context, refresh>>,
         version <= version', version' \in Nat
  PROVE  ContextInv'
<1>1. \A c \in [Projections -> Versions] : Past(c) => \A p \in Projections :
        c[p] # NoAnswer => c[p] <= version'
  BY VersionsRead DEF Past, Versions
<1>2. context \in [Projections -> Versions]
      /\ \A x \in renders : x.read \in [Projections -> Versions]
  BY DEF TypeOK, Render
<1>3. Past(context)' /\ \A x \in renders' : Past(x.read)'
  BY <1>1, <1>2 DEF ContextInv, Past
<1> QED
  BY <1>3 DEF ContextInv, RefreshesOnce, NewerRead

\* Steps that render: the rendering they begin, if any, has not been answered.
LEMMA RenderingContext ==
  ASSUME TypeOK, ContextInv, NEW v, NEW s, Rendering(v, s), UNCHANGED version,
         UNCHANGED context \/ (renders = {} /\ Past(context)')
  PROVE  ContextInv'
<1>0. refresh \in Nat /\ \A x \in renders : x.refresh \in Nat
  BY VersionsRead
<1>1. CASE UNCHANGED <<renders, refresh>>
  BY <1>1 DEF ContextInv, RefreshesOnce, Past, NewerRead
<1>2. ASSUME NEW z, refresh' = refresh + 1, renders' = renders \cup {z}, z.refresh = refresh + 1,
             \A p \in Projections : z.read[p] = NoAnswer
      PROVE  ContextInv'
  <2>1. RefreshesOnce'
    BY <1>0, <1>2 DEF ContextInv, RefreshesOnce
  <2>2. Past(context)' /\ \A x \in renders' : Past(x.read)'
    BY <1>2 DEF ContextInv, Past
  <2>3. NewerRead'
    BY <1>0, <1>2 DEF ContextInv, RefreshesOnce, NewerRead
  <2> QED
    BY <2>1, <2>2, <2>3 DEF ContextInv
<1> QED
  BY <1>1, <1>2, RenderingAdds

\* Steps that take the authority away.
LEMMA InvalidateContext ==
  ASSUME TypeOK, ContextInv, Invalidate, renders' \subseteq renders, UNCHANGED version
  PROVE  ContextInv'
<1>0. /\ refresh \in Nat /\ \A x \in renders : x.refresh \in Nat
      /\ refresh' = refresh + 1
      /\ \A p \in Projections : context'[p] = NoAnswer
  BY VersionsRead, InvalidateTypes DEF Nothing
<1>1. RefreshesOnce'
  BY <1>0 DEF ContextInv, RefreshesOnce
<1>2. Past(context)' /\ (\A x \in renders' : Past(x.read)') /\ NewerRead'
  BY <1>0 DEF ContextInv, Past, NewerRead
<1> QED
  BY <1>1, <1>2 DEF ContextInv

\* Calls that arrive, are taken or fail.
LEMMA CallContext ==
  ASSUME TypeOK, TypeOK', ContextInv, NEW x \in renders, NEW p \in Projections,
         Serve(x, p) \/ Receive(x, p) \/ FailCall(x, p)
  PROVE  ContextInv'
<1>1. PICK y : Answered(x, y) /\ (Receive(x, p) => y.read[p] = NoAnswer)
  BY CallAnswers
<1>2. /\ renders' = (renders \ {x}) \cup {y} /\ y.refresh = x.refresh
      /\ \A q \in Projections : y.read[q] \in {x.read[q], NoAnswer, version}
  BY <1>1 DEF Answered, Becomes
<1>3. UNCHANGED <<refresh, version>>
  BY DEF Serve, Receive, FailCall, contextVars, lockVars, backendVars
<1>4. \/ UNCHANGED context
      \/ /\ Receive(x, p) /\ x.refresh = refresh /\ x.read[p] # NoAnswer
         /\ \A q \in Projections : context'[q] = IF q = p THEN x.read[p] ELSE context[q]
  <2>1. CASE Receive(x, p)
    BY <2>1 DEF Receive, TypeOK
  <2>2. CASE Serve(x, p) \/ FailCall(x, p)
    BY <2>2 DEF Serve, FailCall, contextVars
  <2> QED
    BY <2>1, <2>2
<1>5. RefreshesOnce'
  BY <1>2, <1>3 DEF ContextInv, RefreshesOnce
<1>6. version \in Nat /\ Past(x.read) /\ Past(context)
  BY VersionsRead DEF ContextInv
<1>7. Past(y.read)
  BY <1>2, <1>6 DEF Past
<1>8. Past(context)' /\ \A z \in renders' : Past(z.read)'
  BY <1>2, <1>3, <1>4, <1>6, <1>7 DEF ContextInv, Past
<1>9. ASSUME NEW z \in renders', NEW q \in Projections, z.refresh = refresh',
             NoAnswer \notin {z.read[q], context'[q]}
      PROVE  context'[q] <= z.read[q]
  <2>1. CASE z = y
    <3>1. y.read[q] \in {x.read[q], version} /\ (Receive(x, p) => q # p)
      BY <1>1, <1>2, <1>9, <2>1
    <3>2. context'[q] = context[q]
      BY <1>4, <3>1
    <3> QED
      BY <1>2, <1>3, <1>6, <1>9, <2>1, <3>1, <3>2 DEF ContextInv, NewerRead, Past
  <2>2. CASE z # y
    <3>1. z \in renders /\ z # x
      BY <1>2, <2>2
    <3>2. UNCHANGED context
      BY <1>3, <1>4, <1>9, <3>1 DEF ContextInv, RefreshesOnce
    <3> QED
      BY <1>3, <1>9, <3>1, <3>2 DEF ContextInv, NewerRead
  <2> QED
    BY <2>1, <2>2
<1>10. NewerRead'
  BY <1>9 DEF NewerRead
<1> QED
  BY <1>5, <1>8, <1>10 DEF ContextInv

\* Every step of the shell keeps it.
LEMMA ContextStep == TypeOK /\ AuthorityInv /\ ContextInv /\ Next => ContextInv'
<1> SUFFICES ASSUME TypeOK, AuthorityInv, ContextInv, Next PROVE ContextInv'
  OBVIOUS
<1> USE DEF contextVars, pageVars, lockVars, backendVars
<1>0. TypeOK' /\ version <= version' /\ version' \in Nat /\ version \in Nat
  BY ShellStep, VersionGrows DEF TypeOK
<1>1. CASE Start
  <2>0. renders = {}
    BY <1>1 DEF Start, Bootstrap, FailStart, LoadProjections, Discover, DiscoverDenied, Starting,
                AuthorityInv, StartsAlone
  <2>1. CASE Bootstrap /\ session = "open"
    BY <1>0, <2>1, QuietContext DEF Bootstrap
  <2>2. CASE (Bootstrap /\ session # "open") \/ FailStart
    <3>1. UNCHANGED <<context, version>> /\ \E s : Rendering(view, s)
      BY <2>2 DEF Bootstrap, FailStart
    <3> QED
      BY <3>1, RenderingContext
  <2>3. ASSUME NEW missing \in SUBSET Optional, LoadProjections(missing) PROVE ContextInv'
    <3>1. CASE session = "open"
      <4>1. /\ renders' = {} /\ UNCHANGED version
            /\ \A p \in Projections : context'[p] \in {NoAnswer, version}
        BY <2>0, <2>3, <3>1 DEF LoadProjections
      <4>2. Past(context)'
        BY <1>0, <4>1 DEF Past
      <4> QED
        BY <4>1, <4>2 DEF ContextInv, RefreshesOnce, NewerRead
    <3>2. CASE session # "open"
      <4>1. UNCHANGED <<context, version>> /\ \E s : Rendering(view, s)
        BY <2>3, <3>2 DEF LoadProjections
      <4> QED
        BY <4>1, RenderingContext
    <3> QED
      BY <3>1, <3>2
  <2>4. ASSUME NEW v \in Views, Discover(v) PROVE ContextInv'
    BY <2>4, RenderingContext DEF Discover
  <2>5. CASE DiscoverDenied
    BY <2>5, InvalidateContext DEF DiscoverDenied
  <2> QED
    BY <1>1, <2>1, <2>2, <2>3, <2>4, <2>5 DEF Start
<1>2. CASE Answer
  <2>1. ASSUME NEW x \in renders, FinishDenied(x) PROVE ContextInv'
    BY <2>1, InvalidateContext DEF FinishDenied
  <2>2. ASSUME NEW x \in renders, Finish(x) PROVE ContextInv'
    BY <1>0, <2>2, QuietContext DEF Finish
  <2> QED
    BY <1>0, <1>2, <2>1, <2>2, CallContext DEF Answer
<1>3. CASE WorkDenied \/ RefuseSignOut
  BY <1>3, InvalidateContext DEF WorkDenied, RefuseSignOut
<1>4. CASE ChangeLanguage \/ \E v \in Views : Show(v)
  <2>1. UNCHANGED <<context, version>> /\ \E u, s : Rendering(u, s)
    BY <1>4 DEF ChangeLanguage, Show
  <2> QED
    BY <2>1, RenderingContext
<1>5. CASE Documents
  <2>1. renders' = {} /\ \A p \in Projections : context'[p] = NoAnswer
    BY <1>5 DEF Documents, SignedOut, Unlocked, Reload, Replace, Blank, Nothing
  <2> QED
    BY <2>1 DEF ContextInv, RefreshesOnce, Past, NewerRead
<1>6. CASE OpenProfile \/ CloseDialog \/ AskHelp \/ OpenHelp \/ SignOut \/ ServeSignOut \/ FailSignOut
  <2>1. UNCHANGED <<renders, context, refresh>>
    BY <1>6 DEF OpenProfile, CloseDialog, AskHelp, OpenHelp, SignOut, ServeSignOut, FailSignOut
  <2> QED
    BY <1>0, <2>1, QuietContext
<1>7. CASE Locking \/ Change
  <2>1. UNCHANGED <<renders, context, refresh>>
    BY <1>7 DEF Locking, Lock, Unlock, FailUnlock, Change
  <2> QED
    BY <1>0, <2>1, QuietContext
<1> QED
  BY <1>1, <1>2, <1>3, <1>4, <1>5, <1>6, <1>7 DEF Next, Dialogs

\* The context is replaced by none, filled when there was none, or takes an answer.
LEMMA ContextSteps ==
  ASSUME TypeOK, AuthorityInv, Next
  PROVE  \/ UNCHANGED context
         \/ Nothing \in {context, context'}
         \/ \E x \in renders, p \in Projections : Receive(x, p)
<1> USE DEF contextVars, pageVars, lockVars, backendVars
<1>1. CASE Start
  BY <1>1, InvalidateTypes DEF Start, Bootstrap, FailStart, LoadProjections, Discover,
                               DiscoverDenied, AuthorityInv, NothingWithoutAuthority, Trusted
<1>2. ASSUME NEW x \in renders, NEW p \in Projections, Serve(x, p) \/ FailCall(x, p)
      PROVE  UNCHANGED context
  BY <1>2 DEF Serve, FailCall
<1>3. ASSUME NEW x \in renders, FinishDenied(x) \/ Finish(x)
      PROVE  UNCHANGED context \/ context' = Nothing
  BY <1>3, InvalidateTypes DEF FinishDenied, Finish
<1>4. CASE Dialogs
  BY <1>4, InvalidateTypes DEF Dialogs, ChangeLanguage, OpenProfile, CloseDialog, AskHelp,
                               OpenHelp, SignOut, ServeSignOut, FailSignOut, RefuseSignOut
<1>5. CASE Locking \/ Change \/ \E v \in Views : Show(v)
  BY <1>5 DEF Locking, Lock, Unlock, FailUnlock, Change, Show
<1>6. CASE Documents \/ WorkDenied
  <2>1. CASE WorkDenied
    BY <2>1, InvalidateTypes DEF WorkDenied
  <2>2. CASE Documents
    BY <2>2 DEF Documents, SignedOut, Unlocked, Reload, Replace, Blank, Nothing
  <2> QED
    BY <1>6, <2>1, <2>2
<1> QED
  BY <1>1, <1>2, <1>3, <1>4, <1>5, <1>6 DEF Next, Answer

\* In a document the context never goes back to an older version, in whatever order the
\* answers to its refreshes arrive, except to none at all.
THEOREM ContextStaysNew == TabSpec => ContextNeverBack
<1>1. TabInit => AuthorityInv /\ ContextInv
  BY DEF TabInit, Init, AuthorityInv, StartsAlone, Starting, RendersTrusted,
         NothingWithoutAuthority, Nothing, ContextInv, RefreshesOnce, Past, NewerRead
<1>2. TabTypeOK /\ AuthorityInv /\ ContextInv /\ [TabNext]_tabVars => (AuthorityInv /\ ContextInv)'
  <2> SUFFICES ASSUME TypeOK, AuthorityInv, ContextInv, [TabNext]_tabVars
               PROVE  AuthorityInv' /\ ContextInv'
    BY DEF TabTypeOK
  <2>1. CASE UNCHANGED shellVars
    <3>1. AuthorityInv'
      BY <2>1 DEF shellVars, contextVars, pageVars, lockVars, AuthorityInv, StartsAlone, Starting,
                  RendersTrusted, NothingWithoutAuthority, Trusted, Nothing
    <3>2. ContextInv'
      BY <2>1 DEF shellVars, contextVars, pageVars, ContextInv, RefreshesOnce, Past, NewerRead
    <3> QED
      BY <3>1, <3>2
  <2> QED
    BY <2>1, AuthorityStep, ContextStep, TabSteps
<1>3. TabTypeOK /\ AuthorityInv /\ ContextInv /\ [TabNext]_tabVars
      => [page' = page => \A p \in Projections :
            NoAnswer \in {context[p], context'[p]} \/ context[p] <= context'[p]]_vars
  <2> SUFFICES ASSUME TypeOK, AuthorityInv, ContextInv, Next \/ UNCHANGED shellVars,
                      NEW p \in Projections, NoAnswer \notin {context[p], context'[p]}
               PROVE  context[p] <= context'[p]
    BY TabSteps DEF TabTypeOK
  <2>1. context[p] \in Nat
    BY VersionsRead DEF Versions
  <2>2. CASE UNCHANGED context
    BY <2>1, <2>2
  <2>3. Nothing \notin {context, context'}
    BY DEF Nothing
  <2>4. ASSUME NEW x \in renders, NEW q \in Projections, Receive(x, q)
        PROVE  context[p] <= context'[p]
    <3>1. \/ context'[p] = context[p]
          \/ x.refresh = refresh /\ context'[p] = x.read[p] /\ x.read[p] # NoAnswer
      BY <2>4 DEF Receive, TypeOK
    <3> QED
      BY <2>1, <3>1 DEF ContextInv, NewerRead
  <2> QED
    BY <2>2, <2>3, <2>4, ContextSteps DEF shellVars, contextVars
<1> QED
  BY <1>1, <1>2, <1>3, TabTypeCorrect, PTL DEF TabSpec, ContextNeverBack

-----------------------------------------------------------------------------
(* SelectionSentOnce.  Wherever the view may come to offer a selection, the transaction it
   would be sent in is one in which none was sent: a selection leads to the session or to
   "refresh_required", and from there only a new challenge leads on. *)

\* The view offers a selection, or may come to offer one without a new challenge
MaySelect ==
  \/ phase \in {"code", "resume_required"}
  \/ phase = "choices" /\ offered
  \/ call.kind \in {"pending", "verify", "choices"}

\* The transactions that the view or the browser knows were begun
Begun == \A t \in sent.once \cup {jar.email, jar.microsoft} : SignIn!StageOf(t) # "unused"

\* A challenge is of email, and the transaction it is answered with has seen no selection
NewChallenge ==
  call.kind = "challenge" =>
    /\ call.purpose = "request" /\ ~microsoft
    /\ call.answer = "done" => call.of \notin sent.once /\ SignIn!StageOf(call.of) # "unused"

SelectInv ==
  /\ SignIn!SelectionSentOnce
  /\ phase = "absent" => sent.once = {}
  /\ MaySelect => SignIn!Current \notin sent.once
  /\ Begun /\ NewChallenge

\* No transaction becomes unused again.
LEMMA StagesGoOn ==
  ASSUME SignIn!TypeOK, SignIn!Next, NEW t, SignIn!StageOf(t) # "unused"
  PROVE  SignIn!StageOf(t)' # "unused"
<1>1. stage \in [Transactions -> SignIn!Stages]
  BY DEF SignIn!TypeOK
<1>2. CASE UNCHANGED stage
  BY <1>2 DEF SignIn!StageOf
<1>3. ASSUME NEW u \in Transactions, NEW s \in {"code", "proved", "over"},
             stage' = [stage EXCEPT ![u] = s]
      PROVE  SignIn!StageOf(t)' # "unused"
  BY <1>1, <1>3 DEF SignIn!StageOf
<1>4. ASSUME NEW u \in SignIn!Cookie, SignIn!StageOf(u) \in {"code", "proved"} PROVE u \in Transactions
  BY <1>4 DEF SignIn!StageOf
<1>5. CASE SignIn!Serve
  <2>1. CASE SignIn!ServeChallenge
    BY <1>2, <1>3, <2>1 DEF SignIn!ServeChallenge
  <2>2. CASE SignIn!ServePending \/ SignIn!ServeChoices \/ SignIn!ServeBootstrap
    BY <1>2, <2>2 DEF SignIn!ServePending, SignIn!ServeChoices, SignIn!ServeBootstrap
  <2>3. CASE SignIn!ServeVerify \/ SignIn!ServeSelect
    <3>1. call.of \in SignIn!Cookie
      BY <2>3, CallKinds, CookieTypes DEF SignIn!ServeVerify, SignIn!ServeSelect, SignIn!Kinds
    <3> QED
      BY <1>2, <1>3, <1>4, <2>3, <3>1 DEF SignIn!ServeVerify, SignIn!ServeSelect
  <2> QED
    BY <1>5, <2>1, <2>2, <2>3 DEF SignIn!Serve
<1>6. CASE SignIn!Elsewhere
  <2>1. ASSUME NEW c \in stray, SignIn!ServeStray(c) PROVE SignIn!StageOf(t)' # "unused"
    <3>1. c.of \in SignIn!Cookie
      BY DEF SignIn!TypeOK
    <3> QED
      BY <1>2, <1>3, <1>4, <2>1, <3>1 DEF SignIn!ServeStray
  <2>2. ASSUME NEW u \in Transactions, SignIn!Expire(u) \/ SignIn!Microsoft(u)
        PROVE  SignIn!StageOf(t)' # "unused"
    BY <1>3, <2>2 DEF SignIn!Expire, SignIn!Microsoft
  <2> QED
    BY <1>2, <1>6, <2>1, <2>2 DEF SignIn!Elsewhere, SignIn!EndSession
<1>7. CASE SignIn!Close \/ (\E callback \in BOOLEAN : SignIn!Open(callback)) \/ SignIn!Operation
  BY <1>2, <1>7 DEF SignIn!Close, SignIn!Open, SignIn!Operation, SignIn!Request, SignIn!Verify,
                    SignIn!Resume, SignIn!Select, SignIn!CheckSession, SignIn!Restart
<1>8. CASE SignIn!Receive
  BY <1>2, <1>8 DEF SignIn!Receive, SignIn!GetChallenge, SignIn!GetPending, SignIn!GetVerified,
                    SignIn!GetChoices, SignIn!GetSelected, SignIn!GetSession, SignIn!Fail,
                    SignIn!FailRecover
<1> QED
  BY <1>5, <1>6, <1>7, <1>8 DEF SignIn!Next

\* A view that is made has sent nothing, and one that is gone is forgotten.
LEMMA ViewSelects ==
  ASSUME SignIn!TypeOK, SelectInv, SignIn!Close \/ \E callback \in BOOLEAN : SignIn!Open(callback)
  PROVE  SelectInv'
<1>0. SignIn!Next
  BY DEF SignIn!Next
<1>1. /\ sent'.once = {} /\ sent'.again = {} /\ UNCHANGED jar
      /\ call'.kind # "challenge"
  <2>1. CASE SignIn!Close
    BY <2>1 DEF SignIn!Close, SignIn!NoCall
  <2>2. ASSUME NEW callback \in BOOLEAN, SignIn!Open(callback)
        PROVE  /\ sent'.once = {} /\ sent'.again = {} /\ UNCHANGED jar
               /\ call'.kind # "challenge"
    BY <2>2 DEF SignIn!Open, SignIn!Ask, SelectInv, SignIn!SelectionSentOnce
  <2> QED
    BY <2>1, <2>2
<1>2. Begun'
  BY <1>0, <1>1, StagesGoOn DEF SelectInv, Begun
<1> QED
  BY <1>1, <1>2 DEF SelectInv, SignIn!SelectionSentOnce, NewChallenge

\* What the user does: a selection is the only operation that sends one, and is offered
\* in a transaction that has seen none.
LEMMA OperationSelects ==
  ASSUME SignIn!TypeOK, SelectInv, SignIn!Operation
  PROVE  SelectInv'
<1>0. SignIn!Next /\ UNCHANGED <<jar, stage>>
  BY DEF SignIn!Next, SignIn!Operation, SignIn!Request, SignIn!Verify, SignIn!Resume,
         SignIn!Select, SignIn!CheckSession, SignIn!Restart
<1>1. CASE SignIn!Request \/ SignIn!CheckSession
  <2>1. /\ phase' = "loading" /\ call'.kind \in {"challenge", "bootstrap"}
        /\ call'.kind = "challenge" =>
             call'.purpose = "request" /\ ~microsoft' /\ call'.answer = "awaited"
        /\ UNCHANGED sent
    BY <1>1 DEF SignIn!Request, SignIn!CheckSession, SignIn!Ask
  <2>2. Begun' /\ NewChallenge'
    BY <1>0, <2>1 DEF SelectInv, Begun, NewChallenge, SignIn!StageOf
  <2> QED
    BY <2>1, <2>2 DEF SelectInv, SignIn!SelectionSentOnce, MaySelect
<1>2. CASE SignIn!Verify \/ SignIn!Resume
  <2>1. /\ phase' = "loading" /\ call'.kind \in {"verify", "pending", "choices"}
        /\ UNCHANGED <<sent, microsoft>> /\ MaySelect
    BY <1>2 DEF SignIn!Verify, SignIn!Resume, SignIn!Ask, MaySelect
  <2>2. Begun' /\ NewChallenge'
    BY <1>0, <2>1 DEF SelectInv, Begun, NewChallenge, SignIn!StageOf
  <2> QED
    BY <1>0, <2>1, <2>2 DEF SelectInv, SignIn!SelectionSentOnce, SignIn!Current
<1>3. CASE SignIn!Select
  <2>1. /\ phase' = "loading" /\ call'.kind = "select"
        /\ sent'.once = sent.once \cup {SignIn!Current}
        /\ sent'.again = sent.again \cup (sent.once \cap {SignIn!Current})
        /\ MaySelect
    BY <1>3 DEF SignIn!Select, SignIn!Ask, MaySelect
  <2>2. SignIn!Current \in {jar.email, jar.microsoft}
    BY DEF SignIn!Current
  <2>3. Begun' /\ NewChallenge'
    BY <1>0, <2>1, <2>2 DEF SelectInv, Begun, NewChallenge, SignIn!StageOf
  <2> QED
    BY <2>1, <2>3 DEF SelectInv, SignIn!SelectionSentOnce, MaySelect
<1>4. CASE SignIn!Restart
  <2>1. phase' = "email" /\ call' = SignIn!NoCall /\ UNCHANGED sent
    BY <1>4 DEF SignIn!Restart, SignIn!Idle
  <2>2. Begun' /\ NewChallenge'
    BY <1>0, <2>1 DEF SelectInv, Begun, NewChallenge, SignIn!StageOf, SignIn!NoCall
  <2> QED
    BY <2>1, <2>2 DEF SelectInv, SignIn!SelectionSentOnce, MaySelect, SignIn!NoCall
<1> QED
  BY <1>1, <1>2, <1>3, <1>4 DEF SignIn!Operation

\* A call arrives: a challenge begins a transaction that was unused, and so has seen no
\* selection.
LEMMA ServeSelects ==
  ASSUME SignIn!TypeOK, SelectInv, SignIn!Serve
  PROVE  SelectInv'
<1>0. SignIn!Next
  BY DEF SignIn!Next
<1>1. UNCHANGED <<phase, offered, microsoft, jar, sent>>
  BY DEF SignIn!Serve, SignIn!ServeChallenge, SignIn!ServePending, SignIn!ServeVerify,
         SignIn!ServeChoices, SignIn!ServeSelect, SignIn!ServeBootstrap
<1>2. Begun'
  BY <1>0, <1>1, StagesGoOn DEF SelectInv, Begun
<1>3. CASE SignIn!ServeChallenge
  <2>0. call.kind = "challenge" /\ call \in SignIn!Call
    BY <1>3, CallKinds DEF SignIn!ServeChallenge, SignIn!Kinds
  <2>1. ASSUME NEW t \in Transactions, stage[t] = "unused", stage' = [stage EXCEPT ![t] = "code"],
               call' = [call EXCEPT !.answer = "done", !.of = t]
        PROVE  call'.kind = call.kind /\ NewChallenge'
    <3>1. call'.kind = "challenge" /\ call'.purpose = call.purpose /\ call'.of = t
      BY <2>0, <2>1 DEF SignIn!Call
    <3>2. t \notin sent.once
      BY <2>1 DEF SelectInv, Begun, SignIn!StageOf
    <3>3. SignIn!StageOf(t)' # "unused"
      BY <2>1 DEF SignIn!TypeOK, SignIn!StageOf
    <3>4. call.purpose = "request" /\ ~microsoft
      BY <2>0 DEF SelectInv, NewChallenge
    <3> QED
      BY <1>1, <2>0, <3>1, <3>2, <3>3, <3>4 DEF NewChallenge, SignIn!StageOf
  <2>2. ASSUME SignIn!Reply("limited") PROVE call'.kind = call.kind /\ NewChallenge'
    <3>1. call'.kind = call.kind /\ call'.purpose = call.purpose /\ call'.answer = "limited"
      BY <2>0, <2>2, ReplyTypes DEF SignIn!Answers, SignIn!Kinds
    <3> QED
      BY <1>1, <3>1 DEF SelectInv, NewChallenge
  <2>3. call'.kind = call.kind /\ NewChallenge'
    BY <1>3, <2>1, <2>2 DEF SignIn!ServeChallenge
  <2> QED
    BY <1>1, <1>2, <2>3 DEF SelectInv, SignIn!SelectionSentOnce, MaySelect, SignIn!Current
<1>4. CASE \/ SignIn!ServePending \/ SignIn!ServeVerify \/ SignIn!ServeChoices
           \/ SignIn!ServeSelect \/ SignIn!ServeBootstrap
  <2>1. call.kind \in SignIn!Kinds /\ call.kind # "challenge"
    BY <1>4 DEF SignIn!ServePending, SignIn!ServeVerify, SignIn!ServeChoices,
                SignIn!ServeSelect, SignIn!ServeBootstrap, SignIn!Kinds
  <2>2. \E a : SignIn!Reply(a)
    BY <1>4 DEF SignIn!ServePending, SignIn!ServeVerify, SignIn!ServeChoices,
                SignIn!ServeSelect, SignIn!ServeBootstrap
  <2>3. call'.kind = call.kind
    BY <2>1, <2>2, CallKinds DEF SignIn!Reply, SignIn!Call
  <2> QED
    BY <1>1, <1>2, <2>1, <2>3
       DEF SelectInv, SignIn!SelectionSentOnce, MaySelect, NewChallenge, SignIn!Current
<1> QED
  BY <1>3, <1>4 DEF SignIn!Serve

\* An answer, or none: after a selection nothing leads back to where one is offered, and
\* the answer to a challenge leads to its own transaction.
LEMMA ReceiveSelects ==
  ASSUME SignIn!TypeOK, SelectInv, SignIn!Receive
  PROVE  SelectInv'
<1>1. UNCHANGED <<microsoft, stage, sent>>
  BY DEF SignIn!Receive, SignIn!GetChallenge, SignIn!GetPending, SignIn!GetVerified,
         SignIn!GetChoices, SignIn!GetSelected, SignIn!GetSession, SignIn!Fail, SignIn!FailRecover
<1>2. ASSUME UNCHANGED jar, call'.kind # "challenge", phase' # "absent", MaySelect' => MaySelect
      PROVE  SelectInv'
  BY <1>1, <1>2 DEF SelectInv, SignIn!SelectionSentOnce, Begun, NewChallenge, SignIn!StageOf,
                    SignIn!Current
<1>3. SignIn!NoCall.kind = "none"
  BY DEF SignIn!NoCall
<1>4. CASE SignIn!GetChallenge
  <2>1. /\ call.kind = "challenge" /\ call.answer = "done"
        /\ jar' = [jar EXCEPT !.email = call.of] /\ phase' = "code" /\ call' = SignIn!NoCall
    BY <1>4 DEF SignIn!GetChallenge, SignIn!Settle
  <2>2. jar'.email = call.of /\ jar'.microsoft = jar.microsoft
    BY <2>1 DEF SignIn!TypeOK
  <2>3. ~microsoft /\ call.of \notin sent.once /\ SignIn!StageOf(call.of) # "unused"
    BY <2>1 DEF SelectInv, NewChallenge
  <2>4. Begun'
    BY <1>1, <2>2, <2>3 DEF SelectInv, Begun, SignIn!StageOf
  <2> QED
    BY <1>1, <1>3, <2>1, <2>2, <2>3, <2>4
       DEF SelectInv, SignIn!SelectionSentOnce, NewChallenge, SignIn!Current
<1>5. CASE SignIn!GetPending \/ SignIn!GetVerified \/ SignIn!GetChoices
  <2>1. UNCHANGED jar /\ MaySelect /\ phase' # "absent" /\ call'.kind # "challenge"
    BY <1>3, <1>5 DEF SignIn!GetPending, SignIn!GetVerified, SignIn!GetChoices, SignIn!Settle,
                      SignIn!Ask, MaySelect
  <2> QED
    BY <1>2, <2>1
<1>6. CASE SignIn!GetSelected \/ SignIn!GetSession
  <2>1. UNCHANGED jar /\ ~MaySelect' /\ phase' # "absent" /\ call'.kind # "challenge"
    BY <1>3, <1>6 DEF SignIn!GetSelected, SignIn!GetSession, SignIn!Settle, SignIn!Ask, MaySelect
  <2> QED
    BY <1>2, <2>1
<1>7. CASE SignIn!Fail
  <2>1. call \in SignIn!Call
    BY <1>7 DEF SignIn!Fail, SignIn!Idle, SignIn!TypeOK
  <2>2. UNCHANGED jar /\ phase' = SignIn!FailurePhase /\ call' = SignIn!NoCall
    BY <1>7 DEF SignIn!Fail, SignIn!Settle
  <2>3. call.kind \in {"pending", "challenge", "verify", "choices", "select", "bootstrap"}
    BY <2>1 DEF SignIn!Call, SignIn!Kinds
  <2>4. call.kind = "challenge" => call.purpose = "request"
    BY DEF SelectInv, NewChallenge
  <2>5. SignIn!FailurePhase \in {"code", "resume_required"}
        => call.kind \in {"pending", "verify", "choices"}
    BY <2>3, <2>4 DEF SignIn!FailurePhase
  <2>6. phase' \notin {"absent", "choices"}
    BY <2>2 DEF SignIn!FailurePhase
  <2> QED
    BY <1>2, <1>3, <2>2, <2>5, <2>6 DEF MaySelect
<1>8. CASE SignIn!FailRecover
  <2>1. /\ UNCHANGED jar /\ call' = SignIn!NoCall
        /\ phase' = "email" \/ (phase' = "choices" /\ ~offered')
    BY <1>8 DEF SignIn!FailRecover, SignIn!Settle
  <2> QED
    BY <1>2, <1>3, <2>1 DEF MaySelect
<1> QED
  BY <1>4, <1>5, <1>6, <1>7, <1>8 DEF SignIn!Receive

\* What happens elsewhere: Microsoft proves a transaction while no view is there.
LEMMA ElsewhereSelects ==
  ASSUME SignIn!TypeOK, SelectInv, SignIn!Elsewhere
  PROVE  SelectInv'
<1>0. SignIn!Next
  BY DEF SignIn!Next
<1>1. UNCHANGED <<phase, offered, microsoft, call, sent>>
  BY DEF SignIn!Elsewhere, SignIn!ServeStray, SignIn!Expire, SignIn!Microsoft, SignIn!EndSession,
         SignIn!viewVars
<1>2. NewChallenge'
  BY <1>0, <1>1, StagesGoOn DEF SelectInv, NewChallenge, SignIn!StageOf
<1>3. CASE UNCHANGED jar
  <2>1. Begun'
    BY <1>0, <1>1, <1>3, StagesGoOn DEF SelectInv, Begun
  <2> QED
    BY <1>1, <1>2, <1>3, <2>1 DEF SelectInv, SignIn!SelectionSentOnce, MaySelect, SignIn!Current
<1>4. ASSUME NEW t \in Transactions, SignIn!Microsoft(t) PROVE SelectInv'
  <2>1. jar'.email = jar.email /\ jar'.microsoft = t /\ phase = "absent"
    BY <1>4 DEF SignIn!Microsoft, SignIn!TypeOK
  <2>2. SignIn!StageOf(t)' # "unused"
    BY <1>4 DEF SignIn!Microsoft, SignIn!TypeOK, SignIn!StageOf
  <2>3. sent.once = {}
    BY <2>1 DEF SelectInv
  <2>4. Begun'
    BY <1>0, <1>1, <2>1, <2>2, <2>3, StagesGoOn DEF SelectInv, Begun
  <2> QED
    BY <1>1, <1>2, <2>3, <2>4 DEF SelectInv, SignIn!SelectionSentOnce
<1> QED
  BY <1>3, <1>4 DEF SignIn!Elsewhere, SignIn!ServeStray, SignIn!Expire, SignIn!EndSession

\* In whatever way its answer is lost, and whatever the user does then, a selection is not
\* sent twice in one transaction by the same view, for any number of transactions.
THEOREM SelectionsAreSentOnce == TabSpec => []SelectionSentOnce
<1>1. TabInit => SelectInv
  BY NoTransactionAssumption
     DEF TabInit, SignIn!Init, SelectInv, SignIn!SelectionSentOnce, MaySelect, Begun, NewChallenge,
         SignIn!StageOf, SignIn!NoCall
<1>2. TabTypeOK /\ SelectInv /\ [TabNext]_tabVars => SelectInv'
  <2> SUFFICES ASSUME SignIn!TypeOK, SelectInv, [TabNext]_tabVars PROVE SelectInv'
    BY DEF TabTypeOK
  <2>1. CASE UNCHANGED signInVars
    BY <2>1 DEF signInVars, SelectInv, SignIn!SelectionSentOnce, MaySelect, Begun, NewChallenge,
                SignIn!StageOf, SignIn!Current
  <2>2. CASE SignIn!Next
    BY <2>2, ViewSelects, OperationSelects, ServeSelects, ReceiveSelects, ElsewhereSelects
       DEF SignIn!Next
  <2> QED
    BY <2>1, <2>2, TabSteps
<1>3. SelectInv => SelectionSentOnce
  BY DEF SelectInv, SelectionSentOnce
<1> QED
  BY <1>1, <1>2, <1>3, TabTypeCorrect, PTL DEF TabSpec

=============================================================================
