--------------------------- MODULE ApplicationShell ---------------------------
(***************************************************************************)
(* The document of the customer application: its start from the session, the   *)
(* projections of the application context, the views that are rendered in turn, *)
(* the profile and help dialogs, what an authority failure and the inactivity   *)
(* lock leave of them, and the new document that follows.                       *)
(*                                                                              *)
(* app.js, platform/application-context.js, platform/app-shell.js,              *)
(* platform/inactivity-lock.js and bootstrap() and signOut() of                 *)
(* platform/production-session.js.  The views other than the welcome page keep  *)
(* to themselves once they are rendered; here each is "work".  That the user    *)
(* is long inactive is a choice of the environment.                             *)
(***************************************************************************)
EXTENDS Integers, FiniteSets

CONSTANTS
  Required,     \* projections the welcome page cannot do without
  Optional,     \* projections it can
  MaxRevision,  \* bound: renderings of a document
  MaxVersion,   \* bound: versions of what the projections are of
  MaxPages,     \* bound: documents
  NoAnswer

ASSUME BoundsAssumption == {MaxRevision, MaxVersion, MaxPages} \subseteq Nat
ASSUME NoAnswerAssumption == NoAnswer \notin Nat

VARIABLES
  page,      \* the number of the document
  status,    \* of the context; "bootstrap" and "projections" while it is created, "discovery"
             \* when there is one and no view yet
  context,   \* its projections, by the version they are of; NoAnswer for none
  refresh,   \* their refresh revisions (all are refreshed together)
  view,      \* the view that is open
  revision,  \* renderRevision
  renders,   \* renderings of the welcome page that await their projections
  content,   \* what is in the root of the application
  entry,     \* the authentication page over it
  dialog,    \* the dialog that is open
  help,      \* the revision for which the next frame opens the help dialog, or 0
  logout,    \* signOut(): "none", "posted", or what it was answered
  guarded,   \* the inactivity lock is installed
  locked,    \* sessionLocked
  unlock,    \* bootstrap() of the unlock button: "none", "posted"
  worked,    \* a view other than the welcome page was rendered
  session,   \* backend: the session of the browser
  version    \* backend: the version of what the projections are of

contextVars == <<status, context, refresh>>
pageVars    == <<view, revision, renders, content, entry, dialog, help, logout, worked>>
lockVars    == <<guarded, locked, unlock>>
backendVars == <<session, version>>
vars == <<page, contextVars, pageVars, lockVars, backendVars>>

-----------------------------------------------------------------------------

Projections == Required \cup Optional
Versions    == Nat \cup {NoAnswer}

Views == {"welcome", "work"}

\* A rendering of the welcome page: what the calls of each projection were answered,
\* and what the refreshes of the context made of it
Render == [revision : Nat, refresh : Nat, read : [Projections -> Versions],
           outcome : [Projections -> {"awaited", "done", "failed", "denied"}]]

Trusted == status \in {"discovery", "authenticated"}

Nothing == [p \in Projections |-> NoAnswer]

\* A document that was just opened
Blank ==
  /\ status' = "bootstrap"
  /\ context' = Nothing
  /\ refresh' = 0
  /\ view' = "welcome"
  /\ revision' = 0
  /\ renders' = {}
  /\ content' = "nothing"
  /\ entry' = "loading"
  /\ dialog' = "none"
  /\ help' = 0
  /\ logout' = "none"
  /\ guarded' = FALSE
  /\ locked' = FALSE
  /\ unlock' = "none"
  /\ worked' = FALSE

Init ==
  /\ page = 1
  /\ status = "bootstrap"
  /\ context = Nothing
  /\ refresh = 0
  /\ view = "welcome"
  /\ revision = 0
  /\ renders = {}
  /\ content = "nothing"
  /\ entry = "loading"
  /\ dialog = "none"
  /\ help = 0
  /\ logout = "none"
  /\ guarded = FALSE
  /\ locked = FALSE
  /\ unlock = "none"
  /\ worked = FALSE
  /\ session \in {"none", "open"}
  /\ version = 0

\* Another document replaces this one
Replace == page' = page + 1 /\ Blank

-----------------------------------------------------------------------------
(* Rendering *)

\* Under the lock every change of the page is observed, and undone before the next event
Kept(c) == IF locked THEN "nothing" ELSE c

\* The revision and the views of render(), with a view and a status
Rendering(v, s) ==
  /\ revision' = revision + 1
  /\ IF s # "authenticated"
     THEN /\ entry' = IF s = "unavailable" THEN "unavailable" ELSE "signIn"
          /\ content' = "nothing"
          /\ UNCHANGED <<refresh, renders, worked>>
     ELSE /\ entry' = "none"
          /\ IF v = "welcome"
             THEN /\ content' = "nothing"
                  /\ refresh' = refresh + 1
                  /\ renders' = renders \cup
                       {[revision |-> revision + 1, refresh |-> refresh + 1, read |-> Nothing,
                         outcome |-> [p \in Projections |-> "awaited"]]}
                  /\ UNCHANGED worked
             ELSE /\ content' = "work"
                  /\ worked' = TRUE
                  /\ UNCHANGED <<refresh, renders>>

Starting == status \in {"bootstrap", "projections", "discovery"}

Rendered == ~Starting /\ ~locked /\ revision < MaxRevision

\* setView(), from the navigation, the address or a view; or render(), of the open one,
\* when the presentation of the tenant changes
Show(v) ==
  /\ Rendered
  /\ view' = IF Trusted THEN v ELSE "welcome"
  /\ Rendering(view', status)
  /\ UNCHANGED <<page, status, context, dialog, help, logout, lockVars, backendVars>>

\* The language is chosen in the profile, which closes
ChangeLanguage ==
  /\ Rendered /\ dialog = "profile"
  /\ Rendering(view, status)
  /\ dialog' = "none"
  /\ UNCHANGED <<page, status, context, view, help, logout, lockVars, backendVars>>

-----------------------------------------------------------------------------
(* The start of a document *)

Bootstrap ==
  /\ status = "bootstrap"
  /\ IF session = "open"
     THEN status' = "projections" /\ UNCHANGED <<revision, entry, content, refresh, renders, worked>>
     ELSE status' = "unauthenticated" /\ Rendering(view, "unauthenticated")
  /\ UNCHANGED <<page, context, view, dialog, help, logout, lockVars, backendVars>>

\* The projections are read once.  An optional one may be missing; when they are
\* refused there is no authority
LoadProjections(missing) ==
  /\ status = "projections"
  /\ IF session = "open"
     THEN /\ status' = "discovery"
          /\ context' = [p \in Projections |-> IF p \in missing THEN NoAnswer ELSE version]
          /\ UNCHANGED <<revision, entry, content, refresh, renders, worked>>
     ELSE /\ status' = "unauthenticated"
          /\ Rendering(view, "unauthenticated")
          /\ UNCHANGED context
  /\ UNCHANGED <<page, view, dialog, help, logout, lockVars, backendVars>>

\* The presentation of the tenant and what is offered of onboarding and catering have been
\* asked for in turn; what failed or took longer than its time limit is not offered.  There
\* is a shell, of the view that the address or the roles ask for, and the lock is installed
Discover(v) ==
  /\ status = "discovery"
  /\ status' = "authenticated"
  /\ view' = v
  /\ Rendering(v, "authenticated")
  /\ guarded' = TRUE
  /\ UNCHANGED <<page, context, dialog, help, logout, locked, unlock, backendVars>>

\* The bootstrap or a required projection fails, or takes longer than its time limit
FailStart ==
  /\ status \in {"bootstrap", "projections"}
  /\ status' = "unavailable"
  /\ Rendering(view, "unavailable")
  /\ UNCHANGED <<page, context, view, dialog, help, logout, lockVars, backendVars>>

-----------------------------------------------------------------------------
(* Loss of authority *)

\* invalidateAuthorityProjection(), and invalidateAuthority() of the context
Invalidate ==
  /\ status' = "unauthenticated"
  /\ context' = Nothing
  /\ refresh' = refresh + 1
  /\ revision' = revision + 1
  /\ view' = "welcome"
  /\ content' = Kept("denied")
  /\ dialog' = "none"

\* One of the discoveries is refused: there is a shell, which says so, and renders nothing
DiscoverDenied ==
  /\ status = "discovery" /\ session # "open"
  /\ entry' = "none"
  /\ Invalidate
  /\ UNCHANGED <<page, renders, help, logout, worked, lockVars, backendVars>>

-----------------------------------------------------------------------------
(* The welcome page *)

Becomes(x, y) == renders' = (renders \ {x}) \cup {y}

\* The backend answers the call for a projection; nothing is shown yet
Serve(x, p) ==
  /\ x.outcome[p] = "awaited" /\ x.read[p] = NoAnswer /\ session = "open"
  /\ Becomes(x, [x EXCEPT !.read[p] = version])
  /\ UNCHANGED <<page, contextVars, view, revision, content, entry, dialog, help, logout,
                 worked, lockVars, backendVars>>

\* Mutant: an answer is taken whatever was asked for since
ReceiveLate(x, p) ==
  /\ x.outcome[p] = "awaited" /\ x.read[p] # NoAnswer
  /\ Becomes(x, [x EXCEPT !.outcome[p] = "done", !.read[p] = NoAnswer])
  /\ context' = IF Trusted THEN [context EXCEPT ![p] = x.read[p]] ELSE context
  /\ UNCHANGED <<page, status, refresh, view, revision, content, entry, dialog, help, logout,
                 worked, lockVars, backendVars>>

\* refreshRequests() and its like: the answer is the context's when it was not asked
\* again since; the caller is given what the context has
Receive(x, p) ==
  /\ x.outcome[p] = "awaited" /\ x.read[p] # NoAnswer
  /\ Becomes(x, [x EXCEPT !.outcome[p] = "done", !.read[p] = NoAnswer])
  /\ context' = IF Trusted /\ x.refresh = refresh
                THEN [context EXCEPT ![p] = x.read[p]] ELSE context
  /\ UNCHANGED <<page, status, refresh, view, revision, content, entry, dialog, help, logout,
                 worked, lockVars, backendVars>>

\* It fails, or takes longer than its time limit; or there is no authority for it
FailCall(x, p) ==
  /\ x.outcome[p] = "awaited"
  /\ \/ Becomes(x, [x EXCEPT !.outcome[p] = "failed", !.read[p] = NoAnswer])
     \/ /\ session # "open"
        /\ Becomes(x, [x EXCEPT !.outcome[p] = "denied", !.read[p] = NoAnswer])
  /\ UNCHANGED <<page, contextVars, view, revision, content, entry, dialog, help, logout,
                 worked, lockVars, backendVars>>

\* All have settled: Promise.allSettled() goes on
Settled(x) == \A p \in Projections : x.outcome[p] # "awaited"

Denied(x) == \E p \in Projections : x.outcome[p] = "denied"

FinishDenied(x) ==
  /\ Settled(x) /\ Denied(x)
  /\ renders' = renders \ {x}
  /\ Invalidate
  /\ UNCHANGED <<page, entry, help, logout, worked, lockVars, backendVars>>

\* Mutant: a rendering that was superseded fills the page of another
FinishAnyway(x) ==
  /\ Settled(x) /\ ~Denied(x)
  /\ renders' = renders \ {x}
  /\ content' = Kept(IF \E p \in Required : x.outcome[p] = "failed" THEN "unavailable" ELSE "welcome")
  /\ UNCHANGED <<page, contextVars, view, revision, entry, dialog, help, logout, worked,
                 lockVars, backendVars>>

\* Mutant: no rendering of the welcome page fills it
FinishNever(x) ==
  /\ Settled(x) /\ ~Denied(x)
  /\ renders' = renders \ {x}
  /\ UNCHANGED <<page, contextVars, view, revision, content, entry, dialog, help, logout, worked,
                 lockVars, backendVars>>

\* The page is filled, unless another rendering, a lock or an authority failure came
\* between
Finish(x) ==
  /\ Settled(x) /\ ~Denied(x)
  /\ renders' = renders \ {x}
  /\ content' = IF x.revision # revision \/ view # "welcome" THEN content
                ELSE Kept(IF \E p \in Required : x.outcome[p] = "failed"
                          THEN "unavailable" ELSE "welcome")
  /\ UNCHANGED <<page, contextVars, view, revision, entry, dialog, help, logout, worked,
                 lockVars, backendVars>>

\* A call of another view, also of one that was left, is refused: onAuthorityFailure()
WorkDenied ==
  /\ worked /\ session # "open"
  /\ worked' = FALSE
  /\ Invalidate
  /\ UNCHANGED <<page, renders, entry, help, logout, lockVars, backendVars>>

-----------------------------------------------------------------------------
(* Dialogs *)

OpenProfile ==
  /\ Trusted /\ ~locked /\ dialog = "none" /\ content # "nothing"
  /\ dialog' = "profile"
  /\ UNCHANGED <<page, contextVars, view, revision, renders, content, entry, help, logout,
                 worked, lockVars, backendVars>>

CloseDialog ==
  /\ dialog # "none"
  /\ dialog' = "none"
  /\ UNCHANGED <<page, contextVars, view, revision, renders, content, entry, help, logout,
                 worked, lockVars, backendVars>>

\* Help closes the profile and opens with the next frame
AskHelp ==
  /\ dialog = "profile"
  /\ dialog' = "none"
  /\ help' = revision
  /\ UNCHANGED <<page, contextVars, view, revision, renders, content, entry, logout, worked,
                 lockVars, backendVars>>

OpenHelp ==
  /\ help # 0
  /\ help' = 0
  /\ dialog' = IF help = revision /\ Trusted /\ ~locked THEN "help" ELSE dialog
  /\ UNCHANGED <<page, contextVars, view, revision, renders, content, entry, logout, worked,
                 lockVars, backendVars>>

\* signOut()
SignOut ==
  /\ dialog = "profile" /\ logout = "none"
  /\ logout' = "posted"
  /\ UNCHANGED <<page, contextVars, view, revision, renders, content, entry, dialog, help,
                 worked, lockVars, backendVars>>

\* The backend ends the session; that there was none is as good
ServeSignOut ==
  /\ logout = "posted"
  /\ logout' = "done"
  /\ session' = "none"
  /\ UNCHANGED <<page, contextVars, view, revision, renders, content, entry, dialog, help,
                 worked, lockVars, version>>

\* The answer replaces the document; without one the button is enabled again
SignedOut ==
  /\ logout = "done" /\ page < MaxPages
  /\ Replace
  /\ UNCHANGED backendVars

FailSignOut ==
  /\ logout # "none"
  /\ logout' = "none"
  /\ UNCHANGED <<page, contextVars, view, revision, renders, content, entry, dialog, help,
                 worked, lockVars, backendVars>>

\* There is a session, but not the authority to end it
RefuseSignOut ==
  /\ logout = "posted"
  /\ logout' = "none"
  /\ Invalidate
  /\ UNCHANGED <<page, renders, entry, help, worked, lockVars, backendVars>>

-----------------------------------------------------------------------------
(* The inactivity lock *)

\* renderLocked(): the user was long inactive, here or in another tab.  The lock outlives
\* the authority it was installed with
Lock ==
  /\ guarded /\ ~locked
  /\ locked' = TRUE
  /\ revision' = revision + 1
  /\ content' = "nothing"
  /\ dialog' = "none"
  /\ UNCHANGED <<page, contextVars, view, renders, entry, help, logout, worked, guarded,
                 unlock, backendVars>>

Unlock ==
  /\ locked /\ unlock = "none"
  /\ unlock' = "posted"
  /\ UNCHANGED <<page, contextVars, pageVars, guarded, locked, backendVars>>

\* The session is there or is not: another document finds out what is to be shown
Unlocked ==
  /\ unlock = "posted" /\ page < MaxPages
  /\ Replace
  /\ UNCHANGED backendVars

\* Nothing is known of the session: locked as before
FailUnlock ==
  /\ unlock = "posted"
  /\ unlock' = "none"
  /\ UNCHANGED <<page, contextVars, pageVars, guarded, locked, backendVars>>

\* The user reloads the document
Reload ==
  /\ page < MaxPages
  /\ Replace
  /\ UNCHANGED backendVars

-----------------------------------------------------------------------------
(* The backend *)

\* What the projections are of changes
Change ==
  /\ version < MaxVersion
  /\ version' = version + 1
  /\ UNCHANGED <<page, contextVars, pageVars, lockVars, session>>

-----------------------------------------------------------------------------

Start ==
  \/ Bootstrap \/ FailStart \/ DiscoverDenied
  \/ \E missing \in SUBSET Optional : LoadProjections(missing)
  \/ \E v \in Views : Discover(v)

Answer ==
  \E x \in renders :
    \/ \E p \in Projections : Serve(x, p) \/ Receive(x, p) \/ FailCall(x, p)
    \/ FinishDenied(x) \/ Finish(x)

Dialogs ==
  \/ ChangeLanguage \/ OpenProfile \/ CloseDialog \/ AskHelp \/ OpenHelp
  \/ SignOut \/ ServeSignOut \/ FailSignOut \/ RefuseSignOut

Locking == Lock \/ Unlock \/ FailUnlock

Documents == SignedOut \/ Unlocked \/ Reload

Next ==
  \/ Start \/ Answer \/ Dialogs \/ Locking \/ Documents \/ WorkDenied \/ Change
  \/ \E v \in Views : Show(v)

-----------------------------------------------------------------------------
(* Properties *)

\* Every variable keeps its type, and the root of the application is that of the view
\* that is open.
TypeOK ==
  /\ page \in Nat \ {0}
  /\ status \in {"bootstrap", "projections", "discovery", "authenticated", "unauthenticated",
                 "unavailable"}
  /\ context \in [Projections -> Versions]
  /\ refresh \in Nat
  /\ view \in Views
  /\ revision \in Nat
  /\ renders \subseteq Render
  /\ content \in {"nothing", "welcome", "unavailable", "work", "denied"}
  /\ content \in {"welcome", "unavailable", "denied"} => view = "welcome"
  /\ content = "work" => view = "work"
  /\ entry \in {"none", "loading", "signIn", "unavailable"}
  /\ dialog \in {"none", "profile", "help"}
  /\ help \in Nat
  /\ logout \in {"none", "posted", "done"}
  /\ guarded \in BOOLEAN
  /\ locked \in BOOLEAN
  /\ unlock \in {"none", "posted"}
  /\ worked \in BOOLEAN
  /\ session \in {"none", "open"}
  /\ version \in Nat

\* Nothing of a session is on the page when it is locked or its authority is gone,
\* whatever renderings, frames and answers were on their way by then.
NothingWithoutAuthority ==
  /\ locked => content = "nothing" /\ dialog = "none"
  /\ ~Trusted => content \notin {"welcome", "work"} /\ dialog = "none" /\ context = Nothing

\* In a document the context never goes back to an older version, in whatever order the
\* answers to its refreshes arrive, except to none at all.
ContextNeverBack ==
  [][ page' = page => \A p \in Projections :
        NoAnswer \in {context[p], context'[p]} \/ context[p] <= context'[p] ]_vars
=============================================================================
