---------------------------- MODULE CustomerSession ----------------------------
(***************************************************************************)
(* The customer's browser tab: documents of the application (ApplicationShell)  *)
(* one after the other, each with the view for signing in (CustomerSignIn) when  *)
(* it finds no session, and the backend both ask for it.                         *)
(*                                                                               *)
(* bootstrapInvitedCustomerAuthentication() of                                    *)
(* platform/customer-authentication/bootstrap.js, which gives the application      *)
(* createSignInView().                                                            *)
(***************************************************************************)
EXTENDS ApplicationShell

CONSTANTS Transactions, NoTransaction

ASSUME NoTransactionAssumption == NoTransaction \notin Transactions

VARIABLES phase, offered, microsoft, call, jar, stage, stray, sent  \* of CustomerSignIn

SignIn == INSTANCE CustomerSignIn

shellVars  == <<page, contextVars, pageVars, lockVars, version>>
signInVars == <<phase, offered, microsoft, call, jar, stage, stray, sent>>
tabVars    == <<shellVars, signInVars, session>>

-----------------------------------------------------------------------------

TabInit == Init /\ SignIn!Init

\* createSignInView() makes one view for all renderings of a document, which is gone
\* with it
SignInView ==
  IF page' # page THEN (IF phase = "absent" THEN UNCHANGED signInVars ELSE SignIn!Close)
  ELSE IF entry' = "signIn" /\ phase = "absent"
  THEN \E callback \in BOOLEAN : SignIn!Open(callback)
  ELSE UNCHANGED signInVars

Shell == Next /\ SignInView

\* The view is used where it is shown, and goes on beneath the lock
SignInStep ==
  /\ \/ entry = "signIn" /\ ~locked /\ SignIn!Operation
     \/ SignIn!Serve \/ SignIn!Receive \/ SignIn!EndSession
     \/ \E c \in stray : SignIn!ServeStray(c)
     \/ \E t \in Transactions :
          \/ phase # "absent" /\ SignIn!Expire(t)
          \/ page > 1 /\ status = "bootstrap" /\ SignIn!Microsoft(t)
  /\ UNCHANGED shellVars

TabNext == Shell \/ SignInStep

TabSpec == TabInit /\ [][TabNext]_tabVars

\* Every call is answered or given up after its time limit, by the shell and by the view
FairTabSpec ==
  /\ TabSpec
  /\ WF_tabVars(Start /\ SignInView)
  /\ WF_tabVars(Answer /\ SignInView)
  /\ WF_tabVars(SignIn!Receive /\ UNCHANGED shellVars)

-----------------------------------------------------------------------------
(* Properties *)

\* The shell and the view for signing in keep their types.
TabTypeOK == TypeOK /\ SignIn!TypeOK

\* Of SignIn: a view sends no selection twice in a transaction.
SelectionSentOnce == SignIn!SelectionSentOnce

\* Of SignIn: the view comes back from "loading", unless its document is replaced.
LeavesLoading == SignIn!LeavesLoading

Waiting == entry = "loading" \/ (Trusted /\ ~locked /\ content = "nothing")

\* A document does not stay empty: it starts, with or without what it asks for between the
\* projections and its first view, and its welcome page is filled or says that it cannot
\* be, whatever became of the calls it waits for.
WaitingEnds == Waiting ~> ~Waiting
=============================================================================
