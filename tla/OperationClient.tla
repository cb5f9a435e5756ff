---------------------------- MODULE OperationClient ----------------------------
(***************************************************************************)
(* The client of the platform console for operations that may need a proof    *)
(* that the operator is present: platform-admin/production/operation-client.js *)
(* with the confirmation of passkey-operations-client.js or                    *)
(* microsoft-operations-client.js, and the session boundary around its fetch   *)
(* (operator-session.js).                                                      *)
(*                                                                             *)
(* A call waits for its turn, is sent, and may be challenged with 428; the      *)
(* operator confirms and the same request is sent a second time with the proof. *)
(* Whatever fails, the caller is told whether the operation may have run.       *)
(*                                                                              *)
(* Calls are numbered in the order in which they are made, which is the order   *)
(* of the promise chain tail; the queue is the set of calls not yet settled.    *)
(***************************************************************************)
EXTENDS Integers, FiniteSets

CONSTANTS
  MaxCalls,   \* bound: calls of proof-capable operations
  QueueLimit  \* calls that may wait at a time, 5 in the code

ASSUME MaxCallsAssumption == MaxCalls \in Nat
ASSUME QueueLimitAssumption == QueueLimit \in Nat

VARIABLES
  call,    \* the calls
  cookie,  \* the call whose challenge the browser's binding cookie belongs to, or 0
  late,    \* calls given up whose request may still reach the backend
  ended    \* the session boundary expired, and with it the client was stopped

clientVars == <<call, cookie, late, ended>>

-----------------------------------------------------------------------------

Calls   == 1..MaxCalls
Waiting == {"queued", "first", "confirm", "second", "refresh"}
OnWire  == {"first", "second"}
Answers == {"none", "ok", "refused", "denied", "broken", "proof"}
Results == {"none", "ok", "refused", "denied", "unknown", "cancelled", "notExecuted",
            "busy", "sessionRefresh"}

Call == [phase : {"idle", "done"} \cup Waiting,
         write : BOOLEAN,
         answer : Answers,     \* the backend's, still on its way
         aborted : BOOLEAN,    \* its own time limit passed while it was under way
         result : Results,     \* what its caller is told
         executed : Nat]       \* times the backend ran it

Idle == [phase |-> "idle", write |-> FALSE, answer |-> "none", aborted |-> FALSE,
         result |-> "none", executed |-> 0]

ClientInit ==
  /\ call = [c \in Calls |-> Idle]
  /\ cookie = 0
  /\ late = {}
  /\ ended = FALSE

Queue == {c \in Calls : call[c].phase \in Waiting}

\* The next call to be made
Fresh(c) == call[c].phase = "idle" /\ \A b \in 1..(c - 1) : call[b].phase # "idle"

Stopped(c) == ended \/ call[c].aborted

-----------------------------------------------------------------------------
(* The client *)

\* request(): runExclusive() refuses a call too many
Request(c, write) ==
  /\ Fresh(c)
  /\ call' = IF Cardinality(Queue) < QueueLimit
             THEN [call EXCEPT ![c].phase = "queued", ![c].write = write]
             ELSE [call EXCEPT ![c].phase = "done", ![c].write = write,
                               ![c].result = "busy"]
  /\ UNCHANGED <<cookie, late, ended>>

Settle(c, result) ==
  call' = [call EXCEPT ![c].phase = "done", ![c].answer = "none", ![c].aborted = FALSE,
                       ![c].result = result]

\* Mutant: the first request counts only
MayHaveMutatedOnce(c) == call[c].write /\ call[c].phase = "first"

\* mayHaveMutated: set before each of the two requests of a write, reset by the
\* challenge
MayHaveMutated(c) == call[c].write /\ call[c].phase \in OnWire

\* The catch block of send()
Failure(c, cancelled) ==
  IF MayHaveMutated(c) THEN "unknown"
  ELSE IF cancelled \/ Stopped(c) THEN "cancelled" ELSE "notExecuted"

\* Mutant: every call begins at once
BeginUnqueued(c) ==
  /\ call[c].phase = "queued"
  /\ IF Stopped(c) THEN Settle(c, "cancelled")
     ELSE call' = [call EXCEPT ![c].phase = "first"]
  /\ UNCHANGED <<cookie, late, ended>>

\* Mutant: a client that was stopped leaves its queue alone
BeginUnlessEnded(c) ==
  /\ call[c].phase = "queued" /\ \A b \in Queue : c <= b
  /\ ~ended
  /\ IF Stopped(c) THEN Settle(c, "cancelled")
     ELSE call' = [call EXCEPT ![c].phase = "first"]
  /\ UNCHANGED <<cookie, late, ended>>

\* A call's turn comes when all earlier ones have settled
Begin(c) ==
  /\ call[c].phase = "queued" /\ \A b \in Queue : c <= b
  /\ IF Stopped(c) THEN Settle(c, "cancelled")
     ELSE call' = [call EXCEPT ![c].phase = "first"]
  /\ UNCHANGED <<cookie, late, ended>>

\* A response arrives.  One that was not challenged is the caller's, which may
\* find it unreadable; 428 to the first request asks for the proof, 428 to the
\* second says that the operation did not run
Receive(c) ==
  /\ call[c].phase \in OnWire /\ call[c].answer # "none" /\ ~Stopped(c)
  /\ \/ /\ call[c].answer = "proof" /\ call[c].phase = "first"
        /\ call' = [call EXCEPT ![c].phase = "confirm", ![c].answer = "none"]
        /\ cookie' = c
     \/ /\ call[c].answer = "proof" /\ call[c].phase = "second"
        /\ Settle(c, "notExecuted")
        /\ UNCHANGED cookie
     \/ /\ call[c].answer = "ok" /\ call[c].phase = "second"
        /\ call' = [call EXCEPT ![c].phase = "refresh", ![c].answer = "none"]
        /\ UNCHANGED cookie
     \/ /\ call[c].answer = "ok" /\ call[c].phase = "first"
        /\ \E r \in {"ok", "unknown"} : Settle(c, r)
        /\ UNCHANGED cookie
     \/ /\ call[c].answer \in {"refused", "denied"}
        /\ Settle(c, call[c].answer)
        /\ UNCHANGED cookie
     \/ /\ call[c].answer = "broken"
        /\ Settle(c, "unknown")
        /\ UNCHANGED cookie
  /\ UNCHANGED <<late, ended>>

\* Mutant: a first request that fails is sent again
FetchRejectsRetried(c) ==
  /\ call[c].phase \in OnWire
  /\ IF call[c].phase = "first" /\ ~Stopped(c)
     THEN call' = [call EXCEPT ![c].phase = "second", ![c].answer = "none"]
     ELSE Settle(c, Failure(c, FALSE))
  /\ \/ UNCHANGED late
     \/ call[c].answer = "none" /\ call[c].write /\ late' = late \cup {c}
  /\ UNCHANGED <<cookie, ended>>

\* fetch rejects: the network failed, the call was aborted, or the boundary turns
\* the response away.  A request without an answer may still arrive
FetchRejects(c) ==
  /\ call[c].phase \in OnWire
  /\ Settle(c, Failure(c, FALSE))
  /\ \/ UNCHANGED late
     \/ call[c].answer = "none" /\ call[c].write /\ late' = late \cup {c}
  /\ UNCHANGED <<cookie, ended>>

\* The operator confirms, and the request is sent with the proof
Confirm(c) ==
  /\ call[c].phase = "confirm" /\ ~Stopped(c)
  /\ call' = [call EXCEPT ![c].phase = "second"]
  /\ UNCHANGED <<cookie, late, ended>>

\* The challenge is malformed, or its confirmation is cancelled, refused or too late
ConfirmFails(c) ==
  /\ call[c].phase = "confirm"
  /\ \E cancelled \in BOOLEAN : Settle(c, Failure(c, cancelled))
  /\ UNCHANGED <<cookie, late, ended>>

\* refreshSession() after the confirmed operation; its body cannot be read any more
\* once the call was aborted
Refreshed(c) ==
  /\ call[c].phase = "refresh" /\ ~ended
  /\ \E r \in {"ok", "unknown"} : (call[c].aborted => r = "unknown") /\ Settle(c, r)
  /\ UNCHANGED <<cookie, late, ended>>

\* It fails: onSessionRefreshRequired() is the boundary's expire()
RefreshFails(c) ==
  /\ call[c].phase = "refresh"
  /\ Settle(c, "sessionRefresh")
  /\ ended' = TRUE
  /\ UNCHANGED <<cookie, late>>

\* The time limit of the adapter that made the call
Abort(c) ==
  /\ call[c].phase \in Waiting /\ ~call[c].aborted
  /\ call' = [call EXCEPT ![c].aborted = TRUE]
  /\ UNCHANGED <<cookie, late, ended>>

\* Some request of the page is answered 401: the boundary stops the client
Expire ==
  /\ ~ended
  /\ ended' = TRUE
  /\ UNCHANGED <<call, cookie, late>>

-----------------------------------------------------------------------------
(* The backend *)

Executed(c) == [call EXCEPT ![c].executed = @ + (IF call[c].write THEN 1 ELSE 0)]

\* It runs the operation, turns it down, asks for a proof, or fails before or
\* after having run it
Serve(c) ==
  /\ call[c].phase \in OnWire /\ call[c].answer = "none"
  /\ \/ \E a \in {"ok", "broken"} : call' = [Executed(c) EXCEPT ![c].answer = a]
     \/ \E a \in {"refused", "denied", "broken", "proof"} :
          call' = [call EXCEPT ![c].answer = a]
  /\ UNCHANGED <<cookie, late, ended>>

\* The request of a call given up arrives after all
ServeLate(c) ==
  /\ c \in late
  /\ late' = late \ {c}
  /\ call' \in {call, Executed(c)}
  /\ UNCHANGED <<cookie, ended>>

-----------------------------------------------------------------------------

\* Every promise a call waits for settles: fetches, confirmations (which have a
\* deadline of their own) and the turn in the queue
Progress(c) ==
  \/ Begin(c) \/ Receive(c) \/ FetchRejects(c) \/ Confirm(c) \/ ConfirmFails(c)
  \/ Refreshed(c) \/ RefreshFails(c)

ClientStep ==
  \/ \E c \in Calls : Progress(c) \/ Abort(c) \/ Serve(c) \/ ServeLate(c)
  \/ Expire

-----------------------------------------------------------------------------
(* Properties *)

ClientTypeOK ==
  /\ call \in [Calls -> Call]
  /\ cookie \in Calls \cup {0}
  /\ late \subseteq Calls
  /\ ended \in BOOLEAN

\* What a caller is told is true for good: an operation reported as refused,
\* cancelled or not executed did not run and will not, one reported as done did
\* ("A transport failure or abort after dispatching either write remains an unknown
\* outcome").
OutcomeIsTrue ==
  \A c \in Calls :
    /\ call[c].result \in {"refused", "denied", "cancelled", "notExecuted", "busy"} =>
         call[c].executed = 0
    /\ call[c].result \in {"ok", "sessionRefresh"} /\ call[c].write =>
         call[c].executed > 0

\* One call never runs its operation twice, though it may send it twice.
RunsOnce == \A c \in Calls : call[c].executed <= 1

\* The binding cookie a proof is sent with is the one of its own challenge
\* ("concurrent operations cannot replace each other's binding").
ChallengeKept ==
  \A c \in Calls : call[c].phase \in {"confirm", "second"} => cookie = c
=============================================================================
