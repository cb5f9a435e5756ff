----------------------- MODULE PlatformInvitations_proofs -----------------------
(***************************************************************************)
(* The safety properties of the operation client and of the invitation panel   *)
(* that uses it, for every number of calls and commands and every limit of     *)
(* the queue.                                                                  *)
(***************************************************************************)
EXTENDS PlatformInvitations, TLAPS

USE MaxCallsAssumption, QueueLimitAssumption, MaxCommandsAssumption

-----------------------------------------------------------------------------
(* The inductive invariant of the client *)

Active == {"first", "confirm", "second", "refresh"}

\* What a call's phase, answer and result say about the executions of it
CallOK(c) ==
  /\ call[c].phase = "idle" => call[c] = Idle
  /\ call[c].answer # "none" => call[c].phase \in OnWire
  /\ call[c].result # "none" <=> call[c].phase = "done"
  /\ call[c].executed <= 1
  /\ ~call[c].write => call[c].executed = 0
  /\ call[c].phase \in {"queued", "confirm"} => call[c].executed = 0
  /\ call[c].phase \in OnWire /\ call[c].answer \in {"none", "refused", "denied", "proof"}
       => call[c].executed = 0
  /\ call[c].write /\ (call[c].answer = "ok" \/ call[c].phase = "refresh")
       => call[c].executed = 1
  /\ call[c].result \in {"refused", "denied", "cancelled", "notExecuted", "busy"}
       => call[c].executed = 0
  /\ call[c].result \in {"ok", "sessionRefresh"} /\ call[c].write => call[c].executed = 1
  /\ c \in late => call[c].write /\ call[c].result = "unknown" /\ call[c].executed = 0

\* Calls are made in the order of their numbers, and the one under way is the first of
\* the queue.
InTurn ==
  /\ \A b, c \in Calls : b < c /\ call[c].phase # "idle" => call[b].phase # "idle"
  /\ \A b, c \in Calls : call[c].phase \in Active /\ call[b].phase \in Waiting => c <= b

CInv ==
  /\ ClientTypeOK
  /\ \A c \in Calls : CallOK(c)
  /\ InTurn
  /\ ChallengeKept

\* The invariant has what the properties say of the client.
LEMMA CInvImplies == CInv => OutcomeIsTrue /\ RunsOnce /\ ChallengeKept
  BY DEF CInv, CallOK, OutcomeIsTrue, RunsOnce, ClientTypeOK, Call

-----------------------------------------------------------------------------
(* Steps of one call *)

\* A step of one call keeps the invariant of all of them, if the call stays in order,
\* is begun in its turn and takes the cookie only while it is under way.
LEMMA Local ==
  ASSUME CInv, NEW c \in Calls, NEW x \in Call,
         call' = [call EXCEPT ![c] = x],
         cookie' \in {cookie, c}, late' \ {c} = late \ {c}, late' \subseteq Calls,
         ended' \in BOOLEAN,
         CallOK(c)',
         x.phase = "idle" => call[c].phase = "idle",
         call[c].phase = "idle" => x.phase = "idle" \/ Fresh(c),
         x.phase \in Waiting => call[c].phase \in Waiting \/ (Fresh(c) /\ x.phase = "queued"),
         x.phase \in Active => call[c].phase \in Active \/ \A b \in Queue : c <= b,
         x.phase \in {"confirm", "second"} => cookie' = c,
         cookie' # cookie => call[c].phase \in Active
  PROVE  CInv'
<1> USE DEF CInv
<1>1. /\ call' \in [Calls -> Call]
      /\ call'[c] = x
      /\ \A b \in Calls \ {c} : call'[b] = call[b]
  BY DEF ClientTypeOK
<1>2. ClientTypeOK'
  BY <1>1 DEF ClientTypeOK
<1>3. \A b \in Calls : CallOK(b)'
  <2> TAKE b \in Calls
  <2>1. CASE b = c
    BY <2>1
  <2>2. CASE b # c
    <3>1. CallOK(b)
      OBVIOUS
    <3>2. b \in late' <=> b \in late
      BY <2>2
    <3>3. call'[b] = call[b]
      BY <1>1, <2>2
    <3> QED
      BY <3>1, <3>2, <3>3 DEF CallOK
  <2> QED
    BY <2>1, <2>2
<1>4. InTurn'
  <2>1. ASSUME NEW a \in Calls, NEW b \in Calls, a < b, call'[b].phase # "idle"
        PROVE  call'[a].phase # "idle"
    <3>1. CASE b = c /\ call[c].phase = "idle"
      BY <1>1, <2>1, <3>1 DEF Fresh, Calls
    <3>2. CASE ~(b = c /\ call[c].phase = "idle")
      <4>1. call[b].phase # "idle"
        BY <1>1, <2>1, <3>2
      <4>2. call[a].phase # "idle"
        BY <4>1, <2>1 DEF InTurn
      <4> QED
        BY <4>2, <1>1
    <3> QED
      BY <3>1, <3>2
  <2>2. ASSUME NEW a \in Calls, NEW b \in Calls,
               call'[b].phase \in Active, call'[a].phase \in Waiting
        PROVE  b <= a
    <3>1. CASE a = c /\ Fresh(c) /\ b # c
      <4>1. call[b].phase # "idle" /\ call[a].phase = "idle"
        BY <1>1, <2>2, <3>1 DEF Active, Fresh
      <4>2. ~(a < b)
        BY <4>1 DEF InTurn
      <4> QED
        BY <4>2 DEF Calls
    <3>2. CASE a = c /\ ~Fresh(c) /\ b # c
      <4>1. call[b].phase \in Active /\ call[a].phase \in Waiting
        BY <1>1, <2>2, <3>2
      <4> QED
        BY <4>1 DEF InTurn
    <3>3. CASE a # c /\ b = c
      <4>1. call[a].phase \in Waiting
        BY <1>1, <2>2, <3>3
      <4>2. CASE call[c].phase \in Active
        BY <3>3, <4>1, <4>2 DEF InTurn
      <4>3. CASE \A d \in Queue : c <= d
        BY <3>3, <4>1, <4>3 DEF Queue
      <4> QED
        BY <1>1, <2>2, <3>3, <4>2, <4>3
    <3>4. CASE a # c /\ b # c
      BY <1>1, <2>2, <3>4 DEF InTurn
    <3>5. CASE a = c /\ b = c
      BY <3>5 DEF Calls
    <3> QED
      BY <3>1, <3>2, <3>3, <3>4, <3>5
  <2> QED
    BY <2>1, <2>2 DEF InTurn
<1>5. ChallengeKept'
  <2> SUFFICES ASSUME NEW b \in Calls, call'[b].phase \in {"confirm", "second"}
               PROVE  cookie' = b
    BY DEF ChallengeKept
  <2>1. CASE b = c
    BY <1>1, <2>1
  <2>2. CASE b # c
    <3>1. call[b].phase \in {"confirm", "second"}
      BY <1>1, <2>2
    <3>2. cookie = b
      BY <3>1 DEF ChallengeKept
    <3>3. ~(call[c].phase \in Active)
      BY <3>1, <2>2 DEF InTurn, Active, Waiting, Calls
    <3> QED
      BY <3>2, <3>3
  <2> QED
    BY <2>1, <2>2
<1> QED
  BY <1>2, <1>3, <1>4, <1>5

\* The client begins with the invariant.
LEMMA ClientInitOK == ClientInit => CInv
<1> SUFFICES ASSUME ClientInit PROVE CInv
  OBVIOUS
<1>1. Idle \in Call
  BY DEF Idle, Call, Waiting, Answers, Results
<1>2. ClientTypeOK
  BY <1>1 DEF ClientInit, ClientTypeOK
<1>3. \A c \in Calls : CallOK(c)
  BY DEF ClientInit, CallOK, Idle, OnWire
<1>4. InTurn /\ ChallengeKept
  BY DEF ClientInit, Idle, InTurn, ChallengeKept, Active
<1> QED
  BY <1>2, <1>3, <1>4 DEF CInv

\* A call that is made joins the queue or is refused.
LEMMA RequestOK ==
  ASSUME CInv, NEW c \in Calls, NEW write \in BOOLEAN, Request(c, write)
  PROVE  CInv'
<1> DEFINE x == IF Cardinality(Queue) < QueueLimit
                THEN [Idle EXCEPT !.phase = "queued", !.write = write]
                ELSE [Idle EXCEPT !.phase = "done", !.write = write, !.result = "busy"]
<1>1. call[c] = Idle /\ call[c] \in Call
  BY DEF Request, Fresh, CInv, CallOK, ClientTypeOK
<1>2. x \in Call
  BY DEF Idle, Call, Waiting, Answers, Results
<1>3. call' = [call EXCEPT ![c] = x]
  BY <1>1 DEF Request, CInv, ClientTypeOK
<1>4. call'[c] = x
  BY <1>3 DEF CInv, ClientTypeOK
<1>5. c \notin late
  BY <1>1 DEF CInv, CallOK, Idle
<1>8. /\ \/ x.phase = "queued" /\ x.result = "none"
         \/ x.phase = "done" /\ x.result = "busy"
      /\ x.answer = "none" /\ x.executed = 0
  BY DEF Idle
<1>7. Fresh(c) /\ UNCHANGED <<cookie, late, ended>>
  BY DEF Request
<1> HIDE DEF x
<1>6. CallOK(c)'
  BY <1>4, <1>5, <1>7, <1>8 DEF CallOK, OnWire
<1> QED
  BY <1>2, <1>3, <1>6, <1>7, <1>8, Local DEF CInv, ClientTypeOK, Active, Waiting

\* A call settles with a result that fits what was executed.
LEMMA SettleOK ==
  ASSUME CInv, NEW c \in Calls, NEW r \in Results \ {"none"},
         call[c].phase \in Waiting, Settle(c, r),
         UNCHANGED cookie, ended' \in BOOLEAN,
         \/ UNCHANGED late
         \/ /\ late' = late \cup {c}
            /\ call[c].write /\ call[c].executed = 0 /\ r = "unknown",
         r \in {"refused", "denied", "cancelled", "notExecuted", "busy"}
           => call[c].executed = 0,
         r \in {"ok", "sessionRefresh"} /\ call[c].write => call[c].executed = 1
  PROVE  CInv'
<1> DEFINE x == [call[c] EXCEPT !.phase = "done", !.answer = "none", !.aborted = FALSE,
                                !.result = r]
<1>1. call[c] \in Call
  BY DEF CInv, ClientTypeOK
<1>2. x \in Call
  BY <1>1 DEF Call, Answers, Results
<1>3. call' = [call EXCEPT ![c] = x]
  BY DEF Settle, CInv, ClientTypeOK
<1>4. call'[c] = x
  BY <1>3 DEF CInv, ClientTypeOK
<1>5. /\ x.phase = "done" /\ x.answer = "none" /\ x.result = r
      /\ x.write = call[c].write /\ x.executed = call[c].executed
  BY <1>1 DEF Call
<1>6. c \notin late
  <2>1. call[c].phase # "done"
    BY DEF Waiting
  <2> QED
    BY <2>1 DEF CInv, CallOK
<1>7. CallOK(c)'
  <2>1. call[c].executed <= 1 /\ (~call[c].write => call[c].executed = 0)
    BY DEF CInv, CallOK
  <2> HIDE DEF x
  <2> QED
    BY <1>4, <1>5, <1>6, <2>1 DEF CallOK, OnWire
<1>8. late' \ {c} = late \ {c} /\ late' \subseteq Calls
  BY DEF CInv, ClientTypeOK
<1>9. x.phase \notin Active \cup Waiting /\ call[c].phase # "idle"
  BY <1>5 DEF Active, Waiting
<1> HIDE DEF x
<1> QED
  BY <1>2, <1>3, <1>5, <1>7, <1>8, <1>9, Local

\* A call's turn comes.
LEMMA BeginOK == ASSUME CInv, NEW c \in Calls, Begin(c) PROVE CInv'
<1>1. CASE Stopped(c)
  <2>1. call[c].phase = "queued" /\ Settle(c, "cancelled") /\ UNCHANGED <<cookie, late, ended>>
    BY <1>1 DEF Begin
  <2>2. call[c].executed = 0
    BY <2>1 DEF CInv, CallOK
  <2> QED
    BY <2>1, <2>2, SettleOK DEF Waiting, Results, CInv, ClientTypeOK
<1>2. CASE ~Stopped(c)
  <2> DEFINE x == [call[c] EXCEPT !.phase = "first"]
  <2>1. call[c] \in Call /\ call[c].phase = "queued" /\ \A b \in Queue : c <= b
    BY DEF Begin, CInv, ClientTypeOK
  <2>2. call' = [call EXCEPT ![c] = x]
    BY <1>2 DEF Begin, CInv, ClientTypeOK
  <2>3. UNCHANGED <<cookie, late, ended>>
    BY <1>2 DEF Begin
  <2>4. /\ x \in Call /\ x.phase = "first" /\ x.answer = call[c].answer
        /\ x.result = call[c].result /\ x.write = call[c].write
        /\ x.executed = call[c].executed
    BY <2>1 DEF Call, Waiting
  <2>5. call'[c] = x
    BY <2>2 DEF CInv, ClientTypeOK
  <2> HIDE DEF x
  <2>6. CallOK(c)'
    <3>1. CallOK(c)
      BY DEF CInv
    <3>2. call[c].answer = "none" /\ call[c].executed = 0 /\ call[c].result = "none" /\ c \notin late
      BY <3>1, <2>1 DEF CallOK, OnWire
    <3> QED
      BY <2>3, <2>4, <2>5, <3>2 DEF CallOK, OnWire
  <2> QED
    BY <2>1, <2>2, <2>3, <2>4, <2>6, Local DEF CInv, ClientTypeOK, Waiting, Active
<1> QED
  BY <1>1, <1>2

\* A call that is under way goes on with the phase of x, its outcome still open.
LEMMA GoesOnOK ==
  ASSUME CInv, NEW c \in Calls, NEW p \in {"confirm", "second", "refresh"},
         call[c].phase \in Active,
         call' = [call EXCEPT ![c].phase = p, ![c].answer = "none"],
         cookie' \in {cookie, c}, UNCHANGED <<late, ended>>,
         p \in {"confirm", "second"} => call[c].executed = 0 /\ cookie' = c,
         p = "refresh" /\ call[c].write => call[c].executed = 1
  PROVE  CInv'
<1> DEFINE x == [call[c] EXCEPT !.phase = p, !.answer = "none"]
<1>1. call[c] \in Call
  BY DEF CInv, ClientTypeOK
<1>2. call' = [call EXCEPT ![c] = x]
  BY DEF CInv, ClientTypeOK
<1>3. /\ x \in Call /\ x.phase = p /\ x.answer = "none"
      /\ x.result = call[c].result /\ x.write = call[c].write
      /\ x.executed = call[c].executed
  BY <1>1 DEF Call, Waiting, Answers
<1>4. call'[c] = x
  BY <1>2 DEF CInv, ClientTypeOK
<1> HIDE DEF x
<1>5. CallOK(c)'
  <2>1. CallOK(c)
    BY DEF CInv
  <2>2. call[c].result = "none" /\ c \notin late
    BY <2>1 DEF CallOK, Active
  <2>3. call[c].executed <= 1 /\ (~call[c].write => call[c].executed = 0)
    BY <2>1 DEF CallOK
  <2> QED
    BY <1>3, <1>4, <2>2, <2>3 DEF CallOK, OnWire
<1> QED
  BY <1>1, <1>2, <1>3, <1>5, Local DEF CInv, ClientTypeOK, Waiting, Active

\* A response is received.
LEMMA ReceiveOK == ASSUME CInv, NEW c \in Calls, Receive(c) PROVE CInv'
<1>1. /\ call[c].phase \in {"first", "second"} /\ UNCHANGED <<late, ended>>
      /\ call[c] \in Call /\ CallOK(c) /\ ended \in BOOLEAN
  BY DEF Receive, OnWire, CInv, ClientTypeOK
<1>2. call[c].phase \in Waiting /\ call[c].phase \in Active
  BY <1>1 DEF Waiting, Active
<1>3. CASE call[c].answer = "proof" /\ call[c].phase = "first"
  <2>1. /\ call' = [call EXCEPT ![c].phase = "confirm", ![c].answer = "none"]
        /\ cookie' = c
    BY <1>3 DEF Receive
  <2>2. call[c].executed = 0
    BY <1>1, <1>3 DEF CallOK, OnWire
  <2> QED
    BY <1>1, <1>2, <2>1, <2>2, GoesOnOK
<1>4. CASE call[c].answer = "ok" /\ call[c].phase = "second"
  <2>1. /\ call' = [call EXCEPT ![c].phase = "refresh", ![c].answer = "none"]
        /\ UNCHANGED cookie
    BY <1>4 DEF Receive
  <2>2. call[c].write => call[c].executed = 1
    BY <1>1, <1>4 DEF CallOK
  <2> QED
    BY <1>1, <1>2, <2>1, <2>2, GoesOnOK
<1>5. CASE call[c].answer = "proof" /\ call[c].phase = "second"
  <2>1. Settle(c, "notExecuted") /\ UNCHANGED cookie
    BY <1>5 DEF Receive
  <2>2. call[c].executed = 0
    BY <1>1, <1>5 DEF CallOK, OnWire
  <2> QED
    BY <1>1, <1>2, <2>1, <2>2, SettleOK DEF Results
<1>6. CASE call[c].answer = "ok" /\ call[c].phase = "first"
  <2>1. UNCHANGED cookie /\ \E r \in {"ok", "unknown"} : Settle(c, r)
    BY <1>6 DEF Receive
  <2>2. PICK r \in {"ok", "unknown"} : Settle(c, r)
    BY <2>1
  <2>3. call[c].write => call[c].executed = 1
    BY <1>1, <1>6 DEF CallOK
  <2> QED
    BY <1>1, <1>2, <2>1, <2>2, <2>3, SettleOK DEF Results
<1>7. CASE call[c].answer \in {"refused", "denied"}
  <2>1. Settle(c, call[c].answer) /\ UNCHANGED cookie
    BY <1>7 DEF Receive
  <2>2. call[c].executed = 0
    BY <1>1, <1>7 DEF CallOK, OnWire
  <2> QED
    BY <1>1, <1>2, <1>7, <2>1, <2>2, SettleOK DEF Results
<1>8. CASE call[c].answer = "broken"
  <2>1. Settle(c, "unknown") /\ UNCHANGED cookie
    BY <1>8 DEF Receive
  <2> QED
    BY <1>1, <1>2, <2>1, SettleOK DEF Results
<1> QED
  BY <1>1, <1>3, <1>4, <1>5, <1>6, <1>7, <1>8 DEF Receive, Call, Answers

\* What a call that throws is reported as fits what was executed.
LEMMA FailureOK ==
  ASSUME CInv, NEW c \in Calls, NEW cancelled \in BOOLEAN,
         call[c].phase \in {"first", "confirm", "second"}
  PROVE  /\ Failure(c, cancelled) \in {"unknown", "cancelled", "notExecuted"}
         /\ Failure(c, cancelled) # "unknown" => call[c].executed = 0
         /\ call[c].write /\ call[c].phase # "confirm" => Failure(c, cancelled) = "unknown"
  BY DEF CInv, CallOK, Failure, MayHaveMutated, OnWire

\* A fetch rejects.
LEMMA FetchRejectsOK == ASSUME CInv, NEW c \in Calls, FetchRejects(c) PROVE CInv'
<1>1. /\ call[c].phase \in {"first", "second"} /\ UNCHANGED <<cookie, ended>>
      /\ Settle(c, Failure(c, FALSE))
      /\ UNCHANGED late \/ (call[c].answer = "none" /\ call[c].write /\ late' = late \cup {c})
  BY DEF FetchRejects, OnWire
<1>2. /\ Failure(c, FALSE) \in {"unknown", "cancelled", "notExecuted"}
      /\ Failure(c, FALSE) # "unknown" => call[c].executed = 0
      /\ call[c].write => Failure(c, FALSE) = "unknown"
  BY <1>1, FailureOK
<1>3. call[c].answer = "none" => call[c].executed = 0
  BY <1>1 DEF CInv, CallOK, OnWire
<1>4. call[c].phase \in Waiting /\ ended \in BOOLEAN
  BY <1>1 DEF Waiting, CInv, ClientTypeOK
<1> QED
  BY <1>1, <1>2, <1>3, <1>4, SettleOK DEF Results

\* The confirmation succeeds or fails.
LEMMA ConfirmOK ==
  ASSUME CInv, NEW c \in Calls, Confirm(c) \/ ConfirmFails(c) PROVE CInv'
<1>1. /\ call[c].phase = "confirm" /\ UNCHANGED <<cookie, late, ended>>
      /\ ended \in BOOLEAN
  BY DEF Confirm, ConfirmFails, CInv, ClientTypeOK
<1>2. call[c].executed = 0 /\ call[c].answer = "none"
  BY <1>1 DEF CInv, CallOK, OnWire
<1>3. CASE Confirm(c)
  <2>1. cookie = c
    BY <1>1 DEF CInv, ChallengeKept
  <2>2. call' = [call EXCEPT ![c].phase = "second", ![c].answer = "none"]
    BY <1>2, <1>3 DEF Confirm, CInv, ClientTypeOK, Call
  <2> QED
    BY <1>1, <1>2, <2>1, <2>2, GoesOnOK DEF Active
<1>4. CASE ConfirmFails(c)
  <2>1. PICK cancelled \in BOOLEAN : Settle(c, Failure(c, cancelled))
    BY <1>4 DEF ConfirmFails
  <2>2. Failure(c, cancelled) \in {"unknown", "cancelled", "notExecuted"}
    BY <1>1, FailureOK
  <2> QED
    BY <1>1, <1>2, <2>1, <2>2, SettleOK DEF Waiting, Results
<1> QED
  BY <1>3, <1>4

\* The session is refreshed after a confirmed operation, or cannot be.
LEMMA RefreshOK ==
  ASSUME CInv, NEW c \in Calls, Refreshed(c) \/ RefreshFails(c) PROVE CInv'
<1>1. call[c].phase = "refresh" /\ UNCHANGED <<cookie, late>> /\ ended' \in BOOLEAN
  BY DEF Refreshed, RefreshFails, CInv, ClientTypeOK
<1>2. call[c].write => call[c].executed = 1
  BY <1>1 DEF CInv, CallOK
<1>3. \E r \in {"ok", "unknown", "sessionRefresh"} : Settle(c, r)
  BY DEF Refreshed, RefreshFails
<1> QED
  BY <1>1, <1>2, <1>3, SettleOK DEF Waiting, Results

\* The answer to a request is chosen and, if it was run, counted.
LEMMA AnswerOK ==
  ASSUME CInv, NEW c \in Calls, NEW a \in Answers, NEW n \in {0, 1},
         call[c].phase \in OnWire,
         call' = [call EXCEPT ![c].answer = a, ![c].executed = n],
         UNCHANGED <<cookie, late, ended>>,
         ~call[c].write => n = 0,
         a \in {"none", "refused", "denied", "proof"} => n = 0,
         a = "ok" /\ call[c].write => n = 1
  PROVE  CInv'
<1> DEFINE x == [call[c] EXCEPT !.answer = a, !.executed = n]
<1>1. call[c] \in Call
  BY DEF CInv, ClientTypeOK
<1>2. call' = [call EXCEPT ![c] = x]
  BY DEF CInv, ClientTypeOK
<1>3. /\ x \in Call /\ x.phase = call[c].phase /\ x.answer = a
      /\ x.result = call[c].result /\ x.write = call[c].write /\ x.executed = n
  <2>1. x \in Call
    <3>1. a \in Answers /\ n \in Nat
      OBVIOUS
    <3>2. [call[c] EXCEPT !.answer = a] \in Call
      BY <1>1, <3>1 DEF Call
    <3>3. x = [[call[c] EXCEPT !.answer = a] EXCEPT !.executed = n]
      BY <1>1 DEF Call
    <3> QED
      BY <3>1, <3>2, <3>3 DEF Call
  <2>2. x.phase = call[c].phase /\ x.answer = a
    BY <1>1 DEF Call
  <2>3. x.result = call[c].result /\ x.write = call[c].write /\ x.executed = n
    BY <1>1 DEF Call
  <2> QED
    BY <2>1, <2>2, <2>3
<1>4. call'[c] = x
  BY <1>2 DEF CInv, ClientTypeOK
<1> HIDE DEF x
<1>5. CallOK(c)'
  <2>1. CallOK(c)
    BY DEF CInv
  <2>2. call[c].result = "none" /\ c \notin late
    BY <2>1 DEF CallOK, OnWire
  <2> QED
    BY <1>3, <1>4, <2>2 DEF CallOK, OnWire
<1>6. call[c].phase = "second" => cookie = c
  BY DEF CInv, ChallengeKept
<1> QED
  BY <1>1, <1>2, <1>3, <1>5, <1>6, Local
  DEF CInv, ClientTypeOK, Waiting, Active, OnWire

\* The backend serves a request in time.
LEMMA ServeOK == ASSUME CInv, NEW c \in Calls, Serve(c) PROVE CInv'
<1>1. /\ call[c].phase \in OnWire /\ call[c].executed = 0 /\ call[c].write \in BOOLEAN
      /\ call[c] \in Call
      /\ UNCHANGED <<cookie, late, ended>>
  BY DEF Serve, CInv, CallOK, ClientTypeOK, Call
<1>2. CASE \E a \in {"ok", "broken"} : call' = [Executed(c) EXCEPT ![c].answer = a]
  <2>1. PICK a \in {"ok", "broken"} : call' = [Executed(c) EXCEPT ![c].answer = a]
    BY <1>2
  <2> DEFINE n == IF call[c].write THEN 1 ELSE 0
  <2>3. call[c].executed + n = n
    BY <1>1
  <2>4. Executed(c) = [call EXCEPT ![c].executed = n]
    BY <2>3 DEF Executed, CInv, ClientTypeOK
  <2>2. call' = [call EXCEPT ![c].answer = a, ![c].executed = n]
    BY <1>1, <2>1, <2>4 DEF CInv, ClientTypeOK
  <2> QED
    BY <1>1, <2>2, AnswerOK DEF Answers
<1>3. CASE \E a \in {"refused", "denied", "broken", "proof"} :
             call' = [call EXCEPT ![c].answer = a]
  <2>1. PICK a \in {"refused", "denied", "broken", "proof"} :
               call' = [call EXCEPT ![c].answer = a]
    BY <1>3
  <2>2. call' = [call EXCEPT ![c].answer = a, ![c].executed = 0]
    BY <1>1, <2>1 DEF CInv, ClientTypeOK, Call
  <2> QED
    BY <1>1, <2>2, AnswerOK DEF Answers
<1> QED
  BY <1>2, <1>3 DEF Serve

\* The backend serves a request whose call was given up.
LEMMA ServeLateOK == ASSUME CInv, NEW c \in Calls, ServeLate(c) PROVE CInv'
<1> PICK n \in {0, 1} : call' = [call EXCEPT ![c].executed = n]
  <2>1. c \in late /\ call[c].write /\ call[c].executed = 0
    BY DEF ServeLate, CInv, CallOK
  <2>2. call[c] \in Call
    BY DEF CInv, ClientTypeOK
  <2>3. CASE call' = call
    <3>1. call' = [call EXCEPT ![c].executed = 0]
      BY <2>1, <2>2, <2>3 DEF CInv, ClientTypeOK, Call
    <3> QED
      BY <3>1
  <2>4. CASE call' = Executed(c)
    <3>1. call' = [call EXCEPT ![c].executed = 1]
      BY <2>1, <2>2, <2>4 DEF Executed, CInv, ClientTypeOK, Call
    <3> QED
      BY <3>1
  <2> QED
    BY <2>3, <2>4 DEF ServeLate
<1> DEFINE x == [call[c] EXCEPT !.executed = n]
<1>1. /\ call[c] \in Call /\ c \in late /\ late' = late \ {c} /\ UNCHANGED <<cookie, ended>>
      /\ CallOK(c)
  BY DEF ServeLate, CInv, ClientTypeOK
<1>2. call' = [call EXCEPT ![c] = x]
  BY DEF CInv, ClientTypeOK
<1>3. /\ x \in Call /\ x.phase = call[c].phase /\ x.answer = call[c].answer
      /\ x.result = call[c].result /\ x.write = call[c].write /\ x.executed = n
  BY <1>1 DEF Call
<1>4. call'[c] = x
  BY <1>2 DEF CInv, ClientTypeOK
<1> HIDE DEF x
<1>5. call[c].write /\ call[c].result = "unknown" /\ call[c].phase = "done"
  BY <1>1 DEF CallOK
<1>6. call[c].answer = "none"
  BY <1>1, <1>5 DEF CallOK, OnWire
<1>7. CallOK(c)'
  BY <1>1, <1>3, <1>4, <1>5, <1>6 DEF CallOK, OnWire
<1> QED
  BY <1>1, <1>2, <1>3, <1>5, <1>7, Local DEF CInv, ClientTypeOK, Waiting, Active

\* A call is marked aborted.
LEMMA AbortOK == ASSUME CInv, NEW c \in Calls, Abort(c) PROVE CInv'
<1> DEFINE x == [call[c] EXCEPT !.aborted = TRUE]
<1>1. /\ call[c] \in Call /\ call[c].phase \in Waiting /\ UNCHANGED <<cookie, late, ended>>
      /\ CallOK(c)
  BY DEF Abort, CInv, ClientTypeOK
<1>2. call' = [call EXCEPT ![c] = x]
  BY DEF Abort, CInv, ClientTypeOK
<1>3. /\ x \in Call /\ x.phase = call[c].phase /\ x.answer = call[c].answer
      /\ x.result = call[c].result /\ x.write = call[c].write
      /\ x.executed = call[c].executed
  BY <1>1 DEF Call
<1>4. call'[c] = x
  BY <1>2 DEF CInv, ClientTypeOK
<1> HIDE DEF x
<1>5. call[c].phase \notin {"idle", "done"}
  BY <1>1 DEF Waiting
<1>6. CallOK(c)'
  BY <1>1, <1>3, <1>4, <1>5 DEF CallOK, OnWire
<1>7. call[c].phase \in {"confirm", "second"} => cookie = c
  BY DEF CInv, ChallengeKept
<1> QED
  BY <1>1, <1>2, <1>3, <1>5, <1>6, <1>7, Local DEF CInv, ClientTypeOK

\* Steps without a change of the calls.
LEMMA CallsKept ==
  ASSUME CInv, UNCHANGED <<call, cookie, late>>, ended' \in BOOLEAN PROVE CInv'
<1>1. \A c \in Calls : CallOK(c)'
  BY DEF CInv, CallOK
<1> QED
  BY <1>1 DEF CInv, ClientTypeOK, InTurn, ChallengeKept

\* Every step of the client or the backend.
LEMMA ClientStepOK == ASSUME CInv, ClientStep PROVE CInv'
<1>1. CASE Expire
  BY <1>1, CallsKept DEF Expire
<1>2. ASSUME NEW c \in Calls, Progress(c) \/ Abort(c) \/ Serve(c) \/ ServeLate(c)
      PROVE  CInv'
  BY <1>2, BeginOK, ReceiveOK, FetchRejectsOK, ConfirmOK, RefreshOK, AbortOK, ServeOK,
     ServeLateOK DEF Progress
<1> QED
  BY <1>1, <1>2 DEF ClientStep

\* Every step leaves the client alone, makes one call, or is the client's.
LEMMA NextUsesClient ==
  ASSUME Next
  PROVE  \/ UNCHANGED clientVars
         \/ \E c \in Calls, write \in BOOLEAN : Request(c, write)
         \/ ClientStep
<1>1. ASSUME NEW c \in Calls, Load(c) \/ Retry(c) \/ Mutate(c)
      PROVE  \E d \in Calls, write \in BOOLEAN : Request(d, write)
  <2>1. \E write \in BOOLEAN : Request(c, write)
    BY <1>1 DEF Load, Retry, Mutate, Await
  <2> QED
    BY <2>1
<1>2. ASSUME NEW c \in Calls, NEW k \in Commands, Issue(c, k)
      PROVE  \E d \in Calls, write \in BOOLEAN : Request(d, write)
  <2>1. Request(c, TRUE)
    BY <1>2 DEF Issue, Await
  <2> QED
    BY <2>1
<1>3. ASSUME NEW c \in Calls, OtherCall(c)
      PROVE  \E d \in Calls, write \in BOOLEAN : Request(d, write)
  BY <1>3 DEF OtherCall
<1>4. CASE IssueInvalid \/ Dispose
  BY <1>4 DEF IssueInvalid, Dispose
<1>5. CASE SubmitFails \/ CreatedSettles \/ MutateFails \/ ReadDone \/ ReadFails
  BY <1>5 DEF SubmitFails, CreatedSettles, MutateFails, ReadDone, ReadFails
<1>6. ASSUME Reread
      PROVE  UNCHANGED clientVars \/ \E d \in Calls, write \in BOOLEAN : Request(d, write)
  BY <1>6 DEF Reread, Await
<1>7. CASE SubmitDone \/ MutateDone
  BY <1>6, <1>7 DEF SubmitDone, MutateDone
<1>8. CASE Client
  BY <1>8 DEF Client
<1> QED
  BY <1>1, <1>2, <1>3, <1>4, <1>5, <1>7, <1>8 DEF Next, React

\* The invariant of the client holds under the panel.
LEMMA CInvInvariant == Spec => []CInv
<1>1. Init => CInv
  BY ClientInitOK DEF Init
<1>2. CInv /\ [Next]_vars => CInv'
  <2> SUFFICES ASSUME CInv, [Next]_vars PROVE CInv'
    OBVIOUS
  <2>1. ended \in BOOLEAN
    BY DEF CInv, ClientTypeOK
  <2>2. CASE UNCHANGED clientVars
    BY <2>1, <2>2, CallsKept DEF clientVars
  <2>3. CASE \E c \in Calls, write \in BOOLEAN : Request(c, write)
    BY <2>3, RequestOK
  <2>4. CASE ClientStep
    BY <2>4, ClientStepOK
  <2> QED
    BY <2>2, <2>3, <2>4, NextUsesClient DEF vars
<1> QED
  BY <1>1, <1>2, PTL DEF Spec

-----------------------------------------------------------------------------
(* The properties of the client *)

\* Whatever else happens, what the client reports of a call agrees with what the
\* backend did and will do with it.
THEOREM OutcomesAreTrue == Spec => []OutcomeIsTrue
  BY CInvInvariant, CInvImplies, PTL

\* No call runs its operation twice.
THEOREM CallsRunOnce == Spec => []RunsOnce
  BY CInvInvariant, CInvImplies, PTL

\* A proof is sent with the cookie of its own challenge, however many calls wait.
THEOREM ChallengesAreKept == Spec => []ChallengeKept
  BY CInvInvariant, CInvImplies, PTL

-----------------------------------------------------------------------------
(* The inductive invariant of the panel *)

\* The request of a call may yet be run
Moving(c) == call[c].phase \in {"queued", "first", "confirm", "second"} \/ c \in late

\* A command was executed, or may yet be
Live(k) == \E c \in Calls : command[c] = k /\ (Moving(c) \/ call[c].executed > 0)

\* Commands and drafts are used in the order of their numbers, and a submitted
\* draft has a command.
DraftsOK ==
  /\ \A k \in Commands : intent[k] <= k /\ intent[k] <= draft
  /\ \A j, k \in Commands : j < k /\ intent[k] # 0 => intent[j] # 0
  /\ draft = 1 \/ \E k \in Commands : intent[k] = draft - 1
  /\ submitted => \E k \in Commands : intent[k] = draft

\* Only the call the panel awaits carries a command and waits.
CarriersOK ==
  /\ \A c \in Calls : command[c] # 0 => call[c].phase # "idle" /\ intent[command[c]] # 0
  /\ \A c \in Calls : command[c] # 0 /\ call[c].phase \in Waiting
                      => step = "submit" /\ mine = c

\* A submit carries the command kept, and a first attempt is the only one of it.
SubmitOK ==
  step = "submit" =>
    /\ mine \in Calls /\ command[mine] \in Commands
    /\ disposed \/ pending = command[mine]
    /\ ~prior => \A c \in Calls : command[c] = command[mine] => c = mine

\* The command kept was made from the draft in the form, which is closed.
PendingOK ==
  pending # 0 => /\ ~disposed
                 /\ intent[pending] = draft
                 /\ submitted
                 /\ status \notin {"ready", "error"}

\* The draft in the form has no live command but the one kept; once that one is out,
\* the form stays closed until it is emptied.
DraftIsFree ==
  \A k \in Commands :
    ~disposed /\ Live(k) /\ intent[k] = draft
    => \/ pending = k
       \/ pending = 0 /\ submitted /\ status \notin {"ready", "error"}

PInv ==
  /\ TypeOK
  /\ DraftsOK
  /\ CarriersOK
  /\ SubmitOK
  /\ PendingOK
  /\ DraftIsFree
  /\ UnknownIsKept

-----------------------------------------------------------------------------
(* Steps that leave the calls with a command alone *)

CommandsKept ==
  /\ UNCHANGED <<command, intent>>
  /\ \A c \in Calls : command[c] # 0 => call'[c] = call[c] /\ (c \in late' <=> c \in late)

\* No call is made.
LEMMA KeptQuiet ==
  ASSUME UNCHANGED clientVars, UNCHANGED <<command, intent>> PROVE CommandsKept
  BY DEF clientVars, CommandsKept

\* A call without a command is made.
LEMMA KeptByRequest ==
  ASSUME CInv, PInv, NEW c \in Calls, NEW write \in BOOLEAN, Request(c, write),
         UNCHANGED <<command, intent>>
  PROVE  CommandsKept
<1>1. call[c].phase = "idle"
  BY DEF Request, Fresh
<1>2. command[c] = 0
  BY <1>1 DEF PInv, CarriersOK
<1>3. \A b \in Calls : b # c => call'[b] = call[b]
  BY DEF Request, CInv, ClientTypeOK
<1> QED
  BY <1>2, <1>3 DEF CommandsKept, Request

LEMMA KeptByAwait ==
  ASSUME CInv, PInv, NEW c \in Calls, NEW s \in Steps, NEW write \in BOOLEAN,
         Await(c, s, write, 0), UNCHANGED intent
  PROVE  CommandsKept /\ step' = s /\ mine' = c
<1>1. call[c].phase = "idle" /\ Request(c, write)
  BY DEF Await, Request, Fresh
<1>2. command[c] = 0
  BY <1>1 DEF PInv, CarriersOK
<1>3. command' = command
  BY <1>2 DEF Await, PInv, TypeOK
<1> QED
  BY <1>1, <1>3, KeptByRequest DEF Await

\* Commands stay live or not.
LEMMA LiveKept ==
  ASSUME CommandsKept, NEW k \in Commands
  PROVE  Live(k)' <=> Live(k)
<1>1. k # 0
  BY DEF Commands
<1>2. \A c \in Calls : command[c] = k
        => (Moving(c)' <=> Moving(c)) /\ call'[c].executed = call[c].executed
  BY <1>1 DEF CommandsKept, Moving
<1> QED
  BY <1>2 DEF CommandsKept, Live

\* The call awaited changes only when no call with a command waits.
LEMMA CarriersKept ==
  ASSUME PInv, CommandsKept,
         UNCHANGED <<step, mine>> \/ step # "submit" \/ call[mine].phase = "done"
  PROVE  CarriersOK'
  BY DEF PInv, CarriersOK, CommandsKept, Waiting

\* What is published keeps the drafts in order.
LEMMA PublishDrafts ==
  ASSUME PInv, NEW s \in Statuses, NEW e \in Errors, Publish(s, e), UNCHANGED intent
  PROVE  /\ DraftsOK'
         /\ status' \in Statuses /\ error' \in Errors
         /\ draft' \in Drafts /\ submitted' \in BOOLEAN
<1>0. /\ status \in Statuses /\ error \in Errors /\ draft \in Drafts /\ submitted \in BOOLEAN
      /\ intent \in [Commands -> Drafts \cup {0}] /\ DraftsOK
  BY DEF PInv, TypeOK
<1>1. CASE UNCHANGED <<draft, submitted>>
  <2>1. status' \in Statuses /\ error' \in Errors
    BY <1>0 DEF Publish
  <2> QED
    BY <1>0, <1>1, <2>1 DEF DraftsOK
<1>2. CASE ~UNCHANGED <<draft, submitted>>
  <2>1. /\ status' = s /\ error' = e
        /\ draft' = IF submitted /\ s = "ready" THEN draft + 1 ELSE draft
        /\ submitted' = (submitted /\ s \notin {"ready", "error"})
    BY <1>2 DEF Publish
  <2>2. submitted /\ ~submitted'
    BY <1>0, <1>2, <2>1
  <2>3. PICK k \in Commands : intent[k] = draft
    BY <1>0, <2>2 DEF DraftsOK
  <2>4. k <= MaxCommands /\ intent[k] <= k /\ k \in Nat
    BY <1>0 DEF Commands, DraftsOK
  <2>5. draft' \in Drafts /\ (draft' = draft \/ draft' = draft + 1)
    BY <1>0, <2>1, <2>3, <2>4 DEF Drafts
  <2>6. DraftsOK'
    <3>1. \A j \in Commands : intent[j] <= draft'
      BY <1>0, <2>5 DEF DraftsOK, Drafts
    <3>2. draft' = 1 \/ \E j \in Commands : intent[j] = draft' - 1
      BY <1>0, <2>3, <2>5 DEF DraftsOK, Drafts
    <3> QED
      BY <1>0, <2>2, <3>1, <3>2 DEF DraftsOK
  <2> QED
    BY <2>1, <2>2, <2>5, <2>6
<1> QED
  BY <1>1, <1>2

\* Two results of a submit that say its command is not live.
LEMMA NotLive ==
  ASSUME CInv, NEW c \in Calls, call[c].phase = "done",
         call[c].result \in {"refused", "denied", "cancelled", "notExecuted"}
  PROVE  ~Moving(c) /\ call[c].executed = 0
  BY DEF CInv, CallOK, Moving

\* The panel begins to load, or to change an invitation.
LEMMA BeginAsideOK ==
  ASSUME CInv, CInv', PInv, NEW c \in Calls, Load(c) \/ Mutate(c) PROVE PInv'
<1>1. /\ ~disposed /\ step = "none" /\ Loading
      /\ UNCHANGED <<creation, pending, prior, disposed, draft, submitted, intent>>
      /\ \E s \in {"load", "mutate"}, write \in BOOLEAN : Await(c, s, write, 0)
  BY DEF Load, Mutate, Free
<1>2. CommandsKept /\ step' \in {"load", "mutate"} /\ mine' = c
  BY <1>1, KeptByAwait DEF Steps
<1>3. TypeOK'
  BY <1>1, <1>2 DEF PInv, TypeOK, CInv, Steps, Loading, Statuses, Errors, CommandsKept
<1>4. DraftsOK'
  BY <1>1 DEF PInv, DraftsOK
<1>5. CarriersOK' /\ SubmitOK'
  BY <1>1, <1>2, CarriersKept DEF SubmitOK
<1>6. PendingOK'
  BY <1>1 DEF PInv, PendingOK, Loading
<1>7. DraftIsFree'
  BY <1>1, <1>2, LiveKept DEF PInv, DraftIsFree, Loading
<1>8. UnknownIsKept'
  BY <1>1, <1>2 DEF PInv, UnknownIsKept, Carriers, CommandsKept, Commands
<1> QED
  BY <1>3, <1>4, <1>5, <1>6, <1>7, <1>8 DEF PInv

\* Somebody else makes a call.
LEMMA OtherCallOK ==
  ASSUME CInv, CInv', PInv, NEW c \in Calls, OtherCall(c) PROVE PInv'
<1>1. UNCHANGED ctlVars /\ \E write \in BOOLEAN : Request(c, write)
  BY DEF OtherCall
<1>2. CommandsKept
  BY <1>1, KeptByRequest DEF ctlVars
<1>3. TypeOK'
  BY <1>1 DEF PInv, TypeOK, CInv, ctlVars
<1>4. DraftsOK'
  BY <1>1 DEF PInv, DraftsOK, ctlVars
<1>5. CarriersOK' /\ SubmitOK'
  BY <1>1, <1>2, CarriersKept DEF PInv, SubmitOK, ctlVars
<1>6. PendingOK'
  BY <1>1 DEF PInv, PendingOK, ctlVars
<1>7. DraftIsFree'
  BY <1>1, <1>2, LiveKept DEF PInv, DraftIsFree, ctlVars
<1>8. UnknownIsKept'
  BY <1>1, <1>2 DEF PInv, UnknownIsKept, Carriers, CommandsKept, ctlVars, Commands
<1> QED
  BY <1>3, <1>4, <1>5, <1>6, <1>7, <1>8 DEF PInv

\* The draft is rejected before a call is made.
LEMMA IssueInvalidOK == ASSUME CInv, CInv', PInv, IssueInvalid PROVE PInv'
<1>1. /\ step = "none" /\ Issuable /\ status' = "error" /\ error' = "input"
      /\ submitted' = FALSE
      /\ UNCHANGED <<clientVars, creation, pending, step, prior, mine, disposed, draft,
                     command, intent>>
  BY DEF IssueInvalid
<1>2. CommandsKept
  BY <1>1, KeptQuiet
<1>3. TypeOK'
  BY <1>1 DEF PInv, TypeOK, CInv, Statuses, Errors
<1>4. DraftsOK'
  BY <1>1 DEF PInv, DraftsOK
<1>5. CarriersOK' /\ SubmitOK'
  BY <1>1, <1>2, CarriersKept DEF SubmitOK
<1>6. PendingOK'
  BY <1>1 DEF PendingOK, Issuable
<1>7. DraftIsFree'
  BY <1>1, <1>2, LiveKept DEF PInv, DraftIsFree, Issuable, Commands
<1>8. UnknownIsKept'
  BY <1>1, <1>2 DEF PInv, UnknownIsKept, Carriers, CommandsKept, Commands
<1> QED
  BY <1>3, <1>4, <1>5, <1>6, <1>7, <1>8 DEF PInv

\* The panel is left.
LEMMA DisposeOK == ASSUME CInv, CInv', PInv, Dispose PROVE PInv'
<1>1. /\ disposed' = TRUE /\ pending' = 0 /\ status' = "idle" /\ error' = "none"
      /\ UNCHANGED <<clientVars, creation, step, prior, mine, draft, submitted, command,
                     intent>>
  BY DEF Dispose
<1>2. CommandsKept
  BY <1>1, KeptQuiet
<1>3. TypeOK'
  BY <1>1 DEF PInv, TypeOK, CInv, Statuses, Errors
<1>4. DraftsOK'
  BY <1>1 DEF PInv, DraftsOK
<1>5. CarriersOK' /\ SubmitOK'
  BY <1>1, <1>2, CarriersKept DEF PInv, SubmitOK
<1>6. PendingOK' /\ DraftIsFree' /\ UnknownIsKept'
  BY <1>1 DEF PendingOK, DraftIsFree, UnknownIsKept
<1> QED
  BY <1>3, <1>4, <1>5, <1>6 DEF PInv

\* An attempt to submit fails: a first one that was not executed, and will not be,
\* gives the draft back, any other keeps its command.
LEMMA SubmitFailsOK == ASSUME CInv, CInv', PInv, SubmitFails PROVE PInv'
<1> DEFINE code == IF prior THEN "unknown" ELSE ErrorCode(call[mine].result)
           st   == IF pending' # 0 THEN "retry" ELSE "error"
<1>1. /\ step = "submit" /\ call[mine].phase = "done" /\ call[mine].result # "ok"
      /\ step' = "none" /\ mine' = 0 /\ prior' = FALSE
      /\ pending' = IF code # "unknown" THEN 0 ELSE pending
      /\ Publish(st, code)
      /\ UNCHANGED <<clientVars, creation, disposed, command, intent>>
  BY DEF SubmitFails, Settled, Succeeded, Return
<1>2. /\ mine \in Calls /\ command[mine] \in Commands
      /\ disposed \/ pending = command[mine]
      /\ ~prior => \A c \in Calls : command[c] = command[mine] => c = mine
      /\ pending \in Commands \cup {0}
  BY <1>1 DEF PInv, SubmitOK, TypeOK
<1>3. CommandsKept
  BY <1>1, KeptQuiet
<1>4. /\ code \in {"refused", "denied", "cancelled", "notExecuted", "unknown"}
      /\ code # "unknown" => ~prior /\ call[mine].result = code
  BY DEF ErrorCode
<1>5. st \in Statuses /\ code \in Errors
  BY <1>4 DEF Statuses, Errors
<1> HIDE DEF code
<1>6. /\ DraftsOK' /\ status' \in Statuses /\ error' \in Errors
      /\ draft' \in Drafts /\ submitted' \in BOOLEAN
  BY <1>1, <1>5, PublishDrafts
<1>7. TypeOK'
  BY <1>1, <1>2, <1>6 DEF PInv, TypeOK, CInv, Steps, Commands, Calls
<1>8. CarriersOK' /\ SubmitOK'
  BY <1>1, <1>3, CarriersKept DEF SubmitOK
<1>9. draft' = draft /\ (pending' # 0 => submitted' = submitted /\ (~disposed => status' = "retry"))
  BY <1>1 DEF Publish, PInv, TypeOK
<1>10. PendingOK'
  BY <1>1, <1>9 DEF PInv, PendingOK
<1>11. DraftIsFree'
  <2> SUFFICES ASSUME NEW k \in Commands, ~disposed, Live(k), intent[k] = draft
               PROVE  pending' = k
    BY <1>1, <1>3, <1>9, LiveKept DEF DraftIsFree
  <2>1. pending = k /\ k = command[mine] /\ k # 0
    BY <1>2 DEF PInv, DraftIsFree, Commands
  <2>2. CASE code = "unknown"
    BY <1>1, <2>1, <2>2
  <2>3. CASE code # "unknown"
    <3>1. ~Moving(mine) /\ call[mine].executed = 0
      BY <1>1, <1>2, <1>4, <2>3, NotLive
    <3>2. \A c \in Calls : command[c] = k => c = mine
      BY <1>2, <1>4, <2>1, <2>3
    <3> QED
      BY <3>1, <3>2 DEF Live
  <2> QED
    BY <2>2, <2>3
<1>12. UnknownIsKept'
  <2> SUFFICES ASSUME NEW k \in Commands, ~disposed,
                      \E c \in Calls : command[c] = k /\ call[c].result = "unknown",
                      \A c \in Calls : command[c] = k => call[c].result # "ok"
               PROVE  pending' = k
    BY <1>1 DEF UnknownIsKept, Carriers, clientVars
  <2>1. pending = k /\ k = command[mine]
    BY <1>2 DEF PInv, UnknownIsKept, Carriers, Commands
  <2>2. code = "unknown"
    BY <1>2, <1>4, <2>1
  <2> QED
    BY <1>1, <2>1, <2>2
<1> QED
  BY <1>6, <1>7, <1>8, <1>10, <1>11, <1>12 DEF PInv

\* What ends an operation other than a submit publishes a state that closes the form,
\* or opens it with no command kept; then a submitted draft is replaced.
LEMMA EndAsideOK ==
  ASSUME CInv, CInv', PInv, NEW s \in Statuses \ {"error"}, NEW e \in Errors,
         Publish(s, e) \/ UNCHANGED <<status, error, draft, submitted>>,
         s = "ready" => pending = 0,
         step # "submit", Return,
         UNCHANGED <<clientVars, creation, pending, disposed, command, intent>>
  PROVE  PInv'
<1>1. CommandsKept
  BY KeptQuiet
<1>2. /\ DraftsOK' /\ status' \in Statuses /\ error' \in Errors
      /\ draft' \in Drafts /\ submitted' \in BOOLEAN
  <2>1. CASE Publish(s, e)
    BY <2>1, PublishDrafts
  <2>2. CASE UNCHANGED <<status, error, draft, submitted>>
    BY <2>2 DEF PInv, TypeOK, DraftsOK
  <2> QED
    BY <2>1, <2>2
<1>3. TypeOK'
  BY <1>2 DEF PInv, TypeOK, CInv, Steps, Return
<1>4. CarriersOK' /\ SubmitOK'
  BY <1>1, CarriersKept DEF SubmitOK, Return
<1>5. /\ draft \in Nat /\ submitted \in BOOLEAN
      /\ \A k \in Commands : intent[k] <= draft /\ intent[k] \in Nat
  BY DEF PInv, TypeOK, DraftsOK, Drafts
<1>6. CASE UNCHANGED <<status, error, draft, submitted>>
  BY <1>1, <1>2, <1>3, <1>4, <1>6, LiveKept
  DEF PInv, PendingOK, DraftIsFree, UnknownIsKept, Carriers, CommandsKept, Commands, clientVars
<1>7. CASE /\ status' = s /\ s # "ready" /\ UNCHANGED <<draft, submitted>>
  <2>1. PendingOK'
    BY <1>7 DEF PInv, PendingOK
  <2>2. DraftIsFree'
    BY <1>1, <1>7, LiveKept DEF PInv, DraftIsFree, Statuses
  <2>3. UnknownIsKept'
    BY <1>7 DEF PInv, UnknownIsKept, Carriers, clientVars
  <2> QED
    BY <1>2, <1>3, <1>4, <2>1, <2>2, <2>3 DEF PInv
<1>8. CASE /\ status' = s /\ s = "ready" /\ ~submitted'
           /\ draft' = IF submitted THEN draft + 1 ELSE draft
  <2>1. PendingOK'
    BY <1>8 DEF PendingOK
  <2>2. DraftIsFree'
    <3> SUFFICES ASSUME NEW k \in Commands, ~disposed, Live(k), intent[k] = draft'
                 PROVE  FALSE
      BY <1>1, LiveKept DEF DraftIsFree
    <3>1. CASE submitted
      BY <1>5, <1>8, <3>1
    <3>2. CASE ~submitted
      BY <1>8, <3>2 DEF PInv, DraftIsFree, Commands
    <3> QED
      BY <3>1, <3>2
  <2>3. UnknownIsKept'
    BY <1>8 DEF PInv, UnknownIsKept, Carriers, clientVars
  <2> QED
    BY <1>2, <1>3, <1>4, <2>1, <2>2, <2>3 DEF PInv
<1> QED
  BY <1>5, <1>6, <1>7, <1>8 DEF Publish, Statuses

\* The operations that end so.
LEMMA EndingsOK ==
  ASSUME CInv, CInv', PInv, CreatedSettles \/ MutateFails \/ ReadDone \/ ReadFails
  PROVE  PInv'
<1>1. \A r : ErrorCode(r) \in Errors /\ ReadError(r) \in Errors
  BY DEF ErrorCode, ReadError, Errors
<1>2. CASE CreatedSettles
  <2>1. Publish("complete", "refresh") \/ UNCHANGED <<status, error, draft, submitted>>
    BY <1>2 DEF CreatedSettles
  <2> QED
    BY <1>2, <2>1, EndAsideOK DEF CreatedSettles, Statuses, Errors
<1>3. CASE MutateFails
  BY <1>1, <1>3, EndAsideOK DEF MutateFails, Settled, Statuses
<1>4. CASE ReadDone
  <2>1. /\ step # "submit" /\ Return
        /\ UNCHANGED <<clientVars, creation, pending, disposed, command, intent>>
        /\ Publish(IF pending # 0 THEN "retry" ELSE "ready", "none")
    BY <1>4 DEF ReadDone, Settled
  <2>2. CASE pending # 0
    BY <2>1, <2>2, EndAsideOK DEF Statuses, Errors
  <2>3. CASE pending = 0
    BY <2>1, <2>3, EndAsideOK DEF Statuses, Errors
  <2> QED
    BY <2>2, <2>3
<1>5. CASE ReadFails
  <2>1. /\ step # "submit" /\ Return
        /\ UNCHANGED <<clientVars, creation, pending, disposed, command, intent>>
        /\ IF pending # 0 THEN Publish("retry", "unknown")
           ELSE Publish("refresh_required", ReadError(call[mine].result))
    BY <1>5 DEF ReadFails, Settled
  <2>2. CASE pending # 0
    BY <2>1, <2>2, EndAsideOK DEF Statuses, Errors
  <2>3. CASE pending = 0
    BY <1>1, <2>1, <2>3, EndAsideOK DEF Statuses
  <2> QED
    BY <2>2, <2>3
<1> QED
  BY <1>2, <1>3, <1>4, <1>5

\* A read within the same operation, or its end, if no submit is left behind.
LEMMA RereadKeeps ==
  ASSUME CInv, PInv, Reread, UNCHANGED intent
  PROVE  /\ CommandsKept
         /\ step' \in {"none", "reread"}
         /\ mine' \in Calls \cup {0}
         /\ prior' = FALSE
<1>1. CASE disposed
  BY <1>1, KeptQuiet DEF Reread, Return
<1>2. CASE ~disposed
  <2>1. PICK c \in Calls : Await(c, "reread", FALSE, 0)
    BY <1>2 DEF Reread
  <2> QED
    BY <1>2, <2>1, KeptByAwait DEF Reread, Steps
<1> QED
  BY <1>1, <1>2

\* An invitation was changed.
LEMMA MutateDoneOK == ASSUME CInv, CInv', PInv, MutateDone PROVE PInv'
<1>1. /\ step = "mutate" /\ Reread
      /\ UNCHANGED <<creation, status, error, pending, disposed, draft, submitted, intent>>
  BY DEF MutateDone, Settled
<1>2. /\ CommandsKept /\ step' \in {"none", "reread"} /\ mine' \in Calls \cup {0}
      /\ prior' = FALSE
  BY <1>1, RereadKeeps
<1>3. TypeOK'
  BY <1>1, <1>2 DEF PInv, TypeOK, CInv, Steps, CommandsKept
<1>4. DraftsOK' /\ PendingOK'
  BY <1>1 DEF PInv, DraftsOK, PendingOK
<1>5. CarriersOK' /\ SubmitOK'
  BY <1>1, <1>2, CarriersKept DEF SubmitOK
<1>6. DraftIsFree'
  BY <1>1, <1>2, LiveKept DEF PInv, DraftIsFree
<1>7. UnknownIsKept'
  BY <1>1, <1>2 DEF PInv, UnknownIsKept, Carriers, CommandsKept, Commands
<1> QED
  BY <1>3, <1>4, <1>5, <1>6, <1>7 DEF PInv

\* A submit succeeded: its command is dropped and the form stays closed.
LEMMA SubmitDoneOK == ASSUME CInv, CInv', PInv, SubmitDone PROVE PInv'
<1>1. /\ step = "submit" /\ call[mine].phase = "done" /\ call[mine].result = "ok"
      /\ pending' = 0
      /\ UNCHANGED <<creation, disposed, intent>>
  BY DEF SubmitDone, Settled, Succeeded
<1>2. /\ mine \in Calls /\ command[mine] \in Commands
      /\ disposed \/ pending = command[mine]
  BY <1>1 DEF PInv, SubmitOK
<1>3. /\ CommandsKept /\ step' \in {"none", "reread", "created"}
      /\ mine' \in Calls \cup {0} /\ prior' = FALSE
      /\ UNCHANGED <<draft, submitted>>
      /\ (status' = "complete" /\ error' = "none") \/ UNCHANGED <<status, error>>
  <2>1. CASE creation /\ ~disposed
    <3>1. /\ step' = "created" /\ Publish("complete", "none") /\ mine' = 0 /\ prior' = FALSE
          /\ UNCHANGED <<clientVars, command>>
      BY <2>1 DEF SubmitDone
    <3> QED
      BY <1>1, <2>1, <3>1, KeptQuiet DEF Publish, PInv, TypeOK
  <2>2. CASE ~(creation /\ ~disposed)
    <3>1. Reread /\ UNCHANGED <<status, error, draft, submitted>>
      BY <2>2 DEF SubmitDone
    <3> QED
      BY <1>1, <3>1, RereadKeeps
  <2> QED
    BY <2>1, <2>2
<1>4. TypeOK'
  BY <1>1, <1>3 DEF PInv, TypeOK, CInv, Steps, Statuses, Errors, CommandsKept
<1>5. DraftsOK' /\ PendingOK'
  BY <1>1, <1>3 DEF PInv, DraftsOK, PendingOK
<1>6. CarriersOK' /\ SubmitOK'
  BY <1>1, <1>3, CarriersKept DEF SubmitOK
<1>7. DraftIsFree'
  <2> SUFFICES ASSUME NEW k \in Commands, ~disposed, Live(k), intent[k] = draft
               PROVE  submitted /\ status' \notin {"ready", "error"}
    BY <1>1, <1>3, LiveKept DEF DraftIsFree
  <2>1. pending \in Commands /\ pending # 0
    BY <1>2 DEF Commands
  <2> QED
    BY <1>3, <2>1 DEF PInv, PendingOK
<1>8. UnknownIsKept'
  <2> SUFFICES ASSUME NEW k \in Commands, ~disposed,
                      \E c \in Calls : command[c] = k /\ call[c].result = "unknown",
                      \A c \in Calls : command[c] = k => call[c].result # "ok"
               PROVE  FALSE
    <3>1. \A c \in Calls : command[c] # 0 => call'[c] = call[c]
      BY <1>3 DEF CommandsKept
    <3> QED
      BY <1>1, <1>3, <3>1 DEF UnknownIsKept, Carriers, CommandsKept, Commands
  <2>1. pending = k
    BY DEF PInv, UnknownIsKept, Carriers
  <2> QED
    BY <1>1, <1>2, <2>1
<1> QED
  BY <1>4, <1>5, <1>6, <1>7, <1>8 DEF PInv

-----------------------------------------------------------------------------
(* Steps that send a command *)

\* A call that carries k is made.
LEMMA SendsCommand ==
  ASSUME CInv, PInv, NEW c \in Calls, NEW k \in Commands, Await(c, "submit", TRUE, k)
  PROVE  /\ call[c].phase = "idle" /\ command[c] = 0 /\ ~Moving(c) /\ call[c].executed = 0
         /\ command' = [command EXCEPT ![c] = k]
         /\ command'[c] = k
         /\ step' = "submit" /\ mine' = c
         /\ call'[c].phase \in {"queued", "done"} /\ call'[c].executed = 0
         /\ call'[c].result \in {"none", "busy"}
         /\ \A b \in Calls : b # c => call'[b] = call[b] /\ command'[b] = command[b]
         /\ late' = late
<1>1. /\ call[c].phase = "idle" /\ Request(c, TRUE) /\ step' = "submit" /\ mine' = c
      /\ command' = [command EXCEPT ![c] = k]
  BY DEF Await, Request, Fresh
<1>2. call[c] = Idle /\ c \notin late
  BY <1>1 DEF CInv, CallOK, Idle
<1>3. command[c] = 0 /\ command \in [Calls -> Commands \cup {0}]
  BY <1>1 DEF PInv, CarriersOK, TypeOK
<1>4. ~Moving(c) /\ call[c].executed = 0
  BY <1>2 DEF Moving, Idle
<1>5. /\ call'[c].phase \in {"queued", "done"} /\ call'[c].executed = 0
      /\ call'[c].result \in {"none", "busy"}
  BY <1>1, <1>2 DEF Request, CInv, ClientTypeOK, Idle, Call
<1>6. \A b \in Calls : b # c => call'[b] = call[b]
  BY <1>1 DEF Request, CInv, ClientTypeOK
<1> QED
  BY <1>1, <1>3, <1>4, <1>5, <1>6 DEF Request

\* The outcome of a command is unknown
Doubtful(k) == /\ \E c \in Calls : command[c] = k /\ call[c].result = "unknown"
               /\ \A c \in Calls : command[c] = k => call[c].result # "ok"

\* What is live or doubtful after that was so before, or is k.
LEMMA LiveAfterSend ==
  ASSUME CInv, PInv, NEW c \in Calls, NEW k \in Commands, Await(c, "submit", TRUE, k),
         NEW j \in Commands \ {k}
  PROVE  /\ Live(j)' <=> Live(j)
         /\ Doubtful(j)' <=> Doubtful(j)
<1>1. j # 0
  BY DEF Commands
<1>2. \A b \in Calls : b # c =>
        call'[b] = call[b] /\ command'[b] = command[b] /\ (Moving(b)' <=> Moving(b))
  BY SendsCommand DEF Moving
<1>3. command'[c] # j /\ command[c] # j
  BY <1>1, SendsCommand
<1>4. Live(j)' <=> Live(j)
  BY <1>2, <1>3 DEF Live
<1>5. Doubtful(j)' <=> Doubtful(j)
  BY <1>2, <1>3 DEF Doubtful
<1> QED
  BY <1>4, <1>5

\* The call that carries it is the only one waiting.
LEMMA CarriersAfterSend ==
  ASSUME CInv, PInv, step = "none", NEW c \in Calls, NEW k \in Commands,
         Await(c, "submit", TRUE, k), intent'[k] # 0,
         \A j \in Commands \ {k} : intent'[j] = intent[j]
  PROVE  CarriersOK'
<1>0. /\ command \in [Calls -> Commands \cup {0}]
      /\ \A b \in Calls : command[b] # 0 => /\ call[b].phase \notin Waiting \cup {"idle"}
                                          /\ intent[command[b]] # 0
  BY DEF PInv, TypeOK, CarriersOK, Waiting
<1>1. \A b \in Calls : command'[b] # 0 => call'[b].phase # "idle" /\ intent'[command'[b]] # 0
  <2> TAKE b \in Calls
  <2>1. CASE b = c
    BY <2>1, SendsCommand
  <2>2. CASE b # c
    <3>1. call'[b] = call[b] /\ command'[b] = command[b]
      BY <2>2, SendsCommand
    <3>2. command[b] # 0 => intent'[command[b]] # 0
      BY <1>0
    <3> QED
      BY <1>0, <3>1, <3>2
  <2> QED
    BY <2>1, <2>2
<1>2. \A b \in Calls : command'[b] # 0 /\ call'[b].phase \in Waiting
                       => step' = "submit" /\ mine' = b
  <2> TAKE b \in Calls
  <2>1. CASE b = c
    BY <2>1, SendsCommand
  <2>2. CASE b # c
    <3>1. call'[b] = call[b] /\ command'[b] = command[b]
      BY <2>2, SendsCommand
    <3> QED
      BY <1>0, <3>1
  <2> QED
    BY <2>1, <2>2
<1> QED
  BY <1>1, <1>2 DEF CarriersOK

\* A new batch is issued: its draft had no live command.
LEMMA IssueOK ==
  ASSUME CInv, CInv', PInv, NEW c \in Calls, NEW k \in Commands, Issue(c, k) PROVE PInv'
<1>1. /\ ~disposed /\ step = "none" /\ pending = 0 /\ status \in {"ready", "error"}
      /\ intent[k] = 0 /\ \A j \in 1..(k - 1) : intent[j] # 0
      /\ Await(c, "submit", TRUE, k)
      /\ pending' = k /\ prior' = FALSE /\ submitted' = TRUE
      /\ intent' = [intent EXCEPT ![k] = draft]
      /\ status' = "loading" /\ error' = "none"
      /\ UNCHANGED <<creation, disposed, draft>>
  BY DEF Issue, Free, Issuable, Loading
<1>2. TypeOK /\ DraftsOK /\ CarriersOK /\ DraftIsFree /\ UnknownIsKept /\ k \in 1..MaxCommands
  BY DEF PInv, Commands
<1>3. /\ draft \in Nat /\ draft # 0
      /\ intent'[k] = draft
      /\ \A j \in Commands : j # k => intent'[j] = intent[j]
      /\ \A j \in Commands : intent[j] \in Nat
  BY <1>1, <1>2 DEF TypeOK, Drafts
<1>4. TypeOK'
  <2>1. /\ command' = [command EXCEPT ![c] = k] /\ step' = "submit" /\ mine' = c
    BY <1>1, SendsCommand
  <2>2. command' \in [Calls -> Commands \cup {0}] /\ intent' \in [Commands -> Drafts \cup {0}]
    BY <1>1, <1>2, <2>1 DEF TypeOK
  <2> QED
    BY <1>1, <1>2, <2>1, <2>2 DEF TypeOK, CInv, Steps, Statuses, Errors
<1>5. draft <= k
  <2>1. CASE draft = 1
    BY <1>2, <2>1
  <2>2. CASE draft # 1
    <3>1. PICK j \in Commands : intent[j] = draft - 1
      BY <1>2, <2>2 DEF DraftsOK
    <3>2. intent[j] # 0 /\ intent[j] <= j
      BY <1>2, <1>3, <2>2, <3>1 DEF DraftsOK
    <3>3. ~(k <= j)
      BY <1>1, <1>2, <3>2 DEF DraftsOK, Commands
    <3> QED
      BY <1>2, <1>3, <3>1, <3>2, <3>3 DEF Commands
  <2> QED
    BY <2>1, <2>2
<1>6. DraftsOK'
  <2>1. \A j \in Commands : intent'[j] <= j /\ intent'[j] <= draft
    BY <1>2, <1>3, <1>5 DEF DraftsOK
  <2>2. ASSUME NEW i \in Commands, NEW j \in Commands, i < j, intent'[j] # 0
        PROVE  intent'[i] # 0
    <3>1. CASE i = k
      BY <1>3, <3>1
    <3>2. CASE i # k /\ j = k
      BY <1>1, <1>3, <2>2, <3>2 DEF Commands
    <3>3. CASE i # k /\ j # k
      BY <1>2, <1>3, <2>2, <3>3 DEF DraftsOK
    <3> QED
      BY <3>1, <3>2, <3>3
  <2>3. draft = 1 \/ \E j \in Commands : intent'[j] = draft - 1
    <3>1. draft = 1 \/ \E j \in Commands : intent[j] = draft - 1 /\ draft # 1
      BY <1>2 DEF DraftsOK
    <3>2. \A j \in Commands : intent[j] = draft - 1 /\ draft # 1 => j # k
      BY <1>1, <1>3
    <3> QED
      BY <1>3, <3>1, <3>2
  <2> QED
    BY <1>1, <1>3, <2>1, <2>2, <2>3 DEF DraftsOK
<1>7. CarriersOK'
  BY <1>1, <1>3, CarriersAfterSend
<1>8. \A b \in Calls : b # c => command[b] # k
  BY <1>1, <1>2 DEF CarriersOK, Commands
<1>9. SubmitOK'
  <2>1. /\ command'[c] = k /\ mine' = c
        /\ \A b \in Calls : b # c => command'[b] = command[b]
    BY <1>1, SendsCommand
  <2>2. \A b \in Calls : command'[b] = k => b = c
    BY <1>8, <2>1
  <2> QED
    BY <1>1, <2>1, <2>2 DEF SubmitOK
<1>10. PendingOK'
  BY <1>1, <1>3 DEF PendingOK
<1>11. DraftIsFree'
  <2> SUFFICES ASSUME NEW j \in Commands \ {k}, Live(j)', intent'[j] = draft
               PROVE  FALSE
    BY <1>1 DEF DraftIsFree
  <2>1. Live(j) /\ intent[j] = draft
    BY <1>1, <1>3, LiveAfterSend
  <2> QED
    BY <1>1, <1>2, <2>1 DEF DraftIsFree, Commands
<1>12. UnknownIsKept'
  <2> SUFFICES ASSUME NEW j \in Commands \ {k}, Doubtful(j)'
               PROVE  FALSE
    BY <1>1 DEF UnknownIsKept, Carriers, Doubtful
  <2>1. Doubtful(j)
    BY <1>1, LiveAfterSend
  <2> QED
    BY <1>1, <1>2, <2>1 DEF UnknownIsKept, Carriers, Doubtful, Commands
<1> QED
  BY <1>4, <1>6, <1>7, <1>9, <1>10, <1>11, <1>12 DEF PInv

\* The command kept is sent again, for the draft it was made from.
LEMMA RetryOK ==
  ASSUME CInv, CInv', PInv, NEW c \in Calls, Retry(c) PROVE PInv'
<1> DEFINE k == pending
<1>1. /\ ~disposed /\ step = "none" /\ k # 0
      /\ Await(c, "submit", TRUE, k)
      /\ prior' = TRUE
      /\ status' = "loading" /\ error' = "none"
      /\ UNCHANGED <<creation, pending, disposed, draft, submitted, intent>>
  BY DEF Retry, Free, Loading
<1>2. /\ TypeOK /\ DraftsOK /\ CarriersOK /\ PendingOK /\ DraftIsFree /\ UnknownIsKept
      /\ k \in Commands
  BY <1>1 DEF PInv, TypeOK
<1>3. /\ command' = [command EXCEPT ![c] = k] /\ step' = "submit" /\ mine' = c
      /\ command'[c] = k
  BY <1>1, <1>2, SendsCommand
<1>4. TypeOK'
  BY <1>1, <1>2, <1>3 DEF TypeOK, CInv, Steps, Statuses, Errors
<1>5. DraftsOK'
  BY <1>1, <1>2 DEF DraftsOK
<1>6. intent'[k] # 0 /\ \A j \in Commands : intent'[j] = intent[j]
  BY <1>1, <1>2 DEF PendingOK, TypeOK, Drafts
<1>7. CarriersOK'
  BY <1>1, <1>2, <1>6, CarriersAfterSend
<1>8. SubmitOK'
  BY <1>1, <1>2, <1>3 DEF SubmitOK
<1>9. PendingOK'
  BY <1>1, <1>2 DEF PendingOK
<1>10. DraftIsFree'
  <2> SUFFICES ASSUME NEW j \in Commands \ {k}, Live(j)', intent'[j] = draft
               PROVE  FALSE
    BY <1>1 DEF DraftIsFree
  <2>1. Live(j) /\ intent[j] = draft
    BY <1>1, <1>2, <1>6, LiveAfterSend
  <2> QED
    BY <1>1, <1>2, <2>1 DEF DraftIsFree, Commands
<1>11. UnknownIsKept'
  <2> SUFFICES ASSUME NEW j \in Commands \ {k}, Doubtful(j)'
               PROVE  FALSE
    BY <1>1 DEF UnknownIsKept, Carriers, Doubtful
  <2>1. Doubtful(j)
    BY <1>1, <1>2, LiveAfterSend
  <2> QED
    BY <1>1, <1>2, <2>1 DEF UnknownIsKept, Carriers, Doubtful, Commands
<1> QED
  BY <1>4, <1>5, <1>7, <1>8, <1>9, <1>10, <1>11 DEF PInv

-----------------------------------------------------------------------------
(* Steps of the client under the panel *)

\* What a step of the client may do to a call: it stays made, settles for good, and
\* moves or is executed only while it may be.
Advances(c) ==
  /\ call'[c].phase = "idle" <=> call[c].phase = "idle"
  /\ call'[c].phase \in Waiting => call[c].phase \in Waiting
  /\ call[c].phase = "done" => call'[c].phase = "done" /\ call'[c].result = call[c].result
  /\ Moving(c)' => Moving(c)
  /\ call'[c].executed > 0 => Moving(c) \/ call[c].executed > 0

\* A call nothing happens to does so.
LEMMA StaysAdvances ==
  ASSUME NEW c \in Calls, call'[c] = call[c], c \in late' => c \in late
  PROVE  Advances(c)
  BY DEF Advances, Moving

\* A call that settles does so.
LEMMA SettleAdvances ==
  ASSUME CInv, NEW c \in Calls, NEW r, Settle(c, r), call[c].phase \in Waiting,
         c \in late' => Moving(c)
  PROVE  Advances(c)
<1>1. /\ call'[c].phase = "done" /\ call'[c].executed = call[c].executed
  BY DEF Settle, CInv, ClientTypeOK, Call
<1> QED
  BY <1>1 DEF Advances, Moving, Waiting

\* Every call does so in a step of the client or of the backend.
LEMMA ClientAdvances == ASSUME CInv, ClientStep, NEW d \in Calls PROVE Advances(d)
<1>1. CASE Expire
  BY <1>1, StaysAdvances DEF Expire
<1>2. ASSUME NEW c \in Calls, c # d, Progress(c) \/ Abort(c) \/ Serve(c) \/ ServeLate(c)
      PROVE  Advances(d)
  <2>1. call'[d] = call[d]
    BY <1>2 DEF Progress, Begin, Receive, FetchRejects, Confirm, ConfirmFails, Refreshed,
                RefreshFails, Abort, Serve, ServeLate, Executed, Settle, CInv, ClientTypeOK
  <2>2. d \in late' => d \in late
    BY <1>2 DEF Progress, Begin, Receive, FetchRejects, Confirm, ConfirmFails, Refreshed,
                RefreshFails, Abort, Serve, ServeLate
  <2> QED
    BY <2>1, <2>2, StaysAdvances
<1>3. CASE Begin(d)
  <2>1. call[d].phase = "queued" /\ late' = late
    BY <1>3 DEF Begin
  <2>2. CASE Stopped(d)
    BY <1>3, <2>1, <2>2, SettleAdvances DEF Begin, Waiting, Moving
  <2>3. CASE ~Stopped(d)
    <3>1. call'[d].phase = "first" /\ call'[d].executed = call[d].executed
      BY <1>3, <2>3 DEF Begin, CInv, ClientTypeOK, Call
    <3> QED
      BY <2>1, <3>1 DEF Advances, Waiting, Moving
  <2> QED
    BY <2>2, <2>3
<1>4. CASE Receive(d)
  <2>1. call[d].phase \in OnWire /\ late' = late /\ Moving(d) /\ call[d].phase \in Waiting
    BY <1>4 DEF Receive, OnWire, Moving, Waiting
  <2>2. CASE \E r : Settle(d, r)
    BY <2>1, <2>2, SettleAdvances
  <2>3. CASE \E p \in {"confirm", "refresh"} :
               call' = [call EXCEPT ![d].phase = p, ![d].answer = "none"]
    <3>1. call'[d].phase \in {"confirm", "refresh"} /\ call'[d].executed = call[d].executed
      BY <2>3 DEF CInv, ClientTypeOK, Call
    <3> QED
      BY <2>1, <3>1 DEF Advances, Waiting, Moving
  <2> QED
    BY <1>4, <2>2, <2>3 DEF Receive
<1>5. CASE FetchRejects(d)
  BY <1>5, SettleAdvances DEF FetchRejects, OnWire, Waiting, Moving
<1>6. CASE Confirm(d)
  <2>1. /\ call[d].phase = "confirm" /\ late' = late
        /\ call'[d].phase = "second" /\ call'[d].executed = call[d].executed
    BY <1>6 DEF Confirm, CInv, ClientTypeOK, Call
  <2> QED
    BY <2>1 DEF Advances, Waiting, Moving
<1>7. CASE ConfirmFails(d) \/ Refreshed(d) \/ RefreshFails(d)
  <2>1. call[d].phase \in Waiting /\ late' = late /\ \E r : Settle(d, r)
    BY <1>7 DEF ConfirmFails, Refreshed, RefreshFails, Waiting
  <2> QED
    BY <2>1, SettleAdvances DEF Moving
<1>8. CASE Abort(d)
  <2>1. /\ call'[d].phase = call[d].phase /\ late' = late
        /\ call'[d].executed = call[d].executed /\ call'[d].result = call[d].result
    BY <1>8 DEF Abort, CInv, ClientTypeOK, Call
  <2> QED
    BY <2>1 DEF Advances, Moving
<1>9. CASE Serve(d)
  <2>1. /\ call[d].phase \in OnWire /\ late' = late
        /\ call'[d].phase = call[d].phase
    BY <1>9 DEF Serve, Executed, CInv, ClientTypeOK, Call
  <2> QED
    BY <2>1 DEF Advances, Moving, OnWire
<1>10. CASE ServeLate(d)
  <2>1. /\ d \in late /\ call'[d].phase = call[d].phase /\ call'[d].result = call[d].result
    BY <1>10 DEF ServeLate, Executed, CInv, ClientTypeOK, Call
  <2> QED
    BY <2>1 DEF Advances, Moving
<1> QED
  BY <1>1, <1>2, <1>3, <1>4, <1>5, <1>6, <1>7, <1>8, <1>9, <1>10 DEF ClientStep, Progress

\* The client makes a step, or the session ends: an outcome can become unknown only in
\* the call the panel awaits, whose command it keeps.
LEMMA ClientOK == ASSUME CInv, CInv', PInv, Client PROVE PInv'
<1>1. /\ ClientStep
      /\ UNCHANGED <<creation, step, prior, mine, draft, submitted, command, intent>>
      /\ \/ disposed' = TRUE /\ pending' = 0 /\ status' = "idle" /\ error' = "none"
         \/ UNCHANGED <<disposed, pending, status, error>>
  BY DEF Client
<1>2. \A c \in Calls : Advances(c)
  BY <1>1, ClientAdvances
<1>3. TypeOK'
  BY <1>1 DEF PInv, TypeOK, CInv, Statuses, Errors
<1>4. DraftsOK'
  BY <1>1 DEF PInv, DraftsOK
<1>5. CarriersOK'
  BY <1>1, <1>2 DEF PInv, CarriersOK, Advances
<1>6. SubmitOK' /\ PendingOK'
  BY <1>1 DEF PInv, SubmitOK, PendingOK
<1>7. \A k \in Commands : Live(k)' => Live(k)
  BY <1>1, <1>2 DEF Live, Advances
<1>8. DraftIsFree'
  BY <1>1, <1>7 DEF PInv, DraftIsFree
<1>9. UnknownIsKept'
  <2> SUFFICES ASSUME NEW k \in Commands, ~disposed', Doubtful(k)' PROVE pending' = k
    BY DEF UnknownIsKept, Carriers, Doubtful
  <2>1. ~disposed /\ pending' = pending /\ disposed \in BOOLEAN
    BY <1>1 DEF PInv, TypeOK
  <2>2. PICK c \in Calls : command[c] = k /\ call'[c].result = "unknown"
    BY <1>1 DEF Doubtful
  <2>3. call'[c].phase = "done" /\ call[c] \in Call
    BY <2>2 DEF CInv, CallOK, ClientTypeOK
  <2>4. \A b \in Calls : command[b] = k => call[b].result # "ok"
    <3> SUFFICES ASSUME NEW b \in Calls, command[b] = k, call[b].result = "ok" PROVE FALSE
      OBVIOUS
    <3>1. call[b].phase = "done"
      BY DEF CInv, CallOK
    <3>2. call'[b].result = "ok"
      BY <1>2, <3>1 DEF Advances
    <3> QED
      BY <1>1, <3>2 DEF Doubtful
  <2>5. CASE call[c].phase = "done"
    <3>1. call[c].result = "unknown"
      BY <1>2, <2>2, <2>5 DEF Advances
    <3> QED
      BY <2>1, <2>2, <2>4, <3>1 DEF PInv, UnknownIsKept, Carriers
  <2>6. CASE call[c].phase # "done"
    <3>1. call[c].phase \in Waiting
      BY <1>2, <2>3, <2>6 DEF Advances, Call
    <3>2. step = "submit" /\ mine = c
      BY <2>2, <3>1 DEF PInv, CarriersOK, Commands
    <3> QED
      BY <2>1, <2>2, <3>2 DEF PInv, SubmitOK
  <2> QED
    BY <2>5, <2>6
<1> QED
  BY <1>3, <1>4, <1>5, <1>6, <1>8, <1>9 DEF PInv

-----------------------------------------------------------------------------
(* The properties of the panel *)

\* The panel begins with its invariant.
LEMMA PanelInitOK == ASSUME Init PROVE PInv
<1>1. CInv
  BY ClientInitOK DEF Init
<1>2. TypeOK
  <2>1. creation \in BOOLEAN /\ disposed \in BOOLEAN /\ prior \in BOOLEAN /\ submitted \in BOOLEAN
    BY Zenon DEF Init
  <2>2. status \in Statuses
    BY DEF Init, Statuses
  <2>3. /\ command \in [Calls -> Commands \cup {0}] /\ intent \in [Commands -> Drafts \cup {0}]
        /\ error \in Errors /\ step \in Steps /\ draft \in Drafts
        /\ pending \in Commands \cup {0} /\ mine \in Calls \cup {0}
    BY DEF Init, Errors, Steps, Drafts
  <2> QED
    BY <1>1, <2>1, <2>2, <2>3 DEF TypeOK, CInv
<1>3. DraftsOK /\ CarriersOK /\ SubmitOK /\ PendingOK
  BY DEF Init, DraftsOK, CarriersOK, SubmitOK, PendingOK, Commands
<1>4. \A k \in Commands : Carriers(k) = {} /\ ~Live(k)
  BY DEF Init, Carriers, Live, Commands
<1> QED
  BY <1>2, <1>3, <1>4 DEF PInv, DraftIsFree, UnknownIsKept

\* Every step keeps it.
LEMMA PanelStepOK == ASSUME CInv, CInv', PInv, [Next]_vars PROVE PInv'
<1>1. CASE UNCHANGED vars
  <2>1. UNCHANGED ctlVars /\ UNCHANGED clientVars
    BY <1>1 DEF vars
  <2>2. CommandsKept
    BY <2>1, KeptQuiet DEF ctlVars
  <2>3. TypeOK'
    BY <2>1 DEF PInv, TypeOK, CInv, ctlVars
  <2>4. DraftsOK' /\ PendingOK' /\ SubmitOK' /\ CarriersOK'
    BY <2>1, <2>2, CarriersKept DEF PInv, DraftsOK, PendingOK, SubmitOK, ctlVars
  <2>5. DraftIsFree'
    BY <2>1, <2>2, LiveKept DEF PInv, DraftIsFree, ctlVars
  <2>6. UnknownIsKept'
    BY <2>1 DEF PInv, UnknownIsKept, Carriers, ctlVars, clientVars
  <2> QED
    BY <2>3, <2>4, <2>5, <2>6 DEF PInv
<1>2. ASSUME NEW c \in Calls,
             Load(c) \/ Retry(c) \/ Mutate(c) \/ OtherCall(c) \/ \E k \in Commands : Issue(c, k)
      PROVE  PInv'
  BY <1>2, BeginAsideOK, RetryOK, OtherCallOK, IssueOK
<1>3. CASE React
  BY <1>3, SubmitDoneOK, SubmitFailsOK, MutateDoneOK, EndingsOK DEF React
<1>4. CASE IssueInvalid \/ Dispose \/ Client
  BY <1>4, IssueInvalidOK, DisposeOK, ClientOK
<1> QED
  BY <1>1, <1>2, <1>3, <1>4 DEF Next

\* The invariant of the panel and its client.
LEMMA PInvInvariant == Spec => [](CInv /\ PInv)
<1>1. Init => PInv
  BY PanelInitOK
<1>2. PInv /\ CInv /\ CInv' /\ [Next]_vars => PInv'
  BY PanelStepOK
<1> QED
  BY <1>1, <1>2, CInvInvariant, PTL DEF Spec

\* Every variable of the panel keeps its type; there is always a draft for the form.
THEOREM TypeCorrect == Spec => []TypeOK
<1>1. PInv => TypeOK
  BY DEF PInv
<1> QED
  BY <1>1, PInvInvariant, PTL

\* A batch of unknown outcome is kept until an attempt succeeds or the panel is left,
\* however many attempts and other calls there are.
THEOREM UnknownsAreKept == Spec => []UnknownIsKept
<1>1. PInv => UnknownIsKept
  BY DEF PInv
<1> QED
  BY <1>1, PInvInvariant, PTL
=============================================================================
