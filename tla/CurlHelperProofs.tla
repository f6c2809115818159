-------------------------- MODULE CurlHelperProofs --------------------------
(***************************************************************************)
(* Theorems about CurlHelper.tla, for any number of threads, of calls and  *)
(* of retries: types, the requests a call costs, and the count of API      *)
(* errors, which loses increments and never makes one up.                  *)
(***************************************************************************)
EXTENDS CurlHelper, FiniteSetTheorems, TLAPS

-----------------------------------------------------------------------------
(* The inductive invariant *)

\* The threads whose error is reported and not counted yet.
Pending == {t \in Callers : call[t].pc \in {"loading", "storing"}}

\* A call has sent one request for each time round, and none too many.
Attempts ==
  \A t \in Callers :
    /\ call[t].sent <= MaxRetries
    /\ call[t].pc = "looping" => call[t].sent = call[t].retry
    /\ call[t].pc \in {"sent", "loading", "storing", "pushing"} =>
         call[t].sent = call[t].retry + 1

\* Nothing enters a request, so no error ever leaves the window.
NothingRecorded == requestTimestamps = 0

\* Whatever a thread is about to store counts its own error and no more than
\* the errors that were reported and are not pending.
Counted ==
  /\ apiErrorCount + Cardinality(Pending) <= reported
  /\ \A t \in Callers : call[t].pc = "storing" =>
       call[t].loaded + Cardinality(Pending) <= reported

IInv == TypeOK /\ Attempts /\ NothingRecorded /\ Counted
-----------------------------------------------------------------------------
(* Every step keeps it *)

\* The threads that are not pending pass by the count.
LEMMA NotPending ==
  ASSUME Counted, NEW t \in Callers, t \notin Pending, t \notin Pending',
         \A u \in Callers \ {t} : call'[u] = call[u],
         apiErrorCount' = apiErrorCount, reported' = reported
  PROVE  Counted'
<1>1. Pending' = Pending
  BY DEF Pending
<1> QED BY <1>1 DEF Counted, Pending

\* As many threads as there are may be pending.
LEMMA PendingCounts == IsFiniteSet(Pending) /\ Cardinality(Pending) \in Nat
BY LimitAssumption, FS_Subset, FS_CardinalityType DEF Pending

\* A call that is ended or goes round is still a call, and no other is touched.
LEMMA EndsOne ==
  ASSUME TypeOK, NEW t \in Callers, NEW o \in Outcomes, Ends(t, o)
  PROVE  /\ call' \in [Callers -> Calls]
         /\ \A u \in Callers \ {t} : call'[u] = call[u]
         /\ call'[t].pc = "outside" /\ call'[t].sent = call[t].sent
<1> DEFINE c == [call[t] EXCEPT !.pc = "outside", !.outcome = o, !.loaded = 0]
<1>1. c \in Calls
  BY DEF TypeOK, Calls, PC
<1>2. call' = [call EXCEPT ![t] = c]
  BY DEF TypeOK, Ends, Calls
<1>3. c.pc = "outside" /\ c.sent = call[t].sent
  BY DEF TypeOK, Calls
<1> QED BY <1>1, <1>2, <1>3 DEF TypeOK

LEMMA AgainOne ==
  ASSUME TypeOK, NEW t \in Callers, call[t].retry < MaxRetries, Again(t)
  PROVE  /\ call' \in [Callers -> Calls]
         /\ \A u \in Callers \ {t} : call'[u] = call[u]
         /\ call'[t].pc = "looping" /\ call'[t].sent = call[t].sent
         /\ call'[t].retry = call[t].retry + 1
<1> DEFINE c == [call[t] EXCEPT !.pc = "looping", !.loaded = 0, !.retry = @ + 1]
<1>0. call[t] \in Calls /\ call[t].retry + 1 \in 0 .. MaxRetries /\ "looping" \in PC
  BY LimitAssumption DEF TypeOK, Calls, PC
<1>1. c \in Calls
  BY <1>0 DEF Calls
<1>2. call' = [call EXCEPT ![t] = c]
  BY DEF TypeOK, Again, Calls
<1>3. c.pc = "looping" /\ c.sent = call[t].sent /\ c.retry = call[t].retry + 1
  BY DEF TypeOK, Calls
<1> QED BY <1>1, <1>2, <1>3 DEF TypeOK

\* As no request is recorded, the limiter forgets no error.
LEMMA LimiterForgetsNothing ==
  ASSUME TypeOK, NothingRecorded, handleRateLimiting
  PROVE  requestTimestamps' = 0 /\ errorTimestamps' = errorTimestamps
           /\ apiErrorCount' = apiErrorCount
<1>1. PICK n \in 0 .. requestTimestamps :
        LET e == Min({n, errorTimestamps})
        IN  /\ requestTimestamps' = requestTimestamps - n
            /\ errorTimestamps' = errorTimestamps - e
            /\ apiErrorCount' = apiErrorCount - e
  BY DEF handleRateLimiting
<1>2. n = 0
  BY DEF NothingRecorded
<1>3. Min({0, errorTimestamps}) = 0
  BY DEF Min, TypeOK
<1> QED BY <1>1, <1>2, <1>3 DEF TypeOK, NothingRecorded

LEMMA Initially == Init => IInv
<1> SUFFICES ASSUME Init PROVE IInv
  OBVIOUS
<1>1. TypeOK /\ Attempts /\ NothingRecorded
  BY LimitAssumption DEF Init, TypeOK, Attempts, NothingRecorded, Calls, PC, Outcomes
<1>2. Pending = {}
  BY DEF Init, Pending
<1>3. Counted
  BY <1>2, FS_EmptySet DEF Init, Counted
<1> QED BY <1>1, <1>3 DEF IInv

\* A step of one thread, whichever it is, keeps each part of the invariant.
LEMMA StepKeeps ==
  ASSUME IInv, NEW t \in Callers, Call(t) \/ Step(t) \/ Silent(t) \/ PushRace(t)
  PROVE  IInv'
<1> USE LimitAssumption DEF IInv
<1>0. call[t] \in Calls /\ call[t].made \in Nat /\ call[t].sent \in Nat
  BY DEF TypeOK, Calls
<1>1. CASE Call(t)
  <2>1. PICK readable \in BOOLEAN :
          call' = [call EXCEPT ![t].made = @ + 1, ![t].retry = 0, ![t].sent = 0,
                               ![t].pc = IF readable THEN "looping" ELSE "outside",
                               ![t].outcome = IF readable THEN "none" ELSE "exception"]
    BY <1>1 DEF Call
  <2> DEFINE p == IF readable THEN "looping" ELSE "outside"
             o == IF readable THEN "none" ELSE "exception"
             c == [call[t] EXCEPT !.made = @ + 1, !.retry = 0, !.sent = 0,
                                  !.pc = p, !.outcome = o]
  <2>2. p \in {"looping", "outside"} /\ p \in PC /\ o \in Outcomes
    BY DEF PC, Outcomes
  <2>3. call[t].pc = "outside" /\ call[t].made < MaxCalls /\ UNCHANGED <<globalVars, reported, alive>>
    BY <1>1 DEF Call, At
  <2>4. call' = [call EXCEPT ![t] = c]
    BY <2>1 DEF TypeOK, Calls
  <2> HIDE DEF p, o
  <2>5. c \in Calls /\ c.pc = p /\ c.sent = 0 /\ c.retry = 0
    <3>1. call[t].made + 1 \in 0 .. MaxCalls /\ 0 \in 0 .. MaxRetries /\ 0 \in 0 .. MaxRetries + 1
      BY <1>0, <2>3 DEF Calls
    <3> QED BY <1>0, <2>2, <3>1 DEF Calls
  <2> HIDE DEF c
  <2>6. call' \in [Callers -> Calls] /\ call'[t] = c /\ \A u \in Callers \ {t} : call'[u] = call[u]
    BY <2>4, <2>5 DEF TypeOK
  <2>7. TypeOK' /\ NothingRecorded'
    BY <2>3, <2>6 DEF globalVars, TypeOK, NothingRecorded
  <2>8. Attempts'
    BY <2>2, <2>5, <2>6 DEF Attempts
  <2>9. Counted'
    BY <2>2, <2>3, <2>5, <2>6, NotPending DEF globalVars, Pending
  <2> QED BY <2>7, <2>8, <2>9
<1>2. CASE Send(t)
  <2>1. /\ call[t].pc = "looping" /\ call[t].retry < MaxRetries /\ UNCHANGED <<reported, alive>>
        /\ call[t].sent = call[t].retry /\ call[t].sent <= MaxRetries
    BY <1>2 DEF Send, At, MoreRetries, Attempts
  <2> DEFINE c == [call[t] EXCEPT !.pc = "sent", !.sent = @ + 1]
  <2>2. call' = [call EXCEPT ![t] = c]
    BY <1>2, <2>1 DEF Send, TypeOK, Calls
  <2>3. c \in Calls /\ c.pc = "sent" /\ c.sent = call[t].sent + 1 /\ c.retry = call[t].retry
    <3>1. call[t].sent + 1 \in 0 .. MaxRetries + 1 /\ "sent" \in PC
      BY <1>0, <2>1 DEF Calls, PC
    <3> QED BY <1>0, <3>1 DEF Calls
  <2> HIDE DEF c
  <2>4. call' \in [Callers -> Calls] /\ call'[t] = c /\ \A u \in Callers \ {t} : call'[u] = call[u]
    BY <2>2, <2>3 DEF TypeOK
  <2>5. UNCHANGED globalVars
    BY <1>2, LimiterForgetsNothing DEF Send, globalVars, NothingRecorded
  <2>6. TypeOK' /\ NothingRecorded'
    BY <2>1, <2>4, <2>5 DEF globalVars, TypeOK, NothingRecorded
  <2>7. Attempts'
    BY <1>0, <2>1, <2>3, <2>4 DEF Attempts, Calls
  <2>8. Counted'
    BY <2>1, <2>3, <2>4, <2>5, NotPending DEF globalVars, Pending
  <2> QED BY <2>6, <2>7, <2>8
<1>3. CASE Receive(t)
  <2>1. /\ call[t].pc = "sent" /\ UNCHANGED globalVars /\ UNCHANGED alive
        /\ \/ Ends(t, "returned") /\ UNCHANGED reported
           \/ Again(t) /\ UNCHANGED reported
           \/ Goto(t, "loading") /\ reported' = reported + 1
    BY <1>3 DEF Receive, At
  <2>2. CASE Ends(t, "returned") /\ UNCHANGED reported
    <3>1. TypeOK' /\ NothingRecorded' /\ Attempts'
      BY <2>1, <2>2, EndsOne DEF globalVars, TypeOK, NothingRecorded, Attempts, Outcomes
    <3>2. Counted'
      BY <2>1, <2>2, EndsOne, NotPending DEF globalVars, Pending, Outcomes
    <3> QED BY <3>1, <3>2
  <2>3. CASE Again(t) /\ UNCHANGED reported
    <3>1. call[t].retry < MaxRetries
      BY <1>0, <2>1 DEF Attempts, Calls
    <3>2. TypeOK' /\ NothingRecorded' /\ Attempts'
      BY <2>1, <2>3, <3>1, AgainOne DEF globalVars, TypeOK, NothingRecorded, Attempts
    <3>3. Counted'
      BY <2>1, <2>3, <3>1, AgainOne, NotPending DEF globalVars, Pending
    <3> QED BY <3>2, <3>3
  <2>4. CASE Goto(t, "loading") /\ reported' = reported + 1
    <3>1. TypeOK' /\ NothingRecorded' /\ Attempts'
      BY <2>1, <2>4 DEF Goto, globalVars, TypeOK, NothingRecorded, Attempts, Calls, PC, Outcomes
    <3>2. t \notin Pending /\ Pending' = Pending \cup {t}
      BY <2>1, <2>4 DEF Goto, TypeOK, Calls, Pending
    <3>3. Cardinality(Pending') = Cardinality(Pending) + 1
      BY <3>2, PendingCounts, FS_AddElement
    <3>4. Counted'
      BY <2>1, <2>4, <3>3, PendingCounts DEF Goto, globalVars, TypeOK, Calls, Counted
    <3> QED BY <3>1, <3>4
  <2> QED BY <2>1, <2>2, <2>3, <2>4
<1>4. CASE Silent(t)
  <2>1. TypeOK' /\ NothingRecorded'
    BY <1>4 DEF Silent, At, Goto, globalVars, TypeOK, NothingRecorded, Calls, PC, Outcomes
  <2>2. Attempts'
    BY <1>4 DEF Silent, At, Goto, globalVars, TypeOK, Attempts, Calls, PC, Outcomes
  <2>3. Counted'
    BY <1>4, NotPending DEF Silent, At, Goto, globalVars, TypeOK, Calls, Pending
  <2> QED BY <2>1, <2>2, <2>3
<1>5. CASE LeaveLoop(t)
  <2>1. TypeOK' /\ NothingRecorded'
    BY <1>5 DEF LeaveLoop, At, Goto, MoreRetries, globalVars, TypeOK, NothingRecorded, Calls, PC, Outcomes
  <2>2. Attempts'
    BY <1>5 DEF LeaveLoop, At, Goto, MoreRetries, globalVars, TypeOK, Attempts, Calls, PC, Outcomes
  <2>3. Counted'
    BY <1>5, NotPending DEF LeaveLoop, At, Goto, MoreRetries, globalVars, TypeOK, Calls, Pending
  <2> QED BY <2>1, <2>2, <2>3
<1>6. CASE Exit(t)
  <2>1. call[t].pc = "failed" /\ Ends(t, "exit") /\ UNCHANGED <<globalVars, reported>> /\ alive' = FALSE
    BY <1>6 DEF Exit, At
  <2>2. TypeOK' /\ NothingRecorded' /\ Attempts'
    BY <2>1, EndsOne DEF globalVars, TypeOK, NothingRecorded, Attempts, Outcomes
  <2>3. Counted'
    BY <2>1, EndsOne, NotPending DEF globalVars, Pending, Outcomes
  <2> QED BY <2>2, <2>3
<1>7. CASE PushError(t)
  <2>1. /\ call[t].pc = "pushing" /\ Again(t) /\ alive' \in BOOLEAN
        /\ errorTimestamps' \in Nat /\ UNCHANGED <<requestTimestamps, apiErrorCount, reported>>
    BY <1>7 DEF PushError, At, globalVars, TypeOK
  <2>2. call[t].retry < MaxRetries
    BY <1>0, <2>1 DEF Attempts, Calls
  <2>3. TypeOK' /\ NothingRecorded' /\ Attempts'
    BY <2>1, <2>2, AgainOne DEF TypeOK, NothingRecorded, Attempts
  <2>4. Counted'
    BY <2>1, <2>2, AgainOne, NotPending DEF Pending
  <2> QED BY <2>3, <2>4
<1>8. CASE PushRace(t)
  <2>1. /\ call[t].pc = "pushing" /\ Again(t) /\ alive' \in BOOLEAN
        /\ errorTimestamps' \in Nat /\ UNCHANGED <<requestTimestamps, apiErrorCount, reported>>
    BY <1>8 DEF PushRace, At, globalVars, TypeOK
  <2>2. call[t].retry < MaxRetries
    BY <1>0, <2>1 DEF Attempts, Calls
  <2>3. TypeOK' /\ NothingRecorded' /\ Attempts'
    BY <2>1, <2>2, AgainOne DEF TypeOK, NothingRecorded, Attempts
  <2>4. Counted'
    BY <2>1, <2>2, AgainOne, NotPending DEF Pending
  <2> QED BY <2>3, <2>4
<1>9. CASE LoadCount(t)
  <2>1. TypeOK' /\ NothingRecorded'
    BY <1>9 DEF LoadCount, At, globalVars, TypeOK, NothingRecorded, Calls, PC, Outcomes
  <2>2. Attempts'
    BY <1>9 DEF LoadCount, At, TypeOK, Attempts, Calls, PC, Outcomes
  <2>3. Pending' = Pending
    BY <1>9 DEF LoadCount, At, TypeOK, Calls, Pending
  <2>4. Counted'
    BY <1>9, <2>3 DEF LoadCount, At, globalVars, TypeOK, Calls, Counted
  <2> QED BY <2>1, <2>2, <2>4
<1>10. CASE StoreCount(t)
  <2>1. TypeOK' /\ NothingRecorded'
    BY <1>10 DEF StoreCount, At, Goto, TypeOK, NothingRecorded, Calls, PC, Outcomes
  <2>2. Attempts'
    BY <1>10 DEF StoreCount, At, Goto, TypeOK, Attempts, Calls, PC, Outcomes
  <2>3. t \in Pending /\ Pending' = Pending \ {t}
    BY <1>10 DEF StoreCount, At, Goto, TypeOK, Calls, Pending
  <2>4. Cardinality(Pending') = Cardinality(Pending) - 1
    BY <2>3, PendingCounts, FS_RemoveElement
  <2>5. Counted'
    BY <1>10, <2>1, <2>4, PendingCounts DEF StoreCount, At, Goto, TypeOK, Calls, Counted, PC
  <2> QED BY <2>1, <2>2, <2>5
<1> QED BY <1>1, <1>2, <1>3, <1>4, <1>5, <1>6, <1>7, <1>8, <1>9, <1>10 DEF Step

\* ... and so does stuttering.
LEMMA Inductive == IInv /\ [Next]_vars => IInv'
<1>1. CASE Next
  BY <1>1, StepKeeps DEF Next
<1>2. CASE UNCHANGED vars
  BY <1>2 DEF vars, globalVars, IInv, TypeOK, Attempts, NothingRecorded, Counted, Pending
<1> QED BY <1>1, <1>2

LEMMA Invariance == Spec => []IInv
BY Initially, Inductive, PTL DEF Spec

-----------------------------------------------------------------------------
(* The theorems *)

\* Every variable has its type, and no call goes round more often than
\* MAX_RETRIES.
THEOREM TypeCorrect == Spec => []TypeOK
BY Invariance, PTL DEF IInv

\* However loads and stores of apiErrorCount interleave, the count never
\* exceeds the errors the API returned.
THEOREM NeverOvercountsCorrect == Spec => []NeverOvercounts
<1>1. IInv => NeverOvercounts
  BY DEF IInv, Counted, Pending, NeverOvercounts
<1> QED BY <1>1, Invariance, PTL

\* However the replies are mixed, a call costs at most MAX_RETRIES requests.
THEOREM RequestsPerCallCorrect == Spec => []RequestsPerCall
<1>1. IInv => RequestsPerCall
  BY DEF IInv, Attempts, RequestsPerCall
<1> QED BY <1>1, Invariance, PTL
=============================================================================
