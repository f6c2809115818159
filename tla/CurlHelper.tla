----------------------------- MODULE CurlHelper -----------------------------
(***************************************************************************)
(* src/curlHelper.cpp: curl_transcribe_audio, called by any number of pool *)
(* threads at once, with its retry loop, its rate limiter, and the globals *)
(* apiErrorCount and errorTimestamps, which no mutex protects: an          *)
(* increment is a load and a store, and two push_backs at a time are a     *)
(* data race of which the process may die.  Response bodies are told apart  *)
(* as far as the code does it.                                             *)
(***************************************************************************)
EXTENDS Naturals, FiniteSets, FiniteSetsExt

CONSTANTS
  Callers,      \* the threads that call curl_transcribe_audio
  MaxRetries,   \* MAX_RETRIES
  MaxCalls      \* BOUND: calls per thread

ASSUME LimitAssumption == /\ IsFiniteSet(Callers) /\ MaxCalls \in Nat
                          /\ MaxRetries \in Nat

VARIABLES
  call,               \* each thread's call: its locals and how it ended
  requestTimestamps,  \* the length of requestTimestamps: nothing appends to it
  errorTimestamps,    \* the length of errorTimestamps
  apiErrorCount,      \* apiErrorCount
  reported,           \* API errors received so far (history)
  alive               \* the process has not ended

globalVars == <<requestTimestamps, errorTimestamps, apiErrorCount>>
vars == <<call, globalVars, reported, alive>>

Replies == {"bare",    \* the phrase "Thank you for watching", nothing else
            "empty",   \* no body
            "listed",  \* an error whose text is in apiErrorMessages
            "other"}   \* all else: transcriptions, and JSON with the phrase
                       \* in it or with another error

Outcomes == {"none", "returned", "exception", "exit"}
PC == {"outside", "looping", "sent", "silent", "loading", "storing", "pushing", "failed"}

\* A call: where it is, the calls its thread has made, its retries and
\* requests, what it has loaded of apiErrorCount, and how it ended.
Calls == [pc : PC, made : 0 .. MaxCalls, retry : 0 .. MaxRetries,
          sent : 0 .. MaxRetries + 1, loaded : Nat, outcome : Outcomes]

\* Each variable has its type; a call goes round at most MAX_RETRIES times.
TypeOK ==
  /\ call \in [Callers -> Calls]
  /\ {requestTimestamps, errorTimestamps, apiErrorCount, reported} \subseteq Nat
  /\ alive \in BOOLEAN

Init ==
  /\ call = [t \in Callers |-> [pc |-> "outside", made |-> 0, retry |-> 0,
                                sent |-> 0, loaded |-> 0, outcome |-> "none"]]
  /\ requestTimestamps = 0
  /\ errorTimestamps = 0 /\ apiErrorCount = 0 /\ reported = 0
  /\ alive = TRUE

-----------------------------------------------------------------------------
(* What the code decides, and the steps of its loop.  An operator with a   *)
(* suffix _X is the operator before the underscore as a plausible bug X    *)
(* would leave it; no action uses it.                                      *)

containsApiError(r) == r = "listed"

\* Compares the whole body, which is JSON, with the phrase.
isValidResponse(r) == r \notin {"empty", "bare"}

\* The loop goes round.
Again(t) == call' = [call EXCEPT ![t].pc = "looping", ![t].loaded = 0, ![t].retry = @ + 1]

MoreRetries(t) == call[t].retry < MaxRetries

\* handleRateLimiting: n requests have left the window, and as many errors
\* go with them.  If as many as the limit are left it sleeps, and then goes
\* on; but nothing enters a request into requestTimestamps.  (The limit,
\* MAX_REQUESTS_PER_MINUTE, is not 0: with 0 the code would read the front of
\* the empty deque, which is undefined.)
handleRateLimiting ==
  \E n \in 0 .. requestTimestamps :
    LET e == Min({n, errorTimestamps})
    IN  /\ requestTimestamps' = requestTimestamps - n
        /\ errorTimestamps' = errorTimestamps - e
        /\ apiErrorCount' = apiErrorCount - e

At(t, label) == alive /\ call[t].pc = label
Goto(t, label) == call' = [call EXCEPT ![t].pc = label]
Ends(t, o) == call' = [call EXCEPT ![t].pc = "outside", ![t].outcome = o, ![t].loaded = 0]

-----------------------------------------------------------------------------

\* The call begins, or ends at once: checkFileValidity throws.
Call(t) ==
  /\ At(t, "outside")
  /\ call[t].made < MaxCalls
  /\ \E readable \in BOOLEAN :
       call' = [call EXCEPT ![t].made = @ + 1, ![t].retry = 0, ![t].sent = 0,
                            ![t].pc = IF readable THEN "looping" ELSE "outside",
                            ![t].outcome = IF readable THEN "none" ELSE "exception"]
  /\ UNCHANGED <<globalVars, reported, alive>>

\* handleRateLimiting lets the thread pass, and the request goes out (BOUND:
\* requests of a call are counted up to one more than are allowed).
Send(t) ==
  /\ At(t, "looping") /\ MoreRetries(t)
  /\ handleRateLimiting
  /\ call' = [call EXCEPT ![t].pc = "sent", ![t].sent = IF @ <= MaxRetries THEN @ + 1 ELSE @]
  /\ UNCHANGED <<reported, alive>>

\* A refused body is asked for again, without counting as an attempt.
Receive_RefusedIsFree(t) ==
  /\ At(t, "sent")
  /\ \E r \in Replies :
       \/ /\ ~containsApiError(r) /\ isValidResponse(r)
          /\ Ends(t, "returned") /\ UNCHANGED reported
       \/ /\ ~containsApiError(r) /\ ~isValidResponse(r)
          /\ Goto(t, "looping") /\ UNCHANGED reported
       \/ /\ containsApiError(r)
          /\ Goto(t, "loading") /\ reported' = reported + 1
  /\ UNCHANGED <<globalVars, alive>>

\* A body arrives: it is returned, refused, or an error to be counted.
Receive(t) ==
  /\ At(t, "sent")
  /\ \E r \in Replies :
       \/ /\ ~containsApiError(r) /\ isValidResponse(r)
          /\ Ends(t, "returned") /\ UNCHANGED reported
       \/ /\ ~containsApiError(r) /\ ~isValidResponse(r)
          /\ Again(t) /\ UNCHANGED reported
       \/ /\ containsApiError(r)
          /\ Goto(t, "loading") /\ reported' = reported + 1
  /\ UNCHANGED <<globalVars, alive>>

\* The server accepts the connection and never answers.  No timeout is set:
\* the thread stays in curl_easy_perform.
Silent(t) ==
  /\ At(t, "sent")
  /\ Goto(t, "silent")
  /\ UNCHANGED <<globalVars, reported, alive>>

LoadCount_Twice(t) ==
  /\ At(t, "loading")
  /\ call' = [call EXCEPT ![t].pc = "storing", ![t].loaded = apiErrorCount + 1]
  /\ UNCHANGED <<globalVars, reported, alive>>

\* apiErrorCount++, the load ...
LoadCount(t) ==
  /\ At(t, "loading")
  /\ call' = [call EXCEPT ![t].pc = "storing", ![t].loaded = apiErrorCount]
  /\ UNCHANGED <<globalVars, reported, alive>>

\* ... and the store.
StoreCount(t) ==
  /\ At(t, "storing")
  /\ apiErrorCount' = call[t].loaded + 1
  /\ Goto(t, "pushing")
  /\ UNCHANGED <<requestTimestamps, errorTimestamps, reported, alive>>

\* errorTimestamps.push_back, and the loop goes round.
PushError(t) ==
  /\ At(t, "pushing")
  /\ errorTimestamps' = errorTimestamps + 1
  /\ Again(t)
  /\ UNCHANGED <<requestTimestamps, apiErrorCount, reported, alive>>

\* Another thread is inside push_back too: an element is lost, or the deque
\* is corrupted and the process dies.
PushRace(t) ==
  /\ At(t, "pushing")
  /\ \E u \in Callers \ {t} : call[u].pc = "pushing"
  /\ alive' \in BOOLEAN
  /\ Again(t)
  /\ UNCHANGED <<globalVars, reported>>

\* The loop is left: curl_easy_init or curl_easy_perform failed (the network,
\* or the file vanished after checkFileValidity) and makes an exception, which
\* is caught outside the loop; or the retries are used up.
LeaveLoop(t) ==
  /\ At(t, "sent") \/ (At(t, "looping") /\ ~MoreRetries(t))
  /\ Goto(t, "failed")
  /\ UNCHANGED <<globalVars, reported, alive>>

\* Whether apiErrorCount is above maxRequestsPerMinute / 4 or not: exit.
Exit(t) ==
  /\ At(t, "failed")
  /\ alive' = FALSE
  /\ Ends(t, "exit")
  /\ UNCHANGED <<globalVars, reported>>

Step(t) == \/ Send(t) \/ Receive(t) \/ LoadCount(t) \/ StoreCount(t)
           \/ PushError(t) \/ LeaveLoop(t) \/ Exit(t)

Next == \E t \in Callers : Call(t) \/ Step(t) \/ Silent(t) \/ PushRace(t)

Spec == Init /\ [][Next]_vars

\* Threads run, and a request that does not stay silent is answered or fails.
FairSpec == Spec /\ \A t \in Callers : WF_vars(Step(t))

-----------------------------------------------------------------------------
(* Properties *)

\* However loads and stores of apiErrorCount interleave, increments are lost
\* but none is made up: the count that is compared with the threshold never
\* exceeds the errors the API returned.
NeverOvercounts ==
  apiErrorCount + Cardinality({t \in Callers : call[t].pc \in {"loading", "storing"}})
    <= reported

\* However the replies are mixed - errors, empty bodies, refusals - a call
\* costs at most MAX_RETRIES requests.
RequestsPerCall == \A t \in Callers : call[t].sent <= MaxRetries

\* A call never goes round for ever: it returns, or it ends the process.  A
\* silent server holds the calls it leaves unanswered, and no other.
EveryCallEnds ==
  \A t \in Callers : call[t].pc = "looping" ~> call[t].pc \in {"outside", "silent"} \/ ~alive
=============================================================================
