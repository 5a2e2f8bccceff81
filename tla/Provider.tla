------------------------------ MODULE Provider ------------------------------
(***************************************************************************)
(* core/adapters/provider.py: the calls of one review, running at once on  *)
(* the one ProviderAdapter they share.  Everything between two awaits of   *)
(* `call` is one step: an answer or a refusal arrives, it is judged, and   *)
(* the next attempt has been sent, or a wait begun, before anyone else     *)
(* runs.  The prompt is left out; the correction appended to it decides    *)
(* nothing.                                                                *)
(***************************************************************************)
EXTENDS Integers, FiniteSets, Basics

CONSTANTS Calls,        \* the calls a review makes
          MaxAttempts,  \* MAX_ATTEMPTS
          MaxWaits,     \* MAX_RATE_LIMIT_WAITS
          Costs,        \* what one answer may be billed
          MaxTokens,    \* AUGURY_MAX_TOKENS, which may be above the headroom
          Headroom      \* most_tokens_for(provider)

ASSUME ProviderAssumption ==
    /\ IsFiniteSet(Calls)
    /\ MaxAttempts \in Nat \ {0}
    /\ MaxWaits \in Nat
    /\ Costs \subseteq Nat
    /\ MaxTokens \in Nat \ {0} /\ Headroom \in Nat \ {0}

VARIABLES state,     \* per call: where it is
          attempt,   \* per call: attempts that failed
          waited,    \* per call: rate limits slept off
          ceiling,   \* per call: the output budget it asks for, or 0
          spent,     \* per call: what it believes it has cost
          usage,     \* adapter: _usage
          billed,    \* adapter: _billed
          retries,   \* adapter: retries
          limited,   \* adapter: rate_limited
          paid,      \* history, per call: what its answers were billed
          requests   \* history, per call: requests sent

vars == <<state, attempt, waited, ceiling, spent, usage, billed, retries,
          limited, paid, requests>>

States == {"new", "asking", "sleeping", "done", "raised", "cancelled"}
Ended == {"done", "raised", "cancelled"}

\* Why an attempt failed.  "misread" is an answer that does not validate and
\* whose error, quoting it, mentions a rate limit.
Rejections == {"cut off", "invalid", "misread"}
Refusals == {"rate limited", "error"}

Least(a, b) == IF a < b THEN a ELSE b

\* The room of a call by its `ceiling`: the configured budget if for none.
RoomOf(asked) == IF asked = 0 THEN MaxTokens ELSE asked
\* _more_room
MoreRoom(current) == Least(2 * current, Headroom)

-----------------------------------------------------------------------------
TypeOK ==
    /\ state \in [Calls -> States]
    /\ attempt \in [Calls -> 0..MaxAttempts]
    /\ waited \in [Calls -> 0..MaxWaits]
    /\ ceiling \in [Calls -> 0..Headroom]
    /\ spent \in [Calls -> Nat] /\ paid \in [Calls -> Nat]
    /\ requests \in [Calls -> Nat]
    /\ usage \in Nat /\ billed \in Nat /\ retries \in Nat /\ limited \in Nat

Init ==
    /\ state = [c \in Calls |-> "new"]
    /\ attempt = [c \in Calls |-> 0]
    /\ waited = [c \in Calls |-> 0]
    /\ ceiling = [c \in Calls |-> 0]
    /\ spent = [c \in Calls |-> 0] /\ paid = [c \in Calls |-> 0]
    /\ requests = [c \in Calls |-> 0]
    /\ usage = 0 /\ billed = 0 /\ retries = 0 /\ limited = 0

\* _attempt up to its await: nothing has been billed for this request yet.
Send(c) ==
    /\ billed' = 0
    /\ requests' = [requests EXCEPT ![c] = @ + 1]

\* RateLimited.looks_like, and this call has not waited enough.
WaitsOut(c, why) ==
    /\ why \in {"rate limited", "misread"}
    /\ waited[c] < MaxWaits

\* _wait_out: neither the attempt nor the prompt changes.
Sleep(c) ==
    /\ state' = [state EXCEPT ![c] = "sleeping"]
    /\ limited' = limited + 1
    /\ UNCHANGED <<attempt, waited, ceiling, spent, retries, requests>>

\* Slip: the last failure counts as a retry too.
FailCountsLast(c, why, charge) ==
    /\ spent' = [spent EXCEPT ![c] = @ + charge]
    /\ attempt' = [attempt EXCEPT ![c] = @ + 1]
    /\ retries' = retries + 1
    /\ IF attempt[c] + 1 < MaxAttempts
       THEN Send(c) /\ UNCHANGED state
       ELSE /\ state' = [state EXCEPT ![c] = "raised"]
            /\ billed' = charge
            /\ UNCHANGED requests
    /\ UNCHANGED <<ceiling, waited, limited>>

\* A failure that counts, charged `charge`: another attempt is sent at once,
\* with more room if the answer was cut off, or the error is raised.
Fail(c, why, charge) ==
    /\ spent' = [spent EXCEPT ![c] = @ + charge]
    /\ attempt' = [attempt EXCEPT ![c] = @ + 1]
    /\ ceiling' = [ceiling EXCEPT ![c] =
                     IF why = "cut off"
                     THEN MoreRoom(RoomOf(@)) ELSE @]
    /\ IF attempt[c] + 1 < MaxAttempts
       THEN /\ retries' = retries + 1
            /\ Send(c)
            /\ UNCHANGED state
       ELSE /\ state' = [state EXCEPT ![c] = "raised"]
            /\ billed' = charge
            /\ UNCHANGED <<retries, requests>>
    /\ UNCHANGED <<waited, limited>>

\* _record: the answer is billed whether or not it will do.
Bill(c, cost) ==
    /\ usage' = usage + cost
    /\ paid' = [paid EXCEPT ![c] = @ + cost]

-----------------------------------------------------------------------------
Start(c) ==
    /\ state[c] = "new"
    /\ state' = [state EXCEPT ![c] = "asking"]
    /\ Send(c)
    /\ UNCHANGED <<attempt, waited, ceiling, spent, usage, retries, limited, paid>>

\* The answer validates.
Accept(c, cost) ==
    /\ state[c] = "asking"
    /\ Bill(c, cost)
    /\ billed' = cost
    /\ spent' = [spent EXCEPT ![c] = @ + cost]
    /\ state' = [state EXCEPT ![c] = "done"]
    /\ UNCHANGED <<attempt, waited, ceiling, retries, limited, requests>>

\* The answer is cut off, empty, or does not validate.
Reject(c, cost, why) ==
    /\ state[c] = "asking"
    /\ Bill(c, cost)
    /\ IF WaitsOut(c, why)
       THEN Sleep(c) /\ billed' = cost
       ELSE Fail(c, why, cost)

\* The request raises before there is an answer; what is charged is whatever
\* the adapter last billed.
Refuse(c, why) ==
    /\ state[c] = "asking"
    /\ IF WaitsOut(c, why)
       THEN Sleep(c) /\ UNCHANGED billed
       ELSE Fail(c, why, billed)
    /\ UNCHANGED <<usage, paid>>

\* Slip: the last wait a call is allowed never returns.
WakeButLast(c) ==
    /\ state[c] = "sleeping"
    /\ waited[c] + 1 < MaxWaits
    /\ waited' = [waited EXCEPT ![c] = @ + 1]
    /\ state' = [state EXCEPT ![c] = "asking"]
    /\ Send(c)
    /\ UNCHANGED <<attempt, ceiling, spent, usage, retries, limited, paid>>

\* The rate limit has been slept off.
Wake(c) ==
    /\ state[c] = "sleeping"
    /\ waited' = [waited EXCEPT ![c] = @ + 1]
    /\ state' = [state EXCEPT ![c] = "asking"]
    /\ Send(c)
    /\ UNCHANGED <<attempt, ceiling, spent, usage, retries, limited, paid>>

\* The task is cancelled at an await; CancelledError is no Exception, so no
\* handler of `call` sees it.
Cancel(c) ==
    /\ state[c] \in {"asking", "sleeping"}
    /\ state' = [state EXCEPT ![c] = "cancelled"]
    /\ UNCHANGED <<attempt, waited, ceiling, spent, usage, billed, retries,
                   limited, paid, requests>>

\* The client answers or raises, and a sleep ends.
Settle(c) ==
    \/ Wake(c)
    \/ \E cost \in Costs :
          Accept(c, cost) \/ \E why \in Rejections : Reject(c, cost, why)
    \/ \E why \in Refusals : Refuse(c, why)

Next == \E c \in Calls : Start(c) \/ Settle(c) \/ Cancel(c)

Fairness == \A c \in Calls : WF_vars(Start(c)) /\ WF_vars(Settle(c))

Spec == Init /\ [][Next]_vars /\ Fairness

-----------------------------------------------------------------------------
\* The attempts of a call that another attempt followed.
Retried == [c \in Calls |-> Least(attempt[c], MaxAttempts - 1)]
Asleep == {c \in Calls : state[c] = "sleeping"}
Cancelled == {c \in Calls : state[c] = "cancelled"}

\* Safety.  However the calls interleave, the adapter's totals are the sums of
\* what its calls did: the money, the retries that another attempt followed,
\* and the rate limits, counted when the sleep begins.
TotalsAgree ==
    /\ usage = Sum(paid, Calls)
    /\ retries = Sum(Retried, Calls)
    /\ LET slept == Sum(waited, Calls) + Cardinality(Asleep)
       IN  limited \in slept..(slept + Cardinality(Cancelled))

\* Safety.  A call costs the provider a bounded number of requests, whatever
\* mix of bad answers and rate limits it meets.
RequestsBounded == \A c \in Calls : requests[c] <= MaxAttempts + MaxWaits

\* Safety.  A call gives up only after MAX_ATTEMPTS requests that were not
\* waited out: a rate limit never uses up an attempt while it can be waited for.
GivesUpLast ==
    \A c \in Calls : state[c] = "raised" => requests[c] = MaxAttempts + waited[c]

\* Action property.  An answer that is cut off never costs a call room it had,
\* across every retry and every wait: but for the one time a budget configured
\* above what the provider allows comes down to that.
Eased(had, has) == RoomOf(has) < RoomOf(had) => RoomOf(had) = MaxTokens /\ RoomOf(has) = Headroom
RoomNeverShrinks ==
    [][\A c \in Calls : Eased(ceiling[c], ceiling'[c])]_vars

\* Liveness.  Every call ends, in an answer or an error.
EveryCallEnds == \A c \in Calls : <>(state[c] \in Ended)

\* Safety, as the comment in `call` has it: a call is charged "the cost this
\* attempt actually incurred", so never more than its own answers were billed.
ChargedItsOwn == \A c \in Calls : spent[c] <= paid[c]
=============================================================================
