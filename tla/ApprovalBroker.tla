---------------------------- MODULE ApprovalBroker ----------------------------
(***************************************************************************)
(* policy.Broker: a proxied request whose policy says ASK waits here for a  *)
(* decision, which arrives through the management API from the dashboard or *)
(* the command line, or for the end of its context: the client went away,   *)
(* the session was revoked or its deadline passed.                          *)
(*                                                                         *)
(* Request and Resolve share the table of pending approvals under a mutex   *)
(* and a channel of one element with no lock held, so a decision and the    *)
(* end of the context can meet in any order.                                *)
(***************************************************************************)
EXTENDS Naturals, FiniteSets

CONSTANTS
  Asks,                 \* the approvals asked for, one identifier each
  Resolvers,            \* goroutines that serve POST /v1/approvals/{id}
  MaxPendingApprovals   \* maxPendingApprovals

ASSUME CapacityAssumption == MaxPendingApprovals \in Nat \ {0}

Decisions == {"allow", "redact", "block"}

VARIABLES
  pending,    \* Broker.pending
  channel,    \* what each approval's channel holds
  over,       \* approvals whose context is done
  ask,        \* where each Request stands
  outcome,    \* what it returned, an error being "refused"
  resolver,   \* what each resolver is doing
  taken       \* the decision Resolve accepted for an approval (history)

vars == <<pending, channel, over, ask, outcome, resolver, taken>>

Free == [step |-> "free"]

-----------------------------------------------------------------------------
(* Request *)

\* At capacity the finding is refused without a trace.
Request(a) ==
  /\ ask[a] = "new"
  /\ IF Cardinality(pending) >= MaxPendingApprovals
     THEN /\ ask' = [ask EXCEPT ![a] = "returned"]
          /\ outcome' = [outcome EXCEPT ![a] = "refused"]
          /\ UNCHANGED pending
     ELSE /\ ask' = [ask EXCEPT ![a] = "waiting"]
          /\ pending' = pending \cup {a}
          /\ UNCHANGED outcome
  /\ UNCHANGED <<channel, over, resolver, taken>>

\* The select: with both ready either branch is taken, so a decision that comes
\* when the context is already done may still be honoured.
Receive(a) ==
  /\ ask[a] = "waiting" /\ channel[a] # "empty"
  /\ outcome' = [outcome EXCEPT ![a] = channel[a]]
  /\ channel' = [channel EXCEPT ![a] = "empty"]
  /\ ask' = [ask EXCEPT ![a] = "leaving"]
  /\ UNCHANGED <<pending, over, resolver, taken>>

TimeOut(a) ==
  /\ ask[a] = "waiting" /\ a \in over
  /\ outcome' = [outcome EXCEPT ![a] = "refused"]
  /\ ask' = [ask EXCEPT ![a] = "leaving"]
  /\ UNCHANGED <<pending, channel, over, resolver, taken>>

\* Faulty variant: an approval that timed out stays in the table.
LeaveListed(a) ==
  /\ ask[a] = "leaving"
  /\ ask' = [ask EXCEPT ![a] = "returned"]
  /\ UNCHANGED <<pending, channel, over, outcome, resolver, taken>>

\* The deferred deletion.
Leave(a) ==
  /\ ask[a] = "leaving"
  /\ pending' = pending \ {a}
  /\ ask' = [ask EXCEPT ![a] = "returned"]
  /\ UNCHANGED <<channel, over, outcome, resolver, taken>>

-----------------------------------------------------------------------------
(* Resolve *)

\* Faulty variant: the approval is left to its Request to delete.
TakeKeeping(r, a, decision) ==
  /\ resolver[r].step = "free"
  /\ a \in pending
  /\ resolver' = [resolver EXCEPT ![r] = [step |-> "sending", ask |-> a, decision |-> decision]]
  /\ taken' = [taken EXCEPT ![a] = decision]
  /\ UNCHANGED <<pending, channel, over, ask, outcome>>

\* The approval is taken out of the table, once; an unknown one is an error.
Take(r, a, decision) ==
  /\ resolver[r].step = "free"
  /\ a \in pending
  /\ pending' = pending \ {a}
  /\ resolver' = [resolver EXCEPT ![r] = [step |-> "sending", ask |-> a, decision |-> decision]]
  /\ taken' = [taken EXCEPT ![a] = decision]
  /\ UNCHANGED <<channel, over, ask, outcome>>

\* Faulty variant: the channel has no buffer, so the Request has to be there.
SendUnbuffered(r) ==
  /\ resolver[r].step = "sending"
  /\ channel[resolver[r].ask] = "empty" /\ ask[resolver[r].ask] = "waiting"
  /\ channel' = [channel EXCEPT ![resolver[r].ask] = resolver[r].decision]
  /\ resolver' = [resolver EXCEPT ![r] = Free]
  /\ UNCHANGED <<pending, over, ask, outcome, taken>>

\* The decision goes into the channel with no lock held.
Send(r) ==
  /\ resolver[r].step = "sending"
  /\ channel[resolver[r].ask] = "empty"
  /\ channel' = [channel EXCEPT ![resolver[r].ask] = resolver[r].decision]
  /\ resolver' = [resolver EXCEPT ![r] = Free]
  /\ UNCHANGED <<pending, over, ask, outcome, taken>>

-----------------------------------------------------------------------------

\* The context of a request ends, and with it the approvals A it asks for.
Cancel(A) ==
  /\ over' = over \cup A
  /\ UNCHANGED <<pending, channel, ask, outcome, resolver, taken>>

Init ==
  /\ pending = {}
  /\ channel = [a \in Asks |-> "empty"]
  /\ over = {}
  /\ ask = [a \in Asks |-> "new"]
  /\ outcome = [a \in Asks |-> "none"]
  /\ resolver = [r \in Resolvers |-> Free]
  /\ taken = [a \in Asks |-> "none"]

Proceed(a) == Receive(a) \/ TimeOut(a) \/ Leave(a)

Next ==
  \/ \E a \in Asks : Request(a) \/ Proceed(a)
  \/ \E A \in SUBSET Asks : Cancel(A)
  \/ \E r \in Resolvers :
       \/ Send(r)
       \/ \E a \in Asks, decision \in Decisions : Take(r, a, decision)

Spec == Init /\ [][Next]_vars

\* Goroutines run on.  Nobody has to decide, and no context has to end.
Fairness ==
  /\ \A a \in Asks : WF_vars(Proceed(a))
  /\ \A r \in Resolvers : WF_vars(Send(r))

FairSpec == Spec /\ Fairness

-----------------------------------------------------------------------------
(* Properties *)

Sending(a) == {r \in Resolvers : resolver[r].step = "sending" /\ resolver[r].ask = a}

\* Types and capacity.
TypeOK ==
  /\ Cardinality(pending) <= MaxPendingApprovals
  /\ pending \subseteq Asks /\ over \subseteq Asks
  /\ channel \in [Asks -> Decisions \cup {"empty"}]
  /\ ask \in [Asks -> {"new", "waiting", "leaving", "returned"}]
  /\ outcome \in [Asks -> Decisions \cup {"none", "refused"}]
  /\ taken \in [Asks -> Decisions \cup {"none"}]
  /\ resolver \in [Resolvers -> {Free} \cup
                     [step : {"sending"}, ask : Asks, decision : Decisions]]

\* A decision is used once and for the approval it was made for: while that is in
\* the table nobody has decided it, and what was accepted is in exactly one place
\* at a time - with its resolver, in the channel, or returned by Request.
DecisionsAreUsedOnce ==
  \A a \in Asks :
    /\ a \in pending => taken[a] = "none"
    /\ outcome[a] \in Decisions => outcome[a] = taken[a]
    /\ Cardinality(Sending(a))
         + (IF channel[a] # "empty" THEN 1 ELSE 0)
         + (IF outcome[a] \in Decisions THEN 1 ELSE 0)
       = (IF taken[a] # "none" THEN 1 ELSE 0)

\* The table holds approvals somebody waits for and nothing else, so capacity
\* is not lost to requests that are gone.
PendingApprovalsAreAwaited ==
  \A a \in pending : ask[a] \in {"waiting", "leaving"}

\* Neither the one who decides nor the one who asked hangs: an accepted decision
\* is answered even when its request is gone, and a request returns once it is
\* decided or its context is done.
NobodyHangs ==
  /\ \A r \in Resolvers : resolver[r].step = "sending" ~> resolver[r].step = "free"
  /\ \A a \in Asks :
       (ask[a] # "new" /\ (taken[a] # "none" \/ a \in over)) ~> ask[a] = "returned"

=============================================================================
