-------------------------- MODULE ProxyRequestProofs --------------------------
(***************************************************************************)
(* The broker uses each decision once and forgets nobody who waits, for any *)
(* number of approvals, resolvers and any capacity (first part); what a     *)
(* provider receives and what a client sees was approved, for any requests, *)
(* sessions, secrets, policies, vault sizes and approvals (second part);    *)
(* and the policy's loop over its rules decides what a reading of them      *)
(* without an order decides, for any policy (third part).                   *)
(***************************************************************************)
EXTENDS ProxyRequest, FiniteSetTheorems, TLAPS

-----------------------------------------------------------------------------
(* The approval broker *)

IsSending(r, a) == resolver[r].step = "sending" /\ resolver[r].ask = a

\* The table: those in it wait and are undecided, and those who did not ask yet
\* have no trace.
TableIsFresh ==
  \A a \in Asks :
    /\ a \in pending => ask[a] \in {"waiting", "leaving"} /\ taken[a] = "none"
    /\ ask[a] = "new" => taken[a] = "none"
    /\ ask[a] \in {"new", "waiting"} => outcome[a] = "none"

\* Where an accepted decision is: with one resolver, or in the channel, or
\* returned; and what is in one of these places was accepted.
DecisionsAreHeldOnce ==
  \A a \in Asks :
    /\ channel[a] # "empty" => channel[a] = taken[a] /\ outcome[a] \notin Decisions
    /\ outcome[a] \in Decisions => outcome[a] = taken[a]
    /\ \A r \in Resolvers : IsSending(r, a) =>
         /\ resolver[r].decision = taken[a]
         /\ channel[a] = "empty" /\ outcome[a] \notin Decisions
         /\ \A p \in Resolvers : IsSending(p, a) => p = r
    /\ taken[a] # "none" =>
         \/ channel[a] # "empty" \/ outcome[a] \in Decisions
         \/ \E r \in Resolvers : IsSending(r, a)

BrokerInv == IsFiniteSet(pending) /\ TypeOK /\ TableIsFresh /\ DecisionsAreHeldOnce

\* One more or one less in a finite set.
LEMMA OneMoreOneLess ==
  ASSUME NEW S, IsFiniteSet(S), NEW x
  PROVE  /\ IsFiniteSet(S \cup {x}) /\ IsFiniteSet(S \ {x})
         /\ Cardinality(S) \in Nat
         /\ Cardinality(S \cup {x}) <= Cardinality(S) + 1
         /\ Cardinality(S \ {x}) <= Cardinality(S)
  <1>1. Cardinality(S) \in Nat
    BY FS_CardinalityType
  <1>2. /\ IsFiniteSet(S \cup {x})
        /\ Cardinality(S \cup {x}) = Cardinality(S) \/ Cardinality(S \cup {x}) = Cardinality(S) + 1
    BY FS_AddElement
  <1>3. /\ IsFiniteSet(S \ {x})
        /\ Cardinality(S \ {x}) = Cardinality(S) \/ Cardinality(S \ {x}) = Cardinality(S) - 1
    BY FS_RemoveElement
  <1> QED
    BY <1>1, <1>2, <1>3

\* A table that loses an approval stays within its capacity.
LEMMA Shrinks ==
  ASSUME IsFiniteSet(pending), Cardinality(pending) <= MaxPendingApprovals, NEW a
  PROVE  IsFiniteSet(pending \ {a}) /\ Cardinality(pending \ {a}) <= MaxPendingApprovals
  <1>1. /\ IsFiniteSet(pending \ {a}) /\ Cardinality(pending) \in Nat
        /\ Cardinality(pending \ {a}) \in Nat
        /\ Cardinality(pending \ {a}) <= Cardinality(pending)
    BY OneMoreOneLess, FS_CardinalityType
  <1> QED
    BY <1>1, CapacityAssumption

\* Nothing is asked in the beginning.
LEMMA BrokerInitInv == Init => BrokerInv
  BY CapacityAssumption, FS_EmptySet
     DEF Init, BrokerInv, TypeOK, TableIsFresh, DecisionsAreHeldOnce, Free, Decisions, IsSending

\* An approval is listed when there is room, and refused otherwise.
LEMMA RequestStep ==
  ASSUME BrokerInv, NEW a \in Asks, Request(a)
  PROVE  BrokerInv'
  <1>1. IsFiniteSet(pending') /\ Cardinality(pending') <= MaxPendingApprovals
    <2>1. CASE pending' = pending
      BY <2>1 DEF BrokerInv, TypeOK
    <2>2. CASE pending' = pending \cup {a} /\ ~(Cardinality(pending) >= MaxPendingApprovals)
      <3>1. /\ IsFiniteSet(pending \cup {a}) /\ Cardinality(pending) \in Nat
            /\ Cardinality(pending \cup {a}) \in Nat
            /\ Cardinality(pending \cup {a}) <= Cardinality(pending) + 1
        BY OneMoreOneLess, FS_CardinalityType DEF BrokerInv
      <3> QED
        BY <2>2, <3>1, CapacityAssumption
    <2> QED
      BY <2>1, <2>2 DEF Request
  <1>2. TypeOK'
    BY <1>1 DEF Request, BrokerInv, TypeOK
  <1>3. TableIsFresh'
    BY DEF Request, BrokerInv, TypeOK, TableIsFresh
  <1>4. DecisionsAreHeldOnce'
    BY DEF Request, BrokerInv, TypeOK, DecisionsAreHeldOnce, IsSending, Decisions, TableIsFresh
  <1> QED
    BY <1>1, <1>2, <1>3, <1>4 DEF BrokerInv

\* The wait ends with the decision, without one, or after either.
LEMMA ProceedStep ==
  ASSUME BrokerInv, NEW a \in Asks, Proceed(a)
  PROVE  BrokerInv'
  <1>1. IsFiniteSet(pending') /\ Cardinality(pending') <= MaxPendingApprovals
    <2>1. CASE pending' = pending
      BY <2>1 DEF BrokerInv, TypeOK
    <2>2. CASE pending' = pending \ {a}
      BY <2>2, Shrinks DEF BrokerInv, TypeOK
    <2> QED
      BY <2>1, <2>2 DEF Proceed, Receive, TimeOut, Leave
  <1>2. TypeOK'
    BY <1>1 DEF Proceed, Receive, TimeOut, Leave, BrokerInv, TypeOK
  <1>3. TableIsFresh'
    BY DEF Proceed, Receive, TimeOut, Leave, BrokerInv, TypeOK, TableIsFresh
  <1>4. DecisionsAreHeldOnce'
    <2>1. CASE Receive(a)
      BY <2>1 DEF Receive, BrokerInv, TypeOK, DecisionsAreHeldOnce, IsSending, Decisions, TableIsFresh
    <2>2. CASE TimeOut(a)
      BY <2>2 DEF TimeOut, BrokerInv, TypeOK, DecisionsAreHeldOnce, IsSending, Decisions, TableIsFresh
    <2>3. CASE Leave(a)
      BY <2>3 DEF Leave, BrokerInv, TypeOK, DecisionsAreHeldOnce, IsSending
    <2> QED
      BY <2>1, <2>2, <2>3 DEF Proceed
  <1> QED
    BY <1>1, <1>2, <1>3, <1>4 DEF BrokerInv

\* The first decision takes the approval out of the table.
LEMMA TakeStep ==
  ASSUME BrokerInv, NEW r \in Resolvers, NEW a \in Asks, NEW decision \in Decisions,
         Take(r, a, decision)
  PROVE  BrokerInv'
  <1>1. IsFiniteSet(pending') /\ Cardinality(pending') <= MaxPendingApprovals
    BY Shrinks DEF Take, BrokerInv, TypeOK
  <1>2. TypeOK'
    BY <1>1 DEF Take, BrokerInv, TypeOK
  <1>3. TableIsFresh'
    BY DEF Take, BrokerInv, TypeOK, TableIsFresh
  <1>4. /\ channel[a] = "empty" /\ outcome[a] \notin Decisions
        /\ \A p \in Resolvers : ~IsSending(p, a)
    BY DEF Take, BrokerInv, TypeOK, TableIsFresh, DecisionsAreHeldOnce, IsSending, Decisions, Free
  <1>5. \A p \in Resolvers, b \in Asks : IsSending(p, b)' <=> (IF p = r THEN b = a ELSE IsSending(p, b))
    BY DEF Take, BrokerInv, TypeOK, IsSending
  <1>6. \A p \in Resolvers : p # r => resolver'[p] = resolver[p]
    BY DEF Take, BrokerInv, TypeOK
  <1>7. resolver'[r].decision = decision /\ \A b \in Asks : taken'[b] = IF b = a THEN decision ELSE taken[b]
    BY DEF Take, BrokerInv, TypeOK
  <1>8. ~IsSending(r, a) /\ \A b \in Asks : ~IsSending(r, b)
    BY DEF Take, IsSending
  <1>9. DecisionsAreHeldOnce'
    BY <1>4, <1>5, <1>6, <1>7, <1>8 DEF Take, BrokerInv, DecisionsAreHeldOnce, Decisions
  <1> QED
    BY <1>1, <1>2, <1>3, <1>9 DEF BrokerInv

\* The decision goes where its request looks for it.
LEMMA SendStep ==
  ASSUME BrokerInv, NEW r \in Resolvers, Send(r)
  PROVE  BrokerInv'
  <1> DEFINE a == resolver[r].ask
  <1>1. a \in Asks /\ resolver[r].decision \in Decisions /\ IsSending(r, a)
    BY DEF Send, BrokerInv, TypeOK, Free, IsSending
  <1>2. TypeOK'
    BY <1>1 DEF Send, BrokerInv, TypeOK
  <1>3. TableIsFresh'
    BY DEF Send, BrokerInv, TableIsFresh
  <1>4. \A p \in Resolvers, b \in Asks : IsSending(p, b)' <=> p # r /\ IsSending(p, b)
    BY DEF Send, BrokerInv, TypeOK, IsSending, Free
  <1>5. \A p \in Resolvers : p # r => resolver'[p] = resolver[p]
    BY DEF Send, BrokerInv, TypeOK
  <1>6. \A b \in Asks : channel'[b] = IF b = a THEN resolver[r].decision ELSE channel[b]
    BY <1>1 DEF Send, BrokerInv, TypeOK
  <1>7. "empty" \notin Decisions
    BY DEF Decisions
  <1>8. \A b \in Asks : IsSending(r, b) => b = a
    BY DEF IsSending
  <1> HIDE DEF a
  <1>9. DecisionsAreHeldOnce'
    BY <1>1, <1>4, <1>5, <1>6, <1>7, <1>8 DEF Send, BrokerInv, DecisionsAreHeldOnce
  <1> QED
    BY <1>2, <1>3, <1>9 DEF BrokerInv, Send

\* Every step preserves the invariant.
LEMMA BrokerStepInv == BrokerInv /\ [Next]_vars => BrokerInv'
  <1> SUFFICES ASSUME BrokerInv, [Next]_vars PROVE BrokerInv'
    OBVIOUS
  <1>1. CASE \E a \in Asks : Request(a) \/ Proceed(a)
    BY <1>1, RequestStep, ProceedStep
  <1>2. CASE \E A \in SUBSET Asks : Cancel(A)
    BY <1>2 DEF Cancel, BrokerInv, TypeOK, TableIsFresh, DecisionsAreHeldOnce, IsSending
  <1>3. CASE \E r \in Resolvers : Send(r)
    BY <1>3, SendStep
  <1>4. CASE \E r \in Resolvers, a \in Asks, decision \in Decisions : Take(r, a, decision)
    BY <1>4, TakeStep
  <1>5. CASE UNCHANGED vars
    BY <1>5 DEF vars, BrokerInv, TypeOK, TableIsFresh, DecisionsAreHeldOnce, IsSending
  <1> QED
    BY <1>1, <1>2, <1>3, <1>4, <1>5 DEF Next

\* The invariant implies what the runs check.
LEMMA HeldOnceCounted == BrokerInv => DecisionsAreUsedOnce
  <1> SUFFICES ASSUME BrokerInv, NEW a \in Asks
               PROVE  /\ a \in pending => taken[a] = "none"
                      /\ outcome[a] \in Decisions => outcome[a] = taken[a]
                      /\ Cardinality(Sending(a))
                           + (IF channel[a] # "empty" THEN 1 ELSE 0)
                           + (IF outcome[a] \in Decisions THEN 1 ELSE 0)
                         = (IF taken[a] # "none" THEN 1 ELSE 0)
    BY DEF DecisionsAreUsedOnce
  <1>1. a \in pending => taken[a] = "none"
    BY DEF BrokerInv, TableIsFresh
  <1>2. outcome[a] \in Decisions => outcome[a] = taken[a]
    BY DEF BrokerInv, DecisionsAreHeldOnce
  <1>3. "none" \notin Decisions /\ channel[a] \in Decisions \cup {"empty"}
    BY DEF BrokerInv, TypeOK, Decisions
  <1>4. CASE \E r \in Resolvers : IsSending(r, a)
    <2>1. PICK r \in Resolvers : IsSending(r, a)
      BY <1>4
    <2>2. Sending(a) = {r} /\ channel[a] = "empty" /\ outcome[a] \notin Decisions
      BY <2>1 DEF BrokerInv, DecisionsAreHeldOnce, Sending, IsSending
    <2>3. taken[a] \in Decisions
      BY <2>1 DEF BrokerInv, TypeOK, DecisionsAreHeldOnce, IsSending, Free
    <2>4. Cardinality(Sending(a)) = 1
      BY <2>2, FS_Singleton
    <2> QED
      BY <1>1, <1>2, <1>3, <2>2, <2>3, <2>4
  <1>5. CASE ~\E r \in Resolvers : IsSending(r, a)
    <2>1. Cardinality(Sending(a)) = 0
      BY <1>5, FS_EmptySet DEF Sending, IsSending
    <2>2. channel[a] # "empty" => taken[a] # "none" /\ outcome[a] \notin Decisions
      BY <1>3 DEF BrokerInv, DecisionsAreHeldOnce
    <2>3. taken[a] # "none" => channel[a] # "empty" \/ outcome[a] \in Decisions
      BY <1>5 DEF BrokerInv, DecisionsAreHeldOnce
    <2> QED
      BY <1>1, <1>2, <1>3, <2>1, <2>2, <2>3
  <1> QED
    BY <1>4, <1>5

\* Somebody waits for everything in the table.
LEMMA FreshIsAwaited == BrokerInv => PendingApprovalsAreAwaited
  BY DEF BrokerInv, TypeOK, TableIsFresh, PendingApprovalsAreAwaited

-----------------------------------------------------------------------------

\* Every place of a decision excludes the others, in every behaviour.
THEOREM BrokerInvariant == Spec => []BrokerInv
  BY BrokerInitInv, BrokerStepInv, PTL DEF Spec

\* No decision is used twice, lost or used for another approval, whichever of
\* decision, timeout and deletion come first (policy/store.go:178-229).
THEOREM DecidedOnce == Spec => []DecisionsAreUsedOnce
  BY BrokerInvariant, HeldOnceCounted, PTL

\* Requests that are gone take no room in the table.
THEOREM CapacityIsReturned == Spec => []PendingApprovalsAreAwaited
  BY BrokerInvariant, FreshIsAwaited, PTL

-----------------------------------------------------------------------------
(* Proxied requests *)

Received == Secrets \cup Placeholders
Written == Received \cup {Redacted}

\* What the fields of a handler hold.
Bodies == Seq(Received)
Answered == Seq(Written)
Steps == {"new", "admitted", "processing", "sent", "answering", "leaving", "done"}
Tallies == Seq({"allow", "redact"})
MaybeBody == Bodies \cup {Nothing}
MaybePolicy == Engines \cup {Nothing}
Events == {Nothing} \cup [action : Actions, findings : Nat]

Handlers ==
  [step : Steps, kind : Kinds, content : Seq(Secrets), body : Bodies,
   engine : MaybePolicy, at : Nat, vault : SUBSET Secrets,
   upstream : MaybeBody, items : Bodies, answer : Answered,
   shown : Answered, streaming : BOOLEAN, round : Nat, tally : Tallies, event : Events]

\* A finding of the body is cleared when its placeholder replaces it, or somebody
\* who may let it pass did.
Cleared(r, i, sent) ==
  \/ sent = Placeholder(r, req[r].content[i]) /\ req[r].content[i] \in req[r].vault
  \/ sent = req[r].content[i] /\ Allowed(r, req[r].content[i], <<r, "request", i, 1>>)

\* The pipeline works from the last finding to the first: those behind it are
\* cleared, those before it are as the client sent them.
BodyIsClearedBehind(r) ==
  req[r].step \in {"admitted", "processing"} =>
    /\ req[r].upstream = Nothing
    /\ Len(req[r].body) = Len(req[r].content) /\ req[r].at <= Len(req[r].content)
    /\ \A i \in 1 .. Len(req[r].content) :
         IF i <= req[r].at THEN req[r].body[i] = req[r].content[i]
         ELSE Cleared(r, i, req[r].body[i])

UpstreamIsCleared(r) ==
  req[r].upstream # Nothing =>
    /\ Len(req[r].upstream) = Len(req[r].content)
    /\ \A i \in 1 .. Len(req[r].content) : Cleared(r, i, req[r].upstream[i])

\* The vault holds what the client sent and nothing else.
VaultIsTheClients(r) == \A s \in req[r].vault : \E j \in DOMAIN req[r].content : req[r].content[j] = s

\* What the client may see of the item it came from.
MaySee(r, i, came, seen) ==
  IF came \in Placeholders
  THEN came = Placeholder(r, seen) /\ \E j \in DOMAIN req[r].content : req[r].content[j] = seen
  ELSE \/ seen = Redacted
       \/ seen = came /\ \E n \in 1 .. MaxRounds :
            LastAsked(r, i, n) /\ Allowed(r, seen, <<r, "response", i, n>>)

\* The answer is one item behind at most, and each of its items may be seen.
AnswerMayBeSeen(r) ==
  /\ Len(req[r].items) \in {Len(req[r].answer), Len(req[r].answer) + 1}
  /\ \A i \in 1 .. Len(req[r].answer) : MaySee(r, i, req[r].items[i], req[r].answer[i])

\* The client has all of it, none of it, or a list of models.
ClientHasTheAnswer(r) ==
  /\ req[r].kind # "metadata" \/ req[r].streaming => req[r].shown \in {<<>>, req[r].answer}
  /\ req[r].step = "answering" => req[r].shown = IF req[r].streaming THEN req[r].answer ELSE <<>>
  /\ req[r].step \in {"new", "admitted", "processing", "sent"} =>
       req[r].items = <<>> /\ req[r].answer = <<>> /\ req[r].shown = <<>> /\ req[r].streaming = FALSE

Rounds(r) == req[r].round \in 1 .. MaxRounds

\* Items are asked about in the order they came in, round by round.
AskedInOrder(r) ==
  req[r].step # "done" =>
    \A i \in Nat \ {0}, n \in Nat :
      LET a == <<r, "response", i, n>>
      IN  a \in Asks /\ ask[a] # "new" =>
            i < Len(req[r].items) \/ (i = Len(req[r].items) /\ n <= req[r].round)

RequestInv(r) ==
  /\ BodyIsClearedBehind(r) /\ UpstreamIsCleared(r) /\ VaultIsTheClients(r)
  /\ AnswerMayBeSeen(r) /\ ClientHasTheAnswer(r) /\ Rounds(r)

ProxyInv ==
  /\ BrokerInv
  /\ engine \in Engines /\ req \in [Requests -> Handlers]
  /\ \A r \in Requests : RequestInv(r) /\ AskedInOrder(r)

-----------------------------------------------------------------------------
(* The broker underneath *)

\* Requests that neither ask nor are cancelled leave the broker alone.
LEMMA QuietSteps ==
  ASSUME [ProxyNext]_allVars
  PROVE  \/ \E r \in Requests : Ask(r) \/ AskResponse(r) \/ CancelRequest(r)
         \/ BrokerStep
         \/ UNCHANGED vars
  <1>4. CASE \E e \in Engines : PutPolicy(e)
    BY <1>4 DEF PutPolicy
  <1>5. CASE \E r \in Requests : TurnAway(r) \/ \E arrival \in Arrivals : Admit(r, arrival[2], arrival[3])
    BY <1>5 DEF TurnAway, Admit
  <1>6. ASSUME NEW r \in Requests, Handle(r), ~Ask(r), ~AskResponse(r)
        PROVE  UNCHANGED vars
    <2>1. CASE \/ Unauthorized(r) \/ RefuseForm(r) \/ RefuseFinding(r) \/ RefuseAuth(r) \/ UpstreamFails(r)
               \/ RefuseAnswer(r) \/ EmptyAnswer(r) \/ RefuseItem(r) \/ CutStream(r)
      BY <2>1 DEF Unauthorized, RefuseForm, RefuseFinding, RefuseAuth, UpstreamFails, RefuseAnswer,
                  EmptyAnswer, RefuseItem, CutStream, LeaveWith
    <2>2. CASE Authorize(r) \/ ProcessFinding(r) \/ SendRequest(r) \/ AskAgain(r) \/ EndAnswer(r) \/ Depart(r)
      BY <2>2 DEF Authorize, ProcessFinding, SendRequest, AskAgain, EndAnswer, Depart
    <2>3. CASE \E came \in Answers : PassMetadata(r, came[2]) \/ ReceiveItem(r, came[2])
      BY <2>3 DEF PassMetadata, ReceiveItem
    <2>4. CASE \E isStream \in BOOLEAN : BeginAnswer(r, isStream)
      BY <2>4 DEF BeginAnswer
    <2>5. CASE RestoreItem(r) \/ ProcessItem(r)
      BY <2>5 DEF RestoreItem, ProcessItem, Emit
    <2> QED
      BY <1>6, <2>1, <2>2, <2>3, <2>4, <2>5 DEF Handle
  <1>7. CASE UNCHANGED allVars
    BY <1>7 DEF allVars
  <1> QED
    BY <1>4, <1>5, <1>6, <1>7 DEF ProxyNext, Handle

\* To the broker, requests are those who ask.
LEMMA BrokerSteps == [ProxyNext]_allVars => [Next]_vars
  <1> SUFFICES ASSUME [ProxyNext]_allVars PROVE [Next]_vars
    OBVIOUS
  <1>1. CASE \E r \in Requests : Ask(r) \/ AskResponse(r)
    BY <1>1 DEF Ask, AskResponse, AskFor, Next
  <1>2. CASE \E r \in Requests : CancelRequest(r)
    BY <1>2 DEF CancelRequest, AsksOf, Next
  <1>3. CASE BrokerStep
    BY <1>3 DEF BrokerStep, Next
  <1> QED
    BY <1>1, <1>2, <1>3, QuietSteps

\* A decision that was accepted stays what it is.
LEMMA AcceptedStays ==
  ASSUME BrokerInv, [Next]_vars, NEW a \in Asks, taken[a] # "none"
  PROVE  taken'[a] = taken[a]
  <1>1. CASE \E r \in Resolvers, b \in Asks, decision \in Decisions : Take(r, b, decision)
    BY <1>1 DEF Take, BrokerInv, TypeOK, TableIsFresh
  <1>2. CASE ~\E r \in Resolvers, b \in Asks, decision \in Decisions : Take(r, b, decision)
    BY <1>2 DEF Next, vars, Request, Proceed, Receive, TimeOut, Leave, Cancel, Send
  <1> QED
    BY <1>1, <1>2

\* So what was allowed stays allowed, under the policy the request came in with.
LEMMA AllowedStays ==
  ASSUME ProxyInv, [ProxyNext]_allVars, NEW r \in Requests, NEW secret, NEW a,
         Allowed(r, secret, a), req'[r].engine = req[r].engine
  PROVE  Allowed(r, secret, a)'
  <1>1. Decision(r, secret)' = Decision(r, secret)
    BY DEF Decision
  <1>2. a \in Asks /\ taken[a] = "allow" => taken'[a] = "allow"
    BY BrokerSteps, AcceptedStays DEF ProxyInv
  <1> QED
    BY <1>1, <1>2 DEF Allowed

-----------------------------------------------------------------------------
(* What a request has gathered is not lost *)

\* Nothing that clears a finding goes away.
LEMMA ClearedStays ==
  ASSUME ProxyInv, [ProxyNext]_allVars, NEW r \in Requests, NEW i, NEW sent,
         Cleared(r, i, sent), req'[r].engine = req[r].engine,
         req'[r].content = req[r].content, req[r].vault \subseteq req'[r].vault
  PROVE  Cleared(r, i, sent)'
  BY AllowedStays DEF Cleared, Placeholder

\* A question is only asked about a finding of the body, or about the last item,
\* which is not answered yet.
LEMMA QuestionsAsked ==
  ASSUME [ProxyNext]_allVars, NEW a \in Asks, ask[a] = "new", ask'[a] # "new", BrokerInv
  PROVE  \E q \in Requests :
           \/ Ask(q) /\ a = AskOfFinding(q)
           \/ AskResponse(q) /\ a = AskOfItem(q)
  <1>1. \A b \in Asks : Request(b) => b = a
    BY DEF Request, BrokerInv, TypeOK
  <1>2. CASE \E q \in Requests : Ask(q) \/ AskResponse(q)
    BY <1>1, <1>2 DEF Ask, AskResponse, AskFor
  <1>3. CASE BrokerStep \/ \E q \in Requests : CancelRequest(q)
    BY <1>3 DEF BrokerStep, CancelRequest, Proceed, Receive, TimeOut, Leave, Send, Take, Cancel,
                BrokerInv, TypeOK
  <1>4. CASE UNCHANGED vars
    BY <1>4 DEF vars
  <1> QED
    BY <1>2, <1>3, <1>4, QuietSteps

\* Nor does anything that lets the client see an item of the answer: it is not
\* asked about again.
LEMMA MaySeeStays ==
  ASSUME ProxyInv, [ProxyNext]_allVars, NEW r \in Requests, NEW i \in Nat, NEW came, NEW seen,
         MaySee(r, i, came, seen), req'[r].engine = req[r].engine,
         req'[r].content = req[r].content,
         i <= Len(req[r].answer) \/ UNCHANGED ask
  PROVE  MaySee(r, i, came, seen)'
  <1>1. ASSUME NEW n \in Nat, LastAsked(r, i, n)
        PROVE  LastAsked(r, i, n)'
    <2>1. ASSUME NEW m \in (n + 1) .. MaxRounds, <<r, "response", i, m>> \in Asks,
                 ask'[<<r, "response", i, m>>] # "new"
          PROVE  FALSE
      <3>1. ask[<<r, "response", i, m>>] = "new"
        BY <1>1, <2>1 DEF LastAsked
      <3>2. PICK q \in Requests :
              \/ Ask(q) /\ <<r, "response", i, m>> = AskOfFinding(q)
              \/ AskResponse(q) /\ <<r, "response", i, m>> = AskOfItem(q)
        BY <2>1, <3>1, QuestionsAsked DEF ProxyInv
      <3>3. AskResponse(q) /\ q = r /\ i = Len(req[q].items)
        BY <3>2 DEF AskOfFinding, AskOfItem
      <3>4. Len(req[r].answer) < Len(req[r].items)
        BY <3>3 DEF AskResponse, IsFinding, Answering
      <3>5. Len(req[r].answer) \in Nat /\ Len(req[r].items) \in Nat
        BY DEF ProxyInv, Handlers, Bodies, Answered
      <3> QED
        BY <2>1, <3>1, <3>3, <3>4, <3>5
    <2> QED
      BY <2>1 DEF LastAsked
  <1>2. 1 .. MaxRounds \subseteq Nat
    BY RequestAssumption
  <1> QED
    BY <1>1, <1>2, AllowedStays DEF MaySee, Placeholder

\* A request whose handler does nothing, or leaves, or writes its event.
LEMMA RestingRequest ==
  ASSUME ProxyInv, [ProxyNext]_allVars, NEW r \in Requests,
         req'[r].kind = req[r].kind, req'[r].content = req[r].content, req'[r].body = req[r].body,
         req'[r].engine = req[r].engine, req'[r].at = req[r].at, req'[r].vault = req[r].vault,
         req'[r].upstream = req[r].upstream, req'[r].items = req[r].items,
         req'[r].answer = req[r].answer, req'[r].shown = req[r].shown,
         req'[r].streaming = req[r].streaming, req'[r].round \in 1 .. MaxRounds,
         req'[r].step \in {req[r].step, "leaving"} \/ (req[r].step = "admitted" /\ req'[r].step = "processing")
  PROVE  RequestInv(r)'
  <1>1. BodyIsClearedBehind(r)' /\ UpstreamIsCleared(r)'
    BY ClearedStays DEF ProxyInv, RequestInv, BodyIsClearedBehind, UpstreamIsCleared
  <1>2. AnswerMayBeSeen(r)'
    BY MaySeeStays DEF ProxyInv, RequestInv, AnswerMayBeSeen
  <1>3. VaultIsTheClients(r)' /\ ClientHasTheAnswer(r)' /\ Rounds(r)'
    BY DEF ProxyInv, RequestInv, VaultIsTheClients, ClientHasTheAnswer, Rounds
  <1> QED
    BY <1>1, <1>2, <1>3 DEF RequestInv

\* A step of one handler leaves the other requests as they are.
LEMMA OneRequest ==
  ASSUME ProxyInv, [ProxyNext]_allVars, NEW r \in Requests,
         NEW h \in Handlers, req' = [req EXCEPT ![r] = h], RequestInv(r)'
  PROVE  req' \in [Requests -> Handlers] /\ \A q \in Requests : RequestInv(q)'
  <1>1. req' \in [Requests -> Handlers]
    BY DEF ProxyInv
  <1>2. ASSUME NEW q \in Requests, q # r
        PROVE  RequestInv(q)'
    <2>1. req'[q] = req[q]
      BY <1>2 DEF ProxyInv
    <2>2. req[q].round \in 1 .. MaxRounds
      BY DEF ProxyInv, RequestInv, Rounds
    <2> QED
      BY <2>1, <2>2, RestingRequest
  <1> QED
    BY <1>1, <1>2

\* A request that leaves keeps what it was sent and what it sent.
LEMMA LeavingStep ==
  ASSUME ProxyInv, [ProxyNext]_allVars, NEW r \in Requests, NEW event \in Events, LeaveWith(r, event)
  PROVE  req' \in [Requests -> Handlers] /\ \A q \in Requests : RequestInv(q)'
  <1> DEFINE h == [req[r] EXCEPT !.step = "leaving", !.event = event]
  <1>1. req[r] \in Handlers /\ req[r].round \in 1 .. MaxRounds
    BY DEF ProxyInv, RequestInv, Rounds
  <1>2. h \in Handlers
    BY <1>1 DEF Handlers, Steps
  <1>3. req' = [req EXCEPT ![r] = h] /\ req'[r] = h
    BY DEF LeaveWith, ProxyInv
  <1>4. /\ h.kind = req[r].kind /\ h.content = req[r].content /\ h.body = req[r].body
        /\ h.engine = req[r].engine /\ h.at = req[r].at /\ h.vault = req[r].vault
        /\ h.upstream = req[r].upstream /\ h.items = req[r].items
        /\ h.answer = req[r].answer /\ h.shown = req[r].shown
        /\ h.streaming = req[r].streaming /\ h.round = req[r].round /\ h.step = "leaving"
    BY <1>1 DEF Handlers
  <1> HIDE DEF h
  <1>5. RequestInv(r)'
    BY <1>1, <1>3, <1>4, RestingRequest
  <1> QED
    BY <1>2, <1>3, <1>5, OneRequest

\* All the ways out, with an event of some kind or none.
LEMMA LeaveStep ==
  ASSUME ProxyInv, [ProxyNext]_allVars, NEW r \in Requests,
         \/ Unauthorized(r) \/ RefuseForm(r) \/ RefuseFinding(r) \/ RefuseAuth(r) \/ UpstreamFails(r)
         \/ RefuseAnswer(r) \/ EmptyAnswer(r) \/ RefuseItem(r) \/ CutStream(r)
  PROVE  req' \in [Requests -> Handlers] /\ \A q \in Requests : RequestInv(q)'
  <1>1. Nothing \in Events
    BY DEF Events
  <1>2. \A action \in Actions, n \in Nat : Event(action, n) \in Events
    BY DEF Events, Event, Actions
  <1>3. Len(req[r].tally) \in Nat /\ Len(req[r].tally) + 1 \in Nat
    BY DEF ProxyInv, Handlers, Tallies
  <1>4. CASE Unauthorized(r)
    BY <1>1, <1>4, LeavingStep DEF Unauthorized
  <1>5. CASE RefuseForm(r) \/ RefuseAuth(r) \/ UpstreamFails(r) \/ RefuseAnswer(r) \/ EmptyAnswer(r)
    <2>1. PICK action \in Actions : LeaveWith(r, Event(action, 0))
      BY <1>5 DEF RefuseForm, RefuseAuth, UpstreamFails, RefuseAnswer, EmptyAnswer, Actions
    <2> QED
      BY <1>2, <2>1, LeavingStep
  <1>6. CASE RefuseFinding(r) \/ RefuseItem(r) \/ CutStream(r)
    <2>1. PICK n \in Nat : LeaveWith(r, Event("block", n))
      BY <1>3, <1>6 DEF RefuseFinding, RefuseItem, CutStream
    <2> QED
      BY <1>2, <2>1, LeavingStep DEF Actions
  <1> QED
    BY <1>4, <1>5, <1>6

\* A request that is turned away, or has left, holds nothing.
LEMMA AbsentHandler ==
  ASSUME NEW where \in Steps
  PROVE  Absent(where) \in Handlers
  <1>1. /\ <<>> \in Bodies /\ <<>> \in Answered /\ <<>> \in Tallies /\ <<>> \in Seq(Secrets)
        /\ Nothing \in MaybeBody /\ Nothing \in MaybePolicy /\ Nothing \in Events
        /\ "post" \in Kinds /\ {} \in SUBSET Secrets
    BY DEF Bodies, Answered, Tallies, MaybeBody, MaybePolicy, Events, Kinds
  <1> QED
    BY <1>1 DEF Absent, Handlers

\* It has nothing left that could be sent or seen.
LEMMA GoneStep ==
  ASSUME ProxyInv, [ProxyNext]_allVars, NEW r \in Requests, TurnAway(r) \/ Depart(r)
  PROVE  req' \in [Requests -> Handlers] /\ \A q \in Requests : RequestInv(q)'
  <1>1. req' = [req EXCEPT ![r] = Absent("done")] /\ req'[r] = Absent("done")
    BY DEF TurnAway, Depart, ProxyInv
  <1>2. RequestInv(r)'
    BY <1>1, RequestAssumption DEF Absent, RequestInv, BodyIsClearedBehind, UpstreamIsCleared, VaultIsTheClients,
       AnswerMayBeSeen, ClientHasTheAnswer, Rounds
  <1> QED
    BY <1>1, <1>2, AbsentHandler, OneRequest DEF Steps

\* A request that is admitted has its body as it was sent.
LEMMA AdmitStep ==
  ASSUME ProxyInv, [ProxyNext]_allVars, NEW r \in Requests, NEW arrival \in Arrivals,
         Admit(r, arrival[2], arrival[3])
  PROVE  req' \in [Requests -> Handlers] /\ \A q \in Requests : RequestInv(q)'
  <1> DEFINE content == arrival[3]
             h == [Absent("admitted") EXCEPT
                     !.kind = arrival[2], !.content = content, !.body = content,
                     !.at = Len(content), !.engine = engine]
  <1>1. arrival[2] \in Kinds /\ content \in Seq(Secrets) /\ engine \in Engines
    BY RequestAssumption DEF ProxyInv
  <1>2. content \in Bodies /\ engine \in MaybePolicy /\ Len(content) \in Nat
    BY <1>1 DEF Received, Bodies, MaybePolicy
  <1>3. h \in Handlers
    BY <1>1, <1>2, AbsentHandler DEF Handlers, Steps
  <1>4. req' = [req EXCEPT ![r] = h] /\ req'[r] = h
    BY DEF Admit, ProxyInv
  <1>5. /\ h.step = "admitted" /\ h.content = content /\ h.body = content /\ h.at = Len(content)
        /\ h.vault = {} /\ h.upstream = Nothing /\ h.items = <<>> /\ h.answer = <<>>
        /\ h.shown = <<>> /\ h.streaming = FALSE /\ h.round = 1
    BY DEF Absent
  <1> HIDE DEF h
  <1>6. RequestInv(r)'
    BY <1>2, <1>4, <1>5, RequestAssumption
       DEF RequestInv, BodyIsClearedBehind, UpstreamIsCleared, VaultIsTheClients,
       AnswerMayBeSeen, ClientHasTheAnswer, Rounds
  <1> QED
    BY <1>3, <1>4, <1>6, OneRequest

\* Where a decision comes from does not matter: what passes was allowed.
LEMMA RulingAllows ==
  ASSUME ProxyInv, NEW r \in Requests, NEW secret, NEW a, Settled(r, secret, a),
         Ruling(r, secret, a) = "allow"
  PROVE  Allowed(r, secret, a)
  <1>1. CASE Decision(r, secret) = "ask"
    <2>1. a \in Asks /\ outcome[a] = "allow"
      BY <1>1 DEF Settled, Ruling
    <2>2. taken[a] = "allow"
      BY <2>1 DEF ProxyInv, BrokerInv, DecisionsAreHeldOnce, Decisions
    <2> QED
      BY <1>1, <2>1, <2>2 DEF Allowed
  <1>2. CASE Decision(r, secret) # "ask"
    BY <1>2 DEF Ruling, Allowed
  <1> QED
    BY <1>1, <1>2

\* A live session is found: the work begins with what was admitted.
LEMMA AuthorizeStep ==
  ASSUME ProxyInv, [ProxyNext]_allVars, NEW r \in Requests, Authorize(r)
  PROVE  req' \in [Requests -> Handlers] /\ \A q \in Requests : RequestInv(q)'
  <1> DEFINE h == [req[r] EXCEPT !.step = "processing", !.event = Event("allow", 0)]
  <1>1. req[r] \in Handlers /\ req[r].round \in 1 .. MaxRounds /\ req[r].step = "admitted"
    BY DEF ProxyInv, RequestInv, Rounds, Authorize
  <1>2. Event("allow", 0) \in Events
    BY DEF Event, Events, Actions
  <1>3. h \in Handlers
    BY <1>1, <1>2 DEF Handlers, Steps
  <1>4. req' = [req EXCEPT ![r] = h] /\ req'[r] = h
    BY DEF Authorize, ProxyInv
  <1>5. /\ h.kind = req[r].kind /\ h.content = req[r].content /\ h.body = req[r].body
        /\ h.engine = req[r].engine /\ h.at = req[r].at /\ h.vault = req[r].vault
        /\ h.upstream = req[r].upstream /\ h.items = req[r].items
        /\ h.answer = req[r].answer /\ h.shown = req[r].shown
        /\ h.streaming = req[r].streaming /\ h.round = req[r].round /\ h.step = "processing"
    BY <1>1 DEF Handlers
  <1> HIDE DEF h
  <1>6. RequestInv(r)'
    BY <1>1, <1>4, <1>5, RestingRequest
  <1> QED
    BY <1>3, <1>4, <1>6, OneRequest

\* A finding is replaced or passed on, and then the one before it is next.
LEMMA ProcessFindingStep ==
  ASSUME ProxyInv, [ProxyNext]_allVars, NEW r \in Requests, ProcessFinding(r)
  PROVE  req' \in [Requests -> Handlers] /\ \A q \in Requests : RequestInv(q)'
  <1>h. req[r] \in Handlers /\ RequestInv(r) /\ req[r].step = "processing" /\ req[r].at > 0
    BY DEF ProxyInv, ProcessFinding, Processing
  <1>i. /\ req[r].at \in Nat /\ req[r].content \in Seq(Secrets) /\ req[r].body \in Seq(Received)
        /\ req[r].vault \in SUBSET Secrets /\ req[r].tally \in Tallies
    BY <1>h DEF Handlers, Bodies
  <1>v. /\ Ruling(r, Finding(r), AskOfFinding(r)) \in {"allow", "redact"}
        /\ Settled(r, Finding(r), AskOfFinding(r))
    BY DEF ProcessFinding
  <1>1. PICK at, finding, ruling :
          /\ at = req[r].at /\ finding = req[r].content[at]
          /\ ruling = Ruling(r, Finding(r), AskOfFinding(r))
    OBVIOUS
  <1>f. finding = Finding(r) /\ AskOfFinding(r) = <<r, "request", at, 1>>
    BY <1>1 DEF Finding, AskOfFinding
  <1>2. PICK sent, body, vault :
          /\ sent = IF ruling = "redact" THEN Placeholder(r, finding) ELSE req[r].body[at]
          /\ body = [req[r].body EXCEPT ![at] = sent]
          /\ vault = IF ruling = "redact" THEN req[r].vault \cup {finding} ELSE req[r].vault
    OBVIOUS
  <1>3. PICK h :
          h = [req[r] EXCEPT !.body = body, !.vault = vault,
                             !.tally = Append(req[r].tally, ruling), !.at = at - 1]
    OBVIOUS
  <1>4. /\ at <= Len(req[r].content) /\ Len(req[r].body) = Len(req[r].content)
        /\ req[r].upstream = Nothing /\ at \in 1 .. Len(req[r].content)
        /\ req[r].body[at] = finding
    BY <1>h, <1>i, <1>1 DEF RequestInv, BodyIsClearedBehind
  <1>5. req' = [req EXCEPT ![r] = h] /\ req'[r] = h
    <2>1. req' = [req EXCEPT
            ![r].body[req[r].at] = IF ruling = "redact" THEN Placeholder(r, Finding(r)) ELSE @,
            ![r].vault = IF ruling = "redact" THEN @ \cup {Finding(r)} ELSE @,
            ![r].tally = Append(@, ruling),
            ![r].at = @ - 1]
      BY <1>1 DEF ProcessFinding
    <2>2. req' = [req EXCEPT ![r] = h]
      BY <1>h, <1>1, <1>f, <1>2, <1>3, <2>1 DEF ProxyInv, Handlers
    <2> QED
      BY <2>2 DEF ProxyInv
  <1>6. finding \in Secrets /\ sent \in Received
    BY <1>i, <1>1, <1>2, <1>4, RequestAssumption DEF Placeholder, Received, Placeholders
  <1>7. /\ body \in Bodies /\ Len(body) = Len(req[r].content)
        /\ \A i \in 1 .. Len(req[r].content) : body[i] = IF i = at THEN sent ELSE req[r].body[i]
    BY <1>i, <1>2, <1>4, <1>6 DEF Bodies
  <1>8. vault \in SUBSET Secrets /\ req[r].vault \subseteq vault
    BY <1>i, <1>2, <1>6
  <1>9. Append(req[r].tally, ruling) \in Tallies /\ at - 1 \in Nat
    BY <1>h, <1>i, <1>v, <1>1 DEF Tallies
  <1>10. h \in Handlers
    BY <1>h, <1>3, <1>7, <1>8, <1>9 DEF Handlers
  <1>11. /\ h.kind = req[r].kind /\ h.content = req[r].content /\ h.body = body
         /\ h.engine = req[r].engine /\ h.at = at - 1 /\ h.vault = vault
         /\ h.upstream = req[r].upstream /\ h.items = req[r].items
         /\ h.answer = req[r].answer /\ h.shown = req[r].shown
         /\ h.streaming = req[r].streaming /\ h.round = req[r].round /\ h.step = "processing"
    BY <1>h, <1>3 DEF Handlers
  <1>12. BodyIsClearedBehind(r)'
    <2>1. ASSUME NEW i \in 1 .. Len(req[r].content), i > at
          PROVE  Cleared(r, i, body[i])'
      <3>1. Cleared(r, i, body[i])
        <4>1. ~(i <= req[r].at) /\ body[i] = req[r].body[i]
          BY <1>i, <1>1, <1>7, <2>1
        <4> QED
          BY <1>h, <4>1 DEF RequestInv, BodyIsClearedBehind
      <3> QED
        BY <1>5, <1>8, <1>11, <3>1, ClearedStays
    <2>2. Cleared(r, at, sent)'
      <3>1. CASE ruling = "redact"
        BY <1>1, <1>2, <1>5, <1>11, <3>1 DEF Cleared, Placeholder
      <3>2. CASE ruling = "allow"
        <4>1. Cleared(r, at, sent)
          <5>1. Allowed(r, finding, <<r, "request", at, 1>>)
            BY <1>v, <1>1, <1>f, <3>2, RulingAllows
          <5> QED
            BY <1>1, <1>2, <1>4, <3>2, <5>1 DEF Cleared
        <4> QED
          BY <1>5, <1>8, <1>11, <4>1, ClearedStays
      <3> QED
        BY <1>v, <1>1, <3>1, <3>2
    <2>3. ASSUME NEW i \in 1 .. Len(req[r].content), i < at
          PROVE  body[i] = req[r].content[i]
      <3>1. i <= req[r].at /\ body[i] = req[r].body[i]
        BY <1>i, <1>1, <1>7, <2>3
      <3> QED
        BY <1>h, <3>1 DEF RequestInv, BodyIsClearedBehind
    <2>4. ASSUME NEW i \in 1 .. Len(req[r].content)
          PROVE  IF i <= at - 1 THEN body[i] = req[r].content[i] ELSE Cleared(r, i, body[i])'
      <3>1. CASE i = at
        BY <1>7, <2>2, <3>1
      <3>2. CASE i # at
        BY <1>i, <1>1, <2>1, <2>3, <3>2
      <3> QED
        BY <3>1, <3>2
    <2> QED
      BY <1>i, <1>1, <1>4, <1>5, <1>7, <1>11, <2>4 DEF BodyIsClearedBehind
  <1>13. UpstreamIsCleared(r)'
    BY <1>4, <1>5, <1>11 DEF UpstreamIsCleared
  <1>14. VaultIsTheClients(r)'
    <2>1. at \in DOMAIN req[r].content
      BY <1>i, <1>4
    <2> QED
      BY <1>h, <1>1, <1>2, <1>5, <1>11, <2>1 DEF RequestInv, VaultIsTheClients
  <1>15. AnswerMayBeSeen(r)'
    BY <1>h, <1>5, <1>11, MaySeeStays DEF RequestInv, AnswerMayBeSeen
  <1>16. ClientHasTheAnswer(r)' /\ Rounds(r)'
    BY <1>h, <1>5, <1>11 DEF RequestInv, ClientHasTheAnswer, Rounds
  <1> QED
    BY <1>5, <1>10, <1>12, <1>13, <1>14, <1>15, <1>16, OneRequest DEF RequestInv

\* All of the body is cleared when it is sent.
LEMMA SendRequestStep ==
  ASSUME ProxyInv, [ProxyNext]_allVars, NEW r \in Requests, SendRequest(r)
  PROVE  req' \in [Requests -> Handlers] /\ \A q \in Requests : RequestInv(q)'
  <1> DEFINE h == [req[r] EXCEPT !.step = "sent", !.upstream = req[r].body]
  <1>1. req[r] \in Handlers /\ req[r].step = "processing" /\ req[r].at = 0 /\ RequestInv(r)
    BY DEF ProxyInv, SendRequest, Processed
  <1>2. h \in Handlers
    BY <1>1 DEF Handlers, Steps, MaybeBody
  <1>3. req' = [req EXCEPT ![r] = h] /\ req'[r] = h
    BY DEF SendRequest, ProxyInv
  <1>4. /\ h.kind = req[r].kind /\ h.content = req[r].content
        /\ h.engine = req[r].engine /\ h.vault = req[r].vault
        /\ h.upstream = req[r].body /\ h.items = req[r].items
        /\ h.answer = req[r].answer /\ h.shown = req[r].shown
        /\ h.streaming = req[r].streaming /\ h.round = req[r].round /\ h.step = "sent"
    BY <1>1 DEF Handlers
  <1> HIDE DEF h
  <1>5. UpstreamIsCleared(r)'
    <2>1. /\ Len(req[r].body) = Len(req[r].content)
          /\ \A i \in 1 .. Len(req[r].content) : Cleared(r, i, req[r].body[i])
      BY <1>1 DEF RequestInv, BodyIsClearedBehind
    <2> QED
      BY <1>3, <1>4, <2>1, ClearedStays DEF UpstreamIsCleared
  <1>6. AnswerMayBeSeen(r)'
    BY <1>1, <1>3, <1>4, MaySeeStays DEF RequestInv, AnswerMayBeSeen
  <1>7. BodyIsClearedBehind(r)' /\ VaultIsTheClients(r)' /\ ClientHasTheAnswer(r)' /\ Rounds(r)'
    BY <1>1, <1>3, <1>4 DEF RequestInv, BodyIsClearedBehind, VaultIsTheClients, ClientHasTheAnswer, Rounds
  <1> QED
    BY <1>2, <1>3, <1>5, <1>6, <1>7, OneRequest DEF RequestInv

\* The answer begins: nothing of it has come yet.
LEMMA BeginAnswerStep ==
  ASSUME ProxyInv, [ProxyNext]_allVars, NEW r \in Requests, NEW isStream \in BOOLEAN,
         BeginAnswer(r, isStream)
  PROVE  req' \in [Requests -> Handlers] /\ \A q \in Requests : RequestInv(q)'
  <1> DEFINE h == [req[r] EXCEPT !.step = "answering", !.streaming = isStream]
  <1>1. req[r] \in Handlers /\ req[r].step = "sent" /\ RequestInv(r)
    BY DEF ProxyInv, BeginAnswer
  <1>2. h \in Handlers
    BY <1>1 DEF Handlers, Steps
  <1>3. req' = [req EXCEPT ![r] = h] /\ req'[r] = h
    BY DEF BeginAnswer, ProxyInv
  <1>4. /\ h.kind = req[r].kind /\ h.content = req[r].content
        /\ h.engine = req[r].engine /\ h.vault = req[r].vault
        /\ h.upstream = req[r].upstream /\ h.items = req[r].items
        /\ h.answer = req[r].answer /\ h.shown = req[r].shown
        /\ h.streaming = isStream /\ h.round = req[r].round /\ h.step = "answering"
    BY <1>1 DEF Handlers
  <1> HIDE DEF h
  <1>5. UpstreamIsCleared(r)'
    BY <1>1, <1>3, <1>4, ClearedStays DEF RequestInv, UpstreamIsCleared
  <1>6. AnswerMayBeSeen(r)'
    BY <1>1, <1>3, <1>4, MaySeeStays DEF RequestInv, AnswerMayBeSeen
  <1>7. BodyIsClearedBehind(r)' /\ VaultIsTheClients(r)' /\ ClientHasTheAnswer(r)' /\ Rounds(r)'
    BY <1>1, <1>3, <1>4 DEF RequestInv, BodyIsClearedBehind, VaultIsTheClients, ClientHasTheAnswer, Rounds
  <1> QED
    BY <1>2, <1>3, <1>5, <1>6, <1>7, OneRequest DEF RequestInv

\* What comes from a provider is a finding or a placeholder.
LEMMA ReceiveItemStep ==
  ASSUME ProxyInv, [ProxyNext]_allVars, NEW r \in Requests, NEW item, ReceiveItem(r, item)
  PROVE  req' \in [Requests -> Handlers] /\ \A q \in Requests : RequestInv(q)'
  <1>1. /\ req[r] \in Handlers /\ req[r].step = "answering" /\ RequestInv(r)
        /\ Len(req[r].answer) = Len(req[r].items)
    BY DEF ProxyInv, ReceiveItem, Waiting
  <1>2. item \in Received
    BY RequestAssumption DEF ReceiveItem, Received, Placeholders
  <1>3. PICK items : items = Append(req[r].items, item)
    OBVIOUS
  <1>4. /\ items \in Bodies /\ Len(items) = Len(req[r].answer) + 1
        /\ \A i \in 1 .. Len(req[r].answer) : items[i] = req[r].items[i]
    BY <1>1, <1>2, <1>3 DEF Handlers, Bodies
  <1>5. PICK h : h = [req[r] EXCEPT !.items = items, !.round = 1]
    OBVIOUS
  <1>6. h \in Handlers
    BY <1>1, <1>4, <1>5 DEF Handlers
  <1>7. req' = [req EXCEPT ![r] = h] /\ req'[r] = h
    BY <1>1, <1>3, <1>5 DEF ReceiveItem, ProxyInv, Handlers
  <1>8. /\ h.kind = req[r].kind /\ h.content = req[r].content
        /\ h.engine = req[r].engine /\ h.vault = req[r].vault
        /\ h.upstream = req[r].upstream /\ h.items = items
        /\ h.answer = req[r].answer /\ h.shown = req[r].shown
        /\ h.streaming = req[r].streaming /\ h.round = 1 /\ h.step = "answering"
    BY <1>1, <1>5 DEF Handlers
  <1>9. UpstreamIsCleared(r)'
    BY <1>1, <1>7, <1>8, ClearedStays DEF RequestInv, UpstreamIsCleared
  <1>10. AnswerMayBeSeen(r)'
    <2>1. \A i \in 1 .. Len(req[r].answer) : MaySee(r, i, items[i], req[r].answer[i])
      BY <1>1, <1>4 DEF RequestInv, AnswerMayBeSeen
    <2>2. \A i \in 1 .. Len(req[r].answer) : MaySee(r, i, items[i], req[r].answer[i])'
      BY <1>7, <1>8, <2>1, MaySeeStays
    <2> QED
      BY <1>4, <1>7, <1>8, <2>2 DEF AnswerMayBeSeen
  <1>11. BodyIsClearedBehind(r)' /\ VaultIsTheClients(r)' /\ ClientHasTheAnswer(r)' /\ Rounds(r)'
    BY <1>1, <1>7, <1>8, RequestAssumption
       DEF RequestInv, BodyIsClearedBehind, VaultIsTheClients, ClientHasTheAnswer, Rounds
  <1> QED
    BY <1>6, <1>7, <1>9, <1>10, <1>11, OneRequest DEF RequestInv

\* A stream that asks again does nothing else.
LEMMA AskAgainStep ==
  ASSUME ProxyInv, [ProxyNext]_allVars, NEW r \in Requests, AskAgain(r)
  PROVE  req' \in [Requests -> Handlers] /\ \A q \in Requests : RequestInv(q)'
  <1>1. req[r] \in Handlers /\ req[r].round \in 1 .. MaxRounds /\ req[r].round < MaxRounds
    BY DEF ProxyInv, RequestInv, Rounds, AskAgain
  <1>2. PICK h : h = [req[r] EXCEPT !.round = req[r].round + 1]
    OBVIOUS
  <1>3. h \in Handlers
    BY <1>1, <1>2 DEF Handlers
  <1>4. req' = [req EXCEPT ![r] = h] /\ req'[r] = h
    BY <1>2 DEF AskAgain, ProxyInv, Handlers
  <1>5. /\ h.kind = req[r].kind /\ h.content = req[r].content /\ h.body = req[r].body
        /\ h.engine = req[r].engine /\ h.at = req[r].at /\ h.vault = req[r].vault
        /\ h.upstream = req[r].upstream /\ h.items = req[r].items
        /\ h.answer = req[r].answer /\ h.shown = req[r].shown
        /\ h.streaming = req[r].streaming /\ h.step = req[r].step
    BY <1>1, <1>2 DEF Handlers
  <1>6. h.round \in 1 .. MaxRounds
    BY <1>1, <1>2, RequestAssumption DEF Handlers
  <1>7. RequestInv(r)'
    BY <1>4, <1>5, <1>6, RestingRequest
  <1> QED
    BY <1>3, <1>4, <1>7, OneRequest

\* An item that may be seen is added to the answer, and to what the client has
\* of a stream.
LEMMA EmitStep ==
  ASSUME ProxyInv, [ProxyNext]_allVars, NEW r \in Requests, Answering(r),
         NEW output \in Written, NEW actions \in Tallies, Emit(r, output, actions),
         MaySee(r, Len(req[r].items), Item(r), output)
  PROVE  req' \in [Requests -> Handlers] /\ \A q \in Requests : RequestInv(q)'
  <1>1. /\ req[r] \in Handlers /\ req[r].step = "answering" /\ RequestInv(r)
        /\ Len(req[r].answer) < Len(req[r].items)
    BY DEF ProxyInv, Answering
  <1>2. PICK answer, shown, tally :
          /\ answer = Append(req[r].answer, output)
          /\ shown = IF req[r].streaming THEN Append(req[r].shown, output) ELSE req[r].shown
          /\ tally = req[r].tally \o actions
    OBVIOUS
  <1>3. /\ req[r].answer \in Seq(Written) /\ req[r].shown \in Seq(Written)
        /\ req[r].items \in Seq(Received) /\ req[r].tally \in Tallies
    BY <1>1 DEF Handlers, Answered, Bodies
  <1>4. Len(req[r].items) = Len(req[r].answer) + 1
    BY <1>1, <1>3 DEF RequestInv, AnswerMayBeSeen
  <1>5. /\ answer \in Answered /\ shown \in Answered /\ tally \in Tallies
        /\ Len(answer) = Len(req[r].items)
        /\ \A i \in 1 .. Len(req[r].items) :
             answer[i] = IF i = Len(req[r].items) THEN output ELSE req[r].answer[i]
    <2>1. answer \in Seq(Written) /\ Len(answer) = Len(req[r].items) /\ shown \in Seq(Written)
      BY <1>2, <1>3, <1>4
    <2>2. tally \in Tallies
      BY <1>2, <1>3 DEF Tallies
    <2>3. \A i \in 1 .. Len(req[r].items) :
             answer[i] = IF i = Len(req[r].items) THEN output ELSE req[r].answer[i]
      BY <1>2, <1>3, <1>4
    <2> QED
      BY <2>1, <2>2, <2>3 DEF Answered
  <1>6. shown = IF req[r].streaming THEN answer ELSE <<>>
    BY <1>1, <1>2 DEF RequestInv, ClientHasTheAnswer
  <1>7. PICK h : h = [req[r] EXCEPT !.answer = answer, !.shown = shown, !.tally = tally]
    OBVIOUS
  <1>8. h \in Handlers
    BY <1>1, <1>5, <1>7 DEF Handlers
  <1>9. req' = [req EXCEPT ![r] = h] /\ req'[r] = h
    BY <1>2, <1>7 DEF Emit, ProxyInv, Handlers
  <1>10. /\ h.kind = req[r].kind /\ h.content = req[r].content
         /\ h.engine = req[r].engine /\ h.vault = req[r].vault
         /\ h.upstream = req[r].upstream /\ h.items = req[r].items
         /\ h.answer = answer /\ h.shown = shown
         /\ h.streaming = req[r].streaming /\ h.round = req[r].round /\ h.step = "answering"
    BY <1>1, <1>7 DEF Handlers
  <1>11. UpstreamIsCleared(r)'
    BY <1>1, <1>9, <1>10, ClearedStays DEF RequestInv, UpstreamIsCleared
  <1>12. AnswerMayBeSeen(r)'
    <2>1. ASSUME NEW i \in 1 .. Len(req[r].items)
          PROVE  MaySee(r, i, req[r].items[i], answer[i])
      <3>1. CASE i = Len(req[r].items)
        BY <1>5, <3>1 DEF Item
      <3>2. CASE i # Len(req[r].items)
        <4>1. i \in 1 .. Len(req[r].answer) /\ answer[i] = req[r].answer[i]
          BY <1>3, <1>4, <1>5, <3>2
        <4> QED
          BY <1>1, <4>1 DEF RequestInv, AnswerMayBeSeen
      <3> QED
        BY <3>1, <3>2
    <2>2. UNCHANGED ask /\ 1 .. Len(req[r].items) \subseteq Nat
      BY <1>3 DEF Emit, vars
    <2>3. \A i \in 1 .. Len(req[r].items) : MaySee(r, i, req[r].items[i], answer[i])'
      BY <1>9, <1>10, <2>1, <2>2, MaySeeStays
    <2> QED
      BY <1>5, <1>9, <1>10, <2>3 DEF AnswerMayBeSeen
  <1>13. BodyIsClearedBehind(r)' /\ VaultIsTheClients(r)' /\ ClientHasTheAnswer(r)' /\ Rounds(r)'
    BY <1>1, <1>6, <1>9, <1>10
       DEF RequestInv, BodyIsClearedBehind, VaultIsTheClients, ClientHasTheAnswer, Rounds
  <1> QED
    BY <1>8, <1>9, <1>11, <1>12, <1>13, OneRequest DEF RequestInv

\* A placeholder of the request's own vault stands for what the client sent.
LEMMA RestoreItemStep ==
  ASSUME ProxyInv, [ProxyNext]_allVars, NEW r \in Requests, RestoreItem(r)
  PROVE  req' \in [Requests -> Handlers] /\ \A q \in Requests : RequestInv(q)'
  <1>1. /\ Answering(r) /\ Item(r) \in Placeholders /\ Emit(r, Item(r)[2], <<>>)
        /\ Item(r)[1] = SessionOf[r] /\ Item(r)[2] \in req[r].vault
    BY DEF RestoreItem, Known
  <1>2. PICK j \in DOMAIN req[r].content : req[r].content[j] = Item(r)[2]
    BY <1>1 DEF ProxyInv, RequestInv, VaultIsTheClients
  <1>3. Item(r) = Placeholder(r, Item(r)[2]) /\ Item(r)[2] \in Written
    BY <1>1 DEF Placeholders, Placeholder, Written, Received
  <1>4. MaySee(r, Len(req[r].items), Item(r), Item(r)[2])
    BY <1>1, <1>2, <1>3 DEF MaySee
  <1>5. <<>> \in Tallies
    BY DEF Tallies
  <1> QED
    BY <1>1, <1>3, <1>4, <1>5, EmitStep

\* A finding of the answer is redacted, or was allowed when it was last asked about.
LEMMA ProcessItemStep ==
  ASSUME ProxyInv, [ProxyNext]_allVars, NEW r \in Requests, ProcessItem(r)
  PROVE  req' \in [Requests -> Handlers] /\ \A q \in Requests : RequestInv(q)'
  <1>1. PICK ruling : ruling = Ruling(r, Item(r), AskOfItem(r))
    OBVIOUS
  <1>2. /\ Answering(r) /\ Item(r) \in Secrets /\ Settled(r, Item(r), AskOfItem(r))
        /\ ruling \in {"allow", "redact"}
        /\ Emit(r, IF ruling = "redact" THEN Redacted ELSE Item(r), <<ruling>>)
    BY <1>1 DEF ProcessItem, IsFinding
  <1>3. PICK output : output = IF ruling = "redact" THEN Redacted ELSE Item(r)
    OBVIOUS
  <1>4. output \in Written /\ <<ruling>> \in Tallies
    BY <1>2, <1>3 DEF Written, Received, Tallies
  <1>5. Item(r) \notin Placeholders
    BY <1>2, RequestAssumption DEF Placeholders
  <1>6. MaySee(r, Len(req[r].items), Item(r), output)
    <2>1. CASE ruling = "redact"
      BY <1>3, <1>5, <2>1 DEF MaySee
    <2>2. CASE ruling = "allow"
      <3>1. Allowed(r, Item(r), <<r, "response", Len(req[r].items), req[r].round>>)
        BY <1>1, <1>2, <2>2, RulingAllows DEF AskOfItem
      <3>2. req[r].round \in 1 .. MaxRounds
        BY DEF ProxyInv, RequestInv, Rounds
      <3>3. LastAsked(r, Len(req[r].items), req[r].round)
        <4>1. Len(req[r].items) \in Nat /\ req[r].round \in Nat /\ MaxRounds \in Nat
          BY RequestAssumption DEF ProxyInv, Handlers, Bodies
        <4>2. AskedInOrder(r) /\ req[r].step # "done" /\ Len(req[r].items) > 0
          <5>1. Len(req[r].answer) < Len(req[r].items) /\ req[r].step = "answering"
            BY <1>2 DEF Answering
          <5>2. \A h \in Handlers : Len(h.answer) \in Nat
            BY DEF Handlers, Answered
          <5> QED
            BY <4>1, <5>1, <5>2 DEF ProxyInv
        <4> QED
          BY <4>1, <4>2 DEF AskedInOrder, LastAsked
      <3> QED
        BY <1>3, <1>5, <2>2, <3>1, <3>2, <3>3 DEF MaySee
    <2> QED
      BY <1>2, <2>1, <2>2
  <1> QED
    BY <1>2, <1>3, <1>4, <1>6, EmitStep

\* The client gets all of an answer that was inspected, or a list of models.
LEMMA EndAnswerStep ==
  ASSUME ProxyInv, [ProxyNext]_allVars, NEW r \in Requests, EndAnswer(r)
  PROVE  req' \in [Requests -> Handlers] /\ \A q \in Requests : RequestInv(q)'
  <1>1. req[r] \in Handlers /\ RequestInv(r) /\ req[r].step = "answering"
    BY DEF ProxyInv, EndAnswer, Waiting
  <1>2. PICK event : event = Event(Gravest(req[r].tally), Len(req[r].tally))
    OBVIOUS
  <1>3. event \in Events
    <2>1. Gravest(req[r].tally) \in Actions
      BY DEF Gravest, Actions
    <2>2. Len(req[r].tally) \in Nat
      BY <1>1 DEF Handlers, Tallies
    <2> QED
      BY <1>2, <2>1, <2>2 DEF Event, Events
  <1>4. PICK h : h = [req[r] EXCEPT !.shown = req[r].answer, !.step = "leaving", !.event = event]
    OBVIOUS
  <1>5. h \in Handlers
    BY <1>1, <1>3, <1>4 DEF Handlers, Steps
  <1>6. req' = [req EXCEPT ![r] = h] /\ req'[r] = h
    BY <1>2, <1>4 DEF EndAnswer, ProxyInv, Handlers
  <1>7. /\ h.kind = req[r].kind /\ h.content = req[r].content
        /\ h.engine = req[r].engine /\ h.vault = req[r].vault
        /\ h.upstream = req[r].upstream /\ h.items = req[r].items
        /\ h.answer = req[r].answer /\ h.shown = req[r].answer
        /\ h.streaming = req[r].streaming /\ h.round = req[r].round /\ h.step = "leaving"
    BY <1>1, <1>4 DEF Handlers
  <1>8. UpstreamIsCleared(r)'
    BY <1>1, <1>6, <1>7, ClearedStays DEF RequestInv, UpstreamIsCleared
  <1>9. AnswerMayBeSeen(r)'
    BY <1>1, <1>6, <1>7, MaySeeStays DEF RequestInv, AnswerMayBeSeen
  <1>10. BodyIsClearedBehind(r)' /\ VaultIsTheClients(r)' /\ ClientHasTheAnswer(r)' /\ Rounds(r)'
    BY <1>1, <1>6, <1>7 DEF RequestInv, BodyIsClearedBehind, VaultIsTheClients, ClientHasTheAnswer, Rounds
  <1> QED
    BY <1>5, <1>6, <1>8, <1>9, <1>10, OneRequest DEF RequestInv

LEMMA PassMetadataStep ==
  ASSUME ProxyInv, [ProxyNext]_allVars, NEW r \in Requests, NEW item, PassMetadata(r, item)
  PROVE  req' \in [Requests -> Handlers] /\ \A q \in Requests : RequestInv(q)'
  <1>1. req[r] \in Handlers /\ RequestInv(r) /\ req[r].step = "sent" /\ req[r].kind = "metadata"
    BY DEF ProxyInv, PassMetadata
  <1>2. item \in Received
    BY RequestAssumption DEF PassMetadata, Received, Placeholders
  <1>3. PICK list : list = <<item>>
    OBVIOUS
  <1>4. list \in Bodies /\ list \in Answered /\ Len(list) = 1
    BY <1>2, <1>3 DEF Bodies, Answered, Written
  <1>5. Event("allow", 0) \in Events
    BY DEF Event, Events, Actions
  <1>6. PICK h : h = [req[r] EXCEPT !.items = list, !.shown = list, !.step = "leaving",
                                    !.event = Event("allow", 0)]
    OBVIOUS
  <1>7. h \in Handlers
    BY <1>1, <1>4, <1>5, <1>6 DEF Handlers, Steps
  <1>8. req' = [req EXCEPT ![r] = h] /\ req'[r] = h
    BY <1>3, <1>6 DEF PassMetadata, ProxyInv, Handlers
  <1>9. /\ h.kind = "metadata" /\ h.content = req[r].content
        /\ h.engine = req[r].engine /\ h.vault = req[r].vault
        /\ h.upstream = req[r].upstream /\ h.items = list
        /\ h.answer = req[r].answer /\ h.shown = list
        /\ h.streaming = req[r].streaming /\ h.round = req[r].round /\ h.step = "leaving"
    BY <1>1, <1>6 DEF Handlers
  <1>10. req[r].answer = <<>> /\ req[r].streaming = FALSE
    BY <1>1 DEF RequestInv, ClientHasTheAnswer
  <1>11. UpstreamIsCleared(r)'
    BY <1>1, <1>8, <1>9, ClearedStays DEF RequestInv, UpstreamIsCleared
  <1>12. AnswerMayBeSeen(r)'
    <2>1. Len(h.answer) = 0 /\ Len(h.items) = 1
      BY <1>4, <1>9, <1>10
    <2>2. Len(req'[r].items) = 1 /\ Len(req'[r].answer) = 0
      BY <1>8, <2>1
    <2>3. \A i \in 1 .. Len(req'[r].answer) : FALSE
      BY <2>2
    <2>4. Len(req'[r].items) \in {Len(req'[r].answer), Len(req'[r].answer) + 1}
      BY <2>2
    <2> QED
      BY <2>3, <2>4 DEF AnswerMayBeSeen
  <1>13. BodyIsClearedBehind(r)' /\ VaultIsTheClients(r)' /\ ClientHasTheAnswer(r)' /\ Rounds(r)'
    BY <1>1, <1>8, <1>9, <1>10
       DEF RequestInv, BodyIsClearedBehind, VaultIsTheClients, ClientHasTheAnswer, Rounds
  <1> QED
    BY <1>7, <1>8, <1>11, <1>12, <1>13, OneRequest DEF RequestInv

\* What goes on around a request changes none.
LEMMA OthersStep ==
  ASSUME ProxyInv, [ProxyNext]_allVars, UNCHANGED req
  PROVE  req' \in [Requests -> Handlers] /\ \A q \in Requests : RequestInv(q)'
  <1>1. ASSUME NEW q \in Requests
        PROVE  RequestInv(q)'
    <2>1. req[q].round \in 1 .. MaxRounds
      BY DEF ProxyInv, RequestInv, Rounds
    <2> QED
      BY <2>1, RestingRequest
  <1> QED
    BY <1>1 DEF ProxyInv

\* Whatever a step does, each request fits together after it.
LEMMA RequestsStep ==
  ASSUME ProxyInv, [ProxyNext]_allVars
  PROVE  req' \in [Requests -> Handlers] /\ \A q \in Requests : RequestInv(q)'
  <1>1. CASE UNCHANGED req
    BY <1>1, OthersStep
  <1>2. CASE \E r \in Requests : TurnAway(r) \/ Depart(r)
    BY <1>2, GoneStep
  <1>3. CASE \E r \in Requests : \E arrival \in Arrivals : Admit(r, arrival[2], arrival[3])
    BY <1>3, AdmitStep
  <1>4. CASE \E r \in Requests :
               \/ Unauthorized(r) \/ RefuseForm(r) \/ RefuseFinding(r) \/ RefuseAuth(r)
               \/ UpstreamFails(r) \/ RefuseAnswer(r) \/ EmptyAnswer(r) \/ RefuseItem(r) \/ CutStream(r)
    BY <1>4, LeaveStep
  <1>5. CASE \E r \in Requests : Authorize(r) \/ ProcessFinding(r) \/ SendRequest(r)
    BY <1>5, AuthorizeStep, ProcessFindingStep, SendRequestStep
  <1>6. CASE \E r \in Requests : \E came \in Answers : PassMetadata(r, came[2]) \/ ReceiveItem(r, came[2])
    BY <1>6, PassMetadataStep, ReceiveItemStep
  <1>7. CASE \E r \in Requests : \E isStream \in BOOLEAN : BeginAnswer(r, isStream)
    BY <1>7, BeginAnswerStep
  <1>8. CASE \E r \in Requests : AskAgain(r) \/ RestoreItem(r) \/ ProcessItem(r) \/ EndAnswer(r)
    BY <1>8, AskAgainStep, RestoreItemStep, ProcessItemStep, EndAnswerStep
  <1>9. CASE \E r \in Requests : Ask(r) \/ AskResponse(r) \/ CancelRequest(r)
    BY <1>1, <1>9 DEF Ask, AskResponse, AskFor, CancelRequest
  <1>10. CASE BrokerStep \/ (\E e \in Engines : PutPolicy(e)) \/ UNCHANGED allVars
    BY <1>1, <1>10 DEF BrokerStep, PutPolicy, allVars
  <1> QED
    BY <1>2, <1>3, <1>4, <1>5, <1>6, <1>7, <1>8, <1>9, <1>10 DEF ProxyNext, Handle

\* A step moves one handler at most, by one of these.
LEMMA HandlersMove ==
  ASSUME ProxyInv, [ProxyNext]_allVars, NEW r \in Requests
  PROVE  \/ req'[r] = req[r]
         \/ \E event : LeaveWith(r, event) /\ req[r].step # "done"
         \/ Authorize(r) \/ ProcessFinding(r) \/ SendRequest(r) \/ EndAnswer(r)
         \/ \E isStream \in BOOLEAN : BeginAnswer(r, isStream)
         \/ AskAgain(r) \/ RestoreItem(r) \/ ProcessItem(r)
         \/ \E came \in Answers : ReceiveItem(r, came[2]) \/ PassMetadata(r, came[2])
         \/ \E arrival \in Arrivals : Admit(r, arrival[2], arrival[3])
         \/ TurnAway(r) \/ Depart(r)
  <1>1. req \in [Requests -> Handlers]
    BY DEF ProxyInv
  <1>2. CASE \/ Unauthorized(r) \/ RefuseForm(r) \/ RefuseFinding(r) \/ RefuseAuth(r) \/ UpstreamFails(r)
             \/ RefuseAnswer(r) \/ EmptyAnswer(r) \/ RefuseItem(r) \/ CutStream(r)
    BY <1>2 DEF Unauthorized, RefuseForm, RefuseFinding, RefuseAuth, UpstreamFails, RefuseAnswer,
       EmptyAnswer, RefuseItem, CutStream, Processing, Processed, IsFinding, Answering, Waiting
  <1>3. CASE Ask(r) \/ AskResponse(r) \/ CancelRequest(r)
    BY <1>3 DEF Ask, AskResponse, AskFor, CancelRequest
  <1>4. CASE BrokerStep \/ (\E e \in Engines : PutPolicy(e)) \/ UNCHANGED allVars
    BY <1>4 DEF BrokerStep, PutPolicy, allVars
  <1>5. ASSUME NEW q \in Requests, q # r,
               TurnAway(q) \/ Handle(q) \/ CancelRequest(q)
                 \/ \E arrival \in Arrivals : Admit(q, arrival[2], arrival[3])
        PROVE  req'[r] = req[r]
    <2>1. CASE TurnAway(q) \/ Depart(q) \/ CancelRequest(q) \/ Ask(q) \/ AskResponse(q)
               \/ \E arrival \in Arrivals : Admit(q, arrival[2], arrival[3])
      BY <1>1, <1>5, <2>1 DEF TurnAway, Depart, CancelRequest, Ask, AskResponse, AskFor, Admit
    <2>2. CASE \/ Unauthorized(q) \/ RefuseForm(q) \/ RefuseFinding(q) \/ RefuseAuth(q) \/ UpstreamFails(q)
               \/ RefuseAnswer(q) \/ EmptyAnswer(q) \/ RefuseItem(q) \/ CutStream(q)
      BY <1>1, <1>5, <2>2 DEF Unauthorized, RefuseForm, RefuseFinding, RefuseAuth, UpstreamFails,
         RefuseAnswer, EmptyAnswer, RefuseItem, CutStream, LeaveWith
    <2>3. CASE Authorize(q) \/ ProcessFinding(q) \/ SendRequest(q) \/ EndAnswer(q) \/ AskAgain(q)
               \/ \E isStream \in BOOLEAN : BeginAnswer(q, isStream)
      BY <1>1, <1>5, <2>3 DEF Authorize, ProcessFinding, SendRequest, EndAnswer, AskAgain, BeginAnswer
    <2>4. CASE RestoreItem(q) \/ ProcessItem(q)
               \/ \E came \in Answers : ReceiveItem(q, came[2]) \/ PassMetadata(q, came[2])
      BY <1>1, <1>5, <2>4 DEF RestoreItem, ProcessItem, Emit, ReceiveItem, PassMetadata
    <2> QED
      BY <1>5, <2>1, <2>2, <2>3, <2>4 DEF Handle
  <1> QED
    BY <1>2, <1>3, <1>4, <1>5 DEF ProxyNext, Handle

\* What a request has received and how often it asked about the last of it is
\* not for these to change.
LEMMA KeepItems ==
  ASSUME req \in [Requests -> Handlers], NEW r \in Requests,
         \/ Authorize(r) \/ ProcessFinding(r) \/ SendRequest(r) \/ EndAnswer(r)
         \/ RestoreItem(r) \/ ProcessItem(r)
         \/ \E isStream \in BOOLEAN : BeginAnswer(r, isStream)
         \/ \E event : LeaveWith(r, event)
  PROVE  req'[r].items = req[r].items /\ req'[r].round = req[r].round
  <1>1. req[r] \in Handlers
    OBVIOUS
  <1>2. CASE Authorize(r)
    BY <1>1, <1>2 DEF Authorize, Handlers
  <1>3. CASE SendRequest(r)
    BY <1>1, <1>3 DEF SendRequest, Handlers
  <1>4. CASE EndAnswer(r)
    BY <1>1, <1>4 DEF EndAnswer, Handlers
  <1>5. CASE \E isStream \in BOOLEAN : BeginAnswer(r, isStream)
    <2>1. PICK isStream \in BOOLEAN :
            req' = [req EXCEPT ![r].step = "answering", ![r].streaming = isStream]
      BY <1>5 DEF BeginAnswer
    <2> QED
      BY <1>1, <2>1 DEF Handlers
  <1>6. CASE \E event : LeaveWith(r, event)
    BY <1>1, <1>6 DEF LeaveWith, Handlers
  <1>7. ASSUME NEW output, NEW actions, Emit(r, output, actions)
        PROVE  req'[r].items = req[r].items /\ req'[r].round = req[r].round
    BY <1>1, <1>7 DEF Emit, Handlers
  <1>8. CASE RestoreItem(r)
    BY <1>7, <1>8 DEF RestoreItem
  <1>9. CASE ProcessItem(r)
    BY <1>7, <1>9 DEF ProcessItem
  <1>10. CASE ProcessFinding(r)
    <2>1. PICK body, vault, tally, at :
            req' = [req EXCEPT ![r].body[req[r].at] = body, ![r].vault = vault,
                               ![r].tally = tally, ![r].at = at]
      BY <1>10 DEF ProcessFinding
    <2> QED
      BY <1>1, <2>1 DEF Handlers
  <1> QED
    BY <1>2, <1>3, <1>4, <1>5, <1>6, <1>8, <1>9, <1>10

\* An answer only grows, and while it does not the rounds go up.
LEMMA AnswersGrow ==
  ASSUME ProxyInv, [ProxyNext]_allVars, NEW r \in Requests, req'[r].step # "done"
  PROVE  /\ req[r].step # "done"
         /\ \/ Len(req'[r].items) = Len(req[r].items) /\ req[r].round <= req'[r].round
            \/ Len(req[r].items) < Len(req'[r].items)
            \/ Len(req[r].items) = 0
  <1>1. /\ req \in [Requests -> Handlers] /\ req[r] \in Handlers
        /\ Len(req[r].items) \in Nat /\ req[r].round \in Nat /\ req[r].items \in Bodies
        /\ ClientHasTheAnswer(r)
    BY DEF ProxyInv, RequestInv, Handlers, Bodies
  <1>2. CASE req'[r] = req[r]
    BY <1>1, <1>2
  <1>3. CASE \/ Authorize(r) \/ ProcessFinding(r) \/ SendRequest(r) \/ EndAnswer(r)
             \/ RestoreItem(r) \/ ProcessItem(r)
             \/ \E isStream \in BOOLEAN : BeginAnswer(r, isStream)
             \/ \E event : LeaveWith(r, event) /\ req[r].step # "done"
    <2>1. req'[r].items = req[r].items /\ req'[r].round = req[r].round
      BY <1>1, <1>3, KeepItems
    <2>2. req[r].step # "done"
      BY <1>3 DEF Authorize, ProcessFinding, Processing, SendRequest, Processed, EndAnswer, Waiting,
         RestoreItem, ProcessItem, IsFinding, Answering, BeginAnswer
    <2> QED
      BY <1>1, <2>1, <2>2
  <1>4. CASE AskAgain(r)
    <2>1. req[r].step # "done" /\ req'[r].items = req[r].items /\ req'[r].round = req[r].round + 1
      BY <1>1, <1>4 DEF AskAgain, IsFinding, Answering, Handlers
    <2> QED
      BY <1>1, <2>1
  <1>5. ASSUME NEW came \in Answers, ReceiveItem(r, came[2])
        PROVE  Len(req[r].items) < Len(req'[r].items) /\ req[r].step # "done"
    <2>1. req'[r].items = Append(req[r].items, came[2]) /\ req[r].step # "done"
      BY <1>1, <1>5 DEF ReceiveItem, Waiting, Handlers
    <2>2. Len(Append(req[r].items, came[2])) = Len(req[r].items) + 1
      BY <1>1 DEF Bodies
    <2> QED
      BY <1>1, <2>1, <2>2
  <1>6. ASSUME NEW came \in Answers, PassMetadata(r, came[2])
        PROVE  Len(req[r].items) < Len(req'[r].items) /\ req[r].step # "done"
    <2>1. req'[r].items = <<came[2]>> /\ req[r].items = <<>> /\ req[r].step # "done"
      BY <1>1, <1>6 DEF PassMetadata, Handlers, ClientHasTheAnswer
    <2> QED
      BY <2>1
  <1>7. ASSUME NEW arrival \in Arrivals, Admit(r, arrival[2], arrival[3])
        PROVE  Len(req[r].items) = 0 /\ req[r].step # "done"
    BY <1>1, <1>7 DEF Admit, ClientHasTheAnswer
  <1>8. CASE TurnAway(r) \/ Depart(r)
    BY <1>1, <1>8 DEF TurnAway, Depart, Absent
  <1> QED
    BY <1>1, <1>2, <1>3, <1>4, <1>5, <1>6, <1>7, <1>8, HandlersMove

LEMMA AskedInOrderStep ==
  ASSUME ProxyInv, [ProxyNext]_allVars, NEW r \in Requests
  PROVE  AskedInOrder(r)'
  <1> SUFFICES ASSUME req'[r].step # "done", NEW i \in Nat \ {0}, NEW n \in Nat,
                      <<r, "response", i, n>> \in Asks, ask'[<<r, "response", i, n>>] # "new"
               PROVE  i < Len(req'[r].items) \/ (i = Len(req'[r].items) /\ n <= req'[r].round)
    BY DEF AskedInOrder
  <1>1. /\ req[r].step # "done"
        /\ \/ Len(req'[r].items) = Len(req[r].items) /\ req[r].round <= req'[r].round
           \/ Len(req[r].items) < Len(req'[r].items)
           \/ Len(req[r].items) = 0
    BY AnswersGrow
  <1>2. /\ Len(req[r].items) \in Nat /\ req[r].round \in Nat
        /\ Len(req'[r].items) \in Nat /\ req'[r].round \in Nat
    <2>1. req[r] \in Handlers /\ req'[r] \in Handlers
      BY RequestsStep DEF ProxyInv
    <2>2. \A h \in Handlers : Len(h.items) \in Nat /\ h.round \in Nat
      BY DEF Handlers, Bodies
    <2> QED
      BY <2>1, <2>2
  <1>3. CASE ask[<<r, "response", i, n>>] # "new"
    <2>1. i < Len(req[r].items) \/ (i = Len(req[r].items) /\ n <= req[r].round)
      BY <1>1, <1>3 DEF ProxyInv, AskedInOrder
    <2>2. Len(req[r].items) # 0
      BY <1>2, <2>1
    <2>3. \A have, get, before, after \in Nat :
            /\ (get = have /\ before <= after) \/ have < get \/ have = 0
            /\ have # 0 /\ (i < have \/ (i = have /\ n <= before))
            => i < get \/ (i = get /\ n <= after)
      OBVIOUS
    <2> QED
      BY <1>1, <1>2, <2>1, <2>2, <2>3
  <1>4. CASE ask[<<r, "response", i, n>>] = "new"
    <2>1. PICK q \in Requests :
            \/ Ask(q) /\ <<r, "response", i, n>> = AskOfFinding(q)
            \/ AskResponse(q) /\ <<r, "response", i, n>> = AskOfItem(q)
      BY <1>4, QuestionsAsked DEF ProxyInv
    <2>2. AskResponse(q) /\ q = r /\ i = Len(req[q].items) /\ n = req[q].round
      BY <2>1 DEF AskOfFinding, AskOfItem
    <2>3. req' = req
      BY <2>2 DEF AskResponse, AskFor
    <2> QED
      BY <1>2, <2>2, <2>3
  <1> QED
    BY <1>3, <1>4

-----------------------------------------------------------------------------
(* The invariant *)

LEMMA ProxyInitInv == ProxyInit => ProxyInv
  <1> SUFFICES ASSUME ProxyInit PROVE ProxyInv
    OBVIOUS
  <1>1. BrokerInv
    BY BrokerInitInv DEF ProxyInit
  <1>2. req \in [Requests -> Handlers] /\ engine \in Engines
    BY AbsentHandler DEF ProxyInit, Steps
  <1>3. ASSUME NEW r \in Requests
        PROVE  AskedInOrder(r)
    BY DEF ProxyInit, Init, AskedInOrder
  <1>4. ASSUME NEW r \in Requests
        PROVE  RequestInv(r)
    BY RequestAssumption DEF ProxyInit, Absent, RequestInv, BodyIsClearedBehind, UpstreamIsCleared,
       VaultIsTheClients, AnswerMayBeSeen, ClientHasTheAnswer, Rounds
  <1> QED
    BY <1>1, <1>2, <1>3, <1>4 DEF ProxyInv

LEMMA ProxyStepInv == ProxyInv /\ [ProxyNext]_allVars => ProxyInv'
  <1> SUFFICES ASSUME ProxyInv, [ProxyNext]_allVars PROVE ProxyInv'
    OBVIOUS
  <1>1. BrokerInv'
    BY BrokerSteps, BrokerStepInv DEF ProxyInv
  <1>2. engine' \in Engines
    <2>1. CASE \E e \in Engines : PutPolicy(e)
      BY <2>1 DEF PutPolicy
    <2>2. CASE \E r \in Requests : TurnAway(r) \/ CancelRequest(r)
      BY <2>2 DEF TurnAway, CancelRequest, serverVars, ProxyInv
    <2>3. CASE \E r \in Requests : \E arrival \in Arrivals : Admit(r, arrival[2], arrival[3])
      BY <2>3 DEF Admit, ProxyInv
    <2>4. CASE BrokerStep
      BY <2>4 DEF BrokerStep, serverVars, ProxyInv
    <2>5. ASSUME NEW r \in Requests, Handle(r)
          PROVE  engine' = engine
      <3>1. CASE \/ Unauthorized(r) \/ RefuseForm(r) \/ RefuseFinding(r) \/ RefuseAuth(r) \/ UpstreamFails(r)
                 \/ RefuseAnswer(r) \/ EmptyAnswer(r) \/ RefuseItem(r) \/ CutStream(r)
        BY <3>1 DEF Unauthorized, RefuseForm, RefuseFinding, RefuseAuth, UpstreamFails, RefuseAnswer,
                    EmptyAnswer, RefuseItem, CutStream, LeaveWith, serverVars
      <3>2. CASE Authorize(r) \/ ProcessFinding(r) \/ SendRequest(r) \/ AskAgain(r) \/ EndAnswer(r) \/ Depart(r)
        BY <3>2 DEF Authorize, ProcessFinding, SendRequest, AskAgain, EndAnswer, Depart, serverVars
      <3>3. CASE \/ \E came \in Answers : PassMetadata(r, came[2]) \/ ReceiveItem(r, came[2])
                 \/ \E isStream \in BOOLEAN : BeginAnswer(r, isStream)
        BY <3>3 DEF PassMetadata, ReceiveItem, BeginAnswer, serverVars
      <3>4. CASE Ask(r) \/ AskResponse(r)
        BY <3>4 DEF Ask, AskResponse, AskFor, serverVars
      <3>5. CASE RestoreItem(r) \/ ProcessItem(r)
        BY <3>5 DEF RestoreItem, ProcessItem, Emit, serverVars
      <3> QED
        BY <2>5, <3>1, <3>2, <3>3, <3>4, <3>5 DEF Handle
    <2>6. CASE UNCHANGED allVars
      BY <2>6 DEF allVars, serverVars, ProxyInv
    <2> QED
      BY <2>1, <2>2, <2>3, <2>4, <2>5, <2>6 DEF ProxyNext, ProxyInv
  <1>3. req' \in [Requests -> Handlers] /\ \A q \in Requests : RequestInv(q)'
    BY RequestsStep
  <1>4. \A q \in Requests : AskedInOrder(q)'
    BY AskedInOrderStep
  <1> QED
    BY <1>1, <1>2, <1>3, <1>4 DEF ProxyInv

\* A request's body, vault and answer fit together at every step of its handler,
\* whatever policies, persons and other requests do.
THEOREM RequestsAreConsistent == ProxySpec => []ProxyInv
  BY ProxyInitInv, ProxyStepInv, PTL DEF ProxySpec

\* A provider receives of a finding its placeholder, or what the policy the
\* request was admitted under, or the person it named, let pass.
THEOREM ProvidersGetWhatWasApproved == ProxySpec => []NothingIsSentUnapproved
  <1>1. ProxyInv => NothingIsSentUnapproved
    <2> SUFFICES ASSUME ProxyInv, NEW r \in Requests, req[r].upstream # Nothing
                 PROVE  /\ Len(req[r].upstream) = Len(req[r].content)
                        /\ \A i \in DOMAIN req[r].content :
                             Cleared(r, i, req[r].upstream[i])
      BY DEF NothingIsSentUnapproved, Cleared
    <2>1. DOMAIN req[r].content = 1 .. Len(req[r].content)
      BY DEF ProxyInv, Handlers
    <2> QED
      BY <2>1 DEF ProxyInv, RequestInv, UpstreamIsCleared
  <1> QED
    BY <1>1, RequestsAreConsistent, PTL

\* A client sees its own secrets again, and of the others what was let pass.
THEOREM ClientsSeeWhatWasApproved == ProxySpec => []ClientSeesOnlyApproved
  <1>1. ProxyInv => ClientSeesOnlyApproved
    <2> SUFFICES ASSUME ProxyInv, NEW r \in Requests, req[r].kind # "metadata" \/ req[r].streaming,
                        NEW i \in DOMAIN req[r].shown
                 PROVE  MaySee(r, i, req[r].items[i], req[r].shown[i])
      BY DEF ClientSeesOnlyApproved, MaySee
    <2>1. req[r].shown = req[r].answer /\ i \in 1 .. Len(req[r].answer)
      <3>1. req[r].shown \in {<<>>, req[r].answer} /\ req[r].answer \in Seq(Written)
        BY DEF ProxyInv, RequestInv, ClientHasTheAnswer, Handlers, Answered
      <3>2. req[r].shown # <<>>
        OBVIOUS
      <3> QED
        BY <3>1, <3>2
    <2> QED
      BY <2>1 DEF ProxyInv, RequestInv, AnswerMayBeSeen
  <1> QED
    BY <1>1, RequestsAreConsistent, PTL

\* The broker's promises hold for the requests of the proxy: a decision is used
\* by the one approval it was made for, and the table holds what is awaited.
THEOREM BrokerServesRequests ==
  ProxySpec => []DecisionsAreUsedOnce /\ []PendingApprovalsAreAwaited
  <1>1. ProxyInv => BrokerInv
    BY DEF ProxyInv
  <1>2. BrokerInv => DecisionsAreUsedOnce /\ PendingApprovalsAreAwaited
    BY HeldOnceCounted, FreshIsAwaited
  <1> QED
    BY <1>1, <1>2, RequestsAreConsistent, PTL

-----------------------------------------------------------------------------
(* The policy engine *)

\* Every set of naturals has a least element.
LEMMA Least ==
  ASSUME NEW T \in SUBSET Nat, T # {}
  PROVE  \E x \in T : \A y \in T : x <= y
<1> DEFINE Below == {0..x : x \in T}
<1>1. Below \subseteq FiniteSubsetsOf(Nat)
  <2> SUFFICES ASSUME NEW x \in T PROVE 0..x \in FiniteSubsetsOf(Nat)
    OBVIOUS
  <2>1. IsFiniteSet(0..x) /\ 0..x \in SUBSET Nat
    BY FS_Interval
  <2>2. QED
    BY <2>1 DEF FiniteSubsetsOf
<1>2. Below # {}
  OBVIOUS
<1>3. PICK b \in Below : \A c \in Below : <<c, b>> \notin StrictSubsetOrdering(Nat)
  <2> HIDE DEF Below
  <2>1. QED
    BY <1>1, <1>2, FS_StrictSubsetOrderingWellFounded, WFMin
<1>4. PICK x \in T : b = 0..x
  BY <1>3
<1>5. \A y \in T : x <= y
  <2> SUFFICES ASSUME NEW y \in T, y < x PROVE FALSE
    OBVIOUS
  <2>1. 0..y \in Below /\ 0..y \subseteq 0..x /\ x \in 0..x /\ x \notin 0..y
    OBVIOUS
  <2>2. 0..y \in SUBSET Nat /\ 0..x \in SUBSET Nat /\ 0..y # 0..x
    BY <2>1
  <2>3. <<0..y, b>> \in StrictSubsetOrdering(Nat)
    BY <1>4, <2>1, <2>2 DEF StrictSubsetOrdering
  <2>4. QED
    BY <1>3, <2>1, <2>3
<1>6. QED
  BY <1>5

\* A set that has 0, and with every number below n the next, has all up to n.
LEMMA UpTo ==
  ASSUME NEW n \in Nat, NEW S, 0 \in S, \A k \in 0..(n-1) : k \in S => k + 1 \in S
  PROVE  0..n \subseteq S
<1> SUFFICES ASSUME (0..n) \ S # {} PROVE FALSE
  OBVIOUS
<1> DEFINE left == (0..n) \ S
<1>1. PICK k \in left : \A j \in left : k <= j
  <2>1. left \in SUBSET Nat /\ left # {}
    OBVIOUS
  <2> HIDE DEF left
  <2>2. QED
    BY <2>1, Least
<1>2. k # 0 /\ k - 1 \in 0..(n-1) /\ k - 1 \in S
  BY <1>1
<1>3. QED
  BY <1>1, <1>2

Iterates(f, base, step, n) ==
  f[0] = base /\ \A i \in 1..n : f[i] = step[i][f[i-1]]

\* A value can be derived from the one before n times.
LEMMA Iterated ==
  ASSUME NEW n \in Nat, NEW V, NEW base \in V, NEW step \in [1..n -> [V -> V]]
  PROVE  \E f \in [0..n -> V] : Iterates(f, base, step, n)
<1> DEFINE Defined(f, m) == f[0] = base /\ \A i \in 1..m : f[i] = step[i][f[i-1]]
           S == {m \in 0..n : \E f \in [0..n -> V] : Defined(f, m)}
<1>1. 0 \in S
  <2>1. [i \in 0..n |-> base] \in [0..n -> V] /\ Defined([i \in 0..n |-> base], 0)
    OBVIOUS
  <2>2. 0 \in 0..n
    OBVIOUS
  <2> HIDE DEF Defined
  <2>3. QED
    BY <2>1, <2>2
<1>2. ASSUME NEW m \in 0..(n-1), m \in S
      PROVE  m + 1 \in S
  <2>1. PICK f \in [0..n -> V] : Defined(f, m)
    BY <1>2
  <2> DEFINE g == [f EXCEPT ![m+1] = step[m+1][f[m]]]
  <2>2. step[m+1][f[m]] \in V
    OBVIOUS
  <2>3. g \in [0..n -> V] /\ g[m+1] = step[m+1][f[m]] /\ \A i \in 0..m : g[i] = f[i]
    BY <2>2
  <2>4. Defined(g, m+1)
    <3> HIDE DEF g
    <3>1. QED
      BY <2>1, <2>3
  <2>5. m + 1 \in 0..n
    OBVIOUS
  <2> HIDE DEF g, Defined
  <2>6. QED
    BY <2>3, <2>4, <2>5
<1>3. n \in S
  <2> HIDE DEF S
  <2>1. 0..n \subseteq S
    BY <1>1, <1>2, UpTo
  <2>2. QED
    BY <2>1
<1>4. QED
  BY <1>3 DEF Iterates

\* A policy of the kinds of values the handlers accept.
IsPolicy(e, Values) ==
  /\ e.default \in Actions
  /\ e.rules \in Seq([scope : [Dimensions -> Values], action : Actions])

LEMMA SpecificityIs == ASSUME NEW scope PROVE Specificity(scope) \in Nat
  BY DEF Specificity, Weighs

\* The weights are those of a binary number: of the scopes that match, no two
\* are as specific as each other.
LEMMA SpecificityDecides ==
  ASSUME NEW Values, NEW s \in [Dimensions -> Values], NEW t \in [Dimensions -> Values],
         NEW context, Matches(s, context), Matches(t, context), Specificity(s) = Specificity(t)
  PROVE  s = t
<1>1. \A d \in Dimensions : s[d] = Unset <=> t[d] = Unset
  <2>1. /\ s["agent"] = Unset <=> t["agent"] = Unset
        /\ s["workspace"] = Unset <=> t["workspace"] = Unset
        /\ s["provider"] = Unset <=> t["provider"] = Unset
        /\ s["surface"] = Unset <=> t["surface"] = Unset
        /\ s["finding"] = Unset <=> t["finding"] = Unset
    BY DEF Specificity, Weighs
  <2>2. QED
    BY <2>1 DEF Dimensions
<1>2. \A d \in Dimensions : s[d] = t[d]
  BY <1>1 DEF Matches
<1>3. QED
  BY <1>2

\* What the loop has found among the first n rules: nothing; a block; or the most
\* specific of the rules that match, with no block among them.
Matching(e, context, n) == {i \in 1..n : Matches(e.rules[i].scope, context)}

Found(e, context, n, best) ==
  LET M == Matching(e, context, n)
  IN  \/ M = {} /\ best = [action |-> e.default, specificity |-> -1]
      \/ /\ \E i \in M : e.rules[i].action = "block"
         /\ best.action = "block" /\ best.specificity >= 0
      \/ \E i \in M :
           /\ best = [action |-> e.rules[i].action, specificity |-> Specificity(e.rules[i].scope)]
           /\ \A j \in M : /\ e.rules[j].action # "block"
                           /\ Specificity(e.rules[j].scope) <= Specificity(e.rules[i].scope)

Chosen == [action : Actions, specificity : Int]

LEMMA ChooseFinds ==
  ASSUME NEW Values, NEW e, IsPolicy(e, Values), NEW context, NEW n \in 1..Len(e.rules),
         NEW best \in Chosen, Found(e, context, n - 1, best)
  PROVE  Found(e, context, n,
           IF Matches(e.rules[n].scope, context) THEN Choose(best, e.rules[n]) ELSE best)
<1> DEFINE L == Matching(e, context, n - 1)
           M == Matching(e, context, n)
           rule == e.rules[n]
           turn == IF Matches(rule.scope, context) THEN Choose(best, rule) ELSE best
           sp(i) == Specificity(e.rules[i].scope)
<1>1. n \in Nat /\ n # 0 /\ 1..n = (1..(n-1)) \cup {n} /\ n \notin 1..(n-1)
  OBVIOUS
<1>2. M = IF Matches(rule.scope, context) THEN L \cup {n} ELSE L
  BY <1>1 DEF Matching
<1>3. CASE ~Matches(rule.scope, context)
  BY <1>2, <1>3 DEF Found
<1>4. CASE Matches(rule.scope, context)
  <2> DEFINE chosen == [action |-> rule.action, specificity |-> sp(n)]
  <2>1. M = L \cup {n} /\ turn = Choose(best, rule) /\ sp(n) \in Nat /\ \A i \in L : sp(i) \in Nat
    BY <1>2, <1>4, SpecificityIs
  <2>2. CASE L = {} /\ best = [action |-> e.default, specificity |-> -1]
    <3>1. turn = chosen /\ M = {n}
      BY <2>1, <2>2 DEF Choose
    <3>2. QED
      BY <2>1, <3>1 DEF Found
  <2>3. CASE /\ \E i \in L : e.rules[i].action = "block"
             /\ best.action = "block" /\ best.specificity >= 0
    <3>1. \/ turn = best
          \/ turn = chosen /\ rule.action = "block"
      BY <2>1, <2>3 DEF Choose
    <3>2. turn.action = "block" /\ turn.specificity >= 0
      BY <2>1, <2>3, <3>1
    <3>3. QED
      BY <2>1, <2>3, <3>2 DEF Found
  <2>4. ASSUME NEW i \in L,
               best = [action |-> e.rules[i].action, specificity |-> sp(i)],
               \A j \in L : e.rules[j].action # "block" /\ sp(j) <= sp(i)
        PROVE  Found(e, context, n, turn)
    <3>1. best.action # "block" /\ best.specificity = sp(i)
      BY <2>4
    <3>2. CASE rule.action = "block"
      <4>1. turn = chosen
        BY <2>1, <3>1, <3>2 DEF Choose
      <4>2. QED
        BY <2>1, <3>2, <4>1 DEF Found
    <3>3. CASE rule.action # "block" /\ sp(n) > sp(i)
      <4>1. turn = chosen
        BY <2>1, <3>1, <3>3 DEF Choose
      <4>2. \A j \in M : e.rules[j].action # "block" /\ sp(j) <= sp(n)
        BY <2>1, <2>4, <3>3
      <4>3. QED
        BY <2>1, <4>1, <4>2 DEF Found
    <3>4. CASE rule.action # "block" /\ ~(sp(n) > sp(i))
      <4>1. turn = best
        BY <2>1, <3>1, <3>4 DEF Choose
      <4>2. i \in M /\ \A j \in M : e.rules[j].action # "block" /\ sp(j) <= sp(i)
        BY <2>1, <2>4, <3>4
      <4>3. QED
        BY <2>4, <4>1, <4>2 DEF Found
    <3>5. QED
      BY <3>2, <3>3, <3>4
  <2>5. QED
    BY <2>2, <2>3, <2>4 DEF Found
<1>5. QED
  BY <1>3, <1>4

\* For every policy handlers accept and every finding, the loop over the rules in
\* the order they are stored decides what the order of rules must not matter for:
\* a matching block decides, then the most specific rule that matches, then the
\* default, and what nobody can be asked about is blocked.
THEOREM DecideIsUnordered ==
  ASSUME NEW Values, NEW e, IsPolicy(e, Values), ValidRules(e.rules), NEW context, NEW interactive
  PROVE  Decide(e, context, interactive) = Reference(e, context, interactive)
<1> DEFINE n == Len(e.rules)
           None == [action |-> e.default, specificity |-> -1]
           Turn(k, b) == IF Matches(e.rules[k].scope, context) THEN Choose(b, e.rules[k]) ELSE b
           step == [k \in 1..n |-> [b \in Chosen |-> Turn(k, b)]]
           G(h) == [k \in 0..n |-> IF k = 0 THEN None ELSE Turn(k, h[k-1])]
           loop == CHOOSE h : h = G(h)
<1>1. /\ n \in Nat /\ None \in Chosen /\ DOMAIN e.rules = 1..n
      /\ \A k \in 1..n : e.rules[k] \in [scope : [Dimensions -> Values], action : Actions]
  <2>1. e.default \in Actions /\ e.rules \in Seq([scope : [Dimensions -> Values], action : Actions])
    BY DEF IsPolicy
  <2>2. n \in Nat /\ DOMAIN e.rules = 1..n
    BY <2>1
  <2>3. \A k \in 1..n : e.rules[k] \in [scope : [Dimensions -> Values], action : Actions]
    <3> DEFINE R == [scope : [Dimensions -> Values], action : Actions]
    <3>1. e.rules \in Seq(R) /\ n = Len(e.rules)
      BY <2>1
    <3> HIDE DEF R, n
    <3>2. \A k \in 1..n : e.rules[k] \in R
      BY <3>1
    <3>3. QED
      BY <3>2 DEF R
  <2>4. None \in Chosen
    BY <2>1 DEF Chosen
  <2>5. QED
    BY <2>2, <2>3, <2>4
<1>2. ASSUME NEW k \in 1..n, NEW b \in Chosen PROVE Turn(k, b) \in Chosen
  <2>1. e.rules[k].action \in Actions /\ Specificity(e.rules[k].scope) \in Nat
    BY <1>1, SpecificityIs
  <2>2. [action |-> e.rules[k].action, specificity |-> Specificity(e.rules[k].scope)] \in Chosen
    BY <2>1 DEF Chosen
  <2>3. QED
    BY <1>2, <2>2 DEF Choose
<1>3. PICK f \in [0..n -> Chosen] : f[0] = None /\ \A k \in 1..n : f[k] = step[k][f[k-1]]
  <2>0. n \in Nat /\ None \in Chosen
    BY <1>1
  <2>1. step \in [1..n -> [Chosen -> Chosen]]
    BY <1>2
  <2> HIDE DEF n, None, step, Turn, G, loop
  <2>2. \E f \in [0..n -> Chosen] : Iterates(f, None, step, n)
    BY <2>0, <2>1, Iterated
  <2>3. QED
    BY <2>2 DEF Iterates
<1>4. ASSUME NEW k \in 1..n
      PROVE  k - 1 \in 0..n /\ f[k-1] \in Chosen /\ f[k] = Turn(k, f[k-1])
  <2>1. k - 1 \in 0..n
    BY <1>1
  <2> HIDE DEF n, Turn
  <2>2. f[k-1] \in Chosen
    BY <1>3, <2>1
  <2>3. QED
    BY <1>3, <2>1, <2>2
<1>5. f = G(f)
  <2>1. \A k \in 0..n : f[k] = IF k = 0 THEN None ELSE Turn(k, f[k-1])
    <3> SUFFICES ASSUME NEW k \in 0..n, k # 0 PROVE f[k] = Turn(k, f[k-1])
      BY <1>3
    <3>1. k \in 1..n
      BY <1>1
    <3> HIDE DEF n, Turn
    <3>2. QED
      BY <1>4, <3>1
  <2> HIDE DEF n, None, Turn
  <2>2. QED
    BY <1>3, <2>1
<1>6. loop = G(loop)
  <2> HIDE DEF G
  <2>1. QED
    BY <1>5
<1>7. \A k \in 0..n : Found(e, context, k, loop[k]) /\ loop[k] \in Chosen
  <2> DEFINE S == {k \in 0..n : Found(e, context, k, loop[k]) /\ loop[k] \in Chosen}
  <2>1. loop[0] = None /\ \A k \in 1..n : loop[k] = Turn(k, loop[k-1])
    <3>1. ASSUME NEW k \in 0..n PROVE loop[k] = IF k = 0 THEN None ELSE Turn(k, loop[k-1])
      <4> HIDE DEF loop, Turn, None
      <4>1. QED
        BY <1>6
    <3>2. 0 \in 0..n /\ \A k \in 1..n : k \in 0..n /\ k # 0
      BY <1>1
    <3> HIDE DEF loop, Turn, None, n
    <3>3. QED
      BY <3>1, <3>2
  <2> HIDE DEF loop
  <2>2. 0 \in S
    <3>1. Matching(e, context, 0) = {}
      BY DEF Matching
    <3>2. Found(e, context, 0, None)
      BY <3>1 DEF Found
    <3>3. 0 \in 0..n
      BY <1>1
    <3> HIDE DEF None, n
    <3>4. QED
      BY <1>1, <2>1, <3>2, <3>3
  <2>3. ASSUME NEW k \in 0..(n-1), k \in S PROVE k + 1 \in S
    <3>1. k + 1 \in 1..n /\ k + 1 \in 0..n /\ (k + 1) - 1 = k
      BY <1>1
    <3>2. loop[k+1] = Turn(k + 1, loop[k]) /\ loop[k] \in Chosen /\ Found(e, context, k, loop[k])
      <4> HIDE DEF Turn, n
      <4>1. loop[k+1] = Turn(k + 1, loop[(k + 1) - 1])
        BY <2>1, <3>1
      <4>2. QED
        BY <2>3, <3>1, <4>1
    <3>3. Turn(k + 1, loop[k]) \in Chosen
      <4> HIDE DEF Turn, n
      <4>1. QED
        BY <1>2, <3>1, <3>2
    <3>4. Found(e, context, k + 1, Turn(k + 1, loop[k]))
      <4>1. Found(e, context, (k + 1) - 1, loop[k])
        BY <3>1, <3>2
      <4>2. QED
        BY <3>1, <3>2, <4>1, ChooseFinds
    <3> HIDE DEF Turn, n
    <3>5. QED
      BY <3>1, <3>2, <3>3, <3>4
  <2> HIDE DEF S
  <2>4. 0..n \subseteq S
    BY <1>1, <2>2, <2>3, UpTo
  <2>5. QED
    BY <2>4 DEF S
<1> DEFINE last == loop[n]
           M == Matching(e, context, n)
           sp(i) == Specificity(e.rules[i].scope)
           top == {i \in M : \A j \in M : sp(j) <= sp(i)}
           actions == {e.rules[i].action : i \in M}
           action == IF "block" \in actions THEN "block"
                     ELSE IF M = {} THEN e.default
                     ELSE e.rules[CHOOSE i \in top : TRUE].action
<1>8. Found(e, context, n, last)
  <2>1. n \in 0..n
    BY <1>1
  <2> HIDE DEF loop, n
  <2>2. QED
    BY <1>7, <2>1
<1> HIDE DEF loop
<1>9. last.action = action
  <2> HIDE DEF last
  <2>1. CASE M = {} /\ last = None
    BY <2>1
  <2>2. CASE \E i \in M : e.rules[i].action = "block" /\ last.action = "block"
    BY <2>2
  <2>3. ASSUME NEW i \in M, last = [action |-> e.rules[i].action, specificity |-> sp(i)],
               \A j \in M : e.rules[j].action # "block" /\ sp(j) <= sp(i)
        PROVE  last.action = action
    <3>1. i \in top /\ "block" \notin actions /\ M # {}
      BY <2>3
    <3>2. PICK j \in top : j = CHOOSE k \in top : TRUE
      BY <3>1
    <3>3. sp(j) <= sp(i) /\ sp(i) <= sp(j) /\ i \in 1..n /\ j \in 1..n
      BY <2>3, <3>1, <3>2 DEF Matching
    <3>4. sp(i) = sp(j)
      BY <3>3, SpecificityIs
    <3>5. /\ e.rules[i].scope \in [Dimensions -> Values] /\ Matches(e.rules[i].scope, context)
          /\ e.rules[j].scope \in [Dimensions -> Values] /\ Matches(e.rules[j].scope, context)
      BY <1>1, <2>3, <3>2, <3>3 DEF Matching
    <3>6. e.rules[i].scope = e.rules[j].scope
      BY <3>4, <3>5, SpecificityDecides
    <3>7. i = j
      BY <1>1, <3>3, <3>6 DEF ValidRules
    <3>8. QED
      BY <2>3, <3>1, <3>2, <3>7
  <2>4. QED
    BY <1>8, <2>1, <2>2, <2>3 DEF Found
<1>10. Decide(e, context, interactive) =
         IF last.action = "ask" /\ ~interactive THEN "block" ELSE last.action
  BY DEF Decide, last, loop
<1>11. Reference(e, context, interactive) =
         IF action = "ask" /\ ~interactive THEN "block" ELSE action
  <2> DEFINE Top(X) == {i \in X : \A j \in X : sp(j) <= sp(i)}
             Act(X) == IF "block" \in {e.rules[i].action : i \in X} THEN "block"
                       ELSE IF X = {} THEN e.default
                       ELSE e.rules[CHOOSE i \in Top(X) : TRUE].action
             Ref(X) == IF Act(X) = "ask" /\ ~interactive THEN "block" ELSE Act(X)
             matching == {i \in DOMAIN e.rules : Matches(e.rules[i].scope, context)}
  <2>1. matching = M
    BY <1>1 DEF Matching
  <2>2. Reference(e, context, interactive) = Ref(matching)
    BY DEF Reference
  <2>3. Ref(matching) = Ref(M)
    <3> HIDE DEF Ref, matching, M
    <3>1. QED
      BY <2>1
  <2>4. QED
    BY <2>2, <2>3
<1>12. QED
  BY <1>9, <1>10, <1>11

=============================================================================
