---------------------------- MODULE ProxyRequest ----------------------------
(***************************************************************************)
(* A proxied request from the route lookup to the audit event: core's       *)
(* proxyHandler, proxy.ServeHTTP, the request and response pipelines and     *)
(* the request's placeholder vault, for every protocol but legacy SSE.  Its  *)
(* findings are put to the policy it was admitted under and, when that says  *)
(* ASK, to the approval broker, whose state this module shares.              *)
(*                                                                         *)
(* A body is the sequence of its findings: what lies between them is passed  *)
(* on as it is.  A finding is the secret it matched; a placeholder names the *)
(* session whose key signed it and the secret it stands for.                 *)
(***************************************************************************)
EXTENDS ApprovalBroker, PolicyEngine

CONSTANTS
  Requests,     \* requests that arrive
  Sessions,     \* sessions they carry a capability of
  SessionOf,    \* which one each carries
  Interactive,  \* requests of an interactive session on an interactive route
  Secrets,      \* values the detector finds
  Category,     \* the category of each
  Engines,      \* policies PUT /v1/policy stores
  Arrivals,     \* the kinds of requests that come, with the bodies clients send
  Answers,      \* findings and placeholders in what providers answer to each
  MaxItems,     \* bound on the findings and placeholders of an answer
  MaxRounds,    \* bound on how often a stream asks about one finding
  MaxEntries,   \* the vault's limit
  Capacity,     \* proxySlots and streamSlots
  Nothing       \* a body or a policy there is not yet

Pools == {"request", "stream"}
Kinds == {"post", "stream", "metadata"}

\* An approval is asked for by a request, for a finding of its body or of the
\* provider's answer, for the first time or again.
AskIds == Requests \X {"request", "response"} \X Nat \X Nat

ASSUME RequestAssumption ==
  /\ Asks \subseteq AskIds
  /\ SessionOf \in [Requests -> Sessions]
  /\ Secrets \cap (Sessions \X Secrets) = {}
  /\ Answers \subseteq Requests \X (Secrets \cup Sessions \X Secrets)
  /\ Arrivals \subseteq Requests \X Kinds \X Seq(Secrets)
  /\ MaxItems \in Nat /\ MaxRounds \in Nat \ {0}
  /\ MaxEntries \in Nat /\ Capacity \in [Pools -> Nat]

VARIABLES
  engine,  \* the server's policy
  slots,   \* slots taken of each pool
  req      \* each request's handler

serverVars == <<engine, slots>>
allVars == <<vars, serverVars, req>>

\* What a handler holds: the findings of the body as sent and as processed so
\* far, the policy it was admitted under, the findings still to be processed,
\* the secrets in its vault, the body the provider received, what that
\* answered, the items processed and the items written, whether they are
\* written one by one, how often the item at hand was asked about, the actions
\* taken, and the audit event.
Absent(where) ==
  [step |-> where, kind |-> "post", content |-> <<>>, body |-> <<>>, engine |-> Nothing, at |-> 0,
   vault |-> {}, upstream |-> Nothing, items |-> <<>>, answer |-> <<>>, shown |-> <<>>,
   streaming |-> FALSE, round |-> 1, tally |-> <<>>, event |-> Nothing]

Redacted == "redacted"

Placeholder(r, secret) == <<SessionOf[r], secret>>
Placeholders == Sessions \X Secrets

Pool(kind) == IF kind = "stream" THEN "stream" ELSE "request"

\* The policy's context: the route's own coordinates and the finding's category.
ContextOf(secret) ==
  [agent |-> Unset, workspace |-> Unset, provider |-> Unset, surface |-> Unset,
   finding |-> Category[secret]]

Decision(r, secret) == Decide(req[r].engine, ContextOf(secret), r \in Interactive)

-----------------------------------------------------------------------------
(* The asks of a request, and how it leaves *)

AsksOf(r) == {a \in Asks : a[1] = r}

\* The finding's decision is known: the policy's own, or the person's.
Settled(r, secret, a) == Decision(r, secret) = "ask" => a \in Asks /\ ask[a] = "returned"

Ruling(r, secret, a) == IF Decision(r, secret) = "ask" THEN outcome[a] ELSE Decision(r, secret)

AskFor(r, secret, a) ==
  /\ Decision(r, secret) = "ask" /\ a \in Asks
  /\ Request(a)
  /\ UNCHANGED <<serverVars, req>>

Event(action, findings) == [action |-> action, findings |-> findings]

\* The request leaves with the audit event its handler has built.
LeaveWith(r, event) ==
  /\ req' = [req EXCEPT ![r].step = "leaving", ![r].event = event]
  /\ UNCHANGED <<vars, serverVars>>

\* applyAuditResult: the gravest action.
Gravest(tally) ==
  LET actions == {tally[i] : i \in DOMAIN tally}
  IN  CASE "block" \in actions  -> "block"
        [] "redact" \in actions -> "redact"
        [] "ask" \in actions    -> "ask"
        [] OTHER                -> "allow"

-----------------------------------------------------------------------------
(* Arrival *)

\* An unknown route, or no slot left in its pool: refused with nothing kept.
TurnAway(r) ==
  /\ req[r].step = "new"
  /\ req' = [req EXCEPT ![r] = Absent("done")]
  /\ UNCHANGED <<vars, serverVars>>

\* proxyHandler takes a slot and the policy of the moment.
Admit(r, kind, content) ==
  /\ req[r].step = "new"
  /\ <<r, kind, content>> \in Arrivals
  /\ slots[Pool(kind)] < Capacity[Pool(kind)]
  /\ slots' = [slots EXCEPT ![Pool(kind)] = @ + 1]
  /\ req' = [req EXCEPT ![r] = [Absent("admitted") EXCEPT
               !.kind = kind, !.content = content, !.body = content, !.at = Len(content),
               !.engine = engine]]
  /\ UNCHANGED <<vars, engine>>

\* The session is gone or the capability is not one of its: nothing is audited.
\* Which of the two it is, CoreRevocation follows; here it is either.
Unauthorized(r) ==
  /\ req[r].step = "admitted"
  /\ LeaveWith(r, Nothing)

\* A live session: the request gets its context, its event and its vault.
Authorize(r) ==
  /\ req[r].step = "admitted"
  /\ req' = [req EXCEPT ![r].step = "processing", ![r].event = Event("allow", 0)]
  /\ UNCHANGED <<vars, serverVars>>

\* An upgrade, a cookie, a method, endpoint, version, header, query, type or
\* encoding that is not allowed, or a body too large, cut off or not parsed.
RefuseForm(r) ==
  /\ req[r].step = "processing" /\ req[r].at = Len(req[r].content)
  /\ \A a \in AsksOf(r) : ask[a] = "new"
  /\ LeaveWith(r, Event("block", 0))

-----------------------------------------------------------------------------
(* The request's pipeline, from the last finding of the body to the first *)

Processing(r) == req[r].step = "processing" /\ req[r].at > 0
Finding(r) == req[r].content[req[r].at]
AskOfFinding(r) == <<r, "request", req[r].at, 1>>

\* Vault.Store has room: a secret already there keeps its placeholder.
Fits(r) == Finding(r) \in req[r].vault \/ Cardinality(req[r].vault) < MaxEntries

Ask(r) == Processing(r) /\ AskFor(r, Finding(r), AskOfFinding(r))

\* Faulty variant: the finding is replaced only if the vault has room for it.
ProcessFindingLeniently(r) ==
  /\ Processing(r)
  /\ Settled(r, Finding(r), AskOfFinding(r))
  /\ LET ruling  == Ruling(r, Finding(r), AskOfFinding(r))
         replaced == ruling = "redact" /\ Cardinality(req[r].vault) < MaxEntries
     IN  /\ ruling \in {"allow", "redact"}
         /\ req' = [req EXCEPT
              ![r].body[req[r].at] = IF replaced THEN Placeholder(r, Finding(r)) ELSE @,
              ![r].vault = IF replaced THEN @ \cup {Finding(r)} ELSE @,
              ![r].tally = Append(@, ruling),
              ![r].at = @ - 1]
  /\ UNCHANGED <<vars, serverVars>>

\* ProcessText for a finding that is allowed or redacted.
ProcessFinding(r) ==
  /\ Processing(r)
  /\ Settled(r, Finding(r), AskOfFinding(r))
  /\ LET ruling  == Ruling(r, Finding(r), AskOfFinding(r))
         replaced == ruling = "redact"
     IN  /\ ruling \in {"allow", "redact"} /\ (replaced => Fits(r))
         /\ req' = [req EXCEPT
              ![r].body[req[r].at] = IF replaced THEN Placeholder(r, Finding(r)) ELSE @,
              ![r].vault = IF replaced THEN @ \cup {Finding(r)} ELSE @,
              ![r].tally = Append(@, ruling),
              ![r].at = @ - 1]
  /\ UNCHANGED <<vars, serverVars>>

\* ProcessText refuses: blocked, not decided, or no room in the vault.
RefuseFinding(r) ==
  /\ Processing(r)
  /\ Settled(r, Finding(r), AskOfFinding(r))
  /\ \/ Ruling(r, Finding(r), AskOfFinding(r)) \in {"block", "refused"}
     \/ Ruling(r, Finding(r), AskOfFinding(r)) = "redact" /\ ~Fits(r)
  /\ LeaveWith(r, Event("block", Len(req[r].tally) + 1))

-----------------------------------------------------------------------------
(* The provider *)

Processed(r) == req[r].step = "processing" /\ req[r].at = 0

\* A credential the authentication strategy may not send.
RefuseAuth(r) == Processed(r) /\ LeaveWith(r, Event("block", 0))

\* client.Do starts nothing under a context that is over.
SendRequest(r) ==
  /\ Processed(r) /\ AsksOf(r) \cap over = {}
  /\ req' = [req EXCEPT ![r].step = "sent", ![r].upstream = req[r].body]
  /\ UNCHANGED <<vars, serverVars>>

\* The provider is not reached, or fails before it answers; the event keeps the
\* action it started with and none of the findings.
UpstreamFails(r) ==
  /\ Processed(r) \/ req[r].step = "sent"
  /\ LeaveWith(r, Event("allow", 0))

\* A switch of protocols, headers out of bounds, an encoding or a type that is
\* not allowed, a body too large or cut off.
RefuseAnswer(r) == req[r].step = "sent" /\ LeaveWith(r, Event("block", 0))

\* An answer with no body is passed on, with the event as it is.
EmptyAnswer(r) == req[r].step = "sent" /\ LeaveWith(r, Event("allow", 0))

\* A list of models is passed on as it is.
PassMetadata(r, item) ==
  /\ req[r].step = "sent" /\ req[r].kind = "metadata" /\ <<r, item>> \in Answers
  /\ req' = [req EXCEPT ![r].items = <<item>>, ![r].shown = <<item>>,
                        ![r].step = "leaving", ![r].event = Event("allow", 0)]
  /\ UNCHANGED <<vars, serverVars>>

\* An answer to be inspected; an event stream is, whatever was asked for.
BeginAnswer(r, isStream) ==
  /\ req[r].step = "sent" /\ (req[r].kind = "metadata" => isStream)
  /\ req' = [req EXCEPT ![r].step = "answering", ![r].streaming = isStream]
  /\ UNCHANGED <<vars, serverVars>>

-----------------------------------------------------------------------------
(* The response's pipeline *)

Answering(r) == req[r].step = "answering" /\ Len(req[r].answer) < Len(req[r].items)
Waiting(r) == req[r].step = "answering" /\ Len(req[r].answer) = Len(req[r].items)
Item(r) == req[r].items[Len(req[r].items)]
AskOfItem(r) == <<r, "response", Len(req[r].items), req[r].round>>
IsFinding(r) == Answering(r) /\ Item(r) \in Secrets

ReceiveItem(r, item) ==
  /\ Waiting(r) /\ Len(req[r].items) < MaxItems /\ <<r, item>> \in Answers
  /\ req' = [req EXCEPT ![r].items = Append(@, item), ![r].round = 1]
  /\ UNCHANGED <<vars, serverVars>>

AskResponse(r) == IsFinding(r) /\ AskFor(r, Item(r), AskOfItem(r))

\* Another chunk of the stream finds the same finding, not yet emitted, again.
AskAgain(r) ==
  /\ IsFinding(r) /\ req[r].streaming /\ req[r].round < MaxRounds
  /\ Decision(r, Item(r)) = "ask" /\ AskOfItem(r) \in Asks
  /\ ask[AskOfItem(r)] = "returned" /\ outcome[AskOfItem(r)] \in {"allow", "redact"}
  /\ req' = [req EXCEPT ![r].round = @ + 1]
  /\ UNCHANGED <<vars, serverVars>>

\* A stream is written as it is processed, anything else when all of it was.
Emit(r, output, actions) ==
  /\ req' = [req EXCEPT ![r].answer = Append(@, output),
                        ![r].shown = IF req[r].streaming THEN Append(@, output) ELSE @,
                        ![r].tally = @ \o actions]
  /\ UNCHANGED <<vars, serverVars>>

\* Vault.Restore knows the placeholders this request's vault made.
Known(r) == Item(r)[1] = SessionOf[r] /\ Item(r)[2] \in req[r].vault

RestoreItem(r) ==
  /\ Answering(r) /\ Item(r) \in Placeholders /\ Known(r)
  /\ Emit(r, Item(r)[2], <<>>)

\* Faulty variant: what was decided when the finding was first seen is kept.
ProcessItemAsAtFirst(r) ==
  /\ IsFinding(r) /\ Settled(r, Item(r), [AskOfItem(r) EXCEPT ![4] = 1])
  /\ LET ruling == Ruling(r, Item(r), [AskOfItem(r) EXCEPT ![4] = 1])
     IN  /\ ruling \in {"allow", "redact"}
         /\ Emit(r, IF ruling = "redact" THEN Redacted ELSE Item(r), <<ruling>>)

\* A finding that is allowed or redacted.
ProcessItem(r) ==
  /\ IsFinding(r) /\ Settled(r, Item(r), AskOfItem(r))
  /\ LET ruling == Ruling(r, Item(r), AskOfItem(r))
     IN  /\ ruling \in {"allow", "redact"}
         /\ Emit(r, IF ruling = "redact" THEN Redacted ELSE Item(r), <<ruling>>)

\* A placeholder of another request, and a finding that is blocked or not
\* decided, end the answer; of a stream the client keeps what was written.
RefuseItem(r) ==
  \/ /\ Answering(r) /\ Item(r) \in Placeholders /\ ~Known(r)
     /\ LeaveWith(r, Event("block", Len(req[r].tally)))
  \/ /\ IsFinding(r) /\ Settled(r, Item(r), AskOfItem(r))
     /\ \/ /\ Ruling(r, Item(r), AskOfItem(r)) = "block"
           /\ LeaveWith(r, Event("block", Len(req[r].tally) + 1))
        \/ /\ Ruling(r, Item(r), AskOfItem(r)) = "refused"
           /\ LeaveWith(r, Event("block", Len(req[r].tally)))

EndAnswer(r) ==
  /\ Waiting(r)
  /\ req' = [req EXCEPT ![r].shown = req[r].answer, ![r].step = "leaving",
                        ![r].event = Event(Gravest(req[r].tally), Len(req[r].tally))]
  /\ UNCHANGED <<vars, serverVars>>

\* A stream that breaks off, is not well formed or cannot be written.
CutStream(r) ==
  /\ Waiting(r) /\ req[r].streaming
  /\ LeaveWith(r, Event("block", Len(req[r].tally)))

-----------------------------------------------------------------------------
(* Departure, and what goes on around a request *)

\* The deferred calls: the vault is destroyed, the event appended, the slot free.
Depart(r) ==
  /\ req[r].step = "leaving"
  /\ slots' = [slots EXCEPT ![Pool(req[r].kind)] = @ - 1]
  /\ req' = [req EXCEPT ![r] = Absent("done")]
  /\ UNCHANGED <<vars, engine>>

\* The client goes away, or the end of the session reaches the request.
CancelRequest(r) ==
  /\ req[r].step \in {"processing", "sent", "answering"}
  /\ ~(AsksOf(r) \subseteq over)
  /\ Cancel(AsksOf(r))
  /\ UNCHANGED <<serverVars, req>>

PutPolicy(e) ==
  /\ ValidRules(e.rules)
  /\ engine' = e
  /\ UNCHANGED <<vars, slots, req>>

BrokerStep ==
  /\ \/ \E a \in Asks : Proceed(a)
     \/ \E p \in Resolvers : Send(p) \/ \E a \in Asks, d \in Decisions : Take(p, a, d)
  /\ UNCHANGED <<serverVars, req>>

-----------------------------------------------------------------------------

ProxyInit ==
  /\ Init
  /\ engine \in Engines
  /\ slots = [p \in Pools |-> 0]
  /\ req = [r \in Requests |-> Absent("new")]

\* What the handler of a request does next.
Handle(r) ==
  \/ Unauthorized(r) \/ Authorize(r) \/ RefuseForm(r)
  \/ Ask(r) \/ ProcessFinding(r) \/ RefuseFinding(r)
  \/ RefuseAuth(r) \/ SendRequest(r) \/ UpstreamFails(r) \/ RefuseAnswer(r) \/ EmptyAnswer(r)
  \/ \E came \in Answers : PassMetadata(r, came[2]) \/ ReceiveItem(r, came[2])
  \/ \E isStream \in BOOLEAN : BeginAnswer(r, isStream)
  \/ AskResponse(r) \/ AskAgain(r) \/ RestoreItem(r) \/ ProcessItem(r) \/ RefuseItem(r)
  \/ EndAnswer(r) \/ CutStream(r)
  \/ Depart(r)

ProxyNext ==
  \/ \E r \in Requests :
       \/ TurnAway(r) \/ Handle(r) \/ CancelRequest(r)
       \/ \E arrival \in Arrivals : Admit(r, arrival[2], arrival[3])
  \/ \E e \in Engines : PutPolicy(e)
  \/ BrokerStep

ProxySpec == ProxyInit /\ [][ProxyNext]_allVars

\* The goroutines that ask and decide run on, as in ApprovalBroker.
ProxyFairness ==
  /\ \A a \in Asks : WF_allVars(Proceed(a) /\ UNCHANGED <<serverVars, req>>)
  /\ \A d \in Resolvers : WF_allVars(Send(d) /\ UNCHANGED <<serverVars, req>>)

FairProxySpec == ProxySpec /\ ProxyFairness

-----------------------------------------------------------------------------
(* Properties *)

\* The policy lets the finding pass, or the person asked as a did.
Allowed(r, secret, a) ==
  \/ Decision(r, secret) = "allow"
  \/ Decision(r, secret) = "ask" /\ a \in Asks /\ taken[a] = "allow"

\* Whatever a provider receives of a finding is its placeholder, kept in the
\* request's own vault while the answer is awaited, unless the policy the
\* request was admitted under or a person let it pass: no decision made for
\* another request, no full vault and no later policy changes that.
NothingIsSentUnapproved ==
  \A r \in Requests :
    req[r].upstream # Nothing =>
      /\ Len(req[r].upstream) = Len(req[r].content)
      /\ \A i \in DOMAIN req[r].content :
           LET original == req[r].content[i]
               sent     == req[r].upstream[i]
           IN  \/ sent = Placeholder(r, original) /\ original \in req[r].vault
               \/ sent = original /\ Allowed(r, original, <<r, "request", i, 1>>)

\* Item i of the answer was asked about for the n-th time, or not at all, and not
\* again after that.
LastAsked(r, i, n) ==
  \A m \in (n + 1) .. MaxRounds :
    <<r, "response", i, m>> \in Asks => ask[<<r, "response", i, m>>] = "new"

\* Of an inspected answer the client sees its own secrets where the provider
\* repeated their placeholders, and findings only redacted, or allowed by the
\* policy or by the last answer to the question about them (stream.go:133 asks
\* again while a finding is pending, and the answers may differ) - also when the
\* answer is cut short.
ClientSeesOnlyApproved ==
  \A r \in Requests :
    req[r].kind # "metadata" \/ req[r].streaming =>
      \A i \in DOMAIN req[r].shown :
        LET came == req[r].items[i]
            seen == req[r].shown[i]
        IN  IF came \in Placeholders
            THEN came = Placeholder(r, seen) /\ \E j \in DOMAIN req[r].content : req[r].content[j] = seen
            ELSE \/ seen = Redacted
                 \/ seen = came /\ \E n \in 1 .. MaxRounds :
                      LastAsked(r, i, n) /\ Allowed(r, seen, <<r, "response", i, n>>)

=============================================================================
