----------------------------- MODULE BrowserAuth -----------------------------
(***************************************************************************)
(* browserSessionStore: tickets minted for a holder of the admin token and  *)
(* exchanged, once, for a session cookie.  A handler reads the clock and    *)
(* then waits for the lock, so the store sees times out of order.  All of   *)
(* it is memory of the core.                                                *)
(***************************************************************************)
EXTENDS Integers, FiniteSets

CONSTANTS
  Tickets,            \* credentials; random, so each is minted at most once
  Browsers,           \* goroutines that serve browsers
  MaxBrowserTickets, MaxBrowserSessions,
  BrowserTicketTTL, BrowserSessionTTL,
  MaxTime             \* bound of the clock

ASSUME BrowserAssumption ==
  {MaxBrowserTickets, MaxBrowserSessions, BrowserTicketTTL, BrowserSessionTTL, MaxTime} \subseteq Nat

VARIABLES
  clock,
  request,            \* what each handler does, with the time it has read
  ticketExpiry,       \* tickets: when each ends, 0 if it is not in the table
  sessionExpiry,      \* sessions, named by the ticket that bought them
  minted,             \* tickets used up (history)
  presented           \* tickets that an exchange has looked up (history)

browserVars == <<clock, request, ticketExpiry, sessionExpiry, minted, presented>>

NoRequest == [kind |-> "none"]
Asks(b, kind) == request[b].kind = kind
Reply(b) == request' = [request EXCEPT ![b] = NoRequest]

\* prune: what has ended at the reading.
Unended(expiry, now) == [t \in Tickets |-> IF expiry[t] > now THEN expiry[t] ELSE 0]
Live(expiry) == {t \in Tickets : expiry[t] # 0}

\* createBrowserSession and exchangeBrowserSession up to the lock.
ReadClock(b) ==
  /\ Asks(b, "none")
  /\ \/ request' = [request EXCEPT ![b] = [kind |-> "mint", now |-> clock]]
     \/ \E t \in minted :
          request' = [request EXCEPT ![b] = [kind |-> "exchange", ticket |-> t, now |-> clock]]
     \/ request' = [request EXCEPT ![b] = [kind |-> "visit", now |-> clock]]
  /\ UNCHANGED <<clock, ticketExpiry, sessionExpiry, minted, presented>>

\* mintTicket: prune, refuse at the limit, list the ticket.
MintTicket(b) ==
  /\ Asks(b, "mint")
  /\ LET now == request[b].now
         tickets == Unended(ticketExpiry, now)
     IN /\ sessionExpiry' = Unended(sessionExpiry, now)
        /\ IF Cardinality(Live(tickets)) >= MaxBrowserTickets
           THEN ticketExpiry' = tickets /\ UNCHANGED minted
           ELSE \E t \in Tickets \ minted :
                  /\ ticketExpiry' = [tickets EXCEPT ![t] = now + BrowserTicketTTL]
                  /\ minted' = minted \cup {t}
  /\ Reply(b)
  /\ UNCHANGED <<clock, presented>>

\* Faulty variant: the ticket is deleted when it has bought a session.
ExchangeKeeping(b) ==
  /\ Asks(b, "exchange")
  /\ LET now == request[b].now
         t == request[b].ticket
         tickets == Unended(ticketExpiry, now)
         sessions == Unended(sessionExpiry, now)
         sold == tickets[t] > now /\ Cardinality(Live(sessions)) < MaxBrowserSessions
     IN /\ ticketExpiry' = IF sold THEN [tickets EXCEPT ![t] = 0] ELSE tickets
        /\ sessionExpiry' = IF sold THEN [sessions EXCEPT ![t] = now + BrowserSessionTTL] ELSE sessions
        /\ presented' = presented \cup {t}
  /\ Reply(b)
  /\ UNCHANGED <<clock, minted>>

\* exchange: prune, delete the ticket, then look whether it buys a session.
Exchange(b) ==
  /\ Asks(b, "exchange")
  /\ LET now == request[b].now
         t == request[b].ticket
         tickets == Unended(ticketExpiry, now)
         sessions == Unended(sessionExpiry, now)
         sold == tickets[t] > now /\ Cardinality(Live(sessions)) < MaxBrowserSessions
     IN /\ ticketExpiry' = [tickets EXCEPT ![t] = 0]
        /\ sessionExpiry' = IF sold THEN [sessions EXCEPT ![t] = now + BrowserSessionTTL] ELSE sessions
        /\ presented' = presented \cup {t}
  /\ Reply(b)
  /\ UNCHANGED <<clock, minted>>

\* validSession prunes as well.
Visit(b) ==
  /\ Asks(b, "visit")
  /\ ticketExpiry' = Unended(ticketExpiry, request[b].now)
  /\ sessionExpiry' = Unended(sessionExpiry, request[b].now)
  /\ Reply(b)
  /\ UNCHANGED <<clock, minted, presented>>

Tick ==
  /\ clock < MaxTime
  /\ clock' = clock + 1
  /\ UNCHANGED <<request, ticketExpiry, sessionExpiry, minted, presented>>

\* The core ends: tickets, sessions and requests are gone.
ForgetBrowsers ==
  /\ request' = [b \in Browsers |-> NoRequest]
  /\ ticketExpiry' = [t \in Tickets |-> 0]
  /\ sessionExpiry' = [t \in Tickets |-> 0]
  /\ UNCHANGED <<clock, minted, presented>>

BrowserInit ==
  /\ clock = 0
  /\ request = [b \in Browsers |-> NoRequest]
  /\ ticketExpiry = [t \in Tickets |-> 0]
  /\ sessionExpiry = [t \in Tickets |-> 0]
  /\ minted = {} /\ presented = {}

BrowserStep(b) == ReadClock(b) \/ MintTicket(b) \/ Exchange(b) \/ Visit(b)
BrowserNext == Tick \/ (\E b \in Browsers : BrowserStep(b)) \/ ForgetBrowsers
BrowserSpec == BrowserInit /\ [][BrowserNext]_browserVars

-----------------------------------------------------------------------------
(* Properties *)

BrowserTypeOK ==
  /\ ticketExpiry \in [Tickets -> Nat] /\ sessionExpiry \in [Tickets -> Nat]
  /\ minted \subseteq Tickets /\ presented \subseteq minted

\* A ticket is good for one attempt: once it was presented, whether it bought a
\* session, came too late or found no room, it never buys a session, whatever
\* times other handlers have read and whenever the core is started again.
TicketsBuyOneSession ==
  [][\A t \in presented : sessionExpiry'[t] # 0 => sessionExpiry'[t] = sessionExpiry[t]]_browserVars

=============================================================================
