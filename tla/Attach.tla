-------------------------------- MODULE Attach --------------------------------
(***************************************************************************)
(* An embedding program that keeps an integration registered for as long as  *)
(* it runs: Controller.Run of sdk/attach, which also routes a running agent   *)
(* (the target) through sessions it rotates, and MaintainLease of sdk/native, *)
(* which keeps the lease and tells its caller of every renewal.              *)
(***************************************************************************)
EXTENDS CoreCalls

CONSTANTS
  Holders  \* programs that call one of the two

ASSUME AttachAssumption == Holders \subseteq Clients

VARIABLES
  hold,    \* where each program's call stands and what it has obtained
  target,  \* the session each target is routed through
  spoilt   \* targets whose Apply or Restore has failed (history)

attachVars == <<hold, target, spoilt>>

\* A program that never comes is done from the beginning.
AttachInit ==
  /\ hold \in [Holders -> [at : {"start", "done"}, kind : {"attach", "maintain"}, generation : {0},
                            current : {NoSession}, next : {NoSession}]]
  /\ target = [c \in Holders |-> NoSession]
  /\ spoilt = {}

Is(c, where) == hold[c].at = where
Turns(c, where) == hold' = [hold EXCEPT ![c].at = where]

\* The program called Controller.Run.
Attaches(c) == hold[c].kind = "attach"

\* The registration's answer decides whether anything is to be undone.
RegisterLease(c) ==
  /\ Is(c, "start")
  /\ \E o \in Outcomes :
       /\ CallRegister(c, o)
       /\ hold' = IF o = "done"
            THEN [hold EXCEPT ![c].at = "registered", ![c].generation = last']
            ELSE [hold EXCEPT ![c].at = "done"]
  /\ UNCHANGED <<target, spoilt>>

-----------------------------------------------------------------------------
(* attach.Controller.Run *)

\* The plan does not protect every route.
RefuseRoutes(c) ==
  /\ Attaches(c) /\ Is(c, "registered") /\ Turns(c, "removing")
  /\ NoCall /\ UNCHANGED <<target, spoilt>>

CreateFirst(c) ==
  /\ Attaches(c) /\ Is(c, "registered")
  /\ \E o \in Outcomes :
       /\ CallCreateSession(c, registered = hold[c].generation, 1, o)
       /\ hold' = IF o = "done"
            THEN [hold EXCEPT ![c].at = "applying", ![c].current = 1]
            ELSE [hold EXCEPT ![c].at = "removing"]
  /\ UNCHANGED <<target, spoilt>>

\* Apply replaces the target's binding; one that fails may have replaced it.
Apply(c) ==
  /\ Is(c, "applying")
  /\ \/ /\ Turns(c, "running")
        /\ target' = [target EXCEPT ![c] = hold[c].current] /\ UNCHANGED spoilt
     \/ /\ Turns(c, "restoring")
        /\ \E s \in {target[c], hold[c].current} : target' = [target EXCEPT ![c] = s]
        /\ spoilt' = spoilt \cup {c}
  /\ NoCall

\* The rotation timer has run for half the session's time.  The loop looks at it when
\* no renewal is in the way, however long that takes: the session may be over by then.
Rotate(c) ==
  /\ Attaches(c) /\ Is(c, "running") /\ hold[c].current < MaxSessions
  /\ \E o \in Outcomes :
       /\ CallCreateSession(c, registered = hold[c].generation, hold[c].current + 1, o)
       /\ hold' = IF o = "done"
            THEN [hold EXCEPT ![c].at = "rotating", ![c].next = hold[c].current + 1]
            ELSE [hold EXCEPT ![c].at = "restoring"]
  /\ UNCHANGED <<target, spoilt>>

\* Faulty variant: the old session is retired before the target leaves it.
ApplyNextTooLate(c) ==
  /\ Is(c, "rotating")
  /\ Turns(c, "retiring")
  /\ UNCHANGED <<target, spoilt>>
  /\ NoCall

ApplyNext(c) ==
  /\ Is(c, "rotating")
  /\ \/ /\ Turns(c, "retiring")
        /\ target' = [target EXCEPT ![c] = hold[c].next] /\ UNCHANGED spoilt
     \/ /\ Turns(c, "dropping")
        /\ \E s \in {target[c], hold[c].next} : target' = [target EXCEPT ![c] = s]
        /\ spoilt' = spoilt \cup {c}
  /\ NoCall

\* Faulty variant: the session nobody uses is forgotten.
DropNextForgotten(c) ==
  /\ Is(c, "dropping") /\ Turns(c, "restoring")
  /\ NoCall /\ UNCHANGED <<target, spoilt>>

\* The binding was not accepted: the session made for it is revoked.
DropNext(c) ==
  /\ Is(c, "dropping") /\ Turns(c, "restoring")
  /\ \E o \in Outcomes : CallDeleteSession(c, hold[c].next, {}, o)
  /\ UNCHANGED <<target, spoilt>>

\* The session the target has left is revoked, unless its time was over first, which
\* ends the call; from here on, the one it uses is the one to revoke at the end.
RetireCurrent(c) ==
  /\ Is(c, "retiring")
  /\ \E o \in Outcomes :
       /\ CallDeleteSession(c, hold[c].current, {}, o)
       /\ hold' = [hold EXCEPT ![c].at = IF o = "done" THEN "running" ELSE "restoring",
                               ![c].current = hold[c].next]
  /\ UNCHANGED <<target, spoilt>>

\* The deferred calls, last first: the target gets its own configuration back,
\* the current session is revoked, the registration removed.
Restore(c) ==
  /\ Is(c, "restoring") /\ Turns(c, "revoking")
  /\ \/ target' = [target EXCEPT ![c] = NoSession] /\ UNCHANGED spoilt
     \/ UNCHANGED target /\ spoilt' = spoilt \cup {c}
  /\ NoCall

RevokeCurrent(c) ==
  /\ Is(c, "revoking") /\ Turns(c, "removing")
  /\ \E o \in Outcomes : CallDeleteSession(c, hold[c].current, {}, o)
  /\ UNCHANGED <<target, spoilt>>

-----------------------------------------------------------------------------
(* Both *)

\* MaintainLease tells its caller, who may refuse.
Update(c) ==
  /\ ~Attaches(c) /\ Is(c, "registered")
  /\ Turns(c, "running") \/ Turns(c, "removing")
  /\ NoCall /\ UNCHANGED <<target, spoilt>>

Renew(c) ==
  /\ Is(c, "running")
  /\ CallHeartbeat(c, hold[c].generation, "done")
  /\ UNCHANGED attachVars

\* A failed renewal ends the call, and so does the end of the context or, for
\* MaintainLease, a caller that refuses the renewal.
Stop(c) ==
  /\ Is(c, "running")
  /\ \/ \E o \in Outcomes \ {"done"} : CallHeartbeat(c, hold[c].generation, o)
     \/ NoCall
  /\ Turns(c, IF Attaches(c) THEN "restoring" ELSE "removing")
  /\ UNCHANGED <<target, spoilt>>

RemoveLease(c) ==
  /\ Is(c, "removing") /\ Turns(c, "done")
  /\ \E o \in Outcomes : CallRemove(c, hold[c].generation, o)
  /\ UNCHANGED <<target, spoilt>>

\* The program dies: the target stays as it is.
Crashes(c) ==
  /\ hold[c].at \notin {"start", "done", "dead"}
  /\ Turns(c, "dead")
  /\ NoCall /\ UNCHANGED <<target, spoilt>>

\* A session's time is over, wherever the controller is: no timer stops a call that
\* takes long.  All live equally long, so that an earlier one is over first.
SessionExpires(c, k) ==
  /\ <<c, k>> \in open /\ \A i \in 1..(k - 1) : <<c, i>> \notin open
  /\ SessionsExpire(c, {k})
  /\ UNCHANGED attachVars

Undo(c) == DropNext(c) \/ RetireCurrent(c) \/ Restore(c) \/ RevokeCurrent(c) \/ RemoveLease(c)
Setup(c) == RegisterLease(c) \/ RefuseRoutes(c) \/ CreateFirst(c) \/ Apply(c) \/ ApplyNext(c) \/ Update(c)

\* What the program must get round to; no call needs to fail.
AttachProgress(c) ==
  \/ Setup(c) \/ Undo(c)
  \/ Stop(c) /\ ~(up /\ registered = hold[c].generation)

AttachNext ==
  \E c \in Holders :
    \/ Setup(c) \/ Rotate(c) \/ Renew(c) \/ Stop(c) \/ Undo(c) \/ Crashes(c)
    \/ \E k \in 1..MaxSessions : SessionExpires(c, k)

AttachType ==
  /\ hold \in [Holders -> [at : {"start", "registered", "applying", "running", "rotating", "retiring", "dropping",
                                 "restoring", "revoking", "removing", "done", "dead"},
                           kind : {"attach", "maintain"}, generation : 0..MaxGeneration, current : 0..MaxSessions, next : 0..MaxSessions]]
  /\ target \in [Holders -> 0..MaxSessions]
  /\ spoilt \subseteq Holders
=============================================================================
