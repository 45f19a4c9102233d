---------------------------- MODULE ClientsProofs ----------------------------
(***************************************************************************)
(* For any number of launchers and controllers, registrations, sessions and  *)
(* failed calls: what a client leaves open, where a target is routed, and    *)
(* when a launcher gives its authority back.                                 *)
(*                                                                         *)
(* The invariant is one of each client.  A call of another client leaves its *)
(* sessions alone or takes its registration with them (Harmless), so that    *)
(* for each action only the client that takes it is looked at.               *)
(***************************************************************************)
EXTENDS Clients, TLAPS

\* What others may do to a client's sessions.
Harmless(d) ==
  /\ failures'[d] >= failures[d]
  /\ \/ /\ SessionsOf(d)' = SessionsOf(d) /\ (\A k : <<d, k>> \in expired => <<d, k>> \in expired')
        /\ up' /\ registered' = GenerationOf(d) => up /\ registered = GenerationOf(d)
     \/ SessionsOf(d)' = {} /\ (up' /\ GenerationOf(d) > 0 => registered' # GenerationOf(d))

\* A client that does nothing.
Rests(d) ==
  /\ d \in Launchers => launch'[d] = launch[d] /\ child'[d] = child[d] /\ guard'[d] = guard[d]
  /\ d \in Holders => hold'[d] = hold[d] /\ target'[d] = target[d] /\ (d \in spoilt' <=> d \in spoilt)

CoreTyped ==
  /\ up \in BOOLEAN /\ last \in 0..MaxGeneration /\ registered \in 0..last
  /\ open \subseteq Clients \X Nat /\ expired \subseteq Clients \X Nat
  /\ failures \in [Clients -> Nat]

\* What a call may do to the core: it stays typed and does the other clients no harm.
Serves(c) ==
  /\ CoreTyped' /\ last <= last'
  /\ failures'[c] >= failures[c]
  /\ \A d \in Clients \ {c} : Harmless(d)

\* A client is a launcher or a program, and not both.
LEMMA KindOfClient ==
  ASSUME NEW c \in Clients
  PROVE  (c \in Launchers \/ c \in Holders) /\ ~(c \in Launchers /\ c \in Holders)
  BY ClientsAssumption

\* Generations and counts of failures are numbers.
LEMMA NumbersAreTyped ==
  ASSUME Typed, NEW c \in Clients
  PROVE  GenerationOf(c) \in Nat /\ failures[c] \in Nat
<1>1. CASE c \in Launchers
  BY <1>1 DEF Typed, LaunchType, GenerationOf
<1>2. CASE c \in Holders
  BY <1>2, KindOfClient DEF Typed, AttachType, GenerationOf
<1>3. QED
  BY <1>1, <1>2, KindOfClient

\* A client that rests keeps its part of the invariant through what others do.
LEMMA OthersKeep ==
  ASSUME ClientsInv, NEW d \in Clients, Rests(d), Harmless(d), last <= last', CoreTyped'
  PROVE  ClientInv(d)'
<1>1. ClientInv(d) /\ Typed /\ GenerationOf(d) \in Nat /\ failures[d] \in Nat /\ failures'[d] \in Nat
  BY NumbersAreTyped DEF ClientsInv, CoreTyped
<1>2. GenerationOf(d)' = GenerationOf(d) /\ Where(d)' = Where(d) /\ Kept(d)' = Kept(d)
  BY KindOfClient DEF Rests, GenerationOf, Where, Kept, Attaches
<1>3. SessionsOf(d)' = SessionsOf(d) \/ SessionsOf(d)' = {}
  BY DEF Harmless
<1>4. Accounted(d)'
  BY <1>1, <1>2, <1>3 DEF ClientInv, Accounted, Harmless
<1>5. Numbered(d)'
  BY <1>1, <1>2 DEF ClientInv, Numbered, Typed, CoreTyped
<1>6. ASSUME d \in Launchers PROVE Sheltered(d)' /\ Nests(d)'
  <2>1. Sheltered(d)'
    BY <1>1, <1>6 DEF ClientInv, Sheltered, Quiet, Rests
  <2>2. \A k : <<d, k>> \in open <=> <<d, k>> \in SessionsOf(d)
    BY DEF SessionsOf
  <2>3. \A k : <<d, k>> \in open' <=> <<d, k>> \in SessionsOf(d)'
    BY DEF SessionsOf
  <2>4. Nests(d)'
    BY <1>1, <1>3, <1>6, <2>2, <2>3 DEF ClientInv, Nests
  <2>5. QED
    BY <2>1, <2>4
<1>7. ASSUME d \in Holders PROVE Covered(d)' /\ Maintains(d)' /\ Rotates(d)' /\ (d \notin spoilt' => Routed(d)')
  <2>1. hold'[d] = hold[d] /\ target'[d] = target[d] /\ (d \in spoilt' <=> d \in spoilt) /\ GenerationOf(d) = hold[d].generation
    BY <1>7, KindOfClient DEF Rests, GenerationOf
  <2>2. Maintains(d)' /\ Rotates(d)'
    BY <1>1, <1>7, <2>1 DEF ClientInv, Maintains, Attaches, Rotates
  <2>3. CASE GenerationOf(d) > 0 /\ SessionsOf(d)' = {} /\ (up' => registered' # GenerationOf(d))
    BY <1>1, <1>7, <2>1, <2>2, <2>3 DEF ClientInv, Covered, Routed
  <2>4. CASE /\ SessionsOf(d)' = SessionsOf(d) /\ (\A k : <<d, k>> \in expired => <<d, k>> \in expired')
             /\ up' /\ registered' = GenerationOf(d) => up /\ registered = GenerationOf(d)
    <3>1. \A k : <<d, k>> \in open \cup expired => <<d, k>> \in open' \cup expired'
      BY <2>4 DEF SessionsOf
    <3>2. QED
      BY <1>1, <1>2, <1>7, <2>1, <2>2, <2>4, <3>1 DEF ClientInv, Covered, Routed
  <2>5. CASE GenerationOf(d) = 0
    <3>1. hold[d].at \in {"start", "done"}
      BY <1>1, <1>7, <2>5, KindOfClient DEF ClientInv, Numbered, Where
    <3>2. Kept(d)' = {}
      BY <1>2, <1>7, <3>1, KindOfClient DEF Kept
    <3>3. Covered(d)'
      BY <3>2 DEF Covered
    <3>4. QED
      BY <1>1, <1>7, <2>1, <2>2, <3>1, <3>3 DEF ClientInv, Routed
  <2>6. QED
    BY <1>1, <2>3, <2>4, <2>5 DEF Harmless
<1>8. QED
  BY <1>4, <1>5, <1>6, <1>7 DEF ClientInv

-----------------------------------------------------------------------------
(* The core's calls *)

\* A call fails on its caller's account.
LEMMA EndsCounts ==
  ASSUME Typed, NEW c \in Clients, NEW accepted \in BOOLEAN, NEW o \in Outcomes, Ends(c, accepted, o)
  PROVE  /\ o = "refused" <=> ~(up /\ accepted)
         /\ failures' \in [Clients -> Nat]
         /\ \A d \in Clients : failures'[d] >= failures[d]
         /\ o \in {"failed", "lost"} => failures'[c] = failures[c] + 1
<1>1. o = "refused" <=> ~(up /\ accepted)
  BY DEF Ends
<1>2. failures' = IF o \in {"failed", "lost"} THEN [failures EXCEPT ![c] = @ + 1] ELSE failures
  BY DEF Ends
<1>3. QED
  BY <1>1, <1>2 DEF Typed

\* Without a call nothing happens to the core.
LEMMA NoCallServes ==
  ASSUME Typed, NEW c \in Clients, NoCall
  PROVE  Serves(c)
<1>1. CoreTyped'
  BY DEF NoCall, coreVars, CoreTyped, Typed
<1>2. \A d \in Clients : Harmless(d)
  BY DEF NoCall, coreVars, Harmless, SessionsOf, Typed
<1>3. QED
  BY <1>1, <1>2 DEF Serves, Typed, NoCall, coreVars

\* A renewal changes nothing but the lease's freshness and its caller's account.
LEMMA HeartbeatServes ==
  ASSUME Typed, NEW c \in Clients, NEW g, NEW o \in Outcomes, CallHeartbeat(c, g, o)
  PROVE  Serves(c) /\ UNCHANGED <<up, last, registered, open, expired>>
<1>1. UNCHANGED <<up, last, registered, open, expired>>
  BY DEF CallHeartbeat
<1>2. failures' \in [Clients -> Nat] /\ \A d \in Clients : failures'[d] >= failures[d]
  BY EndsCounts DEF CallHeartbeat
<1>3. CoreTyped' /\ last <= last'
  BY <1>1, <1>2 DEF CoreTyped, Typed
<1>4. \A d \in Clients : Harmless(d)
  BY <1>1, <1>2 DEF Harmless, SessionsOf
<1>5. QED
  BY <1>1, <1>2, <1>3, <1>4 DEF Serves

\* A registration takes every session with it.
LEMMA RegisterServes ==
  ASSUME ClientsInv, NEW c \in Clients, NEW o \in Outcomes, CallRegister(c, o)
  PROVE  /\ Serves(c) /\ up' = up
         /\ TookEffect(o) => up /\ open' = {} /\ expired' = {} /\ last' = last + 1 /\ registered' = last'
         /\ ~TookEffect(o) => UNCHANGED <<last, registered, open, expired>>
<1>1. /\ Typed /\ up' = up /\ last < MaxGeneration
      /\ TookEffect(o) => open' = {} /\ expired' = {} /\ last' = last + 1 /\ registered' = last'
      /\ ~TookEffect(o) => UNCHANGED <<last, registered, open, expired>>
  BY DEF CallRegister, ClientsInv
<1>2. /\ o = "refused" <=> ~up
      /\ failures' \in [Clients -> Nat] /\ \A d \in Clients : failures'[d] >= failures[d]
  BY <1>1, EndsCounts DEF CallRegister
<1>3. CoreTyped' /\ last <= last'
  BY <1>1, <1>2, CallsAssumption DEF CoreTyped, Typed
<1>4. \A d \in Clients : Harmless(d)
  <2>1. CASE TookEffect(o)
    <3>1. TAKE d \in Clients
    <3>2. GenerationOf(d) <= last
      BY DEF ClientsInv, ClientInv, Numbered
    <3>3. SessionsOf(d)' = {} /\ registered' # GenerationOf(d)
      BY <1>1, <2>1, <3>2, NumbersAreTyped DEF SessionsOf, Typed
    <3>4. QED
      BY <1>2, <3>3 DEF Harmless
  <2>2. CASE ~TookEffect(o)
    BY <1>1, <1>2, <2>2 DEF Harmless, SessionsOf
  <2>3. QED
    BY <2>1, <2>2
<1>5. QED
  BY <1>1, <1>2, <1>3, <1>4 DEF Serves, TookEffect

\* A session that is opened is its caller's.
LEMMA CreateServes ==
  ASSUME Typed, NEW c \in Clients, NEW accepted \in BOOLEAN, NEW k \in Nat, NEW o \in Outcomes,
         CallCreateSession(c, accepted, k, o)
  PROVE  /\ Serves(c) /\ UNCHANGED <<up, last, registered, expired>>
         /\ TookEffect(o) => up /\ accepted /\ open' = open \cup {<<c, k>>}
         /\ ~TookEffect(o) => open' = open
         /\ o \in {"failed", "lost"} => failures'[c] = failures[c] + 1
<1>1. /\ UNCHANGED <<up, last, registered, expired>>
      /\ TookEffect(o) => open' = open \cup {<<c, k>>}
      /\ ~TookEffect(o) => open' = open
  BY DEF CallCreateSession
<1>2. /\ o = "refused" <=> ~(up /\ accepted)
      /\ failures' \in [Clients -> Nat] /\ \A d \in Clients : failures'[d] >= failures[d]
      /\ o \in {"failed", "lost"} => failures'[c] = failures[c] + 1
  BY EndsCounts DEF CallCreateSession
<1>3. CoreTyped' /\ last <= last'
  BY <1>1, <1>2 DEF CoreTyped, Typed
<1>4. \A d \in Clients \ {c} : SessionsOf(d)' = SessionsOf(d)
  BY <1>1 DEF SessionsOf
<1>5. QED
  BY <1>1, <1>2, <1>3, <1>4 DEF Serves, Harmless, TookEffect

\* So is one that is deleted.
LEMMA DeleteServes ==
  ASSUME Typed, NEW c \in Clients, NEW k \in Nat, NEW inner \in SUBSET Nat, NEW o \in Outcomes,
         CallDeleteSession(c, k, inner, o)
  PROVE  /\ Serves(c) /\ UNCHANGED <<up, last, registered, expired>>
         /\ TookEffect(o) => open' = open \ {<<c, i>> : i \in {k} \cup inner}
         /\ ~TookEffect(o) => open' = open
         /\ o = "refused" => ~up \/ <<c, k>> \notin open
         /\ o \in {"failed", "lost"} => failures'[c] = failures[c] + 1
<1>1. /\ UNCHANGED <<up, last, registered, expired>>
      /\ TookEffect(o) => open' = open \ {<<c, i>> : i \in {k} \cup inner}
      /\ ~TookEffect(o) => open' = open
  BY DEF CallDeleteSession
<1>2. /\ o = "refused" => ~up \/ <<c, k>> \notin open
      /\ failures' \in [Clients -> Nat] /\ \A d \in Clients : failures'[d] >= failures[d]
      /\ o \in {"failed", "lost"} => failures'[c] = failures[c] + 1
  <2>1. PICK known \in BOOLEAN : (<<c, k>> \in open => known) /\ Ends(c, known, o)
    BY DEF CallDeleteSession
  <2>2. /\ o = "refused" <=> ~(up /\ known)
        /\ failures' \in [Clients -> Nat] /\ \A d \in Clients : failures'[d] >= failures[d]
        /\ o \in {"failed", "lost"} => failures'[c] = failures[c] + 1
    BY <2>1, EndsCounts
  <2>3. QED
    BY <2>1, <2>2
<1>3. CoreTyped' /\ last <= last'
  BY <1>1, <1>2 DEF CoreTyped, Typed
<1>4. \A d \in Clients \ {c} : SessionsOf(d)' = SessionsOf(d)
  BY <1>1 DEF SessionsOf
<1>5. QED
  BY <1>1, <1>2, <1>3, <1>4 DEF Serves, Harmless

\* Sessions that expire are one client's.
LEMMA ExpiryServes ==
  ASSUME Typed, NEW c \in Clients, NEW ks \in SUBSET Nat, SessionsExpire(c, ks)
  PROVE  /\ Serves(c) /\ UNCHANGED <<up, last, registered, failures>>
         /\ open' = open \ {<<c, k>> : k \in ks}
         /\ expired' = expired \cup {<<c, k>> : k \in ks}
<1>1. /\ UNCHANGED <<up, last, registered, failures>>
      /\ open' = open \ {<<c, k>> : k \in ks}
      /\ expired' = expired \cup {<<c, k>> : k \in ks}
  BY DEF SessionsExpire
<1>2. CoreTyped' /\ last <= last'
  BY <1>1 DEF CoreTyped, Typed
<1>3. \A d \in Clients \ {c} : Harmless(d)
  <2>1. TAKE d \in Clients \ {c}
  <2>2. SessionsOf(d)' = SessionsOf(d) /\ \A k : <<d, k>> \in expired => <<d, k>> \in expired'
    BY <1>1 DEF SessionsOf
  <2>3. failures'[d] >= failures[d]
    BY <1>1 DEF Typed
  <2>4. QED
    BY <1>1, <2>2, <2>3 DEF Harmless
<1>4. failures'[c] >= failures[c]
  BY <1>1 DEF Typed
<1>5. QED
  BY <1>1, <1>2, <1>3, <1>4 DEF Serves

\* A removal takes the sessions of the generation it names.
LEMMA RemoveServes ==
  ASSUME ClientsInv, NEW c \in Clients, NEW g \in Nat, NEW o \in Outcomes, CallRemove(c, g, o)
  PROVE  /\ Serves(c) /\ UNCHANGED <<up, last>>
         /\ TookEffect(o) => open' = {} /\ expired' = {} /\ registered' = Nobody
         /\ ~TookEffect(o) => UNCHANGED <<registered, open, expired>>
         /\ o = "refused" => ~up \/ registered # g
         /\ o \in {"failed", "lost"} => failures'[c] = failures[c] + 1
<1>1. /\ Typed /\ UNCHANGED <<up, last>>
      /\ TookEffect(o) => open' = {} /\ expired' = {} /\ registered' = Nobody
      /\ ~TookEffect(o) => UNCHANGED <<registered, open, expired>>
  BY DEF CallRemove, ClientsInv
<1>2. /\ o = "refused" <=> ~(up /\ registered = g)
      /\ failures' \in [Clients -> Nat] /\ \A d \in Clients : failures'[d] >= failures[d]
      /\ o \in {"failed", "lost"} => failures'[c] = failures[c] + 1
  BY <1>1, EndsCounts DEF CallRemove
<1>3. CoreTyped' /\ last <= last'
  BY <1>1, <1>2 DEF CoreTyped, Typed, Nobody
<1>4. \A d \in Clients : Harmless(d)
  <2>1. CASE TookEffect(o)
    BY <1>1, <1>2, <2>1 DEF Harmless, SessionsOf, Nobody
  <2>2. CASE ~TookEffect(o)
    BY <1>1, <1>2, <2>2 DEF Harmless, SessionsOf
  <2>3. QED
    BY <2>1, <2>2
<1>5. QED
  BY <1>1, <1>2, <1>3, <1>4 DEF Serves

-----------------------------------------------------------------------------
(* A step of one client *)

\* One client acts and shows its part of the invariant; the others rest.
LEMMA OneClientSteps ==
  ASSUME ClientsInv, NEW c \in Clients, Serves(c), LaunchType', AttachType',
         \A d \in Clients \ {c} : Rests(d), SessionsAreRegistered', ClientInv(c)'
  PROVE  ClientsInv'
<1>1. \A d \in Clients \ {c} : ClientInv(d)'
  BY OthersKeep DEF Serves
<1>2. Typed'
  BY DEF Serves, CoreTyped, Typed
<1>3. QED
  BY <1>1, <1>2 DEF ClientsInv

\* Sessions stay registered where registrations stay and what is opened is the caller's.
LEMMA StillRegistered ==
  ASSUME ClientsInv, NEW c \in Clients, UNCHANGED up,
         \/ open' = {}
         \/ /\ registered' = registered
            /\ \A d \in Clients : GenerationOf(d)' = GenerationOf(d)
            /\ \/ open' \subseteq open
               \/ up /\ registered # Nobody /\ registered = GenerationOf(c) /\ \E k : open' = open \cup {<<c, k>>}
  PROVE  SessionsAreRegistered'
<1>1. SessionsAreRegistered /\ open \subseteq Clients \X Nat
  BY DEF ClientsInv, Typed
<1>2. CASE open' = {}
  BY <1>2 DEF SessionsAreRegistered
<1>3. CASE /\ registered' = registered
           /\ \A d \in Clients : GenerationOf(d)' = GenerationOf(d)
           /\ open' \subseteq open
  <2>1. \A s \in open' : s[1] \in Clients /\ s \in open
    BY <1>1, <1>3
  <2>2. \A s \in open' : registered' # Nobody /\ registered' = GenerationOf(s[1])
    BY <1>1, <1>3, <2>1 DEF SessionsAreRegistered
  <2>3. \A s \in open' : registered' = GenerationOf(s[1])'
    BY <1>3, <2>1, <2>2
  <2>4. QED
    BY <1>1, <1>3, <2>2, <2>3 DEF SessionsAreRegistered
<1>4. CASE /\ registered' = registered
           /\ \A d \in Clients : GenerationOf(d)' = GenerationOf(d)
           /\ up /\ registered # Nobody /\ registered = GenerationOf(c) /\ \E k : open' = open \cup {<<c, k>>}
  <2>1. \A s \in open' : s[1] \in Clients /\ (s \in open \/ s[1] = c)
    BY <1>1, <1>4
  <2>2. \A s \in open' : registered' # Nobody /\ registered' = GenerationOf(s[1])
    BY <1>1, <1>4, <2>1 DEF SessionsAreRegistered
  <2>3. \A s \in open' : registered' = GenerationOf(s[1])'
    BY <1>4, <2>1, <2>2
  <2>4. QED
    BY <1>1, <1>4, <2>2, <2>3 DEF SessionsAreRegistered
<1>5. QED
  BY <1>2, <1>3, <1>4

\* Frames: what an action of a launcher, or of a controller, leaves alone.
LEMMA LauncherActs ==
  ASSUME Typed, NEW l \in Launchers, NEW a, launch' = [launch EXCEPT ![l] = a] \/ launch' = launch,
         NEW b, child' = [child EXCEPT ![l] = b] \/ child' = child,
         NEW e, guard' = [guard EXCEPT ![l] = e] \/ guard' = guard,
         UNCHANGED attachVars
  PROVE  \A d \in Clients \ {l} : Rests(d) /\ GenerationOf(d)' = GenerationOf(d)
  BY DEF Typed, LaunchType, attachVars, Rests, GenerationOf

-----------------------------------------------------------------------------
(* `veil launch` *)

\* A step of a launcher, its goroutines or its child that asks the core for no more
\* than a renewal.
LEMMA LauncherMoves ==
  ASSUME ClientsInv, NEW l \in Launchers, Serves(l), UNCHANGED <<up, last, registered, open, expired>>,
         UNCHANGED attachVars, LaunchType',
         \A m \in Launchers \ {l} : launch'[m] = launch[m] /\ child'[m] = child[m] /\ guard'[m] = guard[m],
         launch'[l].generation = launch[l].generation,
         \/ launch'[l].at = launch[l].at
         \/ launch[l].at \notin {"start", "done", "dead"} /\ launch'[l].at \notin {"start", "done"},
         launch'[l].at = "dead" \/ Kept(l) \subseteq Kept(l)',
         Sheltered(l)'
  PROVE  ClientsInv'
<1>1. l \in Clients /\ l \notin Holders
  BY ClientsAssumption
<1>2. \A d \in Clients : GenerationOf(d)' = GenerationOf(d)
  BY DEF GenerationOf, attachVars
<1>3. \A d \in Clients \ {l} : Rests(d)
  BY DEF Rests, attachVars
<1>4. SessionsAreRegistered'
  BY <1>1, <1>2, StillRegistered
<1>5. AttachType'
  BY DEF ClientsInv, Typed, AttachType, attachVars
<1>6. ClientInv(l) /\ failures[l] \in Nat /\ failures'[l] \in Nat /\ failures'[l] >= failures[l]
  BY <1>1 DEF ClientsInv, Typed, Serves, CoreTyped
<1>7. SessionsOf(l)' = SessionsOf(l) /\ Where(l) = launch[l].at /\ Where(l)' = launch'[l].at
  BY DEF SessionsOf, Where
<1>8. Accounted(l)'
  <2>1. CASE launch'[l].at = "dead"
    BY <1>7, <2>1 DEF Accounted
  <2>2. CASE launch'[l].at # "dead" /\ Kept(l) \subseteq Kept(l)'
    BY <1>6, <1>7, <2>2 DEF ClientInv, Accounted
  <2>3. QED
    BY <2>1, <2>2
<1>9. Numbered(l)' /\ Nests(l)'
  BY <1>1, <1>2, <1>6, <1>7 DEF ClientInv, Numbered, Nests
<1>10. ClientInv(l)'
  BY <1>1, <1>8, <1>9 DEF ClientInv
<1>11. QED
  BY <1>1, <1>3, <1>4, <1>5, <1>10, OneClientSteps

\* What a launcher's state can be read from.
LEMMA LauncherState ==
  ASSUME ClientsInv, NEW l \in Launchers
  PROVE  l \in Clients /\ Typed /\ LaunchType /\ Sheltered(l)
  BY ClientsAssumption DEF ClientsInv, Typed, ClientInv

\* The values of guard, child and nested for one launcher, and of hold for one program.
Guards == [cancelled : BOOLEAN, done : BOOLEAN, lease : {"none", "ticking", "ended"},
           egress : {"none", "watching", "reporting", "grace", "ended"}]
Groups == [root : {"none", "alive", "exited"}, members : SUBSET Members, bound : BOOLEAN]
NestedLaunches == [at : {"none", "created", "running", "deleting", "done", "killed"}, group : BOOLEAN]

\* What such a step must show: where the launcher is, and that nothing that was quiet
\* begins but where the launcher is at work.
Goes(l) ==
  /\ LaunchType'
  /\ \A m \in Launchers \ {l} : launch'[m] = launch[m] /\ child'[m] = child[m] /\ guard'[m] = guard[m]
  /\ launch'[l].generation = launch[l].generation

\* A goroutine's step, in these terms.
LEMMA GuardGoes ==
  ASSUME LaunchType, NEW l \in Launchers, UNCHANGED <<launch, child, nested>>,
         NEW g \in Guards,
         guard' = [guard EXCEPT ![l] = g]
  PROVE  Goes(l) /\ guard'[l] = g
  BY DEF LaunchType, Goes, Guards

\* The goroutines stop and end the child's context: nothing that was quiet begins.
LEMMA GuardStep ==
  ASSUME ClientsInv, NEW l \in Launchers, UNCHANGED attachVars, UNCHANGED <<launch, child, nested>>,
         Serves(l), UNCHANGED <<up, last, registered, open, expired>>,
         NEW g \in Guards,
         guard' = [guard EXCEPT ![l] = g],
         guard[l].lease \in {"none", "ended"} => g.lease \in {"none", "ended"},
         guard[l].egress \in {"none", "ended"} => g.egress \in {"none", "ended"}
  PROVE  ClientsInv'
<1>1. l \in Clients /\ Typed /\ LaunchType /\ Sheltered(l)
  BY LauncherState
<1>2. Goes(l) /\ guard'[l] = g
  BY <1>1, GuardGoes
<1>3. Sheltered(l)'
  BY <1>1, <1>2 DEF Sheltered, Quiet
<1>4. Kept(l)' = Kept(l)
  BY DEF Kept
<1>5. QED
  BY <1>2, <1>3, <1>4, LauncherMoves DEF Goes

\* What the goroutines do beside renewing the lease.
Quietly(l) ==
  \/ StopLease(l) \/ ObserveEgress(l) \/ ReportEgress(l) \/ ObservationFails(l) \/ GraceEnds(l) \/ StopWatch(l) \/ Interrupt(l)

\* The goroutines that watch, and the signal that interrupts.
LEMMA QuietSteps ==
  ASSUME ClientsInv, NEW l \in Launchers, UNCHANGED attachVars, Quietly(l)
  PROVE  ClientsInv'
<1>1. l \in Clients /\ Typed /\ LaunchType /\ Sheltered(l)
  BY LauncherState
<1>2. Serves(l) /\ UNCHANGED <<up, last, registered, open, expired, launch, child, nested>>
  BY <1>1, NoCallServes DEF Quietly, StopLease, ObserveEgress, ReportEgress, ObservationFails, GraceEnds, StopWatch, Interrupt, NoCall, coreVars
<1>3. guard[l] \in Guards
      /\ guard \in [Launchers -> Guards]
  BY <1>1 DEF LaunchType, Guards
<1>4. CASE StopLease(l)
  <2>1. guard' = [guard EXCEPT ![l] = [guard[l] EXCEPT !.lease = "ended"]]
    BY <1>3, <1>4 DEF StopLease
  <2>2. QED
    BY <1>2, <1>3, <2>1, GuardStep DEF Guards
<1>5. CASE ObserveEgress(l)
  <2>1. guard' = [guard EXCEPT ![l] = [guard[l] EXCEPT !.egress = "reporting", !.cancelled = TRUE]] /\ guard[l].egress = "watching"
    BY <1>3, <1>5 DEF ObserveEgress
  <2>2. QED
    BY <1>2, <1>3, <2>1, GuardStep DEF Guards
<1>6. CASE ReportEgress(l)
  <2>1. guard' = [guard EXCEPT ![l] = [guard[l] EXCEPT !.egress = "ended"]]
    BY <1>3, <1>6 DEF ReportEgress
  <2>2. QED
    BY <1>2, <1>3, <2>1, GuardStep DEF Guards
<1>7. CASE ObservationFails(l)
  <2>1. guard' = [guard EXCEPT ![l] = [guard[l] EXCEPT !.egress = "grace"]] /\ guard[l].egress = "watching"
    BY <1>3, <1>7 DEF ObservationFails
  <2>2. QED
    BY <1>2, <1>3, <2>1, GuardStep DEF Guards
<1>8. CASE GraceEnds(l)
  <2>1. PICK noticed \in BOOLEAN : guard' = [guard EXCEPT ![l].egress = "ended", ![l].cancelled = @ \/ ~noticed]
    BY <1>8 DEF GraceEnds
  <2> DEFINE stops == guard[l].cancelled \/ ~noticed
  <2>2. guard' = [guard EXCEPT ![l] = [guard[l] EXCEPT !.egress = "ended", !.cancelled = stops]] /\ stops \in BOOLEAN
    BY <1>3, <2>1
  <2> HIDE DEF stops
  <2>3. QED
    BY <1>2, <1>3, <2>2, GuardStep DEF Guards
<1>9. CASE StopWatch(l)
  <2>1. guard' = [guard EXCEPT ![l] = [guard[l] EXCEPT !.egress = "ended"]]
    BY <1>3, <1>9 DEF StopWatch
  <2>2. QED
    BY <1>2, <1>3, <2>1, GuardStep DEF Guards
<1>10. CASE Interrupt(l)
  <2>1. guard' = [guard EXCEPT ![l] = [guard[l] EXCEPT !.cancelled = TRUE]]
    BY <1>3, <1>10 DEF Interrupt, CancelChild
  <2>2. QED
    BY <1>2, <1>3, <2>1, GuardStep DEF Guards
<1>11. QED
  BY <1>4, <1>5, <1>6, <1>7, <1>8, <1>9, <1>10 DEF Quietly

\* The lease's goroutine renews it, or is told that it is over.
LEMMA LeaseSteps ==
  ASSUME ClientsInv, NEW l \in Launchers, UNCHANGED attachVars, RenewLease(l) \/ LoseLease(l)
  PROVE  ClientsInv'
<1>1. l \in Clients /\ Typed /\ LaunchType /\ Sheltered(l)
  BY LauncherState
<1>2. UNCHANGED <<launch, child, nested>>
  BY DEF RenewLease, LoseLease, launchVars
<1>3. Serves(l) /\ UNCHANGED <<up, last, registered, open, expired>>
  <2>1. CASE NoCall
    BY <1>1, <2>1, NoCallServes DEF NoCall, coreVars
  <2>2. CASE \E o \in Outcomes : CallHeartbeat(l, launch[l].generation, o)
    BY <1>1, <2>2, HeartbeatServes
  <2>3. "done" \in Outcomes
    BY DEF Outcomes
  <2>4. QED
    BY <2>1, <2>2, <2>3 DEF RenewLease, LoseLease
<1>4. guard[l] \in Guards /\ guard \in [Launchers -> Guards]
  BY <1>1 DEF LaunchType, Guards
<1>5. CASE RenewLease(l)
  <2>1. guard' = [guard EXCEPT ![l] = guard[l]]
    BY <1>4, <1>5 DEF RenewLease, launchVars
  <2>2. QED
    BY <1>2, <1>3, <1>4, <2>1, GuardStep
<1>6. CASE LoseLease(l)
  <2>1. guard' = [guard EXCEPT ![l] = [guard[l] EXCEPT !.lease = "ended", !.cancelled = TRUE]]
    BY <1>4, <1>6 DEF LoseLease
  <2>2. QED
    BY <1>2, <1>3, <1>4, <2>1, GuardStep DEF Guards
<1>7. QED
  BY <1>5, <1>6

\* The child's processes come and go: its root starts once, with the launcher.
LEMMA GroupStep ==
  ASSUME ClientsInv, NEW l \in Launchers, UNCHANGED attachVars, UNCHANGED <<launch, guard>>, NoCall,
         NEW g \in Groups, child' = [child EXCEPT ![l] = g],
         g.root = "alive" => child[l].root = "alive",
         nested' \in [Launchers -> NestedLaunches]
  PROVE  ClientsInv'
<1>1. l \in Clients /\ Typed /\ LaunchType /\ Sheltered(l)
  BY LauncherState
<1>2. Serves(l) /\ UNCHANGED <<up, last, registered, open, expired>>
  BY <1>1, NoCallServes DEF NoCall, coreVars
<1>3. Goes(l) /\ child'[l] = g
  BY <1>1 DEF Goes, LaunchType, Groups, NestedLaunches
<1>4. Sheltered(l)'
  BY <1>1, <1>3 DEF Sheltered, Quiet
<1>5. Kept(l)' = Kept(l)
  BY DEF Kept
<1>6. QED
  BY <1>2, <1>3, <1>4, <1>5, LauncherMoves DEF Goes

\* A kill reaches into the nested launch.
LEMMA KillsTyped ==
  ASSUME nested \in [Launchers -> NestedLaunches], NEW l \in Launchers, KillsNested(l)
  PROVE  nested' \in [Launchers -> NestedLaunches]
  BY DEF KillsNested, NestedLaunches

\* What the processes of the group do, and what is done to them.
OfTheGroup(l) ==
  Fork(l) \/ RootExits(l) \/ MemberExits(l) \/ KillGroup(l) \/ Reap(l) \/ NestedStarts(l) \/ NestedEnds(l)

\* The child's processes and the nested launch's, without a call.
LEMMA GroupSteps ==
  ASSUME ClientsInv, NEW l \in Launchers, UNCHANGED attachVars, OfTheGroup(l)
  PROVE  ClientsInv'
<1>1. LaunchType /\ child[l] \in Groups /\ child \in [Launchers -> Groups] /\ nested \in [Launchers -> NestedLaunches]
  BY LauncherState DEF LaunchType, Groups, NestedLaunches
<1>2. UNCHANGED <<launch, guard>> /\ NoCall
  BY DEF OfTheGroup, Fork, RootExits, MemberExits, KillGroup, Reap, NestedStarts, NestedEnds
<1>3. CASE Fork(l)
  <2>1. PICK p \in Members : child' = [child EXCEPT ![l].members = @ \cup {p}]
    BY <1>3 DEF Fork
  <2>2. child' = [child EXCEPT ![l] = [child[l] EXCEPT !.members = @ \cup {p}]] /\ UNCHANGED nested
    BY <1>1, <1>3, <2>1 DEF Fork
  <2>3. [child[l] EXCEPT !.members = @ \cup {p}] \in Groups
    BY <1>1 DEF Groups
  <2>4. QED
    BY <1>1, <1>2, <2>2, <2>3, GroupStep DEF Groups
<1>4. CASE RootExits(l)
  <2>1. child' = [child EXCEPT ![l] = [child[l] EXCEPT !.root = "exited"]] /\ UNCHANGED nested
    BY <1>1, <1>4 DEF RootExits
  <2>2. QED
    BY <1>1, <1>2, <2>1, GroupStep DEF Groups
<1>5. CASE MemberExits(l)
  <2>1. PICK p : child' = [child EXCEPT ![l].members = @ \ {p}]
    BY <1>5 DEF MemberExits
  <2>2. child' = [child EXCEPT ![l] = [child[l] EXCEPT !.members = @ \ {p}]] /\ UNCHANGED nested
    BY <1>1, <1>5, <2>1 DEF MemberExits
  <2>3. [child[l] EXCEPT !.members = @ \ {p}] \in Groups
    BY <1>1 DEF Groups
  <2>4. QED
    BY <1>1, <1>2, <2>2, <2>3, GroupStep DEF Groups
<1>6. CASE KillGroup(l)
  <2>1. child' = [child EXCEPT ![l] = [Killed(l) EXCEPT !.bound = FALSE]] /\ KillsNested(l)
    BY <1>6 DEF KillGroup
  <2>2. [Killed(l) EXCEPT !.bound = FALSE] \in Groups /\ [Killed(l) EXCEPT !.bound = FALSE].root = "exited"
    BY <1>1 DEF Killed, Groups
  <2>3. QED
    BY <1>1, <1>2, <2>1, <2>2, KillsTyped, GroupStep
<1>7. CASE Reap(l)
  <2>1. child' = [child EXCEPT ![l] = [child[l] EXCEPT !.bound = FALSE]] /\ UNCHANGED nested
    BY <1>1, <1>7 DEF Reap
  <2>2. QED
    BY <1>1, <1>2, <2>1, GroupStep DEF Groups
<1>8. CASE NestedStarts(l) \/ NestedEnds(l)
  <2>1. child' = [child EXCEPT ![l] = child[l]]
    BY <1>1, <1>8 DEF NestedStarts, NestedEnds
  <2>2. nested' \in [Launchers -> NestedLaunches]
    <3>1. CASE NestedStarts(l)
      <4>1. \/ nested' = [nested EXCEPT ![l] = [at |-> "running", group |-> TRUE]]
            \/ nested' = [nested EXCEPT ![l].at = "deleting"]
        BY <3>1 DEF NestedStarts
      <4>2. CASE nested' = [nested EXCEPT ![l] = [at |-> "running", group |-> TRUE]]
        BY <1>1, <4>2 DEF NestedLaunches
      <4>3. CASE nested' = [nested EXCEPT ![l].at = "deleting"]
        BY <1>1, <4>3 DEF NestedLaunches
      <4>4. QED
        BY <4>1, <4>2, <4>3
    <3>2. CASE NestedEnds(l)
      BY <1>1, <3>2 DEF NestedEnds, NestedLaunches
    <3>3. QED
      BY <1>8, <3>1, <3>2
  <2>3. QED
    BY <1>1, <1>2, <2>1, <2>2, GroupStep
<1>9. QED
  BY <1>3, <1>4, <1>5, <1>6, <1>7, <1>8 DEF OfTheGroup

\* The launcher goes on to its next step.
LEMMA FlowStep ==
  ASSUME ClientsInv, NEW l \in Launchers, UNCHANGED attachVars, NoCall,
         NEW w \in {"created", "starting", "started", "waiting", "abandoning", "joining", "cleaning", "revoking", "removing", "dead"},
         launch' = [launch EXCEPT ![l].at = w], launch[l].at \notin {"start", "done", "dead"},
         NEW g \in Groups, child' = [child EXCEPT ![l] = g],
         NEW e \in Guards, guard' = [guard EXCEPT ![l] = e],
         nested' \in [Launchers -> NestedLaunches],
         w = "removing" => launch[l].at = "registered",
         g.root = "alive" => w \in {"started", "waiting", "abandoning", "dead"},
         w \in {"created", "cleaning", "revoking", "removing"} =>
           e.lease \in {"none", "ended"} /\ e.egress \in {"none", "ended"}
  PROVE  ClientsInv'
<1>1. l \in Clients /\ l \notin Holders /\ Typed /\ LaunchType /\ Sheltered(l)
  BY LauncherState, ClientsAssumption
<1>2. Serves(l) /\ UNCHANGED <<up, last, registered, open, expired>>
  BY <1>1, NoCallServes DEF NoCall, coreVars
<1>3. /\ launch[l] \in [at : {"start", "registered", "created", "starting", "started", "waiting", "abandoning",
                              "joining", "cleaning", "revoking", "removing", "done", "dead"}, generation : 0..MaxGeneration]
      /\ launch \in [Launchers -> [at : {"start", "registered", "created", "starting", "started", "waiting", "abandoning",
                              "joining", "cleaning", "revoking", "removing", "done", "dead"}, generation : 0..MaxGeneration]]
      /\ child \in [Launchers -> Groups] /\ guard \in [Launchers -> Guards]
  BY <1>1 DEF LaunchType, Groups, Guards
<1>4. LaunchType'
  BY <1>3 DEF LaunchType, Groups, Guards, NestedLaunches
<1>5. /\ launch'[l].at = w /\ launch'[l].generation = launch[l].generation /\ child'[l] = g /\ guard'[l] = e
      /\ \A m \in Launchers \ {l} : launch'[m] = launch[m] /\ child'[m] = child[m] /\ guard'[m] = guard[m]
  BY <1>3
<1>6. Sheltered(l)'
  BY <1>5 DEF Sheltered, Quiet
<1>7. w = "dead" \/ Kept(l) \subseteq Kept(l)'
  BY <1>3, <1>5 DEF Kept
<1>8. QED
  BY <1>2, <1>4, <1>5, <1>6, <1>7, LauncherMoves

\* What runProtected does between its calls.
Flows(l) ==
  \/ RefusePlan(l) \/ PrepareFails(l) \/ Prepare(l) \/ StartFails(l) \/ Start(l) \/ Watch(l)
  \/ WatchFailsToStart(l) \/ WaitReturns(l) \/ AbandonedWaitReturns(l) \/ Join(l) \/ CleanHome(l) \/ Dies(l)

\* The steps of runProtected that make no call.
LEMMA FlowSteps ==
  ASSUME ClientsInv, NEW l \in Launchers, UNCHANGED attachVars, Flows(l)
  PROVE  ClientsInv'
<1>1. /\ LaunchType /\ Sheltered(l) /\ child[l] \in Groups /\ guard[l] \in Guards
      /\ child \in [Launchers -> Groups] /\ guard \in [Launchers -> Guards] /\ nested \in [Launchers -> NestedLaunches]
  BY LauncherState DEF LaunchType, Groups, Guards, NestedLaunches
<1>2. NoCall
  BY DEF Flows, RefusePlan, PrepareFails, Prepare, StartFails, Start, Watch, WatchFailsToStart, WaitReturns, AbandonedWaitReturns, Join, CleanHome, Dies
<1>3. CASE RefusePlan(l)
  <2>1. /\ launch' = [launch EXCEPT ![l].at = "removing"]
        /\ child' = [child EXCEPT ![l] = child[l]]
        /\ guard' = [guard EXCEPT ![l] = guard[l]]
        /\ nested' \in [Launchers -> NestedLaunches]
    BY <1>1, <1>3 DEF RefusePlan, Moves
  <2>2. /\ launch[l].at \notin {"start", "done", "dead"}
        /\ "removing" = "removing" => launch[l].at = "registered"
        /\ child[l] \in Groups /\ guard[l] \in Guards
    BY <1>1, <1>3 DEF RefusePlan, At, Groups, Guards
  <2>3. /\ child[l].root = "alive" => "removing" \in {"started", "waiting", "abandoning", "dead"}
        /\ "removing" \in {"created", "cleaning", "revoking", "removing"} =>
             guard[l].lease \in {"none", "ended"} /\ guard[l].egress \in {"none", "ended"}
    BY <1>1, <1>3 DEF RefusePlan, At, Groups, Guards, Sheltered, Quiet
  <2>4. QED
    BY <1>2, <2>1, <2>2, <2>3, FlowStep
<1>4. CASE PrepareFails(l)
  <2>1. /\ launch' = [launch EXCEPT ![l].at = "revoking"]
        /\ child' = [child EXCEPT ![l] = child[l]]
        /\ guard' = [guard EXCEPT ![l] = guard[l]]
        /\ nested' \in [Launchers -> NestedLaunches]
    BY <1>1, <1>4 DEF PrepareFails, Moves, CancelChild
  <2>2. /\ launch[l].at \notin {"start", "done", "dead"}
        /\ "revoking" = "removing" => launch[l].at = "registered"
        /\ child[l] \in Groups /\ guard[l] \in Guards
    BY <1>1, <1>4 DEF PrepareFails, At, Groups, Guards
  <2>3. /\ child[l].root = "alive" => "revoking" \in {"started", "waiting", "abandoning", "dead"}
        /\ "revoking" \in {"created", "cleaning", "revoking", "removing"} =>
             guard[l].lease \in {"none", "ended"} /\ guard[l].egress \in {"none", "ended"}
    BY <1>1, <1>4 DEF PrepareFails, At, Groups, Guards, Sheltered, Quiet
  <2>4. QED
    BY <1>2, <2>1, <2>2, <2>3, FlowStep
<1>5. CASE Prepare(l)
  <2>1. /\ launch' = [launch EXCEPT ![l].at = "starting"]
        /\ child' = [child EXCEPT ![l] = child[l]]
        /\ guard' = [guard EXCEPT ![l] = [guard[l] EXCEPT !.lease = "ticking"]]
        /\ nested' \in [Launchers -> NestedLaunches]
    BY <1>1, <1>5 DEF Prepare, Moves
  <2>2. /\ launch[l].at \notin {"start", "done", "dead"}
        /\ "starting" = "removing" => launch[l].at = "registered"
        /\ child[l] \in Groups /\ [guard[l] EXCEPT !.lease = "ticking"] \in Guards
    BY <1>1, <1>5 DEF Prepare, At, Groups, Guards
  <2>3. /\ child[l].root = "alive" => "starting" \in {"started", "waiting", "abandoning", "dead"}
        /\ "starting" \in {"created", "cleaning", "revoking", "removing"} =>
             [guard[l] EXCEPT !.lease = "ticking"].lease \in {"none", "ended"} /\ [guard[l] EXCEPT !.lease = "ticking"].egress \in {"none", "ended"}
    BY <1>1, <1>5 DEF Prepare, At, Groups, Guards, Sheltered, Quiet
  <2>4. QED
    BY <1>2, <2>1, <2>2, <2>3, FlowStep
<1>6. CASE StartFails(l)
  <2>1. /\ launch' = [launch EXCEPT ![l].at = "joining"]
        /\ child' = [child EXCEPT ![l] = child[l]]
        /\ guard' = [guard EXCEPT ![l] = [guard[l] EXCEPT !.cancelled = TRUE]]
        /\ nested' \in [Launchers -> NestedLaunches]
    BY <1>1, <1>6 DEF StartFails, Moves, CancelChild
  <2>2. /\ launch[l].at \notin {"start", "done", "dead"}
        /\ "joining" = "removing" => launch[l].at = "registered"
        /\ child[l] \in Groups /\ [guard[l] EXCEPT !.cancelled = TRUE] \in Guards
    BY <1>1, <1>6 DEF StartFails, At, Groups, Guards
  <2>3. /\ child[l].root = "alive" => "joining" \in {"started", "waiting", "abandoning", "dead"}
        /\ "joining" \in {"created", "cleaning", "revoking", "removing"} =>
             [guard[l] EXCEPT !.cancelled = TRUE].lease \in {"none", "ended"} /\ [guard[l] EXCEPT !.cancelled = TRUE].egress \in {"none", "ended"}
    BY <1>1, <1>6 DEF StartFails, At, Groups, Guards, Sheltered, Quiet
  <2>4. QED
    BY <1>2, <2>1, <2>2, <2>3, FlowStep
<1>7. CASE Start(l)
  <2>1. /\ launch' = [launch EXCEPT ![l].at = "started"]
        /\ child' = [child EXCEPT ![l] = [root |-> "alive", members |-> {}, bound |-> TRUE]]
        /\ guard' = [guard EXCEPT ![l] = guard[l]]
        /\ nested' \in [Launchers -> NestedLaunches]
    BY <1>1, <1>7 DEF Start, Moves
  <2>2. /\ launch[l].at \notin {"start", "done", "dead"}
        /\ "started" = "removing" => launch[l].at = "registered"
        /\ [root |-> "alive", members |-> {}, bound |-> TRUE] \in Groups /\ guard[l] \in Guards
    BY <1>1, <1>7 DEF Start, At, Groups, Guards
  <2>3. /\ [root |-> "alive", members |-> {}, bound |-> TRUE].root = "alive" => "started" \in {"started", "waiting", "abandoning", "dead"}
        /\ "started" \in {"created", "cleaning", "revoking", "removing"} =>
             guard[l].lease \in {"none", "ended"} /\ guard[l].egress \in {"none", "ended"}
    BY <1>1, <1>7 DEF Start, At, Groups, Guards, Sheltered, Quiet
  <2>4. QED
    BY <1>2, <2>1, <2>2, <2>3, FlowStep
<1>8. CASE Watch(l)
  <2>1. /\ launch' = [launch EXCEPT ![l].at = "waiting"]
        /\ child' = [child EXCEPT ![l] = child[l]]
        /\ guard' = [guard EXCEPT ![l] = [guard[l] EXCEPT !.egress = "watching"]]
        /\ nested' \in [Launchers -> NestedLaunches]
    BY <1>1, <1>8 DEF Watch, Moves
  <2>2. /\ launch[l].at \notin {"start", "done", "dead"}
        /\ "waiting" = "removing" => launch[l].at = "registered"
        /\ child[l] \in Groups /\ [guard[l] EXCEPT !.egress = "watching"] \in Guards
    BY <1>1, <1>8 DEF Watch, At, Groups, Guards
  <2>3. /\ child[l].root = "alive" => "waiting" \in {"started", "waiting", "abandoning", "dead"}
        /\ "waiting" \in {"created", "cleaning", "revoking", "removing"} =>
             [guard[l] EXCEPT !.egress = "watching"].lease \in {"none", "ended"} /\ [guard[l] EXCEPT !.egress = "watching"].egress \in {"none", "ended"}
    BY <1>1, <1>8 DEF Watch, At, Groups, Guards, Sheltered, Quiet
  <2>4. QED
    BY <1>2, <2>1, <2>2, <2>3, FlowStep
<1>9. CASE WatchFailsToStart(l)
  <2>1. /\ launch' = [launch EXCEPT ![l].at = "abandoning"]
        /\ child' = [child EXCEPT ![l] = child[l]]
        /\ guard' = [guard EXCEPT ![l] = [guard[l] EXCEPT !.cancelled = TRUE]]
        /\ nested' \in [Launchers -> NestedLaunches]
    BY <1>1, <1>9 DEF WatchFailsToStart, Moves, CancelChild
  <2>2. /\ launch[l].at \notin {"start", "done", "dead"}
        /\ "abandoning" = "removing" => launch[l].at = "registered"
        /\ child[l] \in Groups /\ [guard[l] EXCEPT !.cancelled = TRUE] \in Guards
    BY <1>1, <1>9 DEF WatchFailsToStart, At, Groups, Guards
  <2>3. /\ child[l].root = "alive" => "abandoning" \in {"started", "waiting", "abandoning", "dead"}
        /\ "abandoning" \in {"created", "cleaning", "revoking", "removing"} =>
             [guard[l] EXCEPT !.cancelled = TRUE].lease \in {"none", "ended"} /\ [guard[l] EXCEPT !.cancelled = TRUE].egress \in {"none", "ended"}
    BY <1>1, <1>9 DEF WatchFailsToStart, At, Groups, Guards, Sheltered, Quiet
  <2>4. QED
    BY <1>2, <2>1, <2>2, <2>3, FlowStep
<1>10. CASE WaitReturns(l)
  <2>1. /\ launch' = [launch EXCEPT ![l].at = "joining"]
        /\ child' = [child EXCEPT ![l] = Killed(l)]
        /\ guard' = [guard EXCEPT ![l] = [guard[l] EXCEPT !.done = TRUE, !.cancelled = TRUE]]
        /\ nested' \in [Launchers -> NestedLaunches]
    BY <1>1, <1>10, KillsTyped DEF WaitReturns, Moves
  <2>2. /\ launch[l].at \notin {"start", "done", "dead"}
        /\ "joining" = "removing" => launch[l].at = "registered"
        /\ Killed(l) \in Groups /\ [guard[l] EXCEPT !.done = TRUE, !.cancelled = TRUE] \in Guards
    BY <1>1, <1>10 DEF WaitReturns, At, Groups, Guards, Killed
  <2>3. /\ Killed(l).root = "alive" => "joining" \in {"started", "waiting", "abandoning", "dead"}
        /\ "joining" \in {"created", "cleaning", "revoking", "removing"} =>
             [guard[l] EXCEPT !.done = TRUE, !.cancelled = TRUE].lease \in {"none", "ended"} /\ [guard[l] EXCEPT !.done = TRUE, !.cancelled = TRUE].egress \in {"none", "ended"}
    BY <1>1, <1>10 DEF WaitReturns, At, Groups, Guards, Sheltered, Quiet, Killed
  <2>4. QED
    BY <1>2, <2>1, <2>2, <2>3, FlowStep
<1>11. CASE AbandonedWaitReturns(l)
  <2>1. /\ launch' = [launch EXCEPT ![l].at = "joining"]
        /\ child' = [child EXCEPT ![l] = child[l]]
        /\ guard' = [guard EXCEPT ![l] = guard[l]]
        /\ nested' \in [Launchers -> NestedLaunches]
    BY <1>1, <1>11 DEF AbandonedWaitReturns, Moves
  <2>2. /\ launch[l].at \notin {"start", "done", "dead"}
        /\ "joining" = "removing" => launch[l].at = "registered"
        /\ child[l] \in Groups /\ guard[l] \in Guards
    BY <1>1, <1>11 DEF AbandonedWaitReturns, At, Groups, Guards
  <2>3. /\ child[l].root = "alive" => "joining" \in {"started", "waiting", "abandoning", "dead"}
        /\ "joining" \in {"created", "cleaning", "revoking", "removing"} =>
             guard[l].lease \in {"none", "ended"} /\ guard[l].egress \in {"none", "ended"}
    BY <1>1, <1>11 DEF AbandonedWaitReturns, At, Groups, Guards, Sheltered, Quiet
  <2>4. QED
    BY <1>2, <2>1, <2>2, <2>3, FlowStep
<1>12. CASE Join(l)
  <2>1. /\ launch' = [launch EXCEPT ![l].at = "cleaning"]
        /\ child' = [child EXCEPT ![l] = child[l]]
        /\ guard' = [guard EXCEPT ![l] = guard[l]]
        /\ nested' \in [Launchers -> NestedLaunches]
    BY <1>1, <1>12 DEF Join, Moves
  <2>2. /\ launch[l].at \notin {"start", "done", "dead"}
        /\ "cleaning" = "removing" => launch[l].at = "registered"
        /\ child[l] \in Groups /\ guard[l] \in Guards
    BY <1>1, <1>12 DEF Join, At, Groups, Guards
  <2>3. /\ child[l].root = "alive" => "cleaning" \in {"started", "waiting", "abandoning", "dead"}
        /\ "cleaning" \in {"created", "cleaning", "revoking", "removing"} =>
             guard[l].lease \in {"none", "ended"} /\ guard[l].egress \in {"none", "ended"}
    BY <1>1, <1>12 DEF Join, At, Groups, Guards, Sheltered, Quiet
  <2>4. QED
    BY <1>2, <2>1, <2>2, <2>3, FlowStep
<1>13. CASE CleanHome(l)
  <2>1. /\ launch' = [launch EXCEPT ![l].at = "revoking"]
        /\ child' = [child EXCEPT ![l] = child[l]]
        /\ guard' = [guard EXCEPT ![l] = guard[l]]
        /\ nested' \in [Launchers -> NestedLaunches]
    BY <1>1, <1>13 DEF CleanHome, Moves
  <2>2. /\ launch[l].at \notin {"start", "done", "dead"}
        /\ "revoking" = "removing" => launch[l].at = "registered"
        /\ child[l] \in Groups /\ guard[l] \in Guards
    BY <1>1, <1>13 DEF CleanHome, At, Groups, Guards
  <2>3. /\ child[l].root = "alive" => "revoking" \in {"started", "waiting", "abandoning", "dead"}
        /\ "revoking" \in {"created", "cleaning", "revoking", "removing"} =>
             guard[l].lease \in {"none", "ended"} /\ guard[l].egress \in {"none", "ended"}
    BY <1>1, <1>13 DEF CleanHome, At, Groups, Guards, Sheltered, Quiet
  <2>4. QED
    BY <1>2, <2>1, <2>2, <2>3, FlowStep
<1>14. CASE Dies(l)
  <2>1. /\ launch' = [launch EXCEPT ![l].at = "dead"]
        /\ child' = [child EXCEPT ![l] = [child[l] EXCEPT !.bound = FALSE]]
        /\ guard' = [guard EXCEPT ![l] = [guard[l] EXCEPT !.lease = "none", !.egress = "none"]]
        /\ nested' \in [Launchers -> NestedLaunches]
    BY <1>1, <1>14 DEF Dies, Moves
  <2>2. /\ launch[l].at \notin {"start", "done", "dead"}
        /\ "dead" = "removing" => launch[l].at = "registered"
        /\ [child[l] EXCEPT !.bound = FALSE] \in Groups /\ [guard[l] EXCEPT !.lease = "none", !.egress = "none"] \in Guards
    BY <1>1, <1>14 DEF Dies, At, Groups, Guards
  <2>3. /\ [child[l] EXCEPT !.bound = FALSE].root = "alive" => "dead" \in {"started", "waiting", "abandoning", "dead"}
        /\ "dead" \in {"created", "cleaning", "revoking", "removing"} =>
             [guard[l] EXCEPT !.lease = "none", !.egress = "none"].lease \in {"none", "ended"} /\ [guard[l] EXCEPT !.lease = "none", !.egress = "none"].egress \in {"none", "ended"}
    BY <1>1, <1>14 DEF Dies, At, Groups, Guards, Sheltered, Quiet
  <2>4. QED
    BY <1>2, <2>1, <2>2, <2>3, FlowStep
<1>15. QED
  BY <1>3, <1>4, <1>5, <1>6, <1>7, <1>8, <1>9, <1>10, <1>11, <1>12, <1>13, <1>14 DEF Flows

-----------------------------------------------------------------------------
(* A launcher's calls *)

\* What a launcher that has made a call must show of itself.
LEMMA LauncherCalls ==
  ASSUME ClientsInv, NEW l \in Launchers, Serves(l), SessionsAreRegistered', UNCHANGED attachVars, LaunchType',
         \A m \in Launchers \ {l} : launch'[m] = launch[m] /\ child'[m] = child[m] /\ guard'[m] = guard[m],
         Accounted(l)', Numbered(l)', Sheltered(l)', Nests(l)'
  PROVE  ClientsInv'
<1>1. l \in Clients /\ l \notin Holders
  BY ClientsAssumption
<1>2. \A d \in Clients \ {l} : Rests(d)
  BY DEF Rests, attachVars
<1>3. AttachType'
  BY DEF ClientsInv, Typed, AttachType, attachVars
<1>4. ClientInv(l)'
  BY <1>1 DEF ClientInv
<1>5. QED
  BY <1>1, <1>2, <1>3, <1>4, OneClientSteps

\* The invariant, as a launcher's step uses it.
LEMMA LauncherFacts ==
  ASSUME ClientsInv, NEW l \in Launchers
  PROVE  /\ l \in Clients /\ l \notin Holders /\ Typed /\ LaunchType /\ SessionsAreRegistered
         /\ Accounted(l) /\ Numbered(l) /\ Sheltered(l) /\ Nests(l)
         /\ failures[l] \in Nat /\ launch[l].generation \in 0..MaxGeneration
         /\ GenerationOf(l) = launch[l].generation /\ Where(l) = launch[l].at
  BY ClientsAssumption DEF ClientsInv, ClientInv, Typed, LaunchType, GenerationOf, Where

\* A client that has not registered, or whose registration is gone, has no session.
LEMMA NoSessionWithoutRegistration ==
  ASSUME ClientsInv, NEW c \in Clients, ~up \/ registered # GenerationOf(c) \/ GenerationOf(c) = 0
  PROVE  SessionsOf(c) = {}
  BY DEF ClientsInv, SessionsAreRegistered, SessionsOf, Nobody

\* A registration: the launcher holds the newest generation, or none.
LEMMA RegisterStep ==
  ASSUME ClientsInv, NEW l \in Launchers, UNCHANGED attachVars, Register(l)
  PROVE  ClientsInv'
<1>1. PICK o \in Outcomes :
        /\ CallRegister(l, o)
        /\ launch' = IF o = "done" THEN [launch EXCEPT ![l].at = "registered", ![l].generation = last']
                                   ELSE [launch EXCEPT ![l].at = "done"]
  BY DEF Register
<1>2. launch[l].at = "start" /\ UNCHANGED <<child, guard, nested>>
  BY DEF Register, At
<1>3. /\ l \in Clients /\ l \notin Holders /\ Typed /\ LaunchType /\ Numbered(l) /\ Sheltered(l)
      /\ GenerationOf(l) = launch[l].generation /\ Where(l) = launch[l].at
  BY LauncherFacts
<1>4. /\ Serves(l) /\ up' = up
      /\ TookEffect(o) => up /\ open' = {} /\ expired' = {} /\ last' = last + 1 /\ registered' = last'
      /\ ~TookEffect(o) => UNCHANGED <<last, registered, open, expired>>
  BY <1>1, <1>3, RegisterServes
<1>5. last \in Nat /\ last' \in 0..MaxGeneration /\ launch[l].generation = 0 /\ last' >= 0
  BY <1>2, <1>3, <1>4, CallsAssumption DEF Numbered, Serves, CoreTyped, Typed
<1>6. SessionsOf(l)' = {}
  <2>1. SessionsOf(l) = {}
    BY <1>3, <1>5, NoSessionWithoutRegistration
  <2>2. QED
    BY <1>4, <2>1 DEF SessionsOf
<1>7. LaunchType'
  <2>1. CASE o = "done"
    <3>1. launch' = [launch EXCEPT ![l].at = "registered", ![l].generation = last']
      BY <1>1, <2>1
    <3> DEFINE g == last'
    <3>2. g \in 0..MaxGeneration /\ launch' = [launch EXCEPT ![l].at = "registered", ![l].generation = g]
      BY <1>5, <3>1
    <3> HIDE DEF g
    <3> DEFINE Launches == [at : {"start", "registered", "created", "starting", "started", "waiting", "abandoning",
                                  "joining", "cleaning", "revoking", "removing", "done", "dead"}, generation : 0..MaxGeneration]
    <3>3. launch \in [Launchers -> Launches]
      BY <1>3 DEF LaunchType
    <3> DEFINE first == [launch EXCEPT ![l].at = "registered"]
    <3>4. first \in [Launchers -> Launches]
      BY <3>3
    <3>5. launch' \in [Launchers -> Launches]
      <4>1. launch' = [first EXCEPT ![l].generation = g]
        BY <3>2
      <4> HIDE DEF first
      <4>2. QED
        BY <3>2, <3>4, <4>1
    <3>6. QED
      BY <1>2, <1>3, <3>5 DEF LaunchType
  <2>2. CASE o # "done"
    <3>1. launch' = [launch EXCEPT ![l].at = "done"]
      BY <1>1, <2>2
    <3>2. QED
      BY <1>2, <1>3, <3>1 DEF LaunchType
  <2>3. QED
    BY <2>1, <2>2
<1>8. /\ \A m \in Launchers \ {l} : launch'[m] = launch[m] /\ child'[m] = child[m] /\ guard'[m] = guard[m]
      /\ o = "done" => launch'[l].at = "registered" /\ launch'[l].generation = last'
      /\ o # "done" => launch'[l].at = "done" /\ launch'[l].generation = 0
  BY <1>1, <1>2, <1>3, <1>5 DEF LaunchType
<1>9. SessionsAreRegistered'
  <2>1. CASE TookEffect(o)
    BY <1>3, <1>4, <2>1, StillRegistered
  <2>2. CASE ~TookEffect(o)
    <3>1. o # "done"
      BY <2>2 DEF TookEffect
    <3>2. \A d \in Clients : GenerationOf(d)' = GenerationOf(d)
      BY <1>5, <1>8, <3>1 DEF GenerationOf, attachVars
    <3>3. QED
      BY <1>3, <1>4, <2>2, <3>2, StillRegistered
  <2>3. QED
    BY <2>1, <2>2
<1>10. Accounted(l)'
  BY <1>6 DEF Accounted
<1>11. Numbered(l)'
  BY <1>4, <1>5, <1>8 DEF Numbered, Where, GenerationOf, TookEffect
<1>12. Sheltered(l)'
  BY <1>2, <1>3, <1>8 DEF Sheltered, Quiet
<1>13. Nests(l)'
  BY <1>6 DEF Nests, SessionsOf
<1>14. QED
  BY <1>4, <1>7, <1>8, <1>9, <1>10, <1>11, <1>12, <1>13, LauncherCalls

\* A launcher that makes a call other than the registration goes on.
LEMMA CallGoesOn ==
  ASSUME ClientsInv, NEW l \in Launchers, UNCHANGED <<child, guard, last>>,
         NEW w \in {"created", "removing", "done"}, launch' = [launch EXCEPT ![l].at = w],
         launch[l].at \in {"registered", "revoking", "removing"},
         nested' \in [Launchers -> NestedLaunches]
  PROVE  /\ LaunchType' /\ Numbered(l)' /\ Sheltered(l)'
         /\ Where(l)' = w /\ GenerationOf(l)' = GenerationOf(l)
         /\ \A m \in Launchers \ {l} : launch'[m] = launch[m] /\ child'[m] = child[m] /\ guard'[m] = guard[m]
         /\ UNCHANGED attachVars => \A d \in Clients : GenerationOf(d)' = GenerationOf(d)
<1>1. LaunchType /\ Sheltered(l) /\ Numbered(l) /\ Where(l) = launch[l].at /\ GenerationOf(l) = launch[l].generation
  BY LauncherFacts
<1>2. LaunchType'
  BY <1>1 DEF LaunchType, NestedLaunches
<1>3. /\ launch'[l].at = w /\ \A m \in Launchers : launch'[m].generation = launch[m].generation
      /\ \A m \in Launchers \ {l} : launch'[m] = launch[m] /\ child'[m] = child[m] /\ guard'[m] = guard[m]
  BY <1>1 DEF LaunchType
<1>4. Sheltered(l)'
  BY <1>1, <1>3 DEF Sheltered, Quiet
<1>5. Where(l)' = w /\ GenerationOf(l)' = GenerationOf(l)
  BY <1>1, <1>3 DEF Where, GenerationOf
<1>6. Numbered(l)'
  BY <1>1, <1>5 DEF Numbered
<1>7. UNCHANGED attachVars => \A d \in Clients : GenerationOf(d)' = GenerationOf(d)
  BY <1>3 DEF GenerationOf, attachVars
<1>8. QED
  BY <1>2, <1>3, <1>4, <1>5, <1>6, <1>7

\* The launcher's own session.
LEMMA CreateStep ==
  ASSUME ClientsInv, NEW l \in Launchers, UNCHANGED attachVars, CreateSession(l)
  PROVE  ClientsInv'
<1> DEFINE mine == registered = launch[l].generation
<1>1. PICK o \in Outcomes :
        /\ CallCreateSession(l, mine, OwnSession, o)
        /\ launch' = IF o = "done" THEN [launch EXCEPT ![l].at = "created"] ELSE [launch EXCEPT ![l].at = "removing"]
  BY DEF CreateSession
<1>2. launch[l].at = "registered" /\ UNCHANGED <<child, guard, nested>>
  BY DEF CreateSession, At
<1>3. /\ l \in Clients /\ l \notin Holders /\ Typed /\ LaunchType /\ Accounted(l) /\ Nests(l) /\ Numbered(l)
      /\ failures[l] \in Nat
      /\ GenerationOf(l) = launch[l].generation /\ Where(l) = launch[l].at /\ launch[l].generation \in 0..MaxGeneration
  BY LauncherFacts
<1>4. mine \in BOOLEAN /\ (mine <=> registered = launch[l].generation)
  OBVIOUS
<1> HIDE DEF mine
<1>5. /\ Serves(l) /\ UNCHANGED <<up, last, registered, expired>>
      /\ TookEffect(o) => up /\ mine /\ open' = open \cup {<<l, OwnSession>>}
      /\ ~TookEffect(o) => open' = open
      /\ o \in {"failed", "lost"} => failures'[l] = failures[l] + 1
  BY <1>1, <1>3, <1>4, CreateServes DEF OwnSession
<1>6. PICK w \in {"created", "removing"} : launch' = [launch EXCEPT ![l].at = w] /\ (w = "created" <=> o = "done")
  BY <1>1
<1>7. nested' \in [Launchers -> NestedLaunches]
  BY <1>2, <1>3 DEF LaunchType, NestedLaunches
<1>8. /\ LaunchType' /\ Numbered(l)' /\ Sheltered(l)' /\ Where(l)' = w
      /\ \A m \in Launchers \ {l} : launch'[m] = launch[m] /\ child'[m] = child[m] /\ guard'[m] = guard[m]
      /\ \A d \in Clients : GenerationOf(d)' = GenerationOf(d)
  BY <1>2, <1>5, <1>6, <1>7, CallGoesOn
<1>9. SessionsAreRegistered'
  <2>1. CASE TookEffect(o)
    <3>1. registered # Nobody
      BY <1>2, <1>3, <1>4, <1>5, <2>1 DEF Numbered, Nobody
    <3>2. QED
      BY <1>3, <1>4, <1>5, <1>8, <2>1, <3>1, StillRegistered
  <2>2. CASE ~TookEffect(o)
    BY <1>3, <1>5, <1>8, <2>2, StillRegistered
  <2>3. QED
    BY <2>1, <2>2
<1>10. Nests(l)'
  BY <1>3, <1>5 DEF Nests, SessionsOf
<1>11. Accounted(l)'
  <2>1. Where(l)' = launch'[l].at
    BY DEF Where
  <2>2. CASE o = "done"
    <3>1. Kept(l)' = {OwnSession, NestedSession}
      BY <1>6, <1>8, <2>1, <2>2 DEF Kept
    <3>2. QED
      BY <1>10, <3>1 DEF Accounted, Nests, SessionsOf
  <2>3. CASE o \in {"failed", "lost"}
    BY <1>3, <1>5, <1>6, <1>8, <2>3 DEF Accounted
  <2>4. CASE o = "refused"
    <3>1. Kept(l) = {} /\ SessionsOf(l)' = SessionsOf(l)
      BY <1>2, <1>5, <2>4 DEF Kept, SessionsOf, TookEffect
    <3>2. failures'[l] \in Nat /\ failures'[l] >= failures[l]
      BY <1>3, <1>5 DEF Serves, CoreTyped
    <3>3. QED
      BY <1>2, <1>3, <1>6, <1>8, <2>4, <3>1, <3>2 DEF Accounted
  <2>5. QED
    BY <2>2, <2>3, <2>4 DEF Outcomes
<1>12. QED
  BY <1>5, <1>8, <1>9, <1>10, <1>11, LauncherCalls

\* Its deletion takes the nested one along.
LEMMA DeleteStep ==
  ASSUME ClientsInv, NEW l \in Launchers, UNCHANGED attachVars, DeleteSession(l)
  PROVE  ClientsInv'
<1>1. PICK o \in Outcomes : CallDeleteSession(l, OwnSession, {NestedSession}, o)
  BY DEF DeleteSession
<1>2. launch[l].at = "revoking" /\ launch' = [launch EXCEPT ![l].at = "removing"] /\ UNCHANGED <<child, guard, nested>>
  BY DEF DeleteSession, At, Moves
<1>3. /\ l \in Clients /\ l \notin Holders /\ Typed /\ LaunchType /\ Accounted(l) /\ Nests(l) /\ failures[l] \in Nat
  BY LauncherFacts
<1>4. /\ Serves(l) /\ UNCHANGED <<up, last, registered, expired>>
      /\ TookEffect(o) => open' = open \ {<<l, i>> : i \in {OwnSession} \cup {NestedSession}}
      /\ ~TookEffect(o) => open' = open
      /\ o = "refused" => ~up \/ <<l, OwnSession>> \notin open
      /\ o \in {"failed", "lost"} => failures'[l] = failures[l] + 1
  <2>1. OwnSession \in Nat /\ {NestedSession} \in SUBSET Nat
    BY DEF OwnSession, NestedSession
  <2>2. QED
    BY <1>1, <1>3, <2>1, DeleteServes
<1>5. nested' \in [Launchers -> NestedLaunches]
  BY <1>2, <1>3 DEF LaunchType, NestedLaunches
<1>6. /\ LaunchType' /\ Numbered(l)' /\ Sheltered(l)' /\ Where(l)' = "removing"
      /\ \A m \in Launchers \ {l} : launch'[m] = launch[m] /\ child'[m] = child[m] /\ guard'[m] = guard[m]
      /\ \A d \in Clients : GenerationOf(d)' = GenerationOf(d)
  BY <1>2, <1>4, <1>5, CallGoesOn
<1>7. SessionsAreRegistered'
  BY <1>3, <1>4, <1>6, StillRegistered
<1>8. Nests(l)' /\ (TookEffect(o) => SessionsOf(l)' = {})
  BY <1>3, <1>4 DEF Nests, SessionsOf
<1>9. Accounted(l)'
  <2>1. CASE TookEffect(o)
    BY <1>8, <2>1 DEF Accounted
  <2>2. CASE o = "failed"
    BY <1>3, <1>4, <1>6, <2>2 DEF Accounted
  <2>3. CASE o = "refused"
    <3>1. CASE ~up
      BY <1>4, <2>3, <3>1, <1>3, NoSessionWithoutRegistration DEF Accounted, SessionsOf, TookEffect
    <3>2. CASE <<l, OwnSession>> \notin open
      BY <1>3, <1>4, <2>3, <3>2 DEF Nests, Accounted, SessionsOf, TookEffect
    <3>3. QED
      BY <1>4, <2>3, <3>1, <3>2
  <2>4. QED
    BY <2>1, <2>2, <2>3 DEF Outcomes, TookEffect
<1>10. QED
  BY <1>4, <1>6, <1>7, <1>8, <1>9, LauncherCalls

\* The last call: a session left open has cost a second failure.
LEMMA RemoveStep ==
  ASSUME ClientsInv, NEW l \in Launchers, UNCHANGED attachVars, Remove(l)
  PROVE  ClientsInv'
<1>1. PICK o \in Outcomes : CallRemove(l, launch[l].generation, o)
  BY DEF Remove
<1>2. launch[l].at = "removing" /\ launch' = [launch EXCEPT ![l].at = "done"] /\ UNCHANGED <<child, guard, nested>>
  BY DEF Remove, At, Moves
<1>3. /\ l \in Clients /\ l \notin Holders /\ Typed /\ LaunchType /\ Accounted(l) /\ Nests(l)
      /\ failures[l] \in Nat /\ launch[l].generation \in Nat
      /\ GenerationOf(l) = launch[l].generation /\ Where(l) = launch[l].at
  BY LauncherFacts
<1>4. /\ Serves(l) /\ UNCHANGED <<up, last>>
      /\ TookEffect(o) => open' = {} /\ expired' = {} /\ registered' = Nobody
      /\ ~TookEffect(o) => UNCHANGED <<registered, open, expired>>
      /\ o = "refused" => ~up \/ registered # launch[l].generation
      /\ o \in {"failed", "lost"} => failures'[l] = failures[l] + 1
  BY <1>1, <1>3, RemoveServes
<1>5. nested' \in [Launchers -> NestedLaunches]
  BY <1>2, <1>3 DEF LaunchType, NestedLaunches
<1>6. /\ LaunchType' /\ Numbered(l)' /\ Sheltered(l)' /\ Where(l)' = "done"
      /\ \A m \in Launchers \ {l} : launch'[m] = launch[m] /\ child'[m] = child[m] /\ guard'[m] = guard[m]
      /\ \A d \in Clients : GenerationOf(d)' = GenerationOf(d)
  BY <1>2, <1>4, <1>5, CallGoesOn
<1>7. SessionsAreRegistered'
  BY <1>3, <1>4, <1>6, StillRegistered
<1>8. Nests(l)' /\ (TookEffect(o) => SessionsOf(l)' = {}) /\ (~TookEffect(o) => SessionsOf(l)' = SessionsOf(l))
  BY <1>3, <1>4 DEF Nests, SessionsOf
<1>9. Accounted(l)'
  <2>1. CASE TookEffect(o)
    BY <1>8, <2>1 DEF Accounted
  <2>2. CASE o = "failed"
    <3>1. SessionsOf(l) # {} => failures[l] >= 1
      BY <1>2, <1>3 DEF Accounted, Kept
    <3>2. QED
      BY <1>3, <1>4, <1>6, <1>8, <2>2, <3>1 DEF Accounted, TookEffect
  <2>3. CASE o = "refused"
    <3>1. SessionsOf(l) = {}
      BY <1>3, <1>4, <2>3, NoSessionWithoutRegistration
    <3>2. QED
      BY <1>8, <2>3, <3>1 DEF Accounted, TookEffect
  <2>4. QED
    BY <2>1, <2>2, <2>3 DEF Outcomes, TookEffect
<1>10. QED
  BY <1>4, <1>6, <1>7, <1>8, <1>9, LauncherCalls

\* The calls of a nested launch leave the launcher where it is.
LEMMA NestedFrame ==
  ASSUME ClientsInv, NEW l \in Launchers, UNCHANGED <<launch, child, guard, last>>,
         NEW w \in {"created", "done"}, nested' = [nested EXCEPT ![l].at = w]
  PROVE  /\ LaunchType' /\ Numbered(l)' /\ Sheltered(l)' /\ Where(l)' = Where(l) /\ Kept(l)' = Kept(l)
         /\ \A m \in Launchers \ {l} : launch'[m] = launch[m] /\ child'[m] = child[m] /\ guard'[m] = guard[m]
         /\ UNCHANGED attachVars => \A d \in Clients : GenerationOf(d)' = GenerationOf(d)
<1>1. LaunchType /\ Numbered(l) /\ Sheltered(l) /\ l \notin Holders
  BY LauncherFacts
<1>2. LaunchType'
  BY <1>1 DEF LaunchType
<1>3. UNCHANGED attachVars => \A d \in Clients : GenerationOf(d)' = GenerationOf(d)
  BY DEF GenerationOf, attachVars
<1>4. Numbered(l)' /\ Sheltered(l)' /\ Where(l)' = Where(l) /\ Kept(l)' = Kept(l)
  BY <1>1 DEF Numbered, Sheltered, Quiet, Where, GenerationOf, Kept
<1>5. QED
  BY <1>2, <1>3, <1>4

\* A nested session is opened with the capability of the launcher's.
LEMMA NestedCreateStep ==
  ASSUME ClientsInv, NEW l \in Launchers, UNCHANGED attachVars, NestedCreates(l)
  PROVE  ClientsInv'
<1> DEFINE inside == <<l, OwnSession>> \in open
<1>1. PICK o \in Outcomes :
        /\ CallCreateSession(l, inside, NestedSession, o)
        /\ nested' = [nested EXCEPT ![l].at = IF o = "done" THEN "created" ELSE "done"]
  BY DEF NestedCreates, CreateChild
<1>2. child[l].root = "alive" /\ UNCHANGED <<launch, child, guard>>
  BY DEF NestedCreates
<1>3. /\ l \in Clients /\ l \notin Holders /\ Typed /\ LaunchType /\ Accounted(l) /\ Nests(l) /\ Sheltered(l)
      /\ Where(l) = launch[l].at /\ SessionsAreRegistered
  BY LauncherFacts
<1>4. inside \in BOOLEAN /\ (inside <=> <<l, OwnSession>> \in open)
  OBVIOUS
<1> HIDE DEF inside
<1>5. /\ Serves(l) /\ UNCHANGED <<up, last, registered, expired>>
      /\ TookEffect(o) => up /\ inside /\ open' = open \cup {<<l, NestedSession>>}
      /\ ~TookEffect(o) => open' = open
  BY <1>1, <1>3, <1>4, CreateServes DEF NestedSession
<1>6. PICK w \in {"created", "done"} : nested' = [nested EXCEPT ![l].at = w]
  BY <1>1
<1>7. /\ LaunchType' /\ Numbered(l)' /\ Sheltered(l)' /\ Where(l)' = Where(l) /\ Kept(l)' = Kept(l)
      /\ \A m \in Launchers \ {l} : launch'[m] = launch[m] /\ child'[m] = child[m] /\ guard'[m] = guard[m]
      /\ \A d \in Clients : GenerationOf(d)' = GenerationOf(d)
  BY <1>2, <1>5, <1>6, NestedFrame
<1>8. SessionsAreRegistered'
  <2>1. CASE TookEffect(o)
    <3>1. registered # Nobody /\ registered = GenerationOf(l)
      <4>1. \E s \in open : s[1] = l
        BY <1>4, <1>5, <2>1
      <4>2. QED
        BY <1>3, <4>1 DEF SessionsAreRegistered
    <3>2. QED
      BY <1>3, <1>5, <1>7, <2>1, <3>1, StillRegistered
  <2>2. CASE ~TookEffect(o)
    BY <1>3, <1>5, <1>7, <2>2, StillRegistered
  <2>3. QED
    BY <2>1, <2>2
<1>9. Nests(l)'
  BY <1>3, <1>4, <1>5 DEF Nests, SessionsOf
<1>10. Accounted(l)'
  <2>1. launch[l].at = "dead" \/ Kept(l) = {OwnSession, NestedSession}
    BY <1>2, <1>3 DEF Sheltered, Kept
  <2>2. QED
    BY <1>3, <1>7, <1>9, <2>1 DEF Accounted, Nests, SessionsOf
<1>11. QED
  BY <1>5, <1>7, <1>8, <1>9, <1>10, LauncherCalls

\* A nested session is deleted wherever the launcher is.
LEMMA NestedDeleteStep ==
  ASSUME ClientsInv, NEW l \in Launchers, UNCHANGED attachVars, NestedDeletes(l)
  PROVE  ClientsInv'
<1>1. PICK o \in Outcomes : CallDeleteSession(l, NestedSession, {}, o)
  BY DEF NestedDeletes
<1>2. UNCHANGED <<launch, child, guard>> /\ nested' = [nested EXCEPT ![l].at = "done"]
  BY DEF NestedDeletes
<1>3. /\ l \in Clients /\ l \notin Holders /\ Typed /\ LaunchType /\ Accounted(l) /\ Nests(l) /\ failures[l] \in Nat
  BY LauncherFacts
<1>4. /\ Serves(l) /\ UNCHANGED <<up, last, registered, expired>>
      /\ TookEffect(o) => open' = open \ {<<l, i>> : i \in {NestedSession} \cup {}}
      /\ ~TookEffect(o) => open' = open
  BY <1>1, <1>3, DeleteServes DEF NestedSession
<1>5. /\ LaunchType' /\ Numbered(l)' /\ Sheltered(l)' /\ Where(l)' = Where(l) /\ Kept(l)' = Kept(l)
      /\ \A m \in Launchers \ {l} : launch'[m] = launch[m] /\ child'[m] = child[m] /\ guard'[m] = guard[m]
      /\ \A d \in Clients : GenerationOf(d)' = GenerationOf(d)
  BY <1>2, <1>4, NestedFrame
<1>6. open' \subseteq open /\ open \ {<<l, NestedSession>>} \subseteq open'
  BY <1>4
<1>7. SessionsAreRegistered'
  BY <1>3, <1>4, <1>5, <1>6, StillRegistered
<1>8. Nests(l)'
  <2>1. <<l, NestedSession>> \in open' => open' = open
    BY <1>4
  <2>2. SessionsOf(l)' \subseteq SessionsOf(l)
    BY <1>6 DEF SessionsOf
  <2>3. <<l, OwnSession>> \in open => <<l, OwnSession>> \in open'
    BY <1>6 DEF OwnSession, NestedSession
  <2>4. QED
    BY <1>3, <1>6, <2>2, <2>3 DEF Nests
<1>9. Accounted(l)'
  <2>1. SessionsOf(l)' \subseteq SessionsOf(l)
    BY <1>6 DEF SessionsOf
  <2>2. failures'[l] \in Nat /\ failures'[l] >= failures[l]
    BY <1>3, <1>4 DEF Serves, CoreTyped
  <2>3. QED
    BY <1>3, <1>5, <2>1, <2>2 DEF Accounted
<1>10. QED
  BY <1>4, <1>5, <1>7, <1>8, <1>9, LauncherCalls

\* The day a launcher's session lives is over: nothing that was open of another's is
\* touched, and a nested one ends with it.
LEMMA LaunchedExpireStep ==
  ASSUME ClientsInv, NEW l \in Launchers, UNCHANGED attachVars, LaunchedSessionsExpire(l)
  PROVE  ClientsInv'
<1>1. /\ l \in Clients /\ l \notin Holders /\ Typed /\ LaunchType /\ Accounted(l) /\ Nests(l) /\ Numbered(l) /\ Sheltered(l)
      /\ failures[l] \in Nat
  BY LauncherFacts
<1>2. UNCHANGED launchVars /\ SessionsExpire(l, {OwnSession, NestedSession})
  BY DEF LaunchedSessionsExpire
<1>3. {OwnSession, NestedSession} \subseteq Nat
  BY DEF OwnSession, NestedSession
<1>4. /\ Serves(l) /\ UNCHANGED <<up, last, registered, failures>>
      /\ open' = open \ {<<l, k>> : k \in {OwnSession, NestedSession}}
  BY <1>1, <1>2, <1>3, ExpiryServes
<1>5. \A d \in Clients : GenerationOf(d)' = GenerationOf(d)
  BY <1>2 DEF GenerationOf, launchVars, attachVars
<1>6. LaunchType' /\ Numbered(l)' /\ Sheltered(l)' /\ Where(l)' = Where(l)
  <2>1. LaunchType' /\ Sheltered(l)' /\ Where(l)' = Where(l)
    BY <1>1, <1>2 DEF LaunchType, launchVars, attachVars, Sheltered, Quiet, Where
  <2>2. Numbered(l)'
    BY <1>1, <1>4, <1>5, <2>1 DEF Numbered
  <2>3. QED
    BY <2>1, <2>2
<1>7. SessionsAreRegistered'
  <2>1. open' \subseteq open
    BY <1>4
  <2>2. QED
    BY <1>1, <1>4, <1>5, <2>1, StillRegistered
<1>8. SessionsOf(l)' = {}
  BY <1>1, <1>4 DEF Nests, SessionsOf
<1>9. Accounted(l)' /\ Nests(l)'
  BY <1>8 DEF Accounted, Nests, SessionsOf
<1>10. \A m \in Launchers \ {l} : launch'[m] = launch[m] /\ child'[m] = child[m] /\ guard'[m] = guard[m]
  BY <1>2 DEF launchVars
<1>11. QED
  BY <1>4, <1>6, <1>7, <1>9, <1>10, LauncherCalls

\* Every step of a launcher and its child.
LEMMA LauncherSteps ==
  ASSUME ClientsInv, LaunchNext, UNCHANGED attachVars
  PROVE  ClientsInv'
<1>1. PICK l \in Launchers :
        \/ Launcher(l) \/ KillGroup(l) \/ Lease(l) \/ Egress(l) \/ Agent(l) \/ NestedLaunch(l)
        \/ Interrupt(l) \/ Dies(l) \/ LaunchedSessionsExpire(l)
  BY DEF LaunchNext
<1>2. \/ Quietly(l) \/ OfTheGroup(l) \/ Flows(l) \/ RenewLease(l) \/ LoseLease(l)
      \/ Register(l) \/ CreateSession(l) \/ DeleteSession(l) \/ Remove(l) \/ NestedCreates(l) \/ NestedDeletes(l)
      \/ LaunchedSessionsExpire(l)
  BY <1>1 DEF Launcher, Lease, Egress, Agent, NestedLaunch, Quietly, OfTheGroup, Flows
<1>3. QED
  BY <1>2, QuietSteps, GroupSteps, FlowSteps, LeaseSteps, RegisterStep, CreateStep, DeleteStep, RemoveStep,
     NestedCreateStep, NestedDeleteStep, LaunchedExpireStep

-----------------------------------------------------------------------------
(* The controllers *)

Holds == [at : {"start", "registered", "applying", "running", "rotating", "retiring", "dropping",
                "restoring", "revoking", "removing", "done", "dead"},
          kind : {"attach", "maintain"}, generation : 0..MaxGeneration, current : 0..MaxSessions, next : 0..MaxSessions]

\* A step that leaves a program on the generation it has, if any.
Carries(c, h, t) ==
  /\ UNCHANGED launchVars
  /\ hold' = [hold EXCEPT ![c] = h] /\ h.generation = hold[c].generation /\ h.kind = hold[c].kind
  /\ target' = [target EXCEPT ![c] = t]
  /\ spoilt' = spoilt \/ spoilt' = spoilt \cup {c}
  /\ hold[c].at \notin {"start", "done", "dead"} /\ h.at \notin {"start"}

\* The invariant, as a program's step uses it.
LEMMA HolderFacts ==
  ASSUME ClientsInv, NEW c \in Holders
  PROVE  /\ c \in Clients /\ c \notin Launchers /\ Typed /\ AttachType /\ SessionsAreRegistered
         /\ Accounted(c) /\ Numbered(c) /\ Covered(c) /\ Maintains(c) /\ Rotates(c) /\ (c \notin spoilt => Routed(c))
         /\ failures[c] \in Nat /\ hold[c] \in Holds /\ target[c] \in 0..MaxSessions
         /\ hold \in [Holders -> Holds] /\ target \in [Holders -> 0..MaxSessions]
         /\ GenerationOf(c) = hold[c].generation /\ Where(c) = hold[c].at
<1>1. c \in Clients /\ c \notin Launchers
  BY ClientsAssumption
<1>2. Typed /\ AttachType /\ SessionsAreRegistered /\ ClientInv(c) /\ failures[c] \in Nat
  BY <1>1 DEF ClientsInv, Typed
<1>3. hold \in [Holders -> Holds] /\ target \in [Holders -> 0..MaxSessions]
  BY <1>2 DEF AttachType, Holds
<1>4. QED
  BY <1>1, <1>2, <1>3 DEF ClientInv, GenerationOf, Where

\* What a program that has acted must show of itself.
LEMMA HolderActs ==
  ASSUME ClientsInv, NEW c \in Holders, Serves(c), SessionsAreRegistered', UNCHANGED launchVars, AttachType',
         \A d \in Holders \ {c} : hold'[d] = hold[d] /\ target'[d] = target[d] /\ (d \in spoilt' <=> d \in spoilt),
         Accounted(c)', Numbered(c)', Covered(c)', Maintains(c)', Rotates(c)', c \notin spoilt' => Routed(c)'
  PROVE  ClientsInv'
<1>1. c \in Clients /\ c \notin Launchers
  BY ClientsAssumption
<1>2. \A d \in Clients \ {c} : Rests(d)
  BY DEF Rests, launchVars
<1>3. LaunchType'
  BY DEF ClientsInv, Typed, LaunchType, launchVars
<1>4. ClientInv(c)'
  BY <1>1 DEF ClientInv
<1>5. QED
  BY <1>1, <1>2, <1>3, <1>4, OneClientSteps

\* What such a step leaves alone.
LEMMA HolderFrame ==
  ASSUME ClientsInv, NEW c \in Holders, NEW h \in Holds, NEW t \in 0..MaxSessions, Carries(c, h, t), last' = last
  PROVE  /\ AttachType' /\ hold'[c] = h /\ target'[c] = t /\ Numbered(c)' /\ Where(c)' = h.at
         /\ Attaches(c)' = Attaches(c)
         /\ \A d \in Holders \ {c} : hold'[d] = hold[d] /\ target'[d] = target[d] /\ (d \in spoilt' <=> d \in spoilt)
         /\ \A d \in Clients : GenerationOf(d)' = GenerationOf(d)
<1>1. /\ AttachType /\ Numbered(c) /\ hold \in [Holders -> Holds] /\ target \in [Holders -> 0..MaxSessions]
      /\ GenerationOf(c) = hold[c].generation /\ Where(c) = hold[c].at /\ c \notin Launchers /\ c \in Clients
  BY HolderFacts
<1>2. /\ hold' \in [Holders -> Holds] /\ hold'[c] = h /\ \A d \in Holders \ {c} : hold'[d] = hold[d]
      /\ target' \in [Holders -> 0..MaxSessions] /\ target'[c] = t /\ \A d \in Holders \ {c} : target'[d] = target[d]
  BY <1>1 DEF Carries
<1>3. spoilt' \subseteq Holders /\ \A d \in Holders \ {c} : d \in spoilt' <=> d \in spoilt
  BY <1>1 DEF Carries, AttachType
<1>4. AttachType'
  BY <1>2, <1>3 DEF AttachType, Holds
<1>5. \A d \in Clients : GenerationOf(d)' = GenerationOf(d)
  <2>1. \A d \in Holders : hold'[d].generation = hold[d].generation
    BY <1>2 DEF Carries
  <2>2. launch' = launch
    BY DEF Carries, launchVars
  <2>3. QED
    BY <2>1, <2>2, ClientsAssumption DEF GenerationOf
<1>6. Where(c)' = h.at /\ Attaches(c)' = Attaches(c)
  BY <1>1, <1>2 DEF Where, Attaches, Carries
<1>7. Numbered(c)'
  BY <1>1, <1>5, <1>6 DEF Numbered, Carries
<1>8. QED
  BY <1>2, <1>3, <1>4, <1>5, <1>6, <1>7

\* A step without a call that opens or revokes a session: what was kept is kept.
LEMMA HolderMoves ==
  ASSUME ClientsInv, NEW c \in Holders, NEW h \in Holds, NEW t \in 0..MaxSessions, Carries(c, h, t),
         Serves(c), UNCHANGED <<up, last, registered, open, expired>>, h.at # "done",
         h.at = "dead" \/ Kept(c)' = Kept(c), Maintains(c)', Rotates(c)', c \notin spoilt' => Routed(c)'
  PROVE  ClientsInv'
<1>1. /\ c \in Clients /\ c \notin Launchers /\ Typed /\ Accounted(c) /\ Covered(c) /\ failures[c] \in Nat /\ Where(c) = hold[c].at
  BY HolderFacts
<1>2. /\ AttachType' /\ hold'[c] = h /\ target'[c] = t /\ Numbered(c)' /\ Where(c)' = h.at
      /\ \A d \in Holders \ {c} : hold'[d] = hold[d] /\ target'[d] = target[d] /\ (d \in spoilt' <=> d \in spoilt)
      /\ \A d \in Clients : GenerationOf(d)' = GenerationOf(d)
  BY HolderFrame
<1>3. SessionsAreRegistered'
  BY <1>1, <1>2, StillRegistered
<1>4. failures'[c] \in Nat /\ failures'[c] >= failures[c] /\ SessionsOf(c)' = SessionsOf(c)
  BY <1>1 DEF Serves, CoreTyped, SessionsOf
<1>5. Accounted(c)'
  BY <1>1, <1>2, <1>4 DEF Accounted, Carries
<1>6. Covered(c)'
  <2>1. CASE h.at = "dead"
    <3>1. Kept(c)' = {}
      BY <1>1, <1>2, <2>1 DEF Kept
    <3>2. QED
      BY <3>1 DEF Covered
  <2>2. CASE Kept(c)' = Kept(c)
    BY <1>1, <1>2, <2>2 DEF Covered, Carries
  <2>3. QED
    BY <2>1, <2>2
<1>7. UNCHANGED launchVars
  BY DEF Carries
<1>8. QED
  BY <1>2, <1>3, <1>5, <1>6, <1>7, HolderActs

\* The lease is renewed or not, or no call is made.
LEMMA RenewalServes ==
  ASSUME Typed, NEW c \in Clients, NEW g, NoCall \/ \E o \in Outcomes : CallHeartbeat(c, g, o)
  PROVE  Serves(c) /\ UNCHANGED <<up, last, registered, open, expired>>
<1>1. CASE NoCall
  BY <1>1, NoCallServes DEF NoCall, coreVars
<1>2. CASE \E o \in Outcomes : CallHeartbeat(c, g, o)
  BY <1>2, HeartbeatServes
<1>3. QED
  BY <1>1, <1>2

\* What a program keeps, by where it is.
LEMMA KeptBy ==
  ASSUME NEW c \in Holders, c \notin Launchers
  PROVE  /\ ~Attaches(c) \/ hold[c].at \in {"start", "registered", "removing", "done", "dead"} => Kept(c) = {}
         /\ Attaches(c) /\ hold[c].at \in {"applying", "running", "restoring", "revoking"} => Kept(c) = {hold[c].current}
         /\ Attaches(c) /\ hold[c].at \in {"rotating", "retiring", "dropping"} => Kept(c) = {hold[c].current, hold[c].next}
  BY DEF Kept

\* The same after a step.
LEMMA KeptByNext ==
  ASSUME NEW c \in Holders, c \notin Launchers
  PROVE  /\ ~Attaches(c)' \/ hold'[c].at \in {"start", "registered", "removing", "done", "dead"} => Kept(c)' = {}
         /\ Attaches(c)' /\ hold'[c].at \in {"applying", "running", "restoring", "revoking"} => Kept(c)' = {hold'[c].current}
         /\ Attaches(c)' /\ hold'[c].at \in {"rotating", "retiring", "dropping"} => Kept(c)' = {hold'[c].current, hold'[c].next}
  BY DEF Kept

-----------------------------------------------------------------------------
(* Steps in which a program makes no call, or only renews its lease *)

\* What such a step must show: where the program goes, and how its target is routed.
LEMMA HolderGoes ==
  ASSUME ClientsInv, NEW c \in Holders, UNCHANGED launchVars, Serves(c), UNCHANGED <<up, last, registered, open, expired>>,
         NEW w \in {"applying", "running", "rotating", "retiring", "dropping", "restoring", "revoking", "removing", "dead"},
         hold' = [hold EXCEPT ![c].at = w],
         NEW t \in 0..MaxSessions, target' = [target EXCEPT ![c] = t],
         spoilt' = spoilt \/ spoilt' = spoilt \cup {c},
         \/ w = hold[c].at
         \/ w = "dead" /\ hold[c].at \notin {"start", "done"}
         \/ w = "removing" /\ (hold[c].at = "registered" \/ (hold[c].at = "running" /\ ~Attaches(c)))
         \/ w = "running" /\ hold[c].at = "registered" /\ ~Attaches(c)
         \/ hold[c].at = "applying" /\ w \in {"running", "restoring"}
         \/ hold[c].at = "running" /\ w = "restoring" /\ Attaches(c)
         \/ hold[c].at = "restoring" /\ w = "revoking"
         \/ hold[c].at = "rotating" /\ w \in {"retiring", "dropping"},
         hold[c].at # "dead",
         c \notin spoilt' => Routed(c)'
  PROVE  ClientsInv'
<1>1. /\ c \in Clients /\ c \notin Launchers /\ Maintains(c) /\ Rotates(c)
      /\ hold[c] \in Holds /\ hold \in [Holders -> Holds] /\ target \in [Holders -> 0..MaxSessions]
  BY HolderFacts
<1> DEFINE h == [hold[c] EXCEPT !.at = w]
<1>2. /\ h \in Holds /\ hold' = [hold EXCEPT ![c] = h] /\ h.at = w /\ h.generation = hold[c].generation
      /\ h.kind = hold[c].kind /\ h.current = hold[c].current /\ h.next = hold[c].next
  BY <1>1 DEF Holds
<1> HIDE DEF h
<1>3. Carries(c, h, t)
  BY <1>1, <1>2 DEF Carries
<1>4. hold'[c] = h /\ (Attaches(c)' <=> Attaches(c))
  BY <1>1, <1>2 DEF Attaches
<1>5. h.at = "dead" \/ Kept(c)' = Kept(c)
  <2>1. /\ ~Attaches(c) \/ hold[c].at \in {"start", "registered", "removing", "done", "dead"} => Kept(c) = {}
        /\ Attaches(c) /\ hold[c].at \in {"applying", "running", "restoring", "revoking"} => Kept(c) = {h.current}
        /\ Attaches(c) /\ hold[c].at \in {"rotating", "retiring", "dropping"} => Kept(c) = {h.current, h.next}
    BY <1>1, <1>2, KeptBy
  <2>2. /\ ~Attaches(c) \/ w \in {"start", "registered", "removing", "done", "dead"} => Kept(c)' = {}
        /\ Attaches(c) /\ w \in {"applying", "running", "restoring", "revoking"} => Kept(c)' = {h.current}
        /\ Attaches(c) /\ w \in {"rotating", "retiring", "dropping"} => Kept(c)' = {h.current, h.next}
    BY <1>1, <1>2, <1>4, KeptByNext
  <2>3. CASE w = hold[c].at
    BY <1>1, <1>2, <1>4, <2>3 DEF Kept
  <2>4. QED
    BY <1>2, <2>1, <2>2, <2>3
<1>6. Maintains(c)' /\ Rotates(c)'
  BY <1>1, <1>2, <1>4 DEF Maintains, Rotates
<1>7. QED
  BY <1>2, <1>3, <1>5, <1>6, HolderMoves

\* What a program does without a call, or with a renewal.
Resting(c) ==
  \/ RefuseRoutes(c) \/ Apply(c) \/ ApplyNext(c) \/ Restore(c) \/ Update(c) \/ Renew(c) \/ Stop(c) \/ Crashes(c)

\* None of these steps opens a session or closes one.
LEMMA RestingServes ==
  ASSUME ClientsInv, NEW c \in Holders, Resting(c)
  PROVE  Serves(c) /\ UNCHANGED <<up, last, registered, open, expired>>
<1>1. c \in Clients /\ Typed
  BY HolderFacts
<1>2. CASE NoCall
  BY <1>1, <1>2, RenewalServes
<1>3. CASE Renew(c) \/ Stop(c)
  <2>1. NoCall \/ \E o \in Outcomes : CallHeartbeat(c, hold[c].generation, o)
    BY <1>3 DEF Renew, Stop, Outcomes
  <2>2. QED
    BY <1>1, <2>1, RenewalServes
<1>4. QED
  BY <1>2, <1>3 DEF Resting, RefuseRoutes, Apply, ApplyNext, Restore, Update, Crashes

\* The steps of a program without a call, one by one.
LEMMA RestingSteps ==
  ASSUME ClientsInv, NEW c \in Holders, UNCHANGED launchVars, Resting(c)
  PROVE  ClientsInv'
<1>1. /\ c \in Clients /\ c \notin Launchers /\ Typed /\ Maintains(c) /\ Rotates(c) /\ Covered(c) /\ (c \notin spoilt => Routed(c))
      /\ hold[c] \in Holds /\ target[c] \in 0..MaxSessions
      /\ hold \in [Holders -> Holds] /\ target \in [Holders -> 0..MaxSessions]
  BY HolderFacts
<1>2. Serves(c) /\ UNCHANGED <<up, last, registered, open, expired>>
  BY RestingServes
<1>3. \A w : hold' = [hold EXCEPT ![c].at = w] => hold'[c] = [hold[c] EXCEPT !.at = w] /\ hold'[c].at = w
                                                  /\ hold'[c].current = hold[c].current /\ hold'[c].next = hold[c].next
                                                  /\ hold'[c].generation = hold[c].generation /\ (Attaches(c)' <=> Attaches(c))
  BY <1>1 DEF Holds, Attaches
<1>4. \A t : target' = [target EXCEPT ![c] = t] => target'[c] = t
  BY <1>1
<1>5. CASE RefuseRoutes(c)
  <2>1. /\ hold' = [hold EXCEPT ![c].at = "removing"] /\ target' = [target EXCEPT ![c] = target[c]]
        /\ spoilt' = spoilt \/ spoilt' = spoilt \cup {c}
        /\ hold[c].at = "registered"
    BY <1>1, <1>5 DEF RefuseRoutes, Is, Turns
  <2>2. c \notin spoilt' => Routed(c)'
    BY <1>1, <1>2, <1>3, <1>4, <1>5, <2>1 DEF Routed, Maintains
  <2>3. QED
    BY <1>1, <1>2, <2>1, <2>2, HolderGoes
<1>6. CASE Update(c) /\ Turns(c, "running")
  <2>1. /\ hold' = [hold EXCEPT ![c].at = "running"] /\ target' = [target EXCEPT ![c] = target[c]]
        /\ spoilt' = spoilt \/ spoilt' = spoilt \cup {c}
        /\ hold[c].at = "registered" /\ ~Attaches(c)
    BY <1>1, <1>6 DEF Update, Is, Turns
  <2>2. c \notin spoilt' => Routed(c)'
    BY <1>1, <1>2, <1>3, <1>4, <1>6, <2>1 DEF Routed, Maintains
  <2>3. QED
    BY <1>1, <1>2, <2>1, <2>2, HolderGoes
<1>7. CASE Update(c) /\ Turns(c, "removing")
  <2>1. /\ hold' = [hold EXCEPT ![c].at = "removing"] /\ target' = [target EXCEPT ![c] = target[c]]
        /\ spoilt' = spoilt \/ spoilt' = spoilt \cup {c}
        /\ hold[c].at = "registered" /\ ~Attaches(c)
    BY <1>1, <1>7 DEF Update, Is, Turns
  <2>2. c \notin spoilt' => Routed(c)'
    BY <1>1, <1>2, <1>3, <1>4, <1>7, <2>1 DEF Routed, Maintains
  <2>3. QED
    BY <1>1, <1>2, <2>1, <2>2, HolderGoes
<1>8. CASE Renew(c)
  <2>1. /\ hold' = [hold EXCEPT ![c].at = "running"] /\ target' = [target EXCEPT ![c] = target[c]]
        /\ spoilt' = spoilt \/ spoilt' = spoilt \cup {c}
        /\ hold[c].at = "running" /\ spoilt' = spoilt
    BY <1>1, <1>8 DEF Renew, Is, attachVars, Holds
  <2>2. c \notin spoilt' => Routed(c)'
    BY <1>1, <1>2, <1>3, <1>4, <1>8, <2>1 DEF Routed, Maintains
  <2>3. QED
    BY <1>1, <1>2, <2>1, <2>2, HolderGoes
<1>9. CASE Stop(c) /\ Attaches(c)
  <2>1. /\ hold' = [hold EXCEPT ![c].at = "restoring"] /\ target' = [target EXCEPT ![c] = target[c]]
        /\ spoilt' = spoilt \/ spoilt' = spoilt \cup {c}
        /\ hold[c].at = "running" /\ spoilt' = spoilt /\ Attaches(c)
    BY <1>1, <1>9 DEF Stop, Turns, Is
  <2>2. c \notin spoilt' => Routed(c)'
    BY <1>1, <1>2, <1>3, <1>4, <1>9, <2>1 DEF Routed, Maintains
  <2>3. QED
    BY <1>1, <1>2, <2>1, <2>2, HolderGoes
<1>10. CASE Stop(c) /\ ~Attaches(c)
  <2>1. /\ hold' = [hold EXCEPT ![c].at = "removing"] /\ target' = [target EXCEPT ![c] = target[c]]
        /\ spoilt' = spoilt \/ spoilt' = spoilt \cup {c}
        /\ hold[c].at = "running" /\ spoilt' = spoilt /\ ~Attaches(c)
    BY <1>1, <1>10 DEF Stop, Turns, Is
  <2>2. c \notin spoilt' => Routed(c)'
    BY <1>1, <1>2, <1>3, <1>4, <1>10, <2>1 DEF Routed, Maintains
  <2>3. QED
    BY <1>1, <1>2, <2>1, <2>2, HolderGoes
<1>11. CASE Crashes(c)
  <2>1. /\ hold' = [hold EXCEPT ![c].at = "dead"] /\ target' = [target EXCEPT ![c] = target[c]]
        /\ spoilt' = spoilt \/ spoilt' = spoilt \cup {c}
        /\ hold[c].at \notin {"start", "done", "dead"} /\ spoilt' = spoilt
    BY <1>1, <1>11 DEF Crashes, Turns
  <2>2. c \notin spoilt' => Routed(c)'
    BY <1>1, <1>2, <1>3, <1>4, <1>11, <2>1, KeptBy DEF Routed, Maintains, Covered, NoSession
  <2>3. QED
    BY <1>1, <1>2, <2>1, <2>2, HolderGoes
<1>12. CASE Apply(c)
  <2>1. hold[c].at = "applying" /\ UNCHANGED launchVars
    BY <1>12 DEF Apply, Is
  <2>2. CASE Turns(c, "running") /\ target' = [target EXCEPT ![c] = hold[c].current] /\ UNCHANGED spoilt
    <3>1. Routed(c)'
      BY <1>3, <1>4, <2>2 DEF Routed, Turns
    <3>2. QED
      BY <1>1, <1>2, <2>1, <2>2, <3>1, HolderGoes DEF Turns, Holds
  <2>3. CASE /\ Turns(c, "restoring") /\ spoilt' = spoilt \cup {c}
             /\ \E s \in {target[c], hold[c].current} : target' = [target EXCEPT ![c] = s]
    <3>1. PICK s \in 0..MaxSessions : target' = [target EXCEPT ![c] = s]
      BY <1>1, <2>3 DEF Holds
    <3>2. QED
      BY <1>1, <1>2, <2>1, <2>3, <3>1, HolderGoes DEF Turns
  <2>4. QED
    BY <1>12, <2>2, <2>3 DEF Apply
<1>13. CASE ApplyNext(c)
  <2>1. hold[c].at = "rotating" /\ UNCHANGED launchVars
    BY <1>13 DEF ApplyNext, Is
  <2>2. CASE Turns(c, "retiring") /\ target' = [target EXCEPT ![c] = hold[c].next] /\ UNCHANGED spoilt
    <3>1. Routed(c)'
      BY <1>3, <1>4, <2>2 DEF Routed, Turns
    <3>2. QED
      BY <1>1, <1>2, <2>1, <2>2, <3>1, HolderGoes DEF Turns, Holds
  <2>3. CASE /\ Turns(c, "dropping") /\ spoilt' = spoilt \cup {c}
             /\ \E s \in {target[c], hold[c].next} : target' = [target EXCEPT ![c] = s]
    <3>1. PICK s \in 0..MaxSessions : target' = [target EXCEPT ![c] = s]
      BY <1>1, <2>3 DEF Holds
    <3>2. QED
      BY <1>1, <1>2, <2>1, <2>3, <3>1, HolderGoes DEF Turns
  <2>4. QED
    BY <1>13, <2>2, <2>3 DEF ApplyNext
<1>14. CASE Restore(c)
  <2>1. hold[c].at = "restoring" /\ Turns(c, "revoking")
    BY <1>14 DEF Restore, Is
  <2>2. CASE target' = [target EXCEPT ![c] = NoSession] /\ UNCHANGED spoilt
    <3>1. hold'[c].at = "revoking" /\ target'[c] = NoSession
      BY <1>3, <1>4, <2>1, <2>2 DEF Turns
    <3>2. Routed(c)'
      BY <3>1 DEF Routed
    <3>3. NoSession \in 0..MaxSessions
      BY CallsAssumption DEF NoSession
    <3>4. QED
      BY <1>1, <1>2, <2>1, <2>2, <3>2, <3>3, HolderGoes DEF Turns
  <2>3. CASE UNCHANGED target /\ spoilt' = spoilt \cup {c}
    <3>1. target' = [target EXCEPT ![c] = target[c]]
      BY <1>1, <2>3
    <3>2. QED
      BY <1>1, <1>2, <2>1, <2>3, <3>1, HolderGoes DEF Turns
  <2>4. QED
    BY <1>14, <2>2, <2>3 DEF Restore
<1>15. QED
  BY <1>5, <1>6, <1>7, <1>8, <1>9, <1>10, <1>11, <1>12, <1>13, <1>14 DEF Resting, Update

-----------------------------------------------------------------------------
(* A program's calls *)

\* A call of a program that keeps its generation.
LEMMA HolderCalls ==
  ASSUME ClientsInv, NEW c \in Holders, NEW h \in Holds, Carries(c, h, target[c]), Serves(c), last' = last,
         SessionsAreRegistered', Accounted(c)', Covered(c)', Maintains(c)', Rotates(c)', c \notin spoilt' => Routed(c)'
  PROVE  ClientsInv'
<1>1. target[c] \in 0..MaxSessions
  BY HolderFacts
<1>2. /\ AttachType' /\ Numbered(c)'
      /\ \A d \in Holders \ {c} : hold'[d] = hold[d] /\ target'[d] = target[d] /\ (d \in spoilt' <=> d \in spoilt)
  BY <1>1, HolderFrame
<1>3. UNCHANGED launchVars
  BY DEF Carries
<1>4. QED
  BY <1>2, <1>3, HolderActs

\* A session that is opened is kept, unless its call failed.
LEMMA OpenedIsAccounted ==
  ASSUME ClientsInv, NEW c \in Clients, NEW accepted \in BOOLEAN, NEW k \in Nat, NEW o \in Outcomes,
         CallCreateSession(c, accepted, k, o),
         Where(c) # "dead", Where(c)' # "done", Kept(c) \subseteq Kept(c)', o = "done" => k \in Kept(c)'
  PROVE  Accounted(c)'
<1>1. Typed /\ Accounted(c) /\ failures[c] \in Nat
  BY DEF ClientsInv, ClientInv, Typed
<1>2. /\ Serves(c) /\ UNCHANGED <<up, last, registered, expired>>
      /\ TookEffect(o) => open' = open \cup {<<c, k>>}
      /\ ~TookEffect(o) => open' = open
      /\ o \in {"failed", "lost"} => failures'[c] = failures[c] + 1
  BY <1>1, CreateServes
<1>3. failures'[c] \in Nat /\ failures'[c] >= failures[c]
  BY <1>2 DEF Serves, CoreTyped
<1>4. CASE o \in {"failed", "lost"}
  BY <1>1, <1>2, <1>4 DEF Accounted
<1>5. CASE o \in {"done", "refused"}
  <2>1. \A s \in SessionsOf(c)' : s \in SessionsOf(c) \/ s[2] \in Kept(c)'
    BY <1>2, <1>5 DEF SessionsOf, TookEffect
  <2>2. (\E s \in SessionsOf(c)' : s[2] \notin Kept(c)') => failures[c] >= 1
    BY <1>1, <2>1 DEF Accounted
  <2>3. QED
    BY <1>1, <1>3, <2>2 DEF Accounted
<1>6. QED
  BY <1>4, <1>5 DEF Outcomes

\* So is one that is given up: its deletion failed, or there was none to delete.
LEMMA ClosedIsAccounted ==
  ASSUME ClientsInv, NEW c \in Clients, NEW k \in Nat, NEW o \in Outcomes, CallDeleteSession(c, k, {}, o),
         Where(c) # "dead", Where(c)' # "done", Kept(c) \ {k} \subseteq Kept(c)'
  PROVE  Accounted(c)'
<1>1. Typed /\ Accounted(c) /\ failures[c] \in Nat
  BY DEF ClientsInv, ClientInv, Typed
<1>2. /\ Serves(c) /\ UNCHANGED <<up, last, registered, expired>>
      /\ TookEffect(o) => open' = open \ {<<c, i>> : i \in {k} \cup {}}
      /\ ~TookEffect(o) => open' = open
      /\ o = "refused" => ~up \/ <<c, k>> \notin open
      /\ o \in {"failed", "lost"} => failures'[c] = failures[c] + 1
  BY <1>1, DeleteServes
<1>3. failures'[c] \in Nat /\ failures'[c] >= failures[c]
  BY <1>2 DEF Serves, CoreTyped
<1>4. CASE o \in {"failed", "lost"}
  BY <1>1, <1>2, <1>4 DEF Accounted
<1>5. CASE o \in {"done", "refused"}
  <2>1. \A s \in SessionsOf(c)' : s \in SessionsOf(c)
    BY <1>2, <1>5 DEF SessionsOf, TookEffect
  <2>2. \A s \in SessionsOf(c)' : s[2] # k
    <3>1. \A s \in SessionsOf(c) : s = <<c, s[2]>> /\ s \in open
      BY <1>1 DEF SessionsOf, Typed
    <3>2. CASE ~up
      <4>1. SessionsOf(c) = {}
        BY <3>2, NoSessionWithoutRegistration
      <4>2. QED
        BY <2>1, <4>1
    <3>3. CASE o = "done"
      <4>1. <<c, k>> \notin open'
        BY <1>2, <3>3 DEF TookEffect
      <4>2. SessionsOf(c)' \subseteq open'
        BY DEF SessionsOf
      <4>3. QED
        BY <2>1, <3>1, <4>1, <4>2
    <3>4. CASE o = "refused" /\ <<c, k>> \notin open
      BY <2>1, <3>1, <3>4
    <3>5. QED
      BY <1>2, <1>5, <3>2, <3>3, <3>4
  <2>3. (\E s \in SessionsOf(c)' : s[2] \notin Kept(c)') => failures[c] >= 1
    BY <1>1, <2>1, <2>2 DEF Accounted
  <2>4. QED
    BY <1>1, <1>3, <2>3 DEF Accounted
<1>6. QED
  BY <1>4, <1>5 DEF Outcomes

\* The program gives a session up.
LEMMA ClosingStep ==
  ASSUME ClientsInv, NEW c \in Holders, NEW k \in Nat, NEW o \in Outcomes, CallDeleteSession(c, k, {}, o),
         NEW h \in Holds, Carries(c, h, target[c]), h.at \notin {"done", "dead"},
         Kept(c)' = Kept(c) \ {k}, Maintains(c)', Rotates(c)', c \notin spoilt' => Routed(c)'
  PROVE  ClientsInv'
<1>1. /\ c \in Clients /\ Typed /\ Covered(c) /\ target[c] \in 0..MaxSessions /\ Where(c) = hold[c].at
  BY HolderFacts
<1>2. /\ Serves(c) /\ UNCHANGED <<up, last, registered, expired>>
      /\ TookEffect(o) => open' = open \ {<<c, i>> : i \in {k} \cup {}}
      /\ ~TookEffect(o) => open' = open
  BY <1>1, DeleteServes
<1>3. /\ hold'[c] = h /\ Where(c)' = h.at /\ \A d \in Clients : GenerationOf(d)' = GenerationOf(d)
  BY <1>1, <1>2, HolderFrame
<1>4. SessionsAreRegistered'
  <2>1. open' \subseteq open
    BY <1>2
  <2>2. QED
    BY <1>1, <1>2, <1>3, <2>1, StillRegistered
<1>5. Accounted(c)'
  BY <1>1, <1>3, ClosedIsAccounted DEF Carries
<1>6. Covered(c)'
  <2>1. \A j : j # k /\ <<c, j>> \in open => <<c, j>> \in open'
    BY <1>2
  <2>2. hold'[c].generation = hold[c].generation
    BY <1>3 DEF Carries
  <2>3. QED
    BY <1>1, <1>2, <2>1, <2>2 DEF Covered
<1>7. QED
  BY <1>2, <1>4, <1>5, <1>6, HolderCalls

\* The program opens a session on the routes of its generation.
LEMMA OpeningStep ==
  ASSUME ClientsInv, NEW c \in Holders, NEW accepted \in BOOLEAN, accepted <=> registered = hold[c].generation,
         NEW k \in Nat, NEW o \in Outcomes, CallCreateSession(c, accepted, k, o),
         NEW h \in Holds, Carries(c, h, target[c]), h.at \notin {"done", "dead"},
         Kept(c) \subseteq Kept(c)', Kept(c)' \subseteq Kept(c) \cup (IF o = "done" THEN {k} ELSE {}),
         o = "done" => k \in Kept(c)',
         Maintains(c)', Rotates(c)', c \notin spoilt' => Routed(c)'
  PROVE  ClientsInv'
<1>1. /\ c \in Clients /\ Typed /\ Covered(c) /\ Numbered(c) /\ target[c] \in 0..MaxSessions
      /\ Where(c) = hold[c].at /\ GenerationOf(c) = hold[c].generation
  BY HolderFacts
<1>2. /\ Serves(c) /\ UNCHANGED <<up, last, registered, expired>>
      /\ TookEffect(o) => up /\ accepted /\ open' = open \cup {<<c, k>>}
      /\ ~TookEffect(o) => open' = open
  BY <1>1, CreateServes
<1>3. /\ hold'[c] = h /\ Where(c)' = h.at /\ \A d \in Clients : GenerationOf(d)' = GenerationOf(d)
  BY <1>1, <1>2, HolderFrame
<1>4. SessionsAreRegistered'
  <2>1. CASE TookEffect(o)
    <3>1. registered # Nobody
      BY <1>1, <1>2, <2>1 DEF Numbered, Carries, Nobody
    <3>2. QED
      BY <1>1, <1>2, <1>3, <2>1, <3>1, StillRegistered
  <2>2. CASE ~TookEffect(o)
    BY <1>1, <1>2, <1>3, <2>2, StillRegistered
  <2>3. QED
    BY <2>1, <2>2
<1>5. Accounted(c)'
  BY <1>1, <1>3, OpenedIsAccounted DEF Carries
<1>6. Covered(c)'
  <2>1. open \subseteq open' /\ (o = "done" => <<c, k>> \in open')
    BY <1>2 DEF TookEffect
  <2>2. hold'[c].generation = hold[c].generation
    BY <1>3 DEF Carries
  <2>3. QED
    BY <1>1, <1>2, <2>1, <2>2 DEF Covered
<1>7. QED
  BY <1>2, <1>4, <1>5, <1>6, HolderCalls

\* The program keeps to its target, and is where it is.
LEMMA Carried ==
  ASSUME ClientsInv, NEW c \in Holders, UNCHANGED <<launchVars, target, spoilt>>,
         NEW h \in Holds, hold' = [hold EXCEPT ![c] = h], h.generation = hold[c].generation, h.kind = hold[c].kind,
         hold[c].at \notin {"start", "done", "dead"}, h.at # "start"
  PROVE  /\ Carries(c, h, target[c]) /\ hold'[c] = h /\ target'[c] = target[c] /\ (Attaches(c)' <=> Attaches(c))
         /\ ~Attaches(c) \/ h.at \in {"start", "registered", "removing", "done", "dead"} => Kept(c)' = {}
         /\ Attaches(c) /\ h.at \in {"applying", "running", "restoring", "revoking"} => Kept(c)' = {h.current}
         /\ Attaches(c) /\ h.at \in {"rotating", "retiring", "dropping"} => Kept(c)' = {h.current, h.next}
<1>1. c \notin Launchers /\ hold \in [Holders -> Holds] /\ target \in [Holders -> 0..MaxSessions]
  BY HolderFacts
<1>2. hold'[c] = h /\ target' = [target EXCEPT ![c] = target[c]] /\ target'[c] = target[c]
  BY <1>1
<1>3. Carries(c, h, target[c])
  BY <1>2 DEF Carries
<1>4. Attaches(c)' <=> Attaches(c)
  BY <1>2 DEF Attaches
<1>5. QED
  BY <1>1, <1>2, <1>3, <1>4, KeptByNext

\* The first session, before the target is routed.
LEMMA CreateFirstStep ==
  ASSUME ClientsInv, NEW c \in Holders, UNCHANGED launchVars, CreateFirst(c)
  PROVE  ClientsInv'
<1> DEFINE mine == registered = hold[c].generation
<1>1. PICK o \in Outcomes :
        /\ CallCreateSession(c, mine, 1, o)
        /\ hold' = IF o = "done" THEN [hold EXCEPT ![c].at = "applying", ![c].current = 1]
                                 ELSE [hold EXCEPT ![c].at = "removing"]
  BY DEF CreateFirst
<1>2. mine \in BOOLEAN /\ (mine <=> registered = hold[c].generation)
  OBVIOUS
<1> HIDE DEF mine
<1>3. Attaches(c) /\ hold[c].at = "registered" /\ UNCHANGED <<launchVars, target, spoilt>>
  BY DEF CreateFirst, Is
<1>4. /\ c \notin Launchers /\ hold[c] \in Holds /\ hold \in [Holders -> Holds] /\ (c \notin spoilt => Routed(c))
  BY HolderFacts
<1>5. Kept(c) = {}
  BY <1>3, <1>4, KeptBy
<1>6. CASE o = "done"
  <2> DEFINE h == [hold[c] EXCEPT !.at = "applying", !.current = 1]
  <2>1. /\ h \in Holds /\ hold' = [hold EXCEPT ![c] = h] /\ h.at = "applying" /\ h.generation = hold[c].generation
        /\ h.kind = hold[c].kind /\ h.current = 1
    <3>1. 1 \in 0..MaxSessions
      BY CallsAssumption
    <3>2. h \in Holds
      BY <1>4, <3>1 DEF Holds
    <3>3. hold' = [hold EXCEPT ![c].at = "applying", ![c].current = 1]
      BY <1>1, <1>6
    <3>4. hold' = [hold EXCEPT ![c] = h]
      BY <1>4, <3>3 DEF Holds
    <3>5. QED
      BY <1>4, <3>2, <3>4 DEF Holds
  <2> HIDE DEF h
  <2>2. Carries(c, h, target[c]) /\ hold'[c] = h /\ target'[c] = target[c] /\ Attaches(c)' /\ Kept(c)' = {1}
    <3>1. Carries(c, h, target[c]) /\ hold'[c] = h /\ target'[c] = target[c] /\ Attaches(c)' /\ Kept(c)' = {h.current}
      BY <1>3, <2>1, Carried
    <3>2. QED
      BY <2>1, <3>1
  <2>3. Maintains(c)' /\ Rotates(c)' /\ (c \notin spoilt' => Routed(c)')
    BY <1>3, <1>4, <2>1, <2>2 DEF Maintains, Rotates, Routed
  <2>4. QED
    BY <1>1, <1>2, <1>5, <1>6, <2>1, <2>2, <2>3, OpeningStep
<1>7. CASE o # "done"
  <2> DEFINE h == [hold[c] EXCEPT !.at = "removing"]
  <2>1. /\ h \in Holds /\ hold' = [hold EXCEPT ![c] = h] /\ h.at = "removing" /\ h.generation = hold[c].generation
        /\ h.kind = hold[c].kind
    BY <1>1, <1>4, <1>7 DEF Holds
  <2> HIDE DEF h
  <2>2. Carries(c, h, target[c]) /\ hold'[c] = h /\ target'[c] = target[c] /\ Attaches(c)' /\ Kept(c)' = {}
    BY <1>3, <2>1, Carried
  <2>3. Maintains(c)' /\ Rotates(c)' /\ (c \notin spoilt' => Routed(c)')
    BY <1>3, <1>4, <2>1, <2>2 DEF Maintains, Rotates, Routed
  <2>4. QED
    BY <1>1, <1>2, <1>5, <1>7, <2>1, <2>2, <2>3, OpeningStep
<1>8. QED
  BY <1>6, <1>7

\* The next session, beside the current one.
LEMMA RotateStep ==
  ASSUME ClientsInv, NEW c \in Holders, UNCHANGED launchVars, Rotate(c)
  PROVE  ClientsInv'
<1> DEFINE mine == registered = hold[c].generation
           k == hold[c].current + 1
<1>1. PICK o \in Outcomes :
        /\ CallCreateSession(c, mine, k, o)
        /\ hold' = IF o = "done" THEN [hold EXCEPT ![c].at = "rotating", ![c].next = k]
                                 ELSE [hold EXCEPT ![c].at = "restoring"]
  BY DEF Rotate
<1>2. mine \in BOOLEAN /\ (mine <=> registered = hold[c].generation)
  OBVIOUS
<1> HIDE DEF mine
<1>3. Attaches(c) /\ hold[c].at = "running" /\ UNCHANGED <<launchVars, target, spoilt>> /\ hold[c].current < MaxSessions
  BY DEF Rotate, Is
<1>4. /\ c \notin Launchers /\ hold[c] \in Holds /\ hold \in [Holders -> Holds] /\ (c \notin spoilt => Routed(c))
  BY HolderFacts
<1>5. Kept(c) = {hold[c].current}
  BY <1>3, <1>4, KeptBy
<1>6. k \in Nat /\ k \in 0..MaxSessions /\ k = hold[c].current + 1
  BY <1>3, <1>4, CallsAssumption DEF Holds
<1> HIDE DEF k
<1>7. CASE o = "done"
  <2> DEFINE h == [hold[c] EXCEPT !.at = "rotating", !.next = k]
  <2>1. /\ h \in Holds /\ hold' = [hold EXCEPT ![c] = h] /\ h.at = "rotating" /\ h.generation = hold[c].generation
        /\ h.kind = hold[c].kind /\ h.current = hold[c].current /\ h.next = k
    BY <1>1, <1>4, <1>6, <1>7 DEF Holds
  <2> HIDE DEF h
  <2>2. Carries(c, h, target[c]) /\ hold'[c] = h /\ target'[c] = target[c] /\ Attaches(c)' /\ Kept(c)' = {hold[c].current, k}
    BY <1>3, <2>1, Carried
  <2>3. Maintains(c)' /\ Rotates(c)' /\ (c \notin spoilt' => Routed(c)')
    BY <1>3, <1>4, <1>6, <2>1, <2>2 DEF Maintains, Rotates, Routed
  <2>4. QED
    BY <1>1, <1>2, <1>5, <1>6, <1>7, <2>1, <2>2, <2>3, OpeningStep
<1>8. CASE o # "done"
  <2> DEFINE h == [hold[c] EXCEPT !.at = "restoring"]
  <2>1. /\ h \in Holds /\ hold' = [hold EXCEPT ![c] = h] /\ h.at = "restoring" /\ h.generation = hold[c].generation
        /\ h.kind = hold[c].kind /\ h.current = hold[c].current
    BY <1>1, <1>4, <1>8 DEF Holds
  <2> HIDE DEF h
  <2>2. Carries(c, h, target[c]) /\ hold'[c] = h /\ target'[c] = target[c] /\ Attaches(c)' /\ Kept(c)' = {hold[c].current}
    <3>1. Carries(c, h, target[c]) /\ hold'[c] = h /\ target'[c] = target[c] /\ Attaches(c)' /\ Kept(c)' = {h.current}
      BY <1>3, <2>1, Carried
    <3>2. QED
      BY <2>1, <3>1
  <2>3. Maintains(c)' /\ Rotates(c)' /\ (c \notin spoilt' => Routed(c)')
    BY <1>3, <1>4, <2>1, <2>2 DEF Maintains, Rotates, Routed
  <2>4. QED
    BY <1>1, <1>2, <1>5, <1>6, <1>8, <2>1, <2>2, <2>3, OpeningStep
<1>9. QED
  BY <1>7, <1>8

\* A binding that was not accepted: the target is spoilt, whatever it is routed through.
LEMMA DropNextStep ==
  ASSUME ClientsInv, NEW c \in Holders, UNCHANGED launchVars, DropNext(c)
  PROVE  ClientsInv'
<1>1. PICK o \in Outcomes : CallDeleteSession(c, hold[c].next, {}, o)
  BY DEF DropNext
<1>2. hold[c].at = "dropping" /\ UNCHANGED <<launchVars, target, spoilt>> /\ hold' = [hold EXCEPT ![c].at = "restoring"]
  BY DEF DropNext, Is, Turns
<1>3. /\ c \notin Launchers /\ hold[c] \in Holds /\ hold \in [Holders -> Holds] /\ Maintains(c) /\ Rotates(c)
      /\ (c \notin spoilt => Routed(c))
  BY HolderFacts
<1>4. /\ Attaches(c) /\ c \in spoilt /\ hold[c].next \in Nat /\ hold[c].current \in Nat
      /\ hold[c].next = hold[c].current + 1
  BY <1>2, <1>3, CallsAssumption DEF Maintains, Rotates, Routed, Holds
<1> DEFINE h == [hold[c] EXCEPT !.at = "restoring"]
<1>5. /\ h \in Holds /\ hold' = [hold EXCEPT ![c] = h] /\ h.at = "restoring" /\ h.generation = hold[c].generation
      /\ h.kind = hold[c].kind /\ h.current = hold[c].current
  BY <1>2, <1>3 DEF Holds
<1> HIDE DEF h
<1>6. Carries(c, h, target[c]) /\ hold'[c] = h /\ Attaches(c)' /\ Kept(c)' = {hold[c].current}
  <2>1. Carries(c, h, target[c]) /\ hold'[c] = h /\ Attaches(c)' /\ Kept(c)' = {h.current}
    BY <1>2, <1>4, <1>5, Carried
  <2>2. QED
    BY <1>5, <2>1
<1>7. Kept(c)' = Kept(c) \ {hold[c].next}
  <2>1. Kept(c) = {hold[c].current, hold[c].next}
    BY <1>2, <1>3, <1>4, KeptBy
  <2>2. QED
    BY <1>4, <1>6, <2>1
<1>8. Maintains(c)' /\ Rotates(c)' /\ c \in spoilt'
  BY <1>2, <1>4, <1>5, <1>6 DEF Maintains, Rotates
<1>9. QED
  BY <1>1, <1>4, <1>5, <1>6, <1>7, <1>8, ClosingStep

\* The session the target has left is deleted; the one it uses is kept.
LEMMA RetireStep ==
  ASSUME ClientsInv, NEW c \in Holders, UNCHANGED launchVars, RetireCurrent(c)
  PROVE  ClientsInv'
<1>1. PICK o \in Outcomes :
        /\ CallDeleteSession(c, hold[c].current, {}, o)
        /\ hold' = [hold EXCEPT ![c].at = IF o = "done" THEN "running" ELSE "restoring", ![c].current = hold[c].next]
  BY DEF RetireCurrent
<1>2. hold[c].at = "retiring" /\ UNCHANGED <<launchVars, target, spoilt>>
  BY DEF RetireCurrent, Is
<1>3. /\ c \notin Launchers /\ hold[c] \in Holds /\ hold \in [Holders -> Holds] /\ Maintains(c) /\ Rotates(c)
      /\ (c \notin spoilt => Routed(c))
  BY HolderFacts
<1>4. /\ Attaches(c) /\ hold[c].next \in Nat /\ hold[c].current \in Nat /\ hold[c].next = hold[c].current + 1
  BY <1>2, <1>3, CallsAssumption DEF Maintains, Rotates, Holds
<1> DEFINE w == IF o = "done" THEN "running" ELSE "restoring"
           h == [hold[c] EXCEPT !.at = w, !.current = hold[c].next]
<1>5. /\ h \in Holds /\ hold' = [hold EXCEPT ![c] = h] /\ h.at \in {"running", "restoring"}
      /\ h.generation = hold[c].generation /\ h.kind = hold[c].kind /\ h.current = hold[c].next
  <2>1. w \in {"running", "restoring"} /\ hold' = [hold EXCEPT ![c].at = w, ![c].current = hold[c].next]
    BY <1>1
  <2> HIDE DEF w
  <2>2. QED
    BY <1>3, <2>1 DEF Holds
<1> HIDE DEF h
<1>6. Carries(c, h, target[c]) /\ hold'[c] = h /\ target'[c] = target[c] /\ Attaches(c)' /\ Kept(c)' = {hold[c].next}
  <2>1. Carries(c, h, target[c]) /\ hold'[c] = h /\ target'[c] = target[c] /\ Attaches(c)' /\ Kept(c)' = {h.current}
    BY <1>2, <1>4, <1>5, Carried
  <2>2. QED
    BY <1>5, <2>1
<1>7. Kept(c)' = Kept(c) \ {hold[c].current}
  <2>1. Kept(c) = {hold[c].current, hold[c].next}
    BY <1>2, <1>3, <1>4, KeptBy
  <2>2. QED
    BY <1>4, <1>6, <2>1
<1>8. Maintains(c)' /\ Rotates(c)'
  BY <1>5, <1>6 DEF Maintains, Rotates
<1>9. c \notin spoilt' => Routed(c)'
  <2>1. c \notin spoilt' => target'[c] = hold'[c].current
    BY <1>2, <1>3, <1>5, <1>6 DEF Routed
  <2>2. QED
    BY <1>5, <1>6, <2>1 DEF Routed
<1>10. QED
  BY <1>1, <1>4, <1>5, <1>6, <1>7, <1>8, <1>9, ClosingStep

\* The target has its own configuration back when the last session is deleted.
LEMMA RevokeStep ==
  ASSUME ClientsInv, NEW c \in Holders, UNCHANGED launchVars, RevokeCurrent(c)
  PROVE  ClientsInv'
<1>1. PICK o \in Outcomes : CallDeleteSession(c, hold[c].current, {}, o)
  BY DEF RevokeCurrent
<1>2. hold[c].at = "revoking" /\ UNCHANGED <<launchVars, target, spoilt>> /\ hold' = [hold EXCEPT ![c].at = "removing"]
  BY DEF RevokeCurrent, Is, Turns
<1>3. /\ c \notin Launchers /\ hold[c] \in Holds /\ hold \in [Holders -> Holds] /\ Maintains(c)
      /\ (c \notin spoilt => Routed(c))
  BY HolderFacts
<1>4. Attaches(c) /\ hold[c].current \in Nat
  BY <1>2, <1>3, CallsAssumption DEF Maintains, Holds
<1> DEFINE h == [hold[c] EXCEPT !.at = "removing"]
<1>5. /\ h \in Holds /\ hold' = [hold EXCEPT ![c] = h] /\ h.at = "removing" /\ h.generation = hold[c].generation
      /\ h.kind = hold[c].kind
  BY <1>2, <1>3 DEF Holds
<1> HIDE DEF h
<1>6. Carries(c, h, target[c]) /\ hold'[c] = h /\ target'[c] = target[c] /\ Attaches(c)' /\ Kept(c)' = {}
  BY <1>2, <1>4, <1>5, Carried
<1>7. Kept(c) = {hold[c].current}
  BY <1>2, <1>3, <1>4, KeptBy
<1>8. Maintains(c)' /\ Rotates(c)' /\ (c \notin spoilt' => Routed(c)')
  BY <1>2, <1>3, <1>5, <1>6 DEF Maintains, Rotates, Routed
<1>9. QED
  BY <1>1, <1>4, <1>5, <1>6, <1>7, <1>8, ClosingStep

\* The last call of both.
LEMMA RemoveLeaseStep ==
  ASSUME ClientsInv, NEW c \in Holders, UNCHANGED launchVars, RemoveLease(c)
  PROVE  ClientsInv'
<1>1. PICK o \in Outcomes : CallRemove(c, hold[c].generation, o)
  BY DEF RemoveLease
<1>2. hold[c].at = "removing" /\ UNCHANGED <<launchVars, target, spoilt>> /\ hold' = [hold EXCEPT ![c].at = "done"]
  BY DEF RemoveLease, Is, Turns
<1>3. /\ c \in Clients /\ c \notin Launchers /\ hold[c] \in Holds /\ hold \in [Holders -> Holds] /\ Maintains(c)
      /\ (c \notin spoilt => Routed(c)) /\ Accounted(c) /\ failures[c] \in Nat /\ target[c] \in 0..MaxSessions
      /\ GenerationOf(c) = hold[c].generation /\ Where(c) = hold[c].at
  BY HolderFacts
<1>4. hold[c].generation \in Nat
  BY <1>3, CallsAssumption DEF Holds
<1>5. /\ Serves(c) /\ UNCHANGED <<up, last>>
      /\ TookEffect(o) => open' = {} /\ expired' = {} /\ registered' = Nobody
      /\ ~TookEffect(o) => UNCHANGED <<registered, open, expired>>
      /\ o = "refused" => ~up \/ registered # hold[c].generation
      /\ o \in {"failed", "lost"} => failures'[c] = failures[c] + 1
  BY <1>1, <1>3, <1>4, RemoveServes
<1> DEFINE h == [hold[c] EXCEPT !.at = "done"]
<1>6. /\ h \in Holds /\ hold' = [hold EXCEPT ![c] = h] /\ h.at = "done" /\ h.generation = hold[c].generation
      /\ h.kind = hold[c].kind /\ h.current = hold[c].current
  BY <1>2, <1>3 DEF Holds
<1> HIDE DEF h
<1>7. Carries(c, h, target[c]) /\ hold'[c] = h /\ target'[c] = target[c] /\ (Attaches(c)' <=> Attaches(c)) /\ Kept(c)' = {}
  BY <1>2, <1>6, Carried
<1>8. Where(c)' = "done" /\ \A d \in Clients : GenerationOf(d)' = GenerationOf(d)
  BY <1>3, <1>5, <1>6, <1>7, HolderFrame
<1>9. SessionsAreRegistered'
  BY <1>3, <1>5, <1>8, StillRegistered
<1>10. Accounted(c)'
  <2>1. CASE TookEffect(o)
    BY <1>5, <2>1 DEF Accounted, SessionsOf
  <2>2. CASE o = "failed"
    <3>1. Kept(c) = {} /\ SessionsOf(c)' = SessionsOf(c)
      BY <1>2, <1>3, <1>5, <2>2, KeptBy DEF SessionsOf, TookEffect
    <3>2. SessionsOf(c) # {} => failures[c] >= 1
      BY <1>2, <1>3, <3>1 DEF Accounted
    <3>3. QED
      BY <1>3, <1>5, <1>8, <2>2, <3>1, <3>2 DEF Accounted
  <2>3. CASE o = "refused"
    <3>1. SessionsOf(c) = {}
      BY <1>3, <1>5, <2>3, NoSessionWithoutRegistration
    <3>2. QED
      BY <1>5, <2>3, <3>1 DEF Accounted, SessionsOf, TookEffect
  <2>4. QED
    BY <2>1, <2>2, <2>3 DEF Outcomes, TookEffect
<1>11. Covered(c)'
  BY <1>7 DEF Covered
<1>12. Maintains(c)' /\ Rotates(c)' /\ (c \notin spoilt' => Routed(c)')
  BY <1>2, <1>3, <1>6, <1>7 DEF Maintains, Rotates, Routed
<1>13. QED
  BY <1>5, <1>6, <1>7, <1>9, <1>10, <1>11, <1>12, HolderCalls

\* The registration of a lease.
LEMMA RegisterLeaseStep ==
  ASSUME ClientsInv, NEW c \in Holders, UNCHANGED launchVars, RegisterLease(c)
  PROVE  ClientsInv'
<1>1. PICK o \in Outcomes :
        /\ CallRegister(c, o)
        /\ hold' = IF o = "done" THEN [hold EXCEPT ![c].at = "registered", ![c].generation = last']
                                 ELSE [hold EXCEPT ![c].at = "done"]
  BY DEF RegisterLease
<1>2. hold[c].at = "start" /\ UNCHANGED <<target, spoilt>>
  BY DEF RegisterLease, Is
<1>3. /\ c \in Clients /\ c \notin Launchers /\ hold[c] \in Holds /\ hold \in [Holders -> Holds] /\ Maintains(c)
      /\ Typed /\ AttachType /\ (c \notin spoilt => Routed(c)) /\ Numbered(c)
      /\ GenerationOf(c) = hold[c].generation /\ Where(c) = hold[c].at
  BY HolderFacts
<1>4. /\ Serves(c) /\ up' = up
      /\ TookEffect(o) => up /\ open' = {} /\ expired' = {} /\ last' = last + 1 /\ registered' = last'
      /\ ~TookEffect(o) => UNCHANGED <<last, registered, open, expired>>
  BY <1>1, <1>3, RegisterServes
<1>5. last \in Nat /\ last' \in 0..MaxGeneration /\ hold[c].generation = 0
  BY <1>2, <1>3, <1>4, CallsAssumption DEF Numbered, Serves, CoreTyped, Typed
<1>6. SessionsOf(c)' = {}
  <2>1. SessionsOf(c) = {}
    BY <1>3, <1>5, NoSessionWithoutRegistration
  <2>2. QED
    BY <1>4, <2>1 DEF SessionsOf
<1>7. PICK h \in Holds :
        /\ hold' = [hold EXCEPT ![c] = h] /\ h.kind = hold[c].kind /\ h.current = hold[c].current
        /\ h.at = (IF o = "done" THEN "registered" ELSE "done") /\ h.generation = (IF o = "done" THEN last' ELSE 0)
  <2>1. CASE o = "done"
    <3> DEFINE g == last'
               h == [hold[c] EXCEPT !.at = "registered", !.generation = g]
    <3>1. g \in 0..MaxGeneration /\ hold' = [hold EXCEPT ![c].at = "registered", ![c].generation = g] /\ g = last'
      BY <1>1, <1>5, <2>1
    <3> HIDE DEF g
    <3>2. h \in Holds /\ h.kind = hold[c].kind /\ h.current = hold[c].current /\ h.at = "registered" /\ h.generation = g
      BY <1>3, <3>1 DEF Holds
    <3>3. hold' = [hold EXCEPT ![c] = h]
      BY <1>3, <3>1 DEF Holds
    <3> HIDE DEF h
    <3>4. QED
      BY <2>1, <3>1, <3>2, <3>3
  <2>2. CASE o # "done"
    <3> DEFINE h == [hold[c] EXCEPT !.at = "done"]
    <3>1. h \in Holds /\ h.kind = hold[c].kind /\ h.current = hold[c].current /\ h.at = "done" /\ h.generation = 0
      BY <1>3, <1>5 DEF Holds
    <3>2. hold' = [hold EXCEPT ![c] = h]
      BY <1>1, <1>3, <2>2 DEF Holds
    <3> HIDE DEF h
    <3>3. QED
      BY <2>2, <3>1, <3>2
  <2>3. QED
    BY <2>1, <2>2
<1>8. /\ hold' \in [Holders -> Holds] /\ hold'[c] = h /\ target' = target
      /\ \A d \in Holders \ {c} : hold'[d] = hold[d] /\ target'[d] = target[d] /\ (d \in spoilt' <=> d \in spoilt)
  BY <1>2, <1>3, <1>7
<1>9. AttachType'
  BY <1>2, <1>3, <1>8 DEF AttachType, Holds
<1>10. SessionsAreRegistered'
  <2>1. CASE TookEffect(o)
    BY <1>3, <1>4, <2>1, StillRegistered
  <2>2. CASE ~TookEffect(o)
    <3>1. o # "done"
      BY <2>2 DEF TookEffect
    <3>2. h.generation = 0
      BY <1>7, <3>1
    <3>3. \A d \in Holders : hold'[d].generation = hold[d].generation
      BY <1>5, <1>8, <3>2
    <3>4. \A d \in Clients : GenerationOf(d)' = GenerationOf(d)
      BY <3>3, ClientsAssumption DEF GenerationOf, launchVars
    <3>5. QED
      BY <1>3, <1>4, <2>2, <3>4, StillRegistered
  <2>3. QED
    BY <2>1, <2>2
<1>11. Where(c)' = h.at /\ GenerationOf(c)' = h.generation /\ (Attaches(c)' <=> Attaches(c)) /\ Kept(c)' = {}
  BY <1>3, <1>7, <1>8, KeptByNext DEF Where, GenerationOf, Attaches
<1>12. Accounted(c)' /\ Covered(c)'
  BY <1>6, <1>11 DEF Accounted, Covered
<1>13. Numbered(c)'
  BY <1>4, <1>5, <1>7, <1>11 DEF Numbered, TookEffect
<1>14. Maintains(c)' /\ Rotates(c)' /\ (c \notin spoilt' => Routed(c)')
  BY <1>2, <1>3, <1>7, <1>8, <1>11 DEF Maintains, Rotates, Routed
<1>15. QED
  BY <1>4, <1>8, <1>9, <1>10, <1>12, <1>13, <1>14, HolderActs

\* A session of a target expires: to its controller it is as good as kept.
LEMMA ExpireStep ==
  ASSUME ClientsInv, NEW c \in Holders, UNCHANGED launchVars, NEW k \in 1..MaxSessions, SessionExpires(c, k)
  PROVE  ClientsInv'
<1>1. /\ c \in Clients /\ c \notin Launchers /\ Typed /\ AttachType /\ Accounted(c) /\ Numbered(c) /\ Covered(c) /\ Maintains(c)
      /\ Rotates(c) /\ (c \notin spoilt => Routed(c)) /\ failures[c] \in Nat
  BY HolderFacts
<1>2. UNCHANGED attachVars /\ SessionsExpire(c, {k}) /\ {k} \subseteq Nat
  BY DEF SessionExpires
<1>3. /\ Serves(c) /\ UNCHANGED <<up, last, registered, failures>>
      /\ open' = open \ {<<c, i>> : i \in {k}}
      /\ expired' = expired \cup {<<c, i>> : i \in {k}}
  BY <1>1, <1>2, ExpiryServes
<1>4. \A d \in Clients : GenerationOf(d)' = GenerationOf(d)
  BY <1>2 DEF GenerationOf, launchVars, attachVars
<1>5. hold' = hold /\ target' = target /\ spoilt' = spoilt /\ Where(c)' = Where(c) /\ Kept(c)' = Kept(c)
  BY <1>1, <1>2 DEF attachVars, Where, Kept, Attaches
<1>6. SessionsAreRegistered'
  <2>1. open' \subseteq open
    BY <1>3
  <2>2. QED
    BY <1>1, <1>3, <1>4, <2>1, StillRegistered
<1>7. Accounted(c)'
  <2>1. SessionsOf(c)' \subseteq SessionsOf(c)
    BY <1>3 DEF SessionsOf
  <2>2. QED
    BY <1>1, <1>3, <1>5, <2>1 DEF Accounted
<1>8. open \cup expired \subseteq open' \cup expired'
  BY <1>3
<1>9. Covered(c)' /\ Maintains(c)' /\ Rotates(c)' /\ (c \notin spoilt' => Routed(c)')
  <2>1. Covered(c)'
    BY <1>1, <1>3, <1>5, <1>8 DEF Covered
  <2>2. Maintains(c)' /\ Rotates(c)'
    BY <1>1, <1>5 DEF Maintains, Rotates, Attaches
  <2>3. c \notin spoilt' => Routed(c)'
    BY <1>1, <1>3, <1>5, <1>8 DEF Routed
  <2>4. QED
    BY <2>1, <2>2, <2>3
<1>10. Numbered(c)' /\ AttachType'
  BY <1>1, <1>3, <1>4, <1>5 DEF Numbered, AttachType
<1>11. QED
  BY <1>3, <1>5, <1>6, <1>7, <1>9, <1>10, HolderActs

\* Every step of a program.
LEMMA HolderSteps ==
  ASSUME ClientsInv, AttachNext, UNCHANGED launchVars
  PROVE  ClientsInv'
<1>1. PICK c \in Holders :
        \/ Setup(c) \/ Rotate(c) \/ Renew(c) \/ Stop(c) \/ Undo(c) \/ Crashes(c)
        \/ \E k \in 1..MaxSessions : SessionExpires(c, k)
  BY DEF AttachNext
<1>2. \/ Resting(c) \/ RegisterLease(c) \/ CreateFirst(c) \/ Rotate(c) \/ DropNext(c) \/ RetireCurrent(c)
      \/ RevokeCurrent(c) \/ RemoveLease(c) \/ \E k \in 1..MaxSessions : SessionExpires(c, k)
  BY <1>1 DEF Setup, Undo, Resting
<1>3. QED
  BY <1>2, RestingSteps, RegisterLeaseStep, CreateFirstStep, RotateStep, DropNextStep, RetireStep, RevokeStep, RemoveLeaseStep,
     ExpireStep

-----------------------------------------------------------------------------
(* The core by itself *)

\* Time passes, the lease lapses or the core stops: every client rests.
LEMMA CoreSteps ==
  ASSUME ClientsInv, CoreNext, UNCHANGED <<launchVars, attachVars>>
  PROVE  ClientsInv'
<1>1. Typed /\ SessionsAreRegistered
  BY DEF ClientsInv
<1>2. failures' = failures /\ last' = last
  BY DEF CoreNext, TimePasses, LeaseLapses, CoreStops
<1>3. \/ UNCHANGED <<up, registered, open, expired>>
      \/ registered' = Nobody /\ open' = {} /\ expired' = {} /\ up' \in BOOLEAN
  BY <1>1 DEF CoreNext, TimePasses, LeaseLapses, CoreStops, Typed
<1>4. CoreTyped' /\ last <= last'
  BY <1>1, <1>2, <1>3 DEF CoreTyped, Typed, Nobody
<1>5. \A d \in Clients : Harmless(d)
  <2>1. TAKE d \in Clients
  <2>2. failures'[d] >= failures[d] /\ GenerationOf(d) \in Nat
    BY <1>1, <1>2, NumbersAreTyped
  <2>3. QED
    BY <1>3, <2>2 DEF Harmless, SessionsOf, Nobody
<1>6. \A d \in Clients : Rests(d)
  BY DEF Rests, launchVars, attachVars
<1>7. \A d \in Clients : ClientInv(d)'
  BY <1>4, <1>5, <1>6, OthersKeep
<1>8. Typed'
  <2>1. LaunchType' /\ AttachType'
    BY <1>1 DEF Typed, LaunchType, AttachType, launchVars, attachVars
  <2>2. QED
    BY <1>4, <2>1 DEF CoreTyped, Typed
<1>9. SessionsAreRegistered'
  <2>1. \A d \in Clients : GenerationOf(d)' = GenerationOf(d)
    BY DEF GenerationOf, launchVars, attachVars
  <2>2. CASE open' = {}
    BY <2>2 DEF SessionsAreRegistered
  <2>3. CASE UNCHANGED <<up, registered, open, expired>>
    <3>1. \A s \in open' : s[1] \in Clients
      BY <1>1, <2>3 DEF Typed
    <3>2. QED
      BY <1>1, <2>1, <2>3, <3>1 DEF SessionsAreRegistered
  <2>4. QED
    BY <1>3, <2>2, <2>3
<1>10. QED
  BY <1>7, <1>8, <1>9 DEF ClientsInv

-----------------------------------------------------------------------------
(* The theorems *)

\* Before anything is registered the invariant holds.
LEMMA ClientsBegin == Init => ClientsInv
<1> SUFFICES ASSUME Init PROVE ClientsInv
  OBVIOUS
<1>1. /\ up = TRUE /\ last = 0 /\ registered = 0 /\ open = {} /\ expired = {} /\ failures \in [Clients -> Nat]
      /\ fresh = FALSE
  BY DEF Init, CoreInit, Nobody
<1>2. 0 \in 0..MaxGeneration /\ 0 \in 0..MaxSessions
  BY CallsAssumption
<1>3. LaunchType
  BY <1>2 DEF Init, LaunchInit, LaunchType
<1>4. AttachType
  BY <1>2 DEF Init, AttachInit, AttachType, NoSession
<1>5. Typed
  BY <1>1, <1>2, <1>3, <1>4 DEF Typed
<1>6. SessionsAreRegistered
  BY <1>1 DEF SessionsAreRegistered
<1>7. \A c \in Clients : ClientInv(c)
  <2>1. TAKE c \in Clients
  <2>2. SessionsOf(c) = {}
    BY <1>1 DEF SessionsOf
  <2>3. Accounted(c)
    BY <2>2 DEF Accounted
  <2>4. Where(c) \in {"start", "done"} /\ GenerationOf(c) = 0
    BY KindOfClient DEF Init, LaunchInit, AttachInit, Where, GenerationOf
  <2>5. Numbered(c)
    BY <1>1, <2>4 DEF Numbered
  <2>6. ASSUME c \in Launchers PROVE Sheltered(c) /\ Nests(c)
    <3>1. child[c].root = "none" /\ guard[c].lease = "none" /\ guard[c].egress = "none"
      BY <2>6 DEF Init, LaunchInit
    <3>2. QED
      BY <1>1, <2>2, <3>1 DEF Sheltered, Quiet, Nests
  <2>7. ASSUME c \in Holders PROVE Covered(c) /\ Maintains(c) /\ Rotates(c) /\ (c \notin spoilt => Routed(c))
    <3>1. /\ hold[c].at \in {"start", "done"} /\ hold[c].current = NoSession /\ target[c] = NoSession /\ c \notin Launchers
      BY <2>7, KindOfClient DEF Init, AttachInit
    <3>2. Kept(c) = {}
      BY <2>7, <3>1, KeptBy
    <3>3. QED
      BY <3>1, <3>2 DEF Covered, Maintains, Rotates, Routed
  <2>8. QED
    BY <2>3, <2>5, <2>6, <2>7 DEF ClientInv
<1>8. QED
  BY <1>5, <1>6, <1>7 DEF ClientsInv

\* The invariant of the clients and the core they share: what is typed, whose
\* sessions are open, and for each client what it keeps, accounts for and is
\* routed through.
THEOREM ClientsAreConsistent == Spec => []ClientsInv
<1>1. ClientsInv /\ [Next]_vars => ClientsInv'
  <2> SUFFICES ASSUME ClientsInv, [Next]_vars PROVE ClientsInv'
    OBVIOUS
  <2>1. CASE Next
    BY <2>1, LauncherSteps, HolderSteps, CoreSteps DEF Next
  <2>2. CASE UNCHANGED vars
    <3>1. UNCHANGED <<coreVars, launchVars, attachVars>>
      BY <2>2 DEF vars
    <3>2. \A c \in Clients : Rests(c) /\ Harmless(c)
      BY <3>1, NumbersAreTyped DEF Rests, Harmless, SessionsOf, coreVars, launchVars, attachVars, ClientsInv, Typed
    <3>3. Typed'
      BY <3>1 DEF ClientsInv, Typed, LaunchType, AttachType, coreVars, launchVars, attachVars
    <3>4. SessionsAreRegistered'
      BY <3>1 DEF ClientsInv, SessionsAreRegistered, GenerationOf, coreVars, launchVars, attachVars
    <3>5. last <= last' /\ CoreTyped'
      BY <3>1, <3>3 DEF CoreTyped, Typed, ClientsInv, coreVars
    <3>6. QED
      BY <3>2, <3>3, <3>4, <3>5, OthersKeep DEF ClientsInv
  <2>3. QED
    BY <2>1, <2>2
<1>2. QED
  BY ClientsBegin, <1>1, PTL DEF Spec

\* runProtected and Controller.Run: of a client that has returned, only two failed
\* calls leave a session open.
THEOREM ReturnedClientsLeaveNothing == Spec => []OneFailureLeavesNothingOpen
<1>1. ClientsInv => OneFailureLeavesNothingOpen
  <2> SUFFICES ASSUME ClientsInv, NEW c \in Clients, Where(c) = "done", failures[c] < 2 PROVE SessionsOf(c) = {}
    BY DEF OneFailureLeavesNothingOpen
  <2>1. Accounted(c) /\ failures[c] \in Nat
    BY DEF ClientsInv, ClientInv, Typed
  <2>2. Kept(c) = {}
    BY KindOfClient, KeptBy DEF Kept, Where
  <2>3. QED
    BY <2>1, <2>2 DEF Accounted
<1>2. QED
  BY ClientsAreConsistent, <1>1, PTL

\* Controller.Run: while the registration is in force, a target whose bindings were
\* accepted is routed through a session that is open or has reached the end of its
\* own time.
THEOREM TargetsAreNotRevoked == Spec => []OnlyTimeEndsAuthority
<1>1. ClientsInv => OnlyTimeEndsAuthority
  <2> SUFFICES ASSUME ClientsInv, NEW c \in Holders, c \notin spoilt, up, registered = hold[c].generation, target[c] # NoSession
               PROVE  <<c, target[c]>> \in open \cup expired
    BY DEF OnlyTimeEndsAuthority
  <2>1. Routed(c) /\ Covered(c) /\ Maintains(c) /\ c \notin Launchers /\ hold[c] \in Holds
    BY HolderFacts
  <2>2. CASE hold[c].at \in {"running", "rotating", "restoring"}
    <3>1. target[c] = hold[c].current /\ Attaches(c)
      BY <2>1, <2>2 DEF Routed, Maintains
    <3>2. target[c] \in Kept(c)
      BY <2>1, <2>2, <3>1 DEF Kept
    <3>3. QED
      BY <2>1, <3>2 DEF Covered
  <2>3. CASE hold[c].at = "retiring"
    <3>1. target[c] = hold[c].next /\ Attaches(c)
      BY <2>1, <2>3 DEF Routed, Maintains
    <3>2. target[c] \in Kept(c)
      BY <2>1, <2>3, <3>1 DEF Kept
    <3>3. QED
      BY <2>1, <3>2 DEF Covered
  <2>4. CASE hold[c].at = "dead"
    BY <2>1, <2>4 DEF Routed
  <2>5. QED
    BY <2>1, <2>2, <2>3, <2>4 DEF Routed, Holds
<1>2. QED
  BY ClientsAreConsistent, <1>1, PTL

\* runProtected: authority is given back when neither the child nor a goroutine
\* that acts for it is left.
THEOREM AuthorityOutlivesTheChild == Spec => []NothingOutlivesTheLaunch
<1>1. ClientsInv => NothingOutlivesTheLaunch
  BY LauncherFacts DEF NothingOutlivesTheLaunch, Sheltered
<1>2. QED
  BY ClientsAreConsistent, <1>1, PTL

\* A removal that is served is the one of the registration in force.
LEMMA RemovesItsOwn ==
  ASSUME NEW c, NEW g, NEW o, CallRemove(c, g, o), registered' # registered
  PROVE  registered = g
  BY DEF CallRemove, Ends, TookEffect

\* A registration that is served is a newer one.
LEMMA RegistersTheNext ==
  ASSUME Typed, NEW c, NEW o, CallRegister(c, o), registered' # registered
  PROVE  registered' > registered
  BY CallsAssumption DEF CallRegister, Typed

\* How the registration in force may change.
LEMMA RegistrationsGo ==
  ASSUME ClientsInv, Next, registered' # registered
  PROVE  \/ registered' > registered \/ ~up' \/ ~fresh
         \/ \E c \in Clients : Where(c) = "removing" /\ GenerationOf(c) = registered
<1>1. Typed
  BY DEF ClientsInv
<1>2. CASE \E l \in Launchers : Register(l) \/ Remove(l)
  <2>1. PICK l \in Launchers : Register(l) \/ Remove(l)
    BY <1>2
  <2>2. l \in Clients /\ Where(l) = launch[l].at /\ GenerationOf(l) = launch[l].generation
    BY LauncherFacts
  <2>3. QED
    BY <1>1, <2>1, <2>2, RemovesItsOwn, RegistersTheNext DEF Register, Remove, At
<1>3. CASE \E c \in Holders : RegisterLease(c) \/ RemoveLease(c)
  <2>1. PICK c \in Holders : RegisterLease(c) \/ RemoveLease(c)
    BY <1>3
  <2>2. c \in Clients /\ Where(c) = hold[c].at /\ GenerationOf(c) = hold[c].generation
    BY HolderFacts
  <2>3. QED
    BY <1>1, <2>1, <2>2, RemovesItsOwn, RegistersTheNext DEF RegisterLease, RemoveLease, Is
<1>4. CASE CoreNext
  BY <1>4 DEF CoreNext, TimePasses, LeaseLapses, CoreStops
<1>5. CASE LaunchNext /\ ~(\E l \in Launchers : Register(l) \/ Remove(l))
  <2>1. PICK l \in Launchers :
          \/ Quietly(l) \/ OfTheGroup(l) \/ Flows(l) \/ RenewLease(l) \/ LoseLease(l)
          \/ CreateSession(l) \/ DeleteSession(l) \/ NestedCreates(l) \/ NestedDeletes(l) \/ LaunchedSessionsExpire(l)
    BY <1>5 DEF LaunchNext, Launcher, Lease, Egress, Agent, NestedLaunch, Quietly, OfTheGroup, Flows
  <2>2. CASE Quietly(l)
    BY <2>2 DEF Quietly, StopLease, ObserveEgress, ReportEgress, ObservationFails, GraceEnds, StopWatch, Interrupt, NoCall, coreVars
  <2>3. CASE OfTheGroup(l)
    BY <2>3 DEF OfTheGroup, Fork, RootExits, MemberExits, KillGroup, Reap, NestedStarts, NestedEnds, NoCall, coreVars
  <2>4. CASE Flows(l)
    BY <2>4 DEF Flows, RefusePlan, PrepareFails, Prepare, StartFails, Start, Watch, WatchFailsToStart, WaitReturns,
                AbandonedWaitReturns, Join, CleanHome, Dies, NoCall, coreVars
  <2>5. CASE RenewLease(l) \/ LoseLease(l)
    BY <2>5 DEF RenewLease, LoseLease, CallHeartbeat, NoCall, coreVars
  <2>6. CASE CreateSession(l) \/ DeleteSession(l) \/ NestedCreates(l) \/ NestedDeletes(l)
    BY <2>6 DEF CreateSession, DeleteSession, NestedCreates, NestedDeletes, CreateChild, CallCreateSession, CallDeleteSession
  <2>7. CASE LaunchedSessionsExpire(l)
    BY <2>7 DEF LaunchedSessionsExpire, SessionsExpire
  <2>8. QED
    BY <2>1, <2>2, <2>3, <2>4, <2>5, <2>6, <2>7
<1>6. CASE AttachNext /\ ~(\E c \in Holders : RegisterLease(c) \/ RemoveLease(c))
  <2>1. PICK c \in Holders :
          \/ Resting(c) \/ CreateFirst(c) \/ Rotate(c) \/ DropNext(c) \/ RetireCurrent(c) \/ RevokeCurrent(c)
          \/ \E k \in 1..MaxSessions : SessionExpires(c, k)
    BY <1>6 DEF AttachNext, Setup, Undo, Resting
  <2>2. CASE Resting(c)
    BY <2>2, RestingServes
  <2>3. CASE CreateFirst(c) \/ Rotate(c) \/ DropNext(c) \/ RetireCurrent(c) \/ RevokeCurrent(c)
    BY <2>3 DEF CreateFirst, Rotate, DropNext, RetireCurrent, RevokeCurrent, CallCreateSession, CallDeleteSession
  <2>4. CASE \E k \in 1..MaxSessions : SessionExpires(c, k)
    BY <2>4 DEF SessionExpires, SessionsExpire
  <2>5. QED
    BY <2>1, <2>2, <2>3, <2>4
<1>7. QED
  BY <1>2, <1>3, <1>4, <1>5, <1>6 DEF Next

\* A registration goes with a newer one, its owner's removal, its lease or the core.
THEOREM SuccessorsAreSpared == Spec => CleanupSparesSuccessor
<1>1. ClientsInv /\ [Next]_vars =>
        [registered # Nobody /\ registered' # registered =>
           \/ registered' > registered \/ ~up' \/ ~fresh
           \/ \E c \in Clients : Where(c) = "removing" /\ GenerationOf(c) = registered]_vars
  BY RegistrationsGo
<1>2. QED
  BY ClientsAreConsistent, <1>1, PTL DEF Spec, CleanupSparesSuccessor

=============================================================================
