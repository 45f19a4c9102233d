------------------------------ MODULE LegacySSE ------------------------------
(***************************************************************************)
(* proxy.LegacySSEManager: the channels that join a legacy MCP event        *)
(* stream (a long GET) to the POSTs made to the endpoint it advertised.     *)
(*                                                                         *)
(* All requests of a channel share one vault of originals.  The GET owns    *)
(* it until the channel is open, the manager from then on; it has to go     *)
(* when nobody may use it any more, and not before.  A POST looks the       *)
(* channel up, waits for a slot with no lock held, looks again, and keeps a *)
(* reference until it is done; the GET, the deadline, a revocation or the   *)
(* end of the server may take the channel away at any point in between.     *)
(***************************************************************************)
EXTENDS Integers, FiniteSets

CONSTANTS
  Channels,            \* channel identifiers, one for every GET ever made
  Posts,               \* goroutines serving POSTs
  Sessions,            \* what a channel is bound to: a session and its route
  MaxChannels, MaxPostsPerChannel,    \* LegacySSELimits
  MaxLockWait,         \* bound: how old a clock reading made before a lock is
  MaxTime              \* bound: the clock stops here

ASSUME LimitAssumption ==
  MaxChannels \in Nat \ {0} /\ MaxPostsPerChannel \in Nat \ {0}
ASSUME TimeAssumption == MaxTime \in Nat /\ MaxLockWait \in Nat

VARIABLES
  now,
  revoked,      \* sessions whose context was cancelled
  expires,      \* when each session expires
  closedAll,    \* CloseAll has run (history)
  get,          \* the GET of each channel
  listed,       \* m.channels
  bound,        \* the session a channel is bound to
  vault,        \* the vault of each channel
  closing, refs, slots,    \* of each channel
  doomed,       \* channels some goroutine has unlocked and is about to destroy
  post          \* the POST each goroutine serves

sessionVars == <<now, revoked, expires>>
channelVars == <<listed, bound, vault, closing, refs, slots, doomed>>
vars == <<sessionVars, closedAll, get, channelVars, post>>

Idle == [step |-> "idle"]

At(p, step) == post[p].step = step
Go(p, step) == post' = [post EXCEPT ![p].step = step]
Return(p) == post' = [post EXCEPT ![p] = Idle]

-----------------------------------------------------------------------------
(* Contexts and pruning *)

Expired(c, at) == expires[bound[c]] <= at

\* binding.Context.Done(): the session was revoked, its deadline passed, or
\* the channel was destroyed.
Done(c) ==
  \/ bound[c] \in revoked \/ Expired(c, now)
  \/ vault[c] = "destroyed"

ClockReads == {at \in now - MaxLockWait .. now : at >= 0}

Stale(at) == {c \in listed : Expired(c, at) \/ Done(c)}

\* pruneLocked, and destroyLegacyChannels once the lock is released.
Prune(at) ==
  /\ listed' = listed \ Stale(at)
  /\ doomed' = doomed \cup Stale(at)

-----------------------------------------------------------------------------
(* The GET and its channel *)

\* serveLegacySSEGet: an authorized GET makes a vault of its own.
Connect(c, s) ==
  /\ get[c] = "none"
  /\ s \notin revoked /\ expires[s] > now
  /\ get' = [get EXCEPT ![c] = "connecting"]
  /\ bound' = [bound EXCEPT ![c] = s]
  /\ vault' = [vault EXCEPT ![c] = "live"]
  /\ UNCHANGED <<sessionVars, closedAll, listed, closing, refs, slots, doomed, post>>

\* It fails before the channel is open, and destroys the vault it owns.
GiveUp(c) ==
  /\ get[c] \in {"connecting", "opening"}
  /\ get' = [get EXCEPT ![c] = "done"]
  /\ vault' = [vault EXCEPT ![c] = "destroyed"]

Disconnect(c) ==
  /\ get[c] = "connecting"
  /\ GiveUp(c)
  /\ UNCHANGED <<sessionVars, closedAll, listed, bound, closing, refs, slots, doomed, post>>

\* Open: the context and the deadline are checked, then the lock is taken.
OpenCheck(c) ==
  /\ get[c] = "connecting"
  /\ ~Done(c)
  /\ get' = [get EXCEPT ![c] = "opening"]
  /\ UNCHANGED <<sessionVars, closedAll, channelVars, post>>

\* Open, with the lock: the manager takes the vault over if it has room.
Open(c) ==
  /\ get[c] = "opening"
  /\ \E at \in ClockReads :
       /\ doomed' = doomed \cup Stale(at)
       /\ \/ /\ Cardinality(listed \ Stale(at)) < MaxChannels
             /\ listed' = (listed \ Stale(at)) \cup {c}
             /\ get' = [get EXCEPT ![c] = "streaming"]
             /\ UNCHANGED vault
          \/ /\ Cardinality(listed \ Stale(at)) >= MaxChannels
             /\ listed' = listed \ Stale(at)
             /\ GiveUp(c)
  /\ UNCHANGED <<sessionVars, closedAll, bound, closing, refs, slots, post>>

\* The stream ended for whatever reason; the deferred Close takes the channel
\* off the list and leaves the vault to the POSTs that hold a reference.
Close(c) ==
  /\ get[c] = "streaming"
  /\ get' = [get EXCEPT ![c] = "done"]
  /\ listed' = listed \ {c}
  /\ closing' = [closing EXCEPT ![c] = @ \/ c \in listed]
  /\ doomed' = IF c \in listed /\ refs[c] = 0 THEN doomed \cup {c} ELSE doomed
  /\ UNCHANGED <<sessionVars, closedAll, bound, vault, refs, slots, post>>

-----------------------------------------------------------------------------
(* POSTs *)

\* Acquire: find the channel; the caller must name its session.
Lookup(p, c, s) ==
  /\ At(p, "idle")
  /\ \E at \in ClockReads :
       /\ Prune(at)
       /\ IF c \in listed \ Stale(at) /\ bound[c] = s
          THEN post' = [post EXCEPT ![p] = [step |-> "waiting", channel |-> c]]
          ELSE UNCHANGED post
  /\ UNCHANGED <<sessionVars, closedAll, get, bound, vault, closing, refs, slots>>

\* Wait for a slot, the end of the request or the end of the channel.
TakeSlot(p) ==
  /\ At(p, "waiting")
  /\ slots[post[p].channel] < MaxPostsPerChannel
  /\ slots' = [slots EXCEPT ![post[p].channel] = @ + 1]
  /\ Go(p, "slotted")
  /\ UNCHANGED <<sessionVars, closedAll, get, listed, bound, vault, closing, refs, doomed>>

Leave(p) ==
  /\ At(p, "waiting")
  /\ Return(p)
  /\ UNCHANGED <<sessionVars, closedAll, get, channelVars>>

LeaveDone(p) == Leave(p) /\ Done(post[p].channel)

\* Faulty variants: the channel is not looked up again; a refused POST keeps its
\* slot.
ConfirmBlindly(p) ==
  /\ At(p, "slotted")
  /\ refs' = [refs EXCEPT ![post[p].channel] = @ + 1]
  /\ Go(p, "using")
  /\ UNCHANGED <<sessionVars, closedAll, get, listed, bound, vault, closing, slots, doomed>>

ConfirmLeaking(p) ==
  LET c == post[p].channel
  IN  /\ At(p, "slotted")
      /\ IF c \in listed /\ ~Expired(c, now)
         THEN refs' = [refs EXCEPT ![c] = @ + 1] /\ Go(p, "using")
         ELSE Return(p) /\ UNCHANGED refs
      /\ UNCHANGED <<sessionVars, closedAll, get, listed, bound, vault, closing, slots, doomed>>

\* With the slot in hand the channel must still be there.
Confirm(p) ==
  LET c == post[p].channel
  IN  /\ At(p, "slotted")
      /\ IF c \in listed /\ ~Expired(c, now)
         THEN /\ refs' = [refs EXCEPT ![c] = @ + 1]
              /\ Go(p, "using")
              /\ UNCHANGED slots
         ELSE /\ slots' = [slots EXCEPT ![c] = @ - 1]
              /\ Return(p)
              /\ UNCHANGED refs
      /\ UNCHANGED <<sessionVars, closedAll, get, listed, bound, vault, closing, doomed>>

\* Faulty variant: the slot is never given back.
FreeSlotNever(p) ==
  /\ At(p, "using")
  /\ Go(p, "releasing")
  /\ UNCHANGED <<sessionVars, closedAll, get, channelVars>>

\* The POST is over; release frees the slot first, with no lock.
FreeSlot(p) ==
  /\ At(p, "using")
  /\ slots' = [slots EXCEPT ![post[p].channel] = @ - 1]
  /\ Go(p, "releasing")
  /\ UNCHANGED <<sessionVars, closedAll, get, listed, bound, vault, closing, refs, doomed>>

\* Faulty variant: the last POST does not clean up.
ReleaseOnly(p) ==
  /\ At(p, "releasing")
  /\ refs' = [refs EXCEPT ![post[p].channel] = @ - 1]
  /\ Return(p)
  /\ UNCHANGED <<sessionVars, closedAll, get, listed, bound, vault, closing, slots, doomed>>

\* The last reference to a closed channel destroys it.
Release(p) ==
  LET c == post[p].channel
  IN  /\ At(p, "releasing")
      /\ refs' = [refs EXCEPT ![c] = @ - 1]
      /\ doomed' = IF closing[c] /\ refs[c] = 1 THEN doomed \cup {c} ELSE doomed
      /\ Return(p)
      /\ UNCHANGED <<sessionVars, closedAll, get, listed, bound, vault, closing, slots>>

-----------------------------------------------------------------------------
(* The rest of the manager and its surroundings *)

\* destroyLegacyChannel, once: cancel the context, wipe the vault.
Destroy(c) ==
  /\ c \in doomed
  /\ doomed' = doomed \ {c}
  /\ vault' = [vault EXCEPT ![c] = "destroyed"]
  /\ UNCHANGED <<sessionVars, closedAll, get, listed, bound, closing, refs, slots, post>>

\* Server.Close does not wait for the handlers.
CloseAll ==
  /\ ~closedAll
  /\ closedAll' = TRUE
  /\ doomed' = doomed \cup listed
  /\ listed' = {}
  /\ UNCHANGED <<sessionVars, get, bound, vault, closing, refs, slots, post>>

LenOf ==
  /\ \E at \in ClockReads : Prune(at)
  /\ UNCHANGED <<sessionVars, closedAll, get, bound, vault, closing, refs, slots, post>>

\* session.Manager cancels the context of a session it removes.
Revoke(s) ==
  /\ revoked' = revoked \cup {s}
  /\ UNCHANGED <<now, expires, closedAll, get, channelVars, post>>

Tick ==
  /\ now < MaxTime
  /\ now' = now + 1
  /\ UNCHANGED <<revoked, expires, closedAll, get, channelVars, post>>

Init ==
  /\ now = 0
  /\ revoked = {}
  /\ expires \in [Sessions -> 1 .. MaxTime]
  /\ closedAll = FALSE
  /\ get = [c \in Channels |-> "none"]
  /\ listed = {}
  /\ bound \in {[c \in Channels |-> s] : s \in Sessions}
  /\ vault = [c \in Channels |-> "none"]
  /\ closing = [c \in Channels |-> FALSE]
  /\ refs = [c \in Channels |-> 0]
  /\ slots = [c \in Channels |-> 0]
  /\ doomed = {}
  /\ post = [p \in Posts |-> Idle]

\* What a POST does by itself once it is past waiting.
Serve(p) == Confirm(p) \/ FreeSlot(p) \/ Release(p)

Next ==
  \/ \E c \in Channels :
       \/ \E s \in Sessions : Connect(c, s)
       \/ Disconnect(c) \/ OpenCheck(c) \/ Open(c) \/ Close(c) \/ Destroy(c)
  \/ \E p \in Posts :
       \/ \E c \in Channels, s \in Sessions : Lookup(p, c, s)
       \/ TakeSlot(p) \/ Leave(p) \/ Serve(p)
  \/ CloseAll \/ LenOf \/ Tick
  \/ \E s \in Sessions : Revoke(s)

Spec == Init /\ [][Next]_vars

\* Goroutines run on, and a channel serves its waiting senders in turn.  A POST
\* ends: its body is read under the server's read timeout and its upstream
\* request under the client's.  Nothing is assumed of the GET, whose peer may
\* stop reading, of new requests or of the clock.
Fairness ==
  /\ \A p \in Posts : WF_vars(Serve(p)) /\ SF_vars(TakeSlot(p)) /\ WF_vars(LeaveDone(p))
  /\ \A c \in Channels : WF_vars(Destroy(c))

FairSpec == Spec /\ Fairness

-----------------------------------------------------------------------------
(* Properties *)

On(c, steps) == {p \in Posts : post[p].step \in steps /\ post[p].channel = c}

\* Types, capacity, and counters that agree with the POSTs they count.
TypeOK ==
  /\ now \in 0 .. MaxTime /\ revoked \subseteq Sessions
  /\ listed \subseteq Channels /\ doomed \subseteq Channels
  /\ get \in [Channels -> {"none", "connecting", "opening", "streaming", "done"}]
  /\ bound \in [Channels -> Sessions]
  /\ vault \in [Channels -> {"none", "live", "destroyed"}]
  /\ Cardinality(listed) <= MaxChannels
  /\ \A c \in Channels :
       /\ slots[c] = Cardinality(On(c, {"slotted", "using"}))
       /\ slots[c] <= MaxPostsPerChannel
       /\ refs[c] = Cardinality(On(c, {"using", "releasing"}))

\* Somebody is in charge of destroying every vault that holds originals: its
\* GET, the list (which is pruned), the goroutine that took it off the list, or
\* the POSTs that drain it.
LiveVaultsHaveAnOwner ==
  \A c \in Channels :
    vault[c] = "live" =>
      \/ get[c] \in {"connecting", "opening"}
      \/ c \in listed
      \/ c \in doomed
      \/ closing[c] /\ refs[c] > 0

\* A vault is not taken from under a POST that acquired it merely because the
\* stream ended: it takes a revocation, the deadline or the end of the server.
AcquiredPostsKeepTheirVault ==
  \A p \in Posts :
    At(p, "using") /\ vault[post[p].channel] = "destroyed" =>
      \/ bound[post[p].channel] \in revoked
      \/ Expired(post[p].channel, now)
      \/ closedAll

\* Vaults live and die with those who use them: each live one has somebody who
\* will destroy it, and none is destroyed under a POST without a reason.
VaultsFollowTheirUsers == LiveVaultsHaveAnOwner /\ AcquiredPostsKeepTheirVault

\* The vault of a channel that was taken off the list is wiped, however the
\* POSTs on it end.
UnlistedVaultsAreDestroyed ==
  \A c \in Channels :
    (get[c] \in {"streaming", "done"} /\ c \notin listed) ~> vault[c] = "destroyed"

\* A POST does not wait for a slot forever, whatever happens to its channel and
\* to the POSTs before it.
NoPostWaitsForever ==
  \A p \in Posts : At(p, "waiting") ~> ~At(p, "waiting")

-----------------------------------------------------------------------------
(* The inductive invariant *)

Tasks ==
  {Idle} \cup [step : {"waiting", "slotted", "using", "releasing"}, channel : Channels]

\* Only finitely many POSTs are under way, so that the counters can count them.
Typed ==
  /\ TypeOK
  /\ closedAll \in BOOLEAN /\ expires \in [Sessions -> Nat]
  /\ closing \in [Channels -> BOOLEAN]
  /\ refs \in [Channels -> Nat] /\ slots \in [Channels -> Nat]
  /\ post \in [Posts -> Tasks]
  /\ IsFiniteSet(listed) /\ IsFiniteSet({p \in Posts : ~At(p, "idle")})

\* What may take the vault from a POST.
Over(c) == bound[c] \in revoked \/ Expired(c, now) \/ closedAll

\* Only an open channel is on the list, and it is whole.
Listing(c) ==
  c \in listed => /\ get[c] = "streaming" /\ vault[c] = "live"
                  /\ c \notin doomed /\ ~closing[c]

\* Nobody knows a channel that was never open; its GET has the vault.
Opening(c) ==
  /\ get[c] \in {"connecting", "opening"} => vault[c] = "live"
  /\ get[c] \in {"none", "connecting", "opening"} =>
       /\ c \notin doomed /\ ~closing[c]
       /\ \A p \in Posts : At(p, "idle") \/ post[p].channel # c

\* Whatever is about to be destroyed is not used any more, or it is over.
Ending(c) ==
  c \in doomed \/ vault[c] = "destroyed" => Over(c) \/ On(c, {"using"}) = {}

ChannelsInv ==
  /\ Typed
  /\ \A c \in Channels : Listing(c) /\ Opening(c) /\ Ending(c)
  /\ LiveVaultsHaveAnOwner

=============================================================================
