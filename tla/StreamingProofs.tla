-------------------------- MODULE StreamingProofs --------------------------
(***************************************************************************)
(* What is proved about the two ways in which a response is passed on      *)
(* while it is still arriving.                                             *)
(*                                                                         *)
(* SSEProcessor.  For any rules, events, chunk sizes and limits, what the  *)
(* agent gets of an ordinary response (Ordinary) is a part of the whole    *)
(* response made safe in one piece.  The argument goes from texts          *)
(* to the processor: scanning in overlapping chunks finds what             *)
(* scanning in one piece finds (ChunkedScanFindsEverything); redacting     *)
(* first and restoring placeholders then is the same as doing both at once *)
(* (RedactThenRestore); a text cut where neither a credential nor a        *)
(* placeholder is cut may be made safe in two parts (SafeJoint), and       *)
(* emitCount cuts it there (EmitCountIs).  StreamInv then says that what   *)
(* arrived consists of a part that has been dealt with in that way and of  *)
(* what is held back.  Recursion (texts of events, chunks) is unfolded     *)
(* by lemmas over intervals of the naturals (UpTo, Iterated).              *)
(*                                                                         *)
(* Legacy event streams.  For any channels, POSTs, sessions and limits,    *)
(* ChannelsInv is an inductive invariant of LegacySSE, and                 *)
(* VaultsFollowTheirUsers follows from it.  A vault is destroyed by        *)
(* whoever finds the last reference gone, so the counters must be known to *)
(* count the POSTs they stand for; that is shown for one POST at a time    *)
(* (Moved, Counted).  The rest looks at one channel at a time.             *)
(***************************************************************************)
EXTENDS LegacySSE, StreamProcessor, FiniteSetTheorems, SequenceTheorems, TLAPS


-----------------------------------------------------------------------------
(* POSTs and the counters that count them *)

InUse == {"using", "releasing"}
WithSlot == {"slotted", "using"}

\* The POSTs on a channel in a table of POSTs.
In(table, c, S) == {p \in Posts : table[p].step \in S /\ table[p].channel = c}

LEMMA OnIsIn == \A c, S : On(c, S) = In(post, c, S) /\ On(c, S)' = In(post', c, S)
  BY DEF On, In

\* When one of them goes on.
LEMMA Moved ==
  ASSUME Typed, NEW p \in Posts, NEW t \in Tasks, post' = [post EXCEPT ![p] = t]
  PROVE  /\ \A c, S : In(post', c, S) = IF t.step \in S /\ t.channel = c
                                        THEN In(post, c, S) \cup {p}
                                        ELSE In(post, c, S) \ {p}
         /\ post' \in [Posts -> Tasks]
         /\ \A q \in Posts : post'[q] = IF q = p THEN t ELSE post[q]
         /\ IsFiniteSet({q \in Posts : post'[q].step # "idle"})
<1>1. /\ post \in [Posts -> Tasks] /\ post' \in [Posts -> Tasks]
      /\ \A q \in Posts : post'[q] = IF q = p THEN t ELSE post[q]
  BY DEF Typed
<1>2. \A c, S : In(post', c, S) = IF t.step \in S /\ t.channel = c
                                 THEN In(post, c, S) \cup {p} ELSE In(post, c, S) \ {p}
  BY <1>1 DEF In
<1>3. IsFiniteSet({q \in Posts : post'[q].step # "idle"})
  <2> DEFINE A == {q \in Posts : ~At(q, "idle")}
             B == {q \in Posts : post'[q].step # "idle"}
  <2>1. IsFiniteSet(A)
    BY DEF Typed
  <2>2. B \subseteq A \cup {p}
    BY <1>1 DEF At
  <2> HIDE DEF A, B
  <2>3. IsFiniteSet(A \cup {p})
    BY <2>1, FS_AddElement
  <2>4. IsFiniteSet(B)
    BY <2>2, <2>3, FS_Subset
  <2>5. QED
    BY <2>4 DEF B
<1>4. QED
  BY <1>1, <1>2, <1>3

\* A counter follows.
LEMMA Counted ==
  ASSUME Typed, NEW p \in Posts, NEW c, NEW S, "idle" \notin S
  PROVE  /\ IsFiniteSet(On(c, S)) /\ Cardinality(On(c, S)) \in Nat
         /\ p \notin On(c, S) =>
              /\ Cardinality(On(c, S) \cup {p}) = Cardinality(On(c, S)) + 1
              /\ On(c, S) \ {p} = On(c, S)
         /\ p \in On(c, S) =>
              /\ Cardinality(On(c, S) \ {p}) = Cardinality(On(c, S)) - 1
              /\ On(c, S) \cup {p} = On(c, S)
         /\ Cardinality(On(c, S)) = 0 => On(c, S) = {}
<1> DEFINE A == {q \in Posts : ~At(q, "idle")}
           B == On(c, S)
<1>1. IsFiniteSet(A) /\ B \subseteq A
  BY DEF Typed, On, At
<1> HIDE DEF A, B
<1>2. IsFiniteSet(B)
  BY <1>1, FS_Subset
<1>3. /\ Cardinality(B) \in Nat
      /\ p \notin B => Cardinality(B \cup {p}) = Cardinality(B) + 1
      /\ p \in B => Cardinality(B \ {p}) = Cardinality(B) - 1
      /\ Cardinality(B) = 0 => B = {}
  BY <1>2, FS_CardinalityType, FS_AddElement, FS_RemoveElement, FS_EmptySet
<1>4. /\ p \notin B => B \ {p} = B
      /\ p \in B => B \cup {p} = B
  OBVIOUS
<1>5. QED
  BY <1>2, <1>3, <1>4 DEF B

\* What a POST under way says of its channel.
LEMMA OnItsChannel ==
  ASSUME ChannelsInv, NEW p \in Posts, NEW step, At(p, step),
         step \in {"waiting", "slotted", "using", "releasing"}
  PROVE  /\ post[p] = [step |-> step, channel |-> post[p].channel]
         /\ post[p].channel \in Channels
         /\ get[post[p].channel] \in {"streaming", "done"}
         /\ Idle \in Tasks
         /\ \A x \in {"waiting", "slotted", "using", "releasing"}, c \in Channels :
              [step |-> x, channel |-> c] \in Tasks
<1>1. post[p] \in Tasks /\ post[p].step = step
  BY DEF ChannelsInv, Typed, At
<1>2. post[p] # Idle
  BY <1>1 DEF Idle
<1>3. post[p] = [step |-> step, channel |-> post[p].channel] /\ post[p].channel \in Channels
  BY <1>1, <1>2 DEF Tasks
<1>4. get[post[p].channel] \in {"streaming", "done"}
  BY <1>3 DEF ChannelsInv, Opening, Typed, TypeOK, At
<1>5. QED
  BY <1>3, <1>4 DEF Tasks

\* What is over stays over.
LEMMA OverStays ==
  ASSUME Typed, NEW c \in Channels, bound'[c] = bound[c], expires' = expires,
         revoked \subseteq revoked', now' \in Nat, now <= now', closedAll => closedAll'
  PROVE  Over(c) => Over(c)'
<1>1. now \in Nat /\ expires[bound[c]] \in Nat
  BY TimeAssumption DEF Typed, TypeOK
<1>2. Expired(c, now) => Expired(c, now)'
  BY <1>1 DEF Expired
<1>3. QED
  BY <1>2 DEF Over

\* Whatever is pruned is over, however old the reading of the clock.
LEMMA Pruned ==
  ASSUME ChannelsInv, NEW at \in ClockReads
  PROVE  /\ Stale(at) \subseteq listed
         /\ \A c \in Stale(at) : Over(c)
         /\ IsFiniteSet(listed \ Stale(at))
         /\ Cardinality(listed \ Stale(at)) \in Nat
         /\ Cardinality(listed \ Stale(at)) <= MaxChannels
<1>1. Stale(at) \subseteq listed
  BY DEF Stale
<1>2. ASSUME NEW c \in Stale(at)
      PROVE  Over(c)
  <2>1. c \in Channels /\ c \in listed /\ vault[c] = "live" /\ (Expired(c, at) \/ Done(c))
    BY <1>2 DEF Stale, ChannelsInv, Typed, TypeOK, Listing
  <2>2. now \in Nat /\ at \in Int /\ at <= now /\ expires[bound[c]] \in Nat
    BY <2>1, TimeAssumption DEF ClockReads, ChannelsInv, Typed, TypeOK
  <2>3. Expired(c, at) => Expired(c, now)
    BY <2>2 DEF Expired
  <2>4. QED
    BY <2>1, <2>3 DEF Done, Over
<1>3. IsFiniteSet(listed) /\ Cardinality(listed) <= MaxChannels /\ Cardinality(listed) \in Nat
  BY FS_CardinalityType DEF ChannelsInv, Typed, TypeOK
<1>4. /\ IsFiniteSet(listed \ Stale(at)) /\ Cardinality(listed \ Stale(at)) \in Nat
      /\ Cardinality(listed \ Stale(at)) <= Cardinality(listed)
  BY <1>3, FS_Subset, FS_CardinalityType
<1>5. QED
  BY <1>1, <1>2, <1>3, <1>4, LimitAssumption

-----------------------------------------------------------------------------
(* One channel at a time *)

Sound(c) ==
  /\ Listing(c) /\ Opening(c) /\ Ending(c)
  /\ vault[c] = "live" =>
       \/ get[c] \in {"connecting", "opening"}
       \/ c \in listed \/ c \in doomed
       \/ closing[c] /\ refs[c] > 0

LEMMA EachChannel == ChannelsInv <=> Typed /\ \A c \in Channels : Sound(c)
  BY DEF ChannelsInv, Sound, LiveVaultsHaveAnOwner

LEMMA EachChannelNext == Typed' /\ (\A c \in Channels : Sound(c)') => ChannelsInv'
  BY DEF ChannelsInv, Sound, LiveVaultsHaveAnOwner

Same(c) ==
  /\ get'[c] = get[c] /\ vault'[c] = vault[c]
  /\ closing'[c] = closing[c] /\ refs'[c] = refs[c]
  /\ On(c, {"using"})' \subseteq On(c, {"using"})
  /\ get[c] \in {"none", "connecting", "opening"} =>
       \A p \in Posts : At(p, "idle") \/ post[p].channel # c =>
                        (At(p, "idle") \/ post[p].channel # c)'
  /\ Over(c) => Over(c)'

\* A channel nobody touches, and one that is swept off the list.
LEMMA Spared ==
  ASSUME ChannelsInv, NEW c \in Channels, Same(c),
         c \in listed' <=> c \in listed, c \in doomed' <=> c \in doomed
  PROVE  Sound(c)'
<1>1. Sound(c)
  BY EachChannel
<1>2. QED
  BY <1>1 DEF Sound, Same, Listing, Opening, Ending

LEMMA Swept ==
  ASSUME ChannelsInv, NEW c \in Channels, Same(c), Over(c)',
         c \in listed, c \notin listed', c \in doomed'
  PROVE  Sound(c)'
<1>1. Sound(c)
  BY EachChannel
<1>2. QED
  BY <1>1 DEF Sound, Same, Listing, Opening, Ending

\* A step that leaves the POSTs alone only has to keep the types of the rest.
LEMMA SamePosts ==
  ASSUME ChannelsInv, UNCHANGED <<expires, refs, slots, post>>,
         now' \in 0 .. MaxTime, revoked' \subseteq Sessions, closedAll' \in BOOLEAN,
         listed' \subseteq Channels, doomed' \subseteq Channels,
         get' \in [Channels -> {"none", "connecting", "opening", "streaming", "done"}],
         bound' \in [Channels -> Sessions],
         vault' \in [Channels -> {"none", "live", "destroyed"}],
         closing' \in [Channels -> BOOLEAN],
         IsFiniteSet(listed'), Cardinality(listed') <= MaxChannels
  PROVE  /\ Typed'
         /\ \A c, S : On(c, S)' = On(c, S)
         /\ \A step : \A p \in Posts : At(p, step)' <=> At(p, step)
<1>1. /\ \A c, S : On(c, S)' = On(c, S)
      /\ \A step : \A p \in Posts : At(p, step)' <=> At(p, step)
  BY DEF On, At
<1>2. {p \in Posts : ~At(p, "idle")}' = {p \in Posts : ~At(p, "idle")}
  BY <1>1
<1>3. Typed
  BY DEF ChannelsInv
<1>4. TypeOK'
  BY <1>1, <1>3 DEF Typed, TypeOK
<1>5. QED
  BY <1>1, <1>2, <1>3, <1>4 DEF Typed

\* What the list shrinks to has room.
LEMMA Shrunk ==
  ASSUME ChannelsInv, NEW A, A \subseteq listed
  PROVE  /\ IsFiniteSet(A) /\ Cardinality(A) \in Nat /\ Cardinality(A) <= MaxChannels
         /\ A \subseteq Channels
<1>1. IsFiniteSet(listed) /\ Cardinality(listed) <= MaxChannels /\ listed \subseteq Channels
  BY DEF ChannelsInv, Typed, TypeOK
<1>2. /\ IsFiniteSet(A) /\ Cardinality(A) \in Nat /\ Cardinality(listed) \in Nat
      /\ Cardinality(A) <= Cardinality(listed)
  BY <1>1, FS_Subset, FS_CardinalityType
<1>3. QED
  BY <1>1, <1>2, LimitAssumption

-----------------------------------------------------------------------------
(* The GET *)

LEMMA NobodyOn ==
  ASSUME NEW c \in Channels, Opening(c), get[c] \in {"connecting", "opening"}
  PROVE  On(c, {"using"}) = {}
<1>1. \A p \in Posts : post[p].step = "idle" \/ post[p].channel # c
  BY DEF Opening, At
<1>2. ASSUME NEW p \in On(c, {"using"}) PROVE FALSE
  <2>1. p \in Posts /\ post[p].step = "using" /\ post[p].channel = c
    BY DEF On
  <2>2. QED
    BY <1>1, <2>1
<1>3. QED
  BY <1>2

LEMMA ConnectStep ==
  ASSUME ChannelsInv, NEW c \in Channels, NEW s \in Sessions, Connect(c, s)
  PROVE  ChannelsInv'
<1>1. Typed /\ Sound(c)
  BY EachChannel
<1>2. /\ now' \in 0 .. MaxTime /\ revoked' \subseteq Sessions /\ closedAll' \in BOOLEAN
      /\ listed' = listed /\ listed \subseteq Channels
      /\ doomed' = doomed /\ doomed \subseteq Channels
      /\ closing' \in [Channels -> BOOLEAN]
      /\ UNCHANGED <<sessionVars, closedAll, refs, slots, post, closing>>
  BY <1>1 DEF Connect, sessionVars, Typed, TypeOK
<1>3. /\ get' = [get EXCEPT ![c] = "connecting"] /\ bound' = [bound EXCEPT ![c] = s]
      /\ vault' = [vault EXCEPT ![c] = "live"] /\ get[c] = "none"
  BY DEF Connect
<1>4. /\ get' \in [Channels -> {"none", "connecting", "opening", "streaming", "done"}]
      /\ bound' \in [Channels -> Sessions]
      /\ vault' \in [Channels -> {"none", "live", "destroyed"}]
      /\ get'[c] = "connecting" /\ vault'[c] = "live"
      /\ \A d \in Channels \ {c} : get'[d] = get[d] /\ vault'[d] = vault[d] /\ bound'[d] = bound[d]
  BY <1>1, <1>3 DEF Typed, TypeOK
<1>5. /\ Typed' /\ \A d, S : On(d, S)' = On(d, S)
      /\ \A step : \A p \in Posts : At(p, step)' <=> At(p, step)
  BY <1>2, <1>4, Shrunk, SamePosts DEF sessionVars
<1>6. Sound(c)'
  BY <1>1, <1>2, <1>3, <1>4, <1>5 DEF Sound, Listing, Opening, Ending
<1>7. ASSUME NEW d \in Channels \ {c}
      PROVE  Sound(d)'
  <2>1. Over(d) => Over(d)'
    BY <1>2, <1>4 DEF Over, Expired, sessionVars
  <2>2. QED
    BY <1>2, <1>4, <1>5, <2>1, Spared DEF Same
<1>8. QED
  BY <1>5, <1>6, <1>7, EachChannelNext

\* A GET that gives up leaves a channel nobody ever knew.
LEMMA DisconnectStep ==
  ASSUME ChannelsInv, NEW c \in Channels, Disconnect(c)
  PROVE  ChannelsInv'
<1>1. Typed /\ Sound(c)
  BY EachChannel
<1>2. /\ now' \in 0 .. MaxTime /\ revoked' \subseteq Sessions /\ closedAll' \in BOOLEAN
      /\ listed' = listed /\ listed \subseteq Channels
      /\ doomed' = doomed /\ doomed \subseteq Channels
      /\ closing' \in [Channels -> BOOLEAN] /\ bound' \in [Channels -> Sessions]
      /\ UNCHANGED <<sessionVars, closedAll, bound, refs, slots, post, closing>>
  BY <1>1 DEF Disconnect, sessionVars, Typed, TypeOK
<1>3. /\ get' = [get EXCEPT ![c] = "done"] /\ vault' = [vault EXCEPT ![c] = "destroyed"]
      /\ get[c] = "connecting"
  BY DEF Disconnect, GiveUp
<1>4. /\ get' \in [Channels -> {"none", "connecting", "opening", "streaming", "done"}]
      /\ vault' \in [Channels -> {"none", "live", "destroyed"}]
      /\ get'[c] = "done" /\ vault'[c] = "destroyed"
      /\ \A d \in Channels \ {c} : get'[d] = get[d] /\ vault'[d] = vault[d]
  BY <1>1, <1>3 DEF Typed, TypeOK
<1>5. /\ Typed' /\ \A d, S : On(d, S)' = On(d, S)
      /\ \A step : \A p \in Posts : At(p, step)' <=> At(p, step)
  BY <1>2, <1>4, Shrunk, SamePosts DEF sessionVars
<1>6. Sound(c)'
  <2>1. On(c, {"using"})' = {}
    BY <1>1, <1>3, <1>5, NobodyOn DEF Sound
  <2>2. QED
    BY <1>1, <1>2, <1>3, <1>4, <1>5, <2>1 DEF Sound, Listing, Opening, Ending
<1>7. ASSUME NEW d \in Channels \ {c}
      PROVE  Sound(d)'
  <2>1. Over(d) => Over(d)'
    BY <1>2, <1>4 DEF Over, Expired, sessionVars
  <2>2. QED
    BY <1>2, <1>4, <1>5, <2>1, Spared DEF Same
<1>8. QED
  BY <1>5, <1>6, <1>7, EachChannelNext

\* The check before the lock changes nothing but the step.
LEMMA OpenCheckStep ==
  ASSUME ChannelsInv, NEW c \in Channels, OpenCheck(c)
  PROVE  ChannelsInv'
<1>1. Typed /\ Sound(c)
  BY EachChannel
<1>2. /\ now' \in 0 .. MaxTime /\ revoked' \subseteq Sessions /\ closedAll' \in BOOLEAN
      /\ listed' = listed /\ listed \subseteq Channels
      /\ doomed' = doomed /\ doomed \subseteq Channels
      /\ closing' \in [Channels -> BOOLEAN] /\ bound' \in [Channels -> Sessions]
      /\ vault' \in [Channels -> {"none", "live", "destroyed"}]
      /\ UNCHANGED <<sessionVars, closedAll, bound, vault, refs, slots, post, closing>>
  BY <1>1 DEF OpenCheck, sessionVars, channelVars, Typed, TypeOK
<1>3. get' = [get EXCEPT ![c] = "opening"] /\ get[c] = "connecting"
  BY DEF OpenCheck
<1>4. /\ get' \in [Channels -> {"none", "connecting", "opening", "streaming", "done"}]
      /\ get'[c] = "opening" /\ \A d \in Channels \ {c} : get'[d] = get[d]
  BY <1>1, <1>3 DEF Typed, TypeOK
<1>5. /\ Typed' /\ \A d, S : On(d, S)' = On(d, S)
      /\ \A step : \A p \in Posts : At(p, step)' <=> At(p, step)
  BY <1>2, <1>4, Shrunk, SamePosts DEF sessionVars
<1>6. \A d \in Channels : Over(d) => Over(d)'
  BY <1>2 DEF Over, Expired, sessionVars
<1>7. Sound(c)'
  BY <1>1, <1>2, <1>3, <1>4, <1>5, <1>6 DEF Sound, Listing, Opening, Ending
<1>8. ASSUME NEW d \in Channels \ {c}
      PROVE  Sound(d)'
  BY <1>2, <1>4, <1>5, <1>6, Spared DEF Same
<1>9. QED
  BY <1>5, <1>7, <1>8, EachChannelNext

\* Open sweeps the list and adds the channel if there is room.
LEMMA OpenStep ==
  ASSUME ChannelsInv, NEW c \in Channels, Open(c)
  PROVE  ChannelsInv'
<1>1. Typed /\ Sound(c) /\ get[c] = "opening" /\ c \notin listed /\ c \notin doomed
  BY EachChannel DEF Sound, Listing, Opening, Open
<1>2. PICK at \in ClockReads :
        /\ doomed' = doomed \cup Stale(at)
        /\ \/ /\ Cardinality(listed \ Stale(at)) < MaxChannels
              /\ listed' = (listed \ Stale(at)) \cup {c}
              /\ get' = [get EXCEPT ![c] = "streaming"]
              /\ UNCHANGED vault
           \/ /\ Cardinality(listed \ Stale(at)) >= MaxChannels
              /\ listed' = listed \ Stale(at)
              /\ GiveUp(c)
  BY DEF Open
<1>3. /\ now' \in 0 .. MaxTime /\ revoked' \subseteq Sessions /\ closedAll' \in BOOLEAN
      /\ doomed' \subseteq Channels /\ listed \subseteq Channels
      /\ closing' \in [Channels -> BOOLEAN] /\ bound' \in [Channels -> Sessions]
      /\ UNCHANGED <<sessionVars, closedAll, bound, refs, slots, post, closing>>
  BY <1>1, <1>2, Pruned DEF Open, sessionVars, Typed, TypeOK
<1>4. /\ Stale(at) \subseteq listed /\ c \notin Stale(at) /\ (\A d \in Stale(at) : Over(d))
      /\ IsFiniteSet(listed \ Stale(at)) /\ Cardinality(listed \ Stale(at)) \in Nat
      /\ Cardinality(listed \ Stale(at)) <= MaxChannels
  BY <1>1, Pruned
<1>5. \A d \in Channels : Over(d) => Over(d)'
  BY <1>3 DEF Over, Expired, sessionVars
<1>6. /\ get' \in [Channels -> {"none", "connecting", "opening", "streaming", "done"}]
      /\ vault' \in [Channels -> {"none", "live", "destroyed"}]
      /\ \A d \in Channels \ {c} : get'[d] = get[d] /\ vault'[d] = vault[d]
      /\ \/ get'[c] = "streaming" /\ vault'[c] = vault[c] /\ c \in listed'
         \/ get'[c] = "done" /\ vault'[c] = "destroyed" /\ c \notin listed'
  BY <1>1, <1>2 DEF GiveUp, Typed, TypeOK
<1>7. listed' \subseteq Channels /\ IsFiniteSet(listed') /\ Cardinality(listed') <= MaxChannels
  <2> DEFINE A == listed \ Stale(at)
  <2>1. A \subseteq Channels /\ IsFiniteSet(A) /\ Cardinality(A) \in Nat /\ Cardinality(A) <= MaxChannels
    BY <1>3, <1>4
  <2>2. listed' = A \/ (listed' = A \cup {c} /\ Cardinality(A) < MaxChannels /\ c \notin A)
    BY <1>1, <1>2
  <2> HIDE DEF A
  <2>3. IsFiniteSet(A \cup {c}) /\ (c \notin A => Cardinality(A \cup {c}) = Cardinality(A) + 1)
    BY <2>1, FS_AddElement
  <2>4. CASE listed' = A
    BY <2>1, <2>4
  <2>5. CASE listed' = A \cup {c} /\ Cardinality(A) < MaxChannels /\ c \notin A
    <3>1. Cardinality(A \cup {c}) <= MaxChannels
      BY <2>1, <2>3, <2>5, LimitAssumption
    <3>2. QED
      BY <2>1, <2>3, <2>5, <3>1
  <2>6. QED
    BY <2>2, <2>4, <2>5
<1>8. /\ Typed' /\ \A d, S : On(d, S)' = On(d, S)
      /\ \A step : \A p \in Posts : At(p, step)' <=> At(p, step)
  BY <1>3, <1>6, <1>7, SamePosts DEF sessionVars
<1>9. Sound(c)'
  <2>1. vault[c] = "live" /\ ~closing[c]
    BY <1>1 DEF Sound, Opening
  <2>2. On(c, {"using"})' = {}
    BY <1>1, <1>8, NobodyOn DEF Sound
  <2>3. c \notin doomed'
    BY <1>1, <1>2, <1>4
  <2>4. QED
    BY <1>3, <1>6, <2>1, <2>2, <2>3 DEF Sound, Listing, Opening, Ending
<1>10. ASSUME NEW d \in Channels \ {c}
       PROVE  Sound(d)'
  <2>1. Same(d)
    BY <1>3, <1>5, <1>6, <1>8 DEF Same
  <2>2. CASE d \in Stale(at)
    BY <1>2, <1>4, <1>5, <2>1, <2>2, Swept
  <2>3. CASE d \notin Stale(at)
    BY <1>2, <2>1, <2>3, Spared
  <2>4. QED
    BY <2>2, <2>3
<1>11. QED
  BY <1>8, <1>9, <1>10, EachChannelNext

\* The deferred Close leaves the vault to the POSTs that use it.
LEMMA CloseStep ==
  ASSUME ChannelsInv, NEW c \in Channels, Close(c)
  PROVE  ChannelsInv'
<1>1. Typed /\ Sound(c) /\ get[c] = "streaming"
  BY EachChannel DEF Close
<1>2. /\ now' \in 0 .. MaxTime /\ revoked' \subseteq Sessions /\ closedAll' \in BOOLEAN
      /\ listed' = listed \ {c} /\ listed' \subseteq Channels /\ doomed' \subseteq Channels
      /\ bound' \in [Channels -> Sessions]
      /\ vault' \in [Channels -> {"none", "live", "destroyed"}]
      /\ UNCHANGED <<sessionVars, closedAll, bound, vault, refs, slots, post>>
  BY <1>1 DEF Close, sessionVars, Typed, TypeOK
<1>3. /\ get' = [get EXCEPT ![c] = "done"]
      /\ closing' = [closing EXCEPT ![c] = @ \/ c \in listed]
      /\ doomed' = IF c \in listed /\ refs[c] = 0 THEN doomed \cup {c} ELSE doomed
  BY DEF Close
<1>4. /\ get' \in [Channels -> {"none", "connecting", "opening", "streaming", "done"}]
      /\ get'[c] = "done" /\ closing'[c] = (closing[c] \/ c \in listed)
      /\ closing' \in [Channels -> BOOLEAN]
      /\ \A d \in Channels \ {c} : get'[d] = get[d] /\ closing'[d] = closing[d]
  BY <1>1, <1>3 DEF Typed, TypeOK
<1>5. /\ Typed' /\ \A d, S : On(d, S)' = On(d, S)
      /\ \A step : \A p \in Posts : At(p, step)' <=> At(p, step)
  BY <1>2, <1>4, Shrunk, SamePosts DEF sessionVars
<1>6. \A d \in Channels : Over(d) => Over(d)'
  BY <1>2 DEF Over, Expired, sessionVars
<1>7. Sound(c)'
  <2>1. refs[c] \in Nat /\ refs[c] = Cardinality(On(c, InUse))
    BY <1>1 DEF Typed, TypeOK, InUse
  <2>2. refs[c] = 0 => On(c, InUse) = {}
    <3>1. IsFiniteSet(On(c, InUse))
      <4>1. IsFiniteSet({p \in Posts : ~At(p, "idle")})
        BY <1>1 DEF Typed
      <4>2. On(c, InUse) \subseteq {p \in Posts : ~At(p, "idle")}
        BY DEF On, InUse, At
      <4>3. QED
        BY <4>1, <4>2, FS_Subset
    <3>2. QED
      BY <2>1, <3>1, FS_EmptySet
  <2>3. On(c, {"using"}) \subseteq On(c, InUse)
    BY DEF On, InUse
  <2>4. Listing(c)' /\ Opening(c)'
    BY <1>2, <1>4 DEF Listing, Opening
  <2>5. Ending(c)'
    BY <1>1, <1>2, <1>3, <1>5, <1>6, <2>2, <2>3 DEF Sound, Ending
  <2>6. vault[c] = "live" => c \in doomed' \/ (closing'[c] /\ refs[c] > 0)
    <3>1. CASE c \in listed /\ refs[c] = 0
      BY <1>3, <3>1
    <3>2. CASE c \in listed /\ refs[c] # 0
      BY <1>4, <2>1, <3>2
    <3>3. CASE c \notin listed
      BY <1>1, <1>3, <1>4, <3>3 DEF Sound
    <3>4. QED
      BY <3>1, <3>2, <3>3
  <2>7. QED
    BY <1>2, <1>4, <2>4, <2>5, <2>6 DEF Sound
<1>8. ASSUME NEW d \in Channels \ {c}
      PROVE  Sound(d)'
  BY <1>2, <1>3, <1>4, <1>5, <1>6, Spared DEF Same
<1>9. QED
  BY <1>5, <1>7, <1>8, EachChannelNext

-----------------------------------------------------------------------------
(* POSTs *)

\* By how much a counter of POSTs changes when one of them goes on.
Recounted(p, t) ==
  \A c, S : "idle" \notin S =>
    LET was == In(post, c, S)
        is == In(post', c, S)
    IN  IF t.step \in S /\ t.channel = c
        THEN IF p \in was THEN is = was ELSE Cardinality(is) = Cardinality(was) + 1
        ELSE IF p \in was THEN Cardinality(is) = Cardinality(was) - 1 ELSE is = was

LEMMA Recount ==
  ASSUME Typed, NEW p \in Posts, NEW t \in Tasks, post' = [post EXCEPT ![p] = t]
  PROVE  Recounted(p, t)
<1> SUFFICES ASSUME NEW c, NEW S, "idle" \notin S
             PROVE  IF t.step \in S /\ t.channel = c
                    THEN IF p \in In(post, c, S) THEN In(post', c, S) = In(post, c, S)
                         ELSE Cardinality(In(post', c, S)) = Cardinality(In(post, c, S)) + 1
                    ELSE IF p \in In(post, c, S)
                         THEN Cardinality(In(post', c, S)) = Cardinality(In(post, c, S)) - 1
                         ELSE In(post', c, S) = In(post, c, S)
  BY DEF Recounted
<1>1. In(post', c, S) = IF t.step \in S /\ t.channel = c
                        THEN In(post, c, S) \cup {p} ELSE In(post, c, S) \ {p}
  BY Moved
<1>2. /\ p \notin In(post, c, S) =>
           /\ Cardinality(In(post, c, S) \cup {p}) = Cardinality(In(post, c, S)) + 1
           /\ In(post, c, S) \ {p} = In(post, c, S)
      /\ p \in In(post, c, S) =>
           /\ Cardinality(In(post, c, S) \ {p}) = Cardinality(In(post, c, S)) - 1
           /\ In(post, c, S) \cup {p} = In(post, c, S)
  BY Counted, OnIsIn
<1>3. QED
  BY <1>1, <1>2

\* What is left to show of the types when a POST goes on.
LEMMA PostMoves ==
  ASSUME ChannelsInv, NEW p \in Posts, NEW t \in Tasks, post' = [post EXCEPT ![p] = t],
         UNCHANGED <<sessionVars, closedAll, get, bound, vault, closing>>,
         listed' \subseteq listed, doomed' \subseteq Channels,
         refs' \in [Channels -> Nat], slots' \in [Channels -> Nat],
         \A c \in Channels :
           /\ slots'[c] = Cardinality(On(c, WithSlot)') /\ slots'[c] <= MaxPostsPerChannel
           /\ refs'[c] = Cardinality(On(c, InUse)')
  PROVE  Typed'
<1>1. Typed
  BY DEF ChannelsInv
<1>2. post' \in [Posts -> Tasks] /\ IsFiniteSet({q \in Posts : ~At(q, "idle")}')
  BY <1>1, Moved DEF At
<1>3. listed' \subseteq Channels /\ IsFiniteSet(listed') /\ Cardinality(listed') <= MaxChannels
  BY Shrunk
<1>4. TypeOK'
  BY <1>1, <1>3 DEF Typed, TypeOK, WithSlot, InUse, sessionVars
<1>5. QED
  BY <1>1, <1>2, <1>3, <1>4 DEF Typed, sessionVars

\* Where a POST is counted.
LEMMA Counts ==
  ASSUME Typed
  PROVE  /\ refs \in [Channels -> Nat] /\ slots \in [Channels -> Nat]
         /\ \A c \in Channels :
              /\ slots[c] = Cardinality(On(c, WithSlot)) /\ slots[c] <= MaxPostsPerChannel
              /\ refs[c] = Cardinality(On(c, InUse))
  BY DEF Typed, TypeOK, WithSlot, InUse

\* A lookup sweeps the list and waits on a channel that stays.
LEMMA LookupStep ==
  ASSUME ChannelsInv, NEW p \in Posts, NEW c \in Channels, NEW s \in Sessions, Lookup(p, c, s)
  PROVE  ChannelsInv'
<1>1. Typed /\ At(p, "idle") /\ post[p] \in Tasks /\ post \in [Posts -> Tasks]
  BY DEF Lookup, ChannelsInv, Typed
<1>2. PICK at \in ClockReads :
        /\ listed' = listed \ Stale(at) /\ doomed' = doomed \cup Stale(at)
        /\ IF c \in listed \ Stale(at) /\ bound[c] = s
           THEN post' = [post EXCEPT ![p] = [step |-> "waiting", channel |-> c]]
           ELSE UNCHANGED post
  BY DEF Lookup, Prune
<1>3. UNCHANGED <<sessionVars, closedAll, get, bound, vault, closing, refs, slots>>
  BY DEF Lookup
<1>4. PICK t \in Tasks :
        /\ post' = [post EXCEPT ![p] = t] /\ t.step \in {"idle", "waiting"}
        /\ t.step = "waiting" => t.channel = c /\ c \in listed
  <2>1. CASE c \in listed \ Stale(at) /\ bound[c] = s
    <3> DEFINE t == [step |-> "waiting", channel |-> c]
    <3>1. t \in Tasks /\ t.step = "waiting" /\ t.channel = c
      BY DEF Tasks
    <3>2. QED
      BY <1>2, <2>1, <3>1
  <2>2. CASE ~(c \in listed \ Stale(at) /\ bound[c] = s)
    <3>1. post' = [post EXCEPT ![p] = post[p]] /\ post[p].step = "idle"
      BY <1>1, <1>2, <2>2 DEF At
    <3>2. QED
      BY <1>1, <3>1
  <2>3. QED
    BY <2>1, <2>2
<1>5. \A d, S : "idle" \notin S /\ "waiting" \notin S => On(d, S)' = On(d, S)
  <2> TAKE d, S
  <2> HAVE "idle" \notin S /\ "waiting" \notin S
  <2>1. t.step \notin S /\ p \notin In(post, d, S)
    BY <1>1, <1>4 DEF In, At
  <2>2. In(post', d, S) = In(post, d, S)
    <3>1. Recounted(p, t)
      BY <1>1, <1>4, Recount
    <3>2. QED
      BY <2>1, <3>1 DEF Recounted
  <2>3. QED
    BY <2>2, OnIsIn
<1>6. /\ \A d \in Channels : On(d, WithSlot)' = On(d, WithSlot) /\ On(d, InUse)' = On(d, InUse)
      /\ \A d \in Channels : On(d, {"using"})' = On(d, {"using"})
  BY <1>5 DEF WithSlot, InUse
<1>7. Typed'
  <2>1. listed' \subseteq listed /\ doomed' \subseteq Channels
    BY <1>1, <1>2, Pruned DEF Typed, TypeOK
  <2>2. QED
    BY <1>1, <1>3, <1>4, <1>6, <2>1, Counts, PostMoves
<1>8. ASSUME NEW d \in Channels
      PROVE  Sound(d)'
  <2>1. Over(d) => Over(d)'
    BY <1>3 DEF Over, Expired, sessionVars
  <2>2. get[d] \in {"none", "connecting", "opening"} =>
          \A q \in Posts : At(q, "idle") \/ post[q].channel # d =>
                           (At(q, "idle") \/ post[q].channel # d)'
    <3>1. c \in listed => get[c] = "streaming"
      BY DEF ChannelsInv, Listing
    <3>2. SUFFICES ASSUME get[d] \in {"none", "connecting", "opening"}, NEW q \in Posts,
                          At(q, "idle") \/ post[q].channel # d
                   PROVE  post'[q].step = "idle" \/ post'[q].channel # d
      BY DEF At
    <3>3. CASE q = p
      BY <1>1, <1>4, <3>1, <3>2, <3>3
    <3>4. CASE q # p
      BY <1>1, <1>4, <3>2, <3>4 DEF At
    <3>5. QED
      BY <3>3, <3>4
  <2>3. Same(d)
    BY <1>3, <1>6, <2>1, <2>2 DEF Same
  <2>4. Stale(at) \subseteq listed /\ (d \in Stale(at) => Over(d))
    BY Pruned
  <2>5. CASE d \in Stale(at)
    BY <1>2, <2>1, <2>3, <2>4, <2>5, Swept
  <2>6. CASE d \notin Stale(at)
    BY <1>2, <2>3, <2>6, Spared
  <2>7. QED
    BY <2>5, <2>6
<1>9. QED
  BY <1>7, <1>8, EachChannelNext

\* A POST that moves on its own channel touches no other.
LEMMA OwnChannel ==
  ASSUME ChannelsInv, NEW p \in Posts, NEW t \in Tasks, post' = [post EXCEPT ![p] = t],
         ~At(p, "idle"), t.step # "idle" => t.channel = post[p].channel,
         UNCHANGED <<sessionVars, closedAll, get, bound, vault, closing>>
  PROVE  /\ \A d, S : "idle" \notin S /\ d # post[p].channel => On(d, S)' = On(d, S)
         /\ \A d \in Channels :
              On(d, {"using"})' \subseteq On(d, {"using"}) /\ refs'[d] = refs[d] => Same(d)
<1>1. Typed
  BY DEF ChannelsInv
<1>2. \A d, S : "idle" \notin S /\ d # post[p].channel => On(d, S)' = On(d, S)
  <2> TAKE d, S
  <2> HAVE "idle" \notin S /\ d # post[p].channel
  <2>1. ~(t.step \in S /\ t.channel = d) /\ p \notin In(post, d, S)
    BY DEF In
  <2>2. In(post', d, S) = In(post, d, S)
    <3>1. Recounted(p, t)
      BY <1>1, Recount
    <3>2. QED
      BY <2>1, <3>1 DEF Recounted
  <2>3. QED
    BY <2>2, OnIsIn
<1>3. ASSUME NEW d \in Channels, NEW q \in Posts, At(q, "idle") \/ post[q].channel # d
      PROVE  (At(q, "idle") \/ post[q].channel # d)'
  <2>1. post'[q] = IF q = p THEN t ELSE post[q]
    BY <1>1 DEF Typed
  <2>2. CASE q = p
    BY <1>3, <2>1, <2>2 DEF At
  <2>3. CASE q # p
    BY <1>3, <2>1, <2>3 DEF At
  <2>4. QED
    BY <2>2, <2>3
<1>4. \A d \in Channels : Over(d) => Over(d)'
  BY DEF Over, Expired, sessionVars
<1>5. QED
  BY <1>2, <1>3, <1>4 DEF Same

\* A step by which a POST is counted in or out on its channel, and nowhere else.
LEMMA Steps ==
  ASSUME ChannelsInv, NEW p \in Posts, NEW step, At(p, step),
         step \in {"waiting", "slotted", "using", "releasing"},
         NEW next \in {"idle", "waiting", "slotted", "using", "releasing"},
         IF next = "idle" THEN Return(p) ELSE Go(p, next)
  PROVE  \E t \in Tasks :
           /\ post' = [post EXCEPT ![p] = t] /\ t.step = next
           /\ t.step # "idle" => t.channel = post[p].channel
           /\ Recounted(p, t)
<1> DEFINE c == post[p].channel
           t == IF next = "idle" THEN Idle ELSE [step |-> next, channel |-> c]
<1>1. Typed /\ post[p] = [step |-> step, channel |-> c] /\ post \in [Posts -> Tasks]
  BY OnItsChannel DEF ChannelsInv, Typed
<1>2. t \in Tasks /\ t.step = next /\ (t.step # "idle" => t.channel = c)
  <2>1. Idle \in Tasks /\ (next # "idle" => [step |-> next, channel |-> c] \in Tasks)
    BY OnItsChannel
  <2>2. Idle.step = "idle"
    BY DEF Idle
  <2>3. QED
    BY <2>1, <2>2
<1>3. post' = [post EXCEPT ![p] = t]
  <2>1. CASE next = "idle"
    BY <2>1 DEF Return
  <2>2. CASE next # "idle"
    <3>1. [post[p] EXCEPT !.step = next] = t
      BY <1>1, <2>2
    <3>2. post' = [post EXCEPT ![p] = [post[p] EXCEPT !.step = next]]
      BY <1>1, <2>2 DEF Go
    <3>3. QED
      BY <3>1, <3>2
  <2>3. QED
    BY <2>1, <2>2
<1> HIDE DEF t
<1>4. Recounted(p, t)
  BY <1>1, <1>2, <1>3, Recount
<1>5. QED
  BY <1>2, <1>3, <1>4

\* How the two counters and the users of its own channel follow.
Change(c, S, step, next) ==
  Cardinality(On(c, S)') =
    IF next \in S /\ step \notin S THEN Cardinality(On(c, S)) + 1
    ELSE IF step \in S /\ next \notin S THEN Cardinality(On(c, S)) - 1
    ELSE Cardinality(On(c, S))

LEMMA OwnCounters ==
  ASSUME ChannelsInv, NEW p \in Posts, NEW step, At(p, step),
         NEW c, post[p].channel = c,
         step \in {"waiting", "slotted", "using", "releasing"},
         NEW next \in {"idle", "waiting", "slotted", "using", "releasing"},
         IF next = "idle" THEN Return(p) ELSE Go(p, next)
  PROVE  /\ c \in Channels
         /\ Change(c, WithSlot, step, next)
         /\ Change(c, InUse, step, next)
         /\ next # "using" =>
              On(c, {"using"})' \subseteq On(c, {"using"})
         /\ \A d : d # c => /\ On(d, WithSlot)' = On(d, WithSlot)
                                         /\ On(d, InUse)' = On(d, InUse)
                                         /\ On(d, {"using"})' = On(d, {"using"})
<1>1. PICK t \in Tasks :
           /\ post' = [post EXCEPT ![p] = t] /\ t.step = next
           /\ t.step # "idle" => t.channel = c
           /\ Recounted(p, t)
  BY Steps
<1>2. c \in Channels /\ post[p].step = step
  BY OnItsChannel DEF At
<1>3. "idle" \notin WithSlot /\ "idle" \notin InUse /\ "idle" \notin {"using"}
  BY DEF WithSlot, InUse
<1>4. ASSUME NEW S, "idle" \notin S
      PROVE  /\ Cardinality(In(post', c, S)) =
                  IF next \in S /\ step \notin S THEN Cardinality(In(post, c, S)) + 1
                  ELSE IF step \in S /\ next \notin S THEN Cardinality(In(post, c, S)) - 1
                  ELSE Cardinality(In(post, c, S))
             /\ (next \in S => step \in S) => In(post', c, S) \subseteq In(post, c, S)
             /\ \A d : d # c => In(post', d, S) = In(post, d, S)
  <2>1. /\ (t.step \in S /\ t.channel = c) <=> next \in S
        /\ p \in In(post, c, S) <=> step \in S
    BY <1>1, <1>2, <1>4 DEF In
  <2>2. \A d : d # c => ~(t.step \in S /\ t.channel = d) /\ p \notin In(post, d, S)
    BY <1>1, <1>4 DEF In
  <2>3. In(post', c, S) = IF t.step \in S /\ t.channel = c
                          THEN In(post, c, S) \cup {p} ELSE In(post, c, S) \ {p}
    <3>1. \A d, T : In(post', d, T) = IF t.step \in T /\ t.channel = d
                                      THEN In(post, d, T) \cup {p} ELSE In(post, d, T) \ {p}
      BY <1>1, Moved DEF ChannelsInv
    <3>2. QED
      BY <3>1
  <2>4. (next \in S => step \in S) => In(post', c, S) \subseteq In(post, c, S)
    BY <2>1, <2>3
  <2>5. QED
    BY <1>1, <1>4, <2>1, <2>2, <2>4 DEF Recounted
<1>5. Change(c, WithSlot, step, next) /\ Change(c, InUse, step, next)
  BY <1>3, <1>4, OnIsIn DEF Change
<1>6. \A d : d # c => /\ On(d, WithSlot)' = On(d, WithSlot)
                      /\ On(d, InUse)' = On(d, InUse)
                      /\ On(d, {"using"})' = On(d, {"using"})
  BY <1>3, <1>4, OnIsIn
<1>7. next # "using" => On(c, {"using"})' \subseteq On(c, {"using"})
  <2>1. next # "using" => In(post', c, {"using"}) \subseteq In(post, c, {"using"})
    BY <1>3, <1>4
  <2>2. QED
    BY <2>1, OnIsIn
<1>8. QED
  BY <1>2, <1>5, <1>6, <1>7

\* What is left to show of a POST's step: its counters and its own channel.
LEMMA PostStep ==
  ASSUME ChannelsInv, NEW p \in Posts, NEW step, At(p, step),
         NEW c, post[p].channel = c,
         step \in {"waiting", "slotted", "using", "releasing"},
         NEW next \in {"idle", "waiting", "slotted", "using", "releasing"},
         IF next = "idle" THEN Return(p) ELSE Go(p, next),
         UNCHANGED <<sessionVars, closedAll, get, bound, vault, closing, listed>>,
         c \in Channels =>
           /\ \E n, k \in Nat :
                /\ slots' = [slots EXCEPT ![c] = n] /\ refs' = [refs EXCEPT ![c] = k]
                /\ n = Cardinality(On(c, WithSlot)') /\ n <= MaxPostsPerChannel
                /\ k = Cardinality(On(c, InUse)')
           /\ doomed' \subseteq Channels
           /\ \A d \in Channels \ {c} : d \in doomed' <=> d \in doomed
           /\ Sound(c)'
  PROVE  ChannelsInv'
<1>1. c \in Channels /\ Typed
  BY OwnCounters DEF ChannelsInv
<1>2. PICK n, k \in Nat :
                /\ slots' = [slots EXCEPT ![c] = n] /\ refs' = [refs EXCEPT ![c] = k]
                /\ n = Cardinality(On(c, WithSlot)') /\ n <= MaxPostsPerChannel
                /\ k = Cardinality(On(c, InUse)')
  BY <1>1
<1>3. /\ refs' \in [Channels -> Nat] /\ slots' \in [Channels -> Nat]
      /\ refs'[c] = k /\ slots'[c] = n
      /\ \A d \in Channels \ {c} : refs'[d] = refs[d] /\ slots'[d] = slots[d]
  BY <1>1, <1>2, Counts
<1>4. \A d : d # c => /\ On(d, WithSlot)' = On(d, WithSlot)
                      /\ On(d, InUse)' = On(d, InUse)
                      /\ On(d, {"using"})' = On(d, {"using"})
  BY OwnCounters
<1>5. PICK t \in Tasks : post' = [post EXCEPT ![p] = t] /\ t.step = next
                         /\ (t.step # "idle" => t.channel = post[p].channel)
  BY Steps
<1>6. Typed'
  <2>1. ASSUME NEW d \in Channels
        PROVE  /\ slots'[d] = Cardinality(On(d, WithSlot)') /\ slots'[d] <= MaxPostsPerChannel
               /\ refs'[d] = Cardinality(On(d, InUse)')
    <3>1. CASE d = c
      BY <1>2, <1>3, <3>1
    <3>2. CASE d # c
      <4>1. /\ slots[d] = Cardinality(On(d, WithSlot)) /\ slots[d] <= MaxPostsPerChannel
            /\ refs[d] = Cardinality(On(d, InUse))
        BY <1>1, Counts
      <4>2. On(d, WithSlot)' = On(d, WithSlot) /\ On(d, InUse)' = On(d, InUse)
        BY <1>4, <3>2
      <4>3. slots'[d] = slots[d] /\ refs'[d] = refs[d]
        BY <1>3, <3>2
      <4>4. QED
        BY <4>1, <4>2, <4>3
    <3>3. QED
      BY <3>1, <3>2
  <2>2. listed' \subseteq listed /\ doomed' \subseteq Channels
    BY <1>1
  <2>3. QED
    BY <1>3, <1>5, <2>1, <2>2, PostMoves
<1>7. ASSUME NEW d \in Channels \ {c}
      PROVE  Sound(d)'
  <2>1. ~At(p, "idle")
    BY DEF At
  <2>2. On(d, {"using"})' \subseteq On(d, {"using"}) /\ refs'[d] = refs[d]
    BY <1>3, <1>4
  <2>3. Same(d)
    BY <1>5, <2>1, <2>2, OwnChannel
  <2>4. QED
    BY <1>1, <2>3, Spared
<1>8. QED
  BY <1>1, <1>6, <1>7, EachChannelNext

\* The same when its own channel is only counted differently.
LEMMA OwnSame ==
  ASSUME ChannelsInv, NEW p \in Posts, NEW step, At(p, step),
         NEW c, post[p].channel = c,
         step \in {"waiting", "slotted", "using", "releasing"},
         NEW next \in {"idle", "waiting", "slotted", "releasing"},
         IF next = "idle" THEN Return(p) ELSE Go(p, next),
         UNCHANGED <<sessionVars, closedAll, get, bound, vault, closing, listed, doomed>>,
         refs'[c] = refs[c]
  PROVE  Sound(c)'
<1>1. c \in Channels /\ On(c, {"using"})' \subseteq On(c, {"using"})
  BY OwnCounters
<1>2. PICK t \in Tasks : post' = [post EXCEPT ![p] = t] /\ t.step = next
                         /\ (t.step # "idle" => t.channel = post[p].channel)
  BY Steps
<1>3. Same(c)
  <2>1. ~At(p, "idle")
    BY DEF At
  <2>2. QED
    BY <1>1, <1>2, <2>1, OwnChannel
<1>4. QED
  BY <1>1, <1>3, Spared

LEMMA TakeSlotStep ==
  ASSUME ChannelsInv, NEW p \in Posts, NEW c, post[p].channel = c, TakeSlot(p)
  PROVE  ChannelsInv'
<1>1. At(p, "waiting") /\ Go(p, "slotted") /\ slots[c] < MaxPostsPerChannel
      /\ slots' = [slots EXCEPT ![c] = @ + 1]
      /\ UNCHANGED <<sessionVars, closedAll, get, bound, vault, closing, listed, doomed, refs>>
  BY DEF TakeSlot
<1>2. /\ Change(c, WithSlot, "waiting", "slotted") /\ Change(c, InUse, "waiting", "slotted")
      /\ c \in Channels
  BY <1>1, OwnCounters
<1>3. /\ slots \in [Channels -> Nat] /\ refs \in [Channels -> Nat]
      /\ slots[c] = Cardinality(On(c, WithSlot)) /\ refs[c] = Cardinality(On(c, InUse))
  BY <1>2, Counts DEF ChannelsInv
<1>4. Cardinality(On(c, WithSlot)') = slots[c] + 1 /\ Cardinality(On(c, InUse)') = refs[c]
  BY <1>2, <1>3 DEF Change, WithSlot, InUse
<1>5. slots[c] \in Nat /\ slots[c] + 1 \in Nat /\ slots[c] + 1 <= MaxPostsPerChannel
  BY <1>1, <1>2, <1>3, LimitAssumption
<1>6. refs' = [refs EXCEPT ![c] = refs[c]] /\ slots' = [slots EXCEPT ![c] = slots[c] + 1]
      /\ refs[c] \in Nat /\ refs'[c] = refs[c]
  BY <1>1, <1>2, <1>3
<1>7. Sound(c)'
  BY <1>1, <1>6, OwnSame
<1>8. doomed' \subseteq Channels
  BY <1>1 DEF ChannelsInv, Typed, TypeOK
<1>9. QED
  BY <1>1, <1>4, <1>5, <1>6, <1>7, <1>8, PostStep

LEMMA LeaveStep ==
  ASSUME ChannelsInv, NEW p \in Posts, NEW c, post[p].channel = c, Leave(p)
  PROVE  ChannelsInv'
<1>1. At(p, "waiting") /\ Return(p)
      /\ UNCHANGED <<sessionVars, closedAll, get, bound, vault, closing, listed, doomed, refs, slots>>
  BY DEF Leave, channelVars
<1>2. /\ Change(c, WithSlot, "waiting", "idle") /\ Change(c, InUse, "waiting", "idle")
      /\ c \in Channels
  BY <1>1, OwnCounters
<1>3. /\ slots \in [Channels -> Nat] /\ refs \in [Channels -> Nat]
      /\ slots[c] = Cardinality(On(c, WithSlot)) /\ refs[c] = Cardinality(On(c, InUse))
      /\ slots[c] <= MaxPostsPerChannel
  BY <1>2, Counts DEF ChannelsInv
<1>4. Cardinality(On(c, WithSlot)') = slots[c] /\ Cardinality(On(c, InUse)') = refs[c]
  BY <1>2, <1>3 DEF Change, WithSlot, InUse
<1>5. /\ refs' = [refs EXCEPT ![c] = refs[c]] /\ slots' = [slots EXCEPT ![c] = slots[c]]
      /\ refs[c] \in Nat /\ slots[c] \in Nat /\ refs'[c] = refs[c]
  BY <1>1, <1>2, <1>3
<1>6. Sound(c)'
  BY <1>1, <1>5, OwnSame
<1>7. doomed' \subseteq Channels
  BY <1>1 DEF ChannelsInv, Typed, TypeOK
<1>8. QED
  BY <1>1, <1>3, <1>4, <1>5, <1>6, <1>7, PostStep

\* A POST begins to use a channel that is on the list, hence whole.
LEMMA ConfirmStep ==
  ASSUME ChannelsInv, NEW p \in Posts, NEW c, post[p].channel = c, Confirm(p)
  PROVE  ChannelsInv'
<1>1. At(p, "slotted")
      /\ UNCHANGED <<sessionVars, closedAll, get, bound, vault, closing, listed, doomed>>
  BY DEF Confirm
<1>2. c \in Channels
  BY <1>1, OnItsChannel
<1>3. /\ slots \in [Channels -> Nat] /\ refs \in [Channels -> Nat]
      /\ slots[c] = Cardinality(On(c, WithSlot)) /\ refs[c] = Cardinality(On(c, InUse))
      /\ slots[c] <= MaxPostsPerChannel
  BY <1>2, Counts DEF ChannelsInv
<1>4. doomed' \subseteq Channels
  BY <1>1 DEF ChannelsInv, Typed, TypeOK
<1>5. CASE c \in listed /\ ~Expired(c, now)
  <2>1. refs' = [refs EXCEPT ![c] = @ + 1] /\ Go(p, "using") /\ UNCHANGED slots
    BY <1>5 DEF Confirm
  <2>2. Change(c, WithSlot, "slotted", "using") /\ Change(c, InUse, "slotted", "using")
    BY <1>1, <2>1, OwnCounters
  <2>3. Cardinality(On(c, WithSlot)') = slots[c] /\ Cardinality(On(c, InUse)') = refs[c] + 1
    BY <1>3, <2>2 DEF Change, WithSlot, InUse
  <2>4. /\ refs' = [refs EXCEPT ![c] = refs[c] + 1] /\ slots' = [slots EXCEPT ![c] = slots[c]]
        /\ refs[c] + 1 \in Nat /\ slots[c] \in Nat
    BY <1>2, <1>3, <2>1
  <2>5. Sound(c)'
    <3>1. get[c] = "streaming" /\ vault[c] = "live" /\ c \notin doomed /\ ~closing[c]
      BY <1>2, <1>5 DEF ChannelsInv, Listing
    <3>2. QED
      BY <1>1, <1>5, <3>1 DEF Sound, Listing, Opening, Ending
  <2>6. QED
    BY <1>1, <1>3, <1>4, <2>1, <2>3, <2>4, <2>5, PostStep
<1>6. CASE ~(c \in listed /\ ~Expired(c, now))
  <2>1. slots' = [slots EXCEPT ![c] = @ - 1] /\ Return(p) /\ UNCHANGED refs
    BY <1>6 DEF Confirm
  <2>2. Change(c, WithSlot, "slotted", "idle") /\ Change(c, InUse, "slotted", "idle")
    BY <1>1, <2>1, OwnCounters
  <2>3. Cardinality(On(c, WithSlot)') = slots[c] - 1 /\ Cardinality(On(c, InUse)') = refs[c]
    BY <1>3, <2>2 DEF Change, WithSlot, InUse
  <2>4. slots[c] - 1 \in Nat /\ slots[c] - 1 <= MaxPostsPerChannel
    <3>1. p \in On(c, WithSlot)
      BY <1>1 DEF On, WithSlot, At
    <3>2. "idle" \notin WithSlot
      BY DEF WithSlot
    <3>3. IsFiniteSet(On(c, WithSlot))
      BY <3>2, Counted DEF ChannelsInv
    <3>4. Cardinality(On(c, WithSlot)) # 0
      BY <3>1, <3>3, FS_EmptySet
    <3>5. QED
      BY <1>2, <1>3, <3>4, LimitAssumption
  <2>5. /\ refs' = [refs EXCEPT ![c] = refs[c]] /\ slots' = [slots EXCEPT ![c] = slots[c] - 1]
        /\ refs[c] \in Nat /\ refs'[c] = refs[c]
    BY <1>2, <1>3, <2>1
  <2>6. Sound(c)'
    BY <1>1, <2>1, <2>5, OwnSame
  <2>7. QED
    BY <1>1, <1>4, <2>1, <2>3, <2>4, <2>5, <2>6, PostStep
<1>7. QED
  BY <1>5, <1>6

LEMMA FreeSlotStep ==
  ASSUME ChannelsInv, NEW p \in Posts, NEW c, post[p].channel = c, FreeSlot(p)
  PROVE  ChannelsInv'
<1>1. At(p, "using") /\ Go(p, "releasing") /\ slots' = [slots EXCEPT ![c] = @ - 1]
      /\ UNCHANGED <<sessionVars, closedAll, get, bound, vault, closing, listed, doomed, refs>>
  BY DEF FreeSlot
<1>2. /\ Change(c, WithSlot, "using", "releasing") /\ Change(c, InUse, "using", "releasing")
      /\ c \in Channels
  BY <1>1, OwnCounters
<1>3. /\ slots \in [Channels -> Nat] /\ refs \in [Channels -> Nat]
      /\ slots[c] = Cardinality(On(c, WithSlot)) /\ refs[c] = Cardinality(On(c, InUse))
      /\ slots[c] <= MaxPostsPerChannel
  BY <1>2, Counts DEF ChannelsInv
<1>4. Cardinality(On(c, WithSlot)') = slots[c] - 1 /\ Cardinality(On(c, InUse)') = refs[c]
  BY <1>2, <1>3 DEF Change, WithSlot, InUse
<1>5. slots[c] - 1 \in Nat /\ slots[c] - 1 <= MaxPostsPerChannel
  <2>1. p \in On(c, WithSlot)
    BY <1>1 DEF On, WithSlot, At
  <2>2. "idle" \notin WithSlot
    BY DEF WithSlot
  <2>3. IsFiniteSet(On(c, WithSlot))
    BY <2>2, Counted DEF ChannelsInv
  <2>4. Cardinality(On(c, WithSlot)) # 0
    BY <2>1, <2>3, FS_EmptySet
  <2>5. QED
    BY <1>2, <1>3, <2>4, LimitAssumption
<1>6. /\ refs' = [refs EXCEPT ![c] = refs[c]] /\ slots' = [slots EXCEPT ![c] = slots[c] - 1]
      /\ refs[c] \in Nat /\ refs'[c] = refs[c]
  BY <1>1, <1>2, <1>3
<1>7. Sound(c)'
  BY <1>1, <1>6, OwnSame
<1>8. doomed' \subseteq Channels
  BY <1>1 DEF ChannelsInv, Typed, TypeOK
<1>9. QED
  BY <1>1, <1>4, <1>5, <1>6, <1>7, <1>8, PostStep

\* The last POST on a closed channel leaves nobody behind who uses it.
LEMMA ReleaseStep ==
  ASSUME ChannelsInv, NEW p \in Posts, NEW c, post[p].channel = c, Release(p)
  PROVE  ChannelsInv'
<1>1. At(p, "releasing") /\ Return(p) /\ refs' = [refs EXCEPT ![c] = @ - 1]
      /\ doomed' = (IF closing[c] /\ refs[c] = 1 THEN doomed \cup {c} ELSE doomed)
      /\ UNCHANGED <<sessionVars, closedAll, get, bound, vault, closing, listed, slots>>
  BY DEF Release
<1>2. /\ Change(c, WithSlot, "releasing", "idle") /\ Change(c, InUse, "releasing", "idle")
      /\ c \in Channels /\ On(c, {"using"})' \subseteq On(c, {"using"})
  BY <1>1, OwnCounters
<1>3. /\ slots \in [Channels -> Nat] /\ refs \in [Channels -> Nat]
      /\ slots[c] = Cardinality(On(c, WithSlot)) /\ refs[c] = Cardinality(On(c, InUse))
      /\ slots[c] <= MaxPostsPerChannel
  BY <1>2, Counts DEF ChannelsInv
<1>4. Cardinality(On(c, WithSlot)') = slots[c] /\ Cardinality(On(c, InUse)') = refs[c] - 1
  BY <1>2, <1>3 DEF Change, WithSlot, InUse
<1>5. "idle" \notin InUse /\ IsFiniteSet(On(c, InUse)) /\ p \in On(c, InUse)
      /\ On(c, {"using"}) \subseteq On(c, InUse) \ {p}
  <2>1. "idle" \notin InUse
    BY DEF InUse
  <2>2. IsFiniteSet(On(c, InUse))
    BY <2>1, Counted DEF ChannelsInv
  <2>3. p \in On(c, InUse) /\ On(c, {"using"}) \subseteq On(c, InUse) \ {p}
    BY <1>1 DEF On, InUse, At
  <2>4. QED
    BY <2>1, <2>2, <2>3
<1>6. refs[c] - 1 \in Nat /\ slots[c] \in Nat
  <2>1. Cardinality(On(c, InUse)) # 0
    BY <1>5, FS_EmptySet
  <2>2. QED
    BY <1>2, <1>3, <2>1
<1>7. refs[c] = 1 => On(c, {"using"}) = {}
  <2>1. /\ Cardinality(On(c, InUse) \ {p}) = Cardinality(On(c, InUse)) - 1
        /\ IsFiniteSet(On(c, InUse) \ {p})
    BY <1>5, FS_RemoveElement
  <2>2. refs[c] = 1 => On(c, InUse) \ {p} = {}
    BY <1>3, <2>1, FS_EmptySet
  <2>3. QED
    BY <1>5, <2>2
<1>8. /\ refs' = [refs EXCEPT ![c] = refs[c] - 1] /\ slots' = [slots EXCEPT ![c] = slots[c]]
      /\ refs'[c] = refs[c] - 1
  BY <1>1, <1>2, <1>3
<1>9. Typed /\ Sound(c) /\ doomed' \subseteq Channels /\ \A d \in Channels \ {c} : d \in doomed' <=> d \in doomed
  <2>1. Typed /\ Sound(c)
    BY <1>2, EachChannel
  <2>2. QED
    BY <1>1, <1>2, <2>1 DEF Typed, TypeOK
<1>10. Sound(c)'
  <2>1. get[c] \in {"streaming", "done"}
    BY <1>1, OnItsChannel
  <2>2. Listing(c)' /\ Opening(c)'
    <3>1. c \in listed => ~closing[c]
      BY <1>9 DEF Sound, Listing
    <3>2. QED
      BY <1>1, <1>9, <2>1, <3>1 DEF Sound, Listing, Opening
  <2>3. Over(c) => Over(c)'
    BY <1>1 DEF Over, Expired, sessionVars
  <2>4. Ending(c)'
    BY <1>1, <1>2, <1>7, <1>9, <2>3 DEF Sound, Ending
  <2>5. vault[c] = "live" => c \in listed \/ c \in doomed' \/ (closing[c] /\ refs[c] - 1 > 0)
    <3>1. vault[c] = "live" => c \in listed \/ c \in doomed \/ (closing[c] /\ refs[c] > 0)
      BY <1>9, <2>1 DEF Sound
    <3>2. QED
      BY <1>1, <1>2, <1>3, <3>1
  <2>6. QED
    BY <1>1, <1>8, <2>2, <2>4, <2>5 DEF Sound
<1>11. QED
  BY <1>1, <1>3, <1>4, <1>6, <1>8, <1>9, <1>10, PostStep

-----------------------------------------------------------------------------
(* The rest of the manager and its surroundings *)

LEMMA DestroyStep ==
  ASSUME ChannelsInv, NEW c \in Channels, Destroy(c)
  PROVE  ChannelsInv'
<1>1. Typed /\ Sound(c)
  BY EachChannel
<1>2. /\ now' \in 0 .. MaxTime /\ revoked' \subseteq Sessions /\ closedAll' \in BOOLEAN
      /\ get' \in [Channels -> {"none", "connecting", "opening", "streaming", "done"}]
      /\ listed' = listed /\ listed \subseteq Channels /\ doomed' \subseteq Channels
      /\ closing' \in [Channels -> BOOLEAN] /\ bound' \in [Channels -> Sessions]
      /\ UNCHANGED <<sessionVars, closedAll, get, bound, refs, slots, post, closing>>
  BY <1>1 DEF Destroy, sessionVars, Typed, TypeOK
<1>3. /\ vault' = [vault EXCEPT ![c] = "destroyed"] /\ doomed' = doomed \ {c} /\ c \in doomed
  BY DEF Destroy
<1>4. /\ vault' \in [Channels -> {"none", "live", "destroyed"}]
      /\ vault'[c] = "destroyed" /\ \A d \in Channels \ {c} : vault'[d] = vault[d]
  BY <1>1, <1>3 DEF Typed, TypeOK
<1>5. /\ Typed' /\ \A d, S : On(d, S)' = On(d, S)
      /\ \A step : \A p \in Posts : At(p, step)' <=> At(p, step)
  BY <1>2, <1>4, Shrunk, SamePosts DEF sessionVars
<1>6. \A d \in Channels : Over(d) => Over(d)'
  BY <1>2 DEF Over, Expired, sessionVars
<1>7. Sound(c)'
  <2>1. c \notin listed /\ get[c] \notin {"none", "connecting", "opening"}
        /\ (Over(c) \/ On(c, {"using"}) = {})
    BY <1>1, <1>3 DEF Sound, Listing, Opening, Ending
  <2>2. QED
    BY <1>2, <1>4, <1>5, <1>6, <2>1 DEF Sound, Listing, Opening, Ending
<1>8. ASSUME NEW d \in Channels \ {c}
      PROVE  Sound(d)'
  BY <1>2, <1>3, <1>4, <1>5, <1>6, Spared DEF Same
<1>9. QED
  BY <1>5, <1>7, <1>8, EachChannelNext

\* Taking channels off the list that are over by then.
LEMMA SweepStep ==
  ASSUME ChannelsInv, NEW A, A \subseteq listed, listed' = listed \ A, doomed' = doomed \cup A,
         UNCHANGED <<sessionVars, get, bound, vault, closing, refs, slots, post>>,
         closedAll' \in BOOLEAN, closedAll => closedAll',
         \A c \in A : Over(c)'
  PROVE  ChannelsInv'
<1>1. Typed
  BY DEF ChannelsInv
<1>2. /\ now' \in 0 .. MaxTime /\ revoked' \subseteq Sessions
      /\ get' \in [Channels -> {"none", "connecting", "opening", "streaming", "done"}]
      /\ listed' \subseteq listed /\ listed' \subseteq Channels /\ doomed' \subseteq Channels
      /\ closing' \in [Channels -> BOOLEAN] /\ bound' \in [Channels -> Sessions]
      /\ vault' \in [Channels -> {"none", "live", "destroyed"}]
  BY <1>1 DEF sessionVars, Typed, TypeOK
<1>3. /\ Typed' /\ \A d, S : On(d, S)' = On(d, S)
      /\ \A step : \A p \in Posts : At(p, step)' <=> At(p, step)
  BY <1>2, Shrunk, SamePosts DEF sessionVars
<1>4. \A d \in Channels : Over(d) => Over(d)'
  BY DEF Over, Expired, sessionVars
<1>5. ASSUME NEW d \in Channels
      PROVE  Sound(d)'
  <2>1. Same(d)
    BY <1>3, <1>4 DEF Same
  <2>2. CASE d \in A
    BY <2>1, <2>2, Swept
  <2>3. CASE d \notin A
    BY <2>1, <2>3, Spared
  <2>4. QED
    BY <2>2, <2>3
<1>6. QED
  BY <1>3, <1>5, EachChannelNext

LEMMA CloseAllStep ==
  ASSUME ChannelsInv, CloseAll
  PROVE  ChannelsInv'
<1>1. listed' = listed \ listed /\ closedAll' = TRUE
  BY DEF CloseAll
<1>2. \A c \in listed : Over(c)'
  BY <1>1 DEF Over
<1>3. QED
  BY <1>1, <1>2, SweepStep DEF CloseAll

LEMMA LenOfStep ==
  ASSUME ChannelsInv, LenOf
  PROVE  ChannelsInv'
<1>1. PICK at \in ClockReads : Prune(at)
  BY DEF LenOf
<1>2. closedAll' = closedAll /\ closedAll \in BOOLEAN
  BY DEF LenOf, ChannelsInv, Typed
<1>3. Stale(at) \subseteq listed /\ \A c \in Stale(at) : Over(c)
  BY Pruned
<1>4. \A c \in Stale(at) : Over(c)'
  BY <1>3 DEF Over, Expired, LenOf, sessionVars
<1>5. QED
  BY <1>1, <1>2, <1>3, <1>4, SweepStep DEF LenOf, Prune

\* Time passes, sessions are revoked: what is over stays over.
LEMMA OutsideStep ==
  ASSUME ChannelsInv, Tick \/ \E s \in Sessions : Revoke(s)
  PROVE  ChannelsInv'
<1>1. Typed
  BY DEF ChannelsInv
<1>2. /\ now' \in 0 .. MaxTime /\ now' \in Nat /\ now <= now'
      /\ revoked' \subseteq Sessions /\ revoked \subseteq revoked'
      /\ UNCHANGED <<expires, closedAll, get, listed, bound, vault, closing, refs, slots, doomed, post>>
  BY <1>1, TimeAssumption DEF Tick, Revoke, channelVars, Typed, TypeOK
<1>3. /\ Typed' /\ \A d, S : On(d, S)' = On(d, S)
      /\ \A step : \A p \in Posts : At(p, step)' <=> At(p, step)
  BY <1>1, <1>2, Shrunk, SamePosts DEF Typed, TypeOK
<1>4. ASSUME NEW d \in Channels
      PROVE  Sound(d)'
  <2>1. Over(d) => Over(d)'
    BY <1>1, <1>2, OverStays
  <2>2. QED
    BY <1>2, <1>3, <2>1, Spared DEF Same
<1>5. QED
  BY <1>3, <1>4, EachChannelNext

LEMMA ChannelsInitInv == Init => ChannelsInv
<1> SUFFICES ASSUME Init PROVE ChannelsInv
  OBVIOUS
<1>1. /\ {p \in Posts : ~At(p, "idle")} = {}
      /\ \A p \in Posts : post[p].step = "idle"
      /\ post \in [Posts -> Tasks]
  BY DEF Init, At, Idle, Tasks
<1>2. \A c : On(c, {"slotted", "using"}) = {} /\ On(c, {"using", "releasing"}) = {}
  BY <1>1 DEF On
<1>3. IsFiniteSet({}) /\ Cardinality({}) = 0
  BY FS_EmptySet
<1>4. bound \in [Channels -> Sessions]
  BY DEF Init
<1>5. TypeOK
  <2>1. 0 <= MaxChannels /\ 0 <= MaxPostsPerChannel /\ 0 \in 0 .. MaxTime
    BY LimitAssumption, TimeAssumption
  <2>2. QED
    BY <1>2, <1>3, <1>4, <2>1 DEF Init, TypeOK
<1>6. Typed
  <2>1. expires \in [Sessions -> Nat]
    BY TimeAssumption DEF Init
  <2>2. QED
    BY <1>1, <1>3, <1>5, <2>1 DEF Init, Typed
<1>7. ASSUME NEW c \in Channels
      PROVE  Sound(c)
  BY <1>1 DEF Init, Sound, Listing, Opening, Ending, At
<1>8. QED
  BY <1>6, <1>7, EachChannel

LEMMA ChannelsNext == ChannelsInv /\ [Next]_vars => ChannelsInv'
<1> SUFFICES ASSUME ChannelsInv, [Next]_vars PROVE ChannelsInv'
  OBVIOUS
<1>1. ASSUME NEW c \in Channels,
             \/ \E s \in Sessions : Connect(c, s)
             \/ Disconnect(c) \/ OpenCheck(c) \/ Open(c) \/ Close(c) \/ Destroy(c)
      PROVE  ChannelsInv'
  BY <1>1, ConnectStep, DisconnectStep, OpenCheckStep, OpenStep, CloseStep, DestroyStep
<1>2. ASSUME NEW p \in Posts,
             \/ \E c \in Channels, s \in Sessions : Lookup(p, c, s)
             \/ TakeSlot(p) \/ Leave(p) \/ Serve(p)
      PROVE  ChannelsInv'
  <2>1. CASE \E c \in Channels, s \in Sessions : Lookup(p, c, s)
    BY <2>1, LookupStep
  <2>2. ASSUME NEW c, post[p].channel = c, TakeSlot(p) \/ Leave(p) \/ Serve(p)
        PROVE  ChannelsInv'
    BY <2>2, TakeSlotStep, LeaveStep, ConfirmStep, FreeSlotStep, ReleaseStep DEF Serve
  <2>3. QED
    BY <1>2, <2>1, <2>2
<1>3. CASE CloseAll \/ LenOf \/ Tick \/ \E s \in Sessions : Revoke(s)
  BY <1>3, CloseAllStep, LenOfStep, OutsideStep
<1>4. CASE UNCHANGED vars
  <2>1. \A c \in Channels : Sound(c) => Sound(c)'
    BY <1>4 DEF vars, sessionVars, channelVars, Sound, Listing, Opening, Ending, Over, Expired, On, At
  <2>2. Typed'
    <3>1. /\ UNCHANGED <<now, revoked, expires, closedAll, get, listed, bound, vault>>
          /\ UNCHANGED <<closing, refs, slots, doomed, post>>
      BY <1>4 DEF vars, sessionVars, channelVars
    <3>2. Typed
      BY DEF ChannelsInv
    <3>3. QED
      BY <3>1, <3>2, Shrunk, SamePosts DEF Typed, TypeOK
  <2>3. QED
    BY <2>1, <2>2, EachChannel, EachChannelNext
<1>5. QED
  BY <1>1, <1>2, <1>3, <1>4 DEF Next

-----------------------------------------------------------------------------
(* What follows *)

\* Only open channels are on the list, a channel about to be destroyed is over
\* or out of use, and the counters count the POSTs they stand for, whatever
\* GETs, POSTs, revocations and the end of the server do to each other: the
\* inductive invariant of LegacySSEManager.
THEOREM ChannelsAreConsistent == Spec => []ChannelsInv
<1>1. Init => ChannelsInv
  BY ChannelsInitInv
<1>2. ChannelsInv /\ [Next]_vars => ChannelsInv'
  BY ChannelsNext
<1>3. QED
  BY <1>1, <1>2, PTL DEF Spec

\* For any number of channels, POSTs and sessions, and any limits: a vault with
\* originals always has somebody who will destroy it, and is not taken from a
\* POST that acquired it but by revocation, deadline or the end of the server.
THEOREM VaultsAlwaysFollowTheirUsers == Spec => []VaultsFollowTheirUsers
<1>1. ChannelsInv => VaultsFollowTheirUsers
  <2> SUFFICES ASSUME ChannelsInv PROVE AcquiredPostsKeepTheirVault
    BY DEF ChannelsInv, VaultsFollowTheirUsers
  <2>1. ASSUME NEW p \in Posts, At(p, "using"), vault[post[p].channel] = "destroyed"
        PROVE  Over(post[p].channel)
    <3>1. post[p].channel \in Channels
      BY <2>1, OnItsChannel
    <3>2. p \in On(post[p].channel, {"using"})
      BY <2>1 DEF On, At
    <3>3. QED
      BY <2>1, <3>1, <3>2 DEF ChannelsInv, Ending
  <2>2. QED
    BY <2>1 DEF AcquiredPostsKeepTheirVault, Over
<1>2. QED
  BY <1>1, ChannelsAreConsistent, PTL

\* Types, capacities and counters of the channels, for any limits.
THEOREM CountersCount == Spec => []TypeOK
<1>1. ChannelsInv => TypeOK
  BY DEF ChannelsInv, Typed
<1>2. QED
  BY <1>1, ChannelsAreConsistent, PTL

-----------------------------------------------------------------------------
(* Induction *)

\* Every set of naturals has a least element.
LEMMA Least ==
  ASSUME NEW T \in SUBSET Nat, T # {}
  PROVE  \E x \in T : \A y \in T : x <= y
<1> DEFINE Below == {0..x : x \in T}
<1>1. Below \subseteq FiniteSubsetsOf(Nat)
  <2> SUFFICES ASSUME NEW x \in T PROVE 0..x \in FiniteSubsetsOf(Nat)
    OBVIOUS
  <2>1. IsFiniteSet(0..x) /\ 0..x \in SUBSET Nat
    BY FS_Interval
  <2>2. QED
    BY <2>1 DEF FiniteSubsetsOf
<1>2. Below # {}
  OBVIOUS
<1>3. PICK b \in Below : \A c \in Below : <<c, b>> \notin StrictSubsetOrdering(Nat)
  <2> HIDE DEF Below
  <2>1. QED
    BY <1>1, <1>2, FS_StrictSubsetOrderingWellFounded, WFMin
<1>4. PICK x \in T : b = 0..x
  BY <1>3
<1>5. \A y \in T : x <= y
  <2> SUFFICES ASSUME NEW y \in T, y < x PROVE FALSE
    OBVIOUS
  <2>1. 0..y \in Below /\ 0..y \subseteq 0..x /\ x \in 0..x /\ x \notin 0..y
    OBVIOUS
  <2>2. 0..y \in SUBSET Nat /\ 0..x \in SUBSET Nat /\ 0..y # 0..x
    BY <2>1
  <2>3. <<0..y, b>> \in StrictSubsetOrdering(Nat)
    BY <1>4, <2>1, <2>2 DEF StrictSubsetOrdering
  <2>4. QED
    BY <1>3, <2>1, <2>3
<1>6. QED
  BY <1>5

\* A set that has 0, and with every number below n the next, has all up to n.
LEMMA UpTo ==
  ASSUME NEW n \in Nat, NEW S, 0 \in S, \A k \in 0..(n-1) : k \in S => k + 1 \in S
  PROVE  0..n \subseteq S
<1> SUFFICES ASSUME (0..n) \ S # {} PROVE FALSE
  OBVIOUS
<1> DEFINE left == (0..n) \ S
<1>1. PICK k \in left : \A j \in left : k <= j
  <2>1. left \in SUBSET Nat /\ left # {}
    OBVIOUS
  <2> HIDE DEF left
  <2>2. QED
    BY <2>1, Least
<1>2. k # 0 /\ k - 1 \in 0..(n-1) /\ k - 1 \in S
  BY <1>1
<1>3. QED
  BY <1>1, <1>2

Iterates(f, base, step, n) ==
  f[0] = base /\ \A i \in 1..n : f[i] = step[i][f[i-1]]

\* A value can be derived from the one before n times.
LEMMA Iterated ==
  ASSUME NEW n \in Nat, NEW V, NEW base \in V, NEW step \in [1..n -> [V -> V]]
  PROVE  \E f \in [0..n -> V] : Iterates(f, base, step, n)
<1> DEFINE Defined(f, m) == f[0] = base /\ \A i \in 1..m : f[i] = step[i][f[i-1]]
           S == {m \in 0..n : \E f \in [0..n -> V] : Defined(f, m)}
<1>1. 0 \in S
  <2>1. [i \in 0..n |-> base] \in [0..n -> V] /\ Defined([i \in 0..n |-> base], 0)
    OBVIOUS
  <2>2. 0 \in 0..n
    OBVIOUS
  <2> HIDE DEF Defined
  <2>3. QED
    BY <2>1, <2>2
<1>2. ASSUME NEW m \in 0..(n-1), m \in S
      PROVE  m + 1 \in S
  <2>1. PICK f \in [0..n -> V] : Defined(f, m)
    BY <1>2
  <2> DEFINE g == [f EXCEPT ![m+1] = step[m+1][f[m]]]
  <2>2. step[m+1][f[m]] \in V
    OBVIOUS
  <2>3. g \in [0..n -> V] /\ g[m+1] = step[m+1][f[m]] /\ \A i \in 0..m : g[i] = f[i]
    BY <2>2
  <2>4. Defined(g, m+1)
    <3> HIDE DEF g
    <3>1. QED
      BY <2>1, <2>3
  <2>5. m + 1 \in 0..n
    OBVIOUS
  <2> HIDE DEF g, Defined
  <2>6. QED
    BY <2>3, <2>4, <2>5
<1>3. n \in S
  <2> HIDE DEF S
  <2>1. 0..n \subseteq S
    BY <1>1, <1>2, UpTo
  <2>2. QED
    BY <2>1
<1>4. QED
  BY <1>3 DEF Iterates

\* Every finite set of naturals has a greatest element, which LargestOf picks.
LEMMA Greatest ==
  ASSUME NEW T \in SUBSET Nat, T # {}, IsFiniteSet(T)
  PROVE  LargestOf(T) \in T /\ \A y \in T : y <= LargestOf(T)
<1> DEFINE From(x) == {y \in T : x <= y}
           Above == {From(x) : x \in T}
<1>1. Above \subseteq FiniteSubsetsOf(Nat)
  <2> SUFFICES ASSUME NEW x \in T PROVE From(x) \in FiniteSubsetsOf(Nat)
    OBVIOUS
  <2>1. IsFiniteSet(From(x))
    BY FS_Subset
  <2>2. QED
    BY <2>1 DEF FiniteSubsetsOf
<1>2. Above # {}
  OBVIOUS
<1>3. PICK b \in Above : \A c \in Above : <<c, b>> \notin StrictSubsetOrdering(Nat)
  <2> HIDE DEF Above
  <2>1. QED
    BY <1>1, <1>2, FS_StrictSubsetOrderingWellFounded, WFMin
<1>4. PICK x \in T : b = From(x)
  BY <1>3
<1>5. \A y \in T : y <= x
  <2> SUFFICES ASSUME NEW y \in T, y > x PROVE FALSE
    OBVIOUS
  <2>0. From(y) \in Above
    OBVIOUS
  <2>1. From(y) \in Above /\ From(y) \subseteq From(x) /\ x \in From(x) /\ x \notin From(y)
    <3> x \in Nat /\ y \in Nat /\ x < y
      OBVIOUS
    <3>1. From(y) \subseteq From(x)
      <4> SUFFICES ASSUME NEW z \in T, y <= z PROVE x <= z
        OBVIOUS
      <4> z \in Nat
        OBVIOUS
      <4> QED
        OBVIOUS
    <3>2. x \in From(x) /\ x \notin From(y)
      OBVIOUS
    <3> QED
      BY <2>0, <3>1, <3>2
  <2>2. From(y) \in SUBSET Nat /\ From(x) \in SUBSET Nat /\ From(y) # From(x)
    BY <2>1
  <2>3. <<From(y), b>> \in StrictSubsetOrdering(Nat)
    BY <1>4, <2>1, <2>2 DEF StrictSubsetOrdering
  <2>4. QED
    BY <1>3, <2>1, <2>3
<1>6. QED
  BY <1>5 DEF LargestOf

LEMMA GreatestUpTo ==
  ASSUME NEW n \in Nat, NEW T \in SUBSET (0..n), T # {}
  PROVE  LargestOf(T) \in T /\ \A y \in T : y <= LargestOf(T)
<1>1. IsFiniteSet(T) /\ T \in SUBSET Nat
  <2>1. IsFiniteSet(0..n)
    BY FS_Interval
  <2>2. IsFiniteSet(T)
    BY <2>1, FS_Subset
  <2>3. QED
    BY <2>2
<1>2. QED
  BY <1>1, Greatest

-----------------------------------------------------------------------------
(* Sequences *)

LEMMA IsSeq ==
  ASSUME NEW C, NEW n \in Nat, NEW f, f = [i \in 1..n |-> f[i]], \A i \in 1..n : f[i] \in C
  PROVE  f \in Seq(C) /\ Len(f) = n /\ DOMAIN f = 1..n
<1>1. f \in [1..n -> C]
  OBVIOUS
<1>2. f \in Seq(C)
  BY <1>1, SeqDef
<1>3. QED
  BY <1>1, <1>2, LenProperties

\* The first n of some words, put together.
LEMMA TextOfSteps ==
  ASSUME NEW C, NEW p \in Seq(Seq(C))
  PROVE  /\ TextOf(p, 0) = <<>>
         /\ FlattenSeq(p) = TextOf(p, Len(p))
         /\ \A i \in 0..Len(p) : TextOf(p, i) \in Seq(C)
         /\ \A i \in 1..Len(p) : TextOf(p, i) = TextOf(p, i-1) \o p[i]
<1> DEFINE n == Len(p)
           step == [i \in 1..n |-> [v \in Seq(C) |-> v \o p[i]]]
<1>1. n \in Nat /\ DOMAIN p = 1..n /\ \A i \in 1..n : p[i] \in Seq(C)
  BY LenProperties
<1>2. <<>> \in Seq(C) /\ step \in [1..n -> [Seq(C) -> Seq(C)]]
  BY <1>1, EmptySeq, ConcatProperties
<1>3. PICK f \in [0..n -> Seq(C)] : Iterates(f, <<>>, step, n)
  BY <1>1, <1>2, Iterated
<1>4. f[0] = <<>> /\ \A i \in 1..n : f[i] = f[i-1] \o p[i]
  <2> SUFFICES ASSUME NEW i \in 1..n PROVE f[i] = f[i-1] \o p[i]
    BY <1>3 DEF Iterates
  <2>1. f[i-1] \in Seq(C)
    <3>1. i - 1 \in 0..n
      BY <1>1
    <3> HIDE DEF n
    <3>2. QED
      BY <3>1, <1>3
  <2>2. f[i] = step[i][f[i-1]]
    BY <1>3 DEF Iterates
  <2>3. QED
    BY <2>1, <2>2
<1>5. ASSUME NEW m \in 0..n PROVE TextOf(p, m) = f[m]
  <2> DEFINE q == SubSeq(p, 1, m)
  <2>1. Len(q) = m /\ \A i \in 1..m : q[i] = p[i]
    <3>1. \A i \in 1..m : p[i] \in Seq(C)
      BY <1>1
    <3>2. QED
      BY <1>1, <3>1, SubSeqProperties
  <2>2. CASE m = 0
    <3>1. q = <<>>
      BY <2>2, SubSeqEmpty
    <3>2. QED
      BY <2>1, <2>2, <3>1, <1>4 DEF TextOf, FlattenSeq
  <2>3. CASE m # 0
    <3> DEFINE G(h) == [i \in 1..Len(q) |-> IF i = 1 THEN q[i] ELSE h[i-1] \o q[i]]
               flatten == CHOOSE h : h = G(h)
               g == [i \in 1..m |-> f[i]]
    <3>1. f[1] = q[1]
      <4>1. 1 \in 1..n /\ 1 \in 1..m /\ p[1] \in Seq(C)
        BY <2>3, <1>1
      <4>2. f[1] = f[1-1] \o p[1] /\ q[1] = p[1]
        BY <1>4, <2>1, <4>1
      <4>3. p[1] = <<>> \o p[1]
        BY <4>1, ConcatEmptySeq
      <4> HIDE DEF q, n
      <4>4. f[1-1] = <<>>
        BY <1>4
      <4>5. QED
        BY <4>2, <4>3, <4>4
    <3>2. \A i \in 1..m : i # 1 => g[i] = g[i-1] \o q[i]
      <4> SUFFICES ASSUME NEW i \in 1..m, i # 1 PROVE g[i] = g[i-1] \o q[i]
        OBVIOUS
      <4>1. i \in 1..n /\ i - 1 \in 1..m
        BY <1>1
      <4>2. g[i] = f[i] /\ g[i-1] = f[i-1]
        BY <4>1
      <4> HIDE DEF g, q, n
      <4>3. f[i] = f[i-1] \o p[i] /\ p[i] = q[i]
        BY <4>1, <1>4, <2>1
      <4>4. QED
        BY <4>2, <4>3
    <3>3. g = G(g)
      <4> HIDE DEF q
      <4>1. QED
        BY <3>1, <3>2, <2>1
    <3>4. flatten = G(flatten)
      <4> HIDE DEF G, g
      <4>1. QED
        BY <3>3
    <3> HIDE DEF flatten
    <3>5. ASSUME NEW k \in 0..(m-1), k = 0 \/ flatten[k] = f[k]
          PROVE  flatten[k+1] = f[k+1]
      <4>1. k + 1 \in 1..m /\ (k + 1) - 1 = k
        BY <1>1
      <4>2. flatten[k+1] = IF k + 1 = 1 THEN q[k+1] ELSE flatten[k] \o q[k+1]
        <5> HIDE DEF q
        <5>1. QED
          BY <3>4, <4>1, <2>1
      <4> HIDE DEF q
      <4>3. CASE k = 0
        BY <4>3, <4>2, <3>1
      <4>4. CASE k # 0
        <5>0. k + 1 \in 1..n
          BY <4>1, <1>1
        <5>1. f[k+1] = f[k] \o q[k+1]
          <6> HIDE DEF n
          <6>1. f[k+1] = f[(k+1)-1] \o p[k+1] /\ p[k+1] = q[k+1]
            BY <4>1, <5>0, <1>4, <2>1
          <6>2. QED
            BY <6>1, <4>1
        <5>2. k + 1 # 1
          BY <1>1, <4>4
        <5>3. QED
          BY <5>2, <4>4, <4>2, <3>5, <5>1
      <4>5. QED
        BY <4>3, <4>4
    <3>6. flatten[m] = f[m]
      <4> DEFINE S == {k \in 0..m : k = 0 \/ flatten[k] = f[k]}
      <4>1. 0 \in S /\ \A k \in 0..(m-1) : k \in S => k + 1 \in S
        <5> HIDE DEF flatten
        <5>1. QED
          BY <3>5, <1>1
      <4> HIDE DEF S
      <4>2. m \in S
        <5>1. m \in Nat /\ m \in 0..m
          BY <1>1
        <5>2. 0..m \subseteq S
          BY <4>1, <5>1, UpTo
        <5>3. QED
          BY <5>1, <5>2
      <4>3. QED
        BY <4>2, <2>3 DEF S
    <3>7. TextOf(p, m) = flatten[Len(q)]
      <4>1. Len(q) # 0
        BY <2>1, <2>3
      <4>2. QED
        BY <4>1 DEF TextOf, FlattenSeq, flatten
    <3>8. QED
      BY <3>6, <3>7, <2>1
  <2>4. QED
    BY <2>2, <2>3
<1>6. SubSeq(p, 1, n) = p
  BY SubSeqFull
<1>7. FlattenSeq(p) = TextOf(p, n)
  BY <1>6 DEF TextOf
<1> HIDE DEF step
<1>8. \A i \in 1..n : TextOf(p, i) = TextOf(p, i-1) \o p[i]
  <2> SUFFICES ASSUME NEW i \in 1..n PROVE TextOf(p, i) = TextOf(p, i-1) \o p[i]
    OBVIOUS
  <2>1. i \in 0..n /\ i - 1 \in 0..n
    BY <1>1
  <2> HIDE DEF n
  <2>2. QED
    BY <1>4, <1>5, <2>1
<1>9. \A i \in 0..n : TextOf(p, i) \in Seq(C)
  BY <1>5
<1>10. TextOf(p, 0) = <<>>
  BY <1>1, <1>4, <1>5
<1>11. QED
  BY <1>7, <1>8, <1>9, <1>10

LEMMA Slice ==
  ASSUME NEW C, NEW s \in Seq(C), NEW c \in Nat, NEW n \in Nat, c <= n, n <= Len(s)
  PROVE  /\ SubSeq(s, c + 1, n) \in Seq(C)
         /\ Len(SubSeq(s, c + 1, n)) = n - c
         /\ \A i \in 1..(n-c) : SubSeq(s, c + 1, n)[i] = s[c+i]
<1>1. Len(s) \in Nat /\ \A i \in 1..Len(s) : s[i] \in C
  BY LenProperties
<1>2. \A i \in (c+1)..n : s[i] \in C
  BY <1>1
<1>3. /\ SubSeq(s, c + 1, n) \in Seq(C)
      /\ Len(SubSeq(s, c + 1, n)) = IF c + 1 <= n THEN n - (c + 1) + 1 ELSE 0
      /\ \A i \in 1 .. n - (c + 1) + 1 : SubSeq(s, c + 1, n)[i] = s[c + 1 + i - 1]
  BY <1>2, SubSeqProperties, c + 1 \in Int, n \in Int
<1>4. \A i \in 1..(n-c) : i \in 1 .. n - (c + 1) + 1 /\ c + 1 + i - 1 = c + i
  OBVIOUS
<1>5. (IF c + 1 <= n THEN n - (c + 1) + 1 ELSE 0) = n - c
  OBVIOUS
<1>6. QED
  BY <1>3, <1>4, <1>5

\* t stands in s after the first c.
Part(t, s, c) == c + Len(t) <= Len(s) /\ \A i \in 1..Len(t) : t[i] = s[c+i]

LEMMA PartOfConcat ==
  ASSUME NEW C, NEW s \in Seq(C), NEW t \in Seq(C)
  PROVE  /\ s \o t \in Seq(C) /\ Len(s \o t) = Len(s) + Len(t) /\ Len(s) \in Nat /\ Len(t) \in Nat
         /\ Part(s, s \o t, 0) /\ Part(t, s \o t, Len(s))
<1>1. Len(s) \in Nat /\ Len(t) \in Nat
  BY LenProperties
<1>2. /\ s \o t \in Seq(C)
      /\ Len(s \o t) = Len(s) + Len(t)
      /\ \A i \in 1 .. Len(s) + Len(t) : (s \o t)[i] = IF i <= Len(s) THEN s[i] ELSE t[i - Len(s)]
  BY ConcatProperties
<1>3. \A i \in 1..Len(s) : (s \o t)[0+i] = s[i]
  BY <1>1, <1>2
<1>4. \A i \in 1..Len(t) : (s \o t)[Len(s)+i] = t[i]
  <2> SUFFICES ASSUME NEW i \in 1..Len(t) PROVE (s \o t)[Len(s)+i] = t[i]
    OBVIOUS
  <2>1. Len(s) + i \in 1 .. Len(s) + Len(t) /\ ~(Len(s) + i <= Len(s)) /\ Len(s) + i - Len(s) = i
    BY <1>1
  <2>2. QED
    BY <1>2, <2>1
<1>5. QED
  BY <1>1, <1>2, <1>3, <1>4 DEF Part

LEMMA ConcatOfParts ==
  ASSUME NEW C, NEW s \in Seq(C), NEW t \in Seq(C), NEW u \in Seq(C),
         Len(u) = Len(s) + Len(t), Part(s, u, 0), Part(t, u, Len(s))
  PROVE  u = s \o t
<1>1. /\ s \o t \in Seq(C) /\ Len(s \o t) = Len(s) + Len(t) /\ Len(s) \in Nat /\ Len(t) \in Nat
      /\ \A i \in 1..Len(s) : s[i] = (s \o t)[0+i]
      /\ \A i \in 1..Len(t) : t[i] = (s \o t)[Len(s)+i]
  BY PartOfConcat DEF Part
<1>2. ASSUME NEW i \in 1..Len(u) PROVE u[i] = (s \o t)[i]
  <2>1. CASE i <= Len(s)
    <3>1. i \in 1..Len(s) /\ 0 + i = i
      BY <1>1, <2>1
    <3>2. QED
      BY <1>1, <3>1 DEF Part
  <2>2. CASE i > Len(s)
    <3>1. i - Len(s) \in 1..Len(t) /\ Len(s) + (i - Len(s)) = i
      BY <1>1, <2>2
    <3>2. QED
      BY <1>1, <3>1 DEF Part
  <2>3. QED
    BY <1>1, <2>1, <2>2
<1>3. QED
  BY <1>1, <1>2, SeqEqual

LEMMA PartOfPart ==
  ASSUME NEW C, NEW s \in Seq(C), NEW t \in Seq(C), NEW u \in Seq(C),
         NEW c \in Nat, NEW d \in Nat, Part(s, t, c), Part(t, u, d)
  PROVE  Part(s, u, d + c)
<1>1. Len(s) \in Nat /\ Len(t) \in Nat /\ Len(u) \in Nat
  BY LenProperties
<1>2. d + c + Len(s) <= Len(u)
  BY <1>1 DEF Part
<1>3. ASSUME NEW i \in 1..Len(s) PROVE s[i] = u[d+c+i]
  <2>1. c + i \in 1..Len(t) /\ d + (c + i) = d + c + i
    BY <1>1 DEF Part
  <2>2. QED
    BY <2>1 DEF Part
<1>4. QED
  BY <1>2, <1>3 DEF Part

LEMMA SamePart ==
  ASSUME NEW C, NEW s \in Seq(C), NEW t \in Seq(C), NEW u, NEW c \in Nat,
         Len(s) = Len(t), Part(s, u, c), Part(t, u, c)
  PROVE  s = t
<1>1. \A i \in 1..Len(s) : s[i] = t[i]
  BY DEF Part
<1>2. QED
  BY <1>1, SeqEqual

LEMMA SliceIsPart ==
  ASSUME NEW C, NEW s \in Seq(C), NEW c \in Nat, NEW n \in Nat, c <= n, n <= Len(s)
  PROVE  /\ SubSeq(s, c + 1, n) \in Seq(C) /\ Len(SubSeq(s, c + 1, n)) = n - c
         /\ Part(SubSeq(s, c + 1, n), s, c)
<1>1. Len(s) \in Nat
  BY LenProperties
<1>2. QED
  BY <1>1, Slice DEF Part

LEMMA OccursAtIs ==
  ASSUME NEW C, NEW s \in Seq(C), NEW t \in Seq(C), NEW i \in Nat \ {0}
  PROVE  OccursAt(s, i, t) <=> Part(s, t, i - 1)
<1>1. Len(s) \in Nat /\ Len(t) \in Nat
  BY LenProperties
<1>2. i - 1 \in Nat /\ i + Len(s) - 1 \in Nat /\ i - 1 <= i + Len(s) - 1 /\ (i - 1) + 1 = i
  BY <1>1
<1>3. ASSUME i + Len(s) - 1 <= Len(t)
      PROVE  SubSeq(t, i, i + Len(s) - 1) = s <=> Part(s, t, i - 1)
  <2> DEFINE u == SubSeq(t, (i - 1) + 1, i + Len(s) - 1)
  <2>1. u \in Seq(C) /\ Len(u) = i + Len(s) - 1 - (i - 1) /\ Part(u, t, i - 1)
    BY <1>2, <1>3, SliceIsPart
  <2>2. u = SubSeq(t, i, i + Len(s) - 1) /\ Len(u) = Len(s)
    BY <1>1, <1>2, <2>1
  <2> HIDE DEF u
  <2>3. Part(s, t, i - 1) => u = s
    BY <1>2, <2>1, <2>2, SamePart
  <2>4. u = s => Part(s, t, i - 1)
    BY <2>1
  <2>5. QED
    BY <2>2, <2>3, <2>4
<1>4. Part(s, t, i - 1) => i + Len(s) - 1 <= Len(t)
  BY <1>1 DEF Part
<1>5. QED
  BY <1>3, <1>4 DEF OccursAt

LEMMA IsPrefixIs ==
  ASSUME NEW C, NEW s \in Seq(C), NEW t \in Seq(C)
  PROVE  IsPrefix(s, t) <=> Part(s, t, 0)
<1>1. Len(s) \in Nat /\ Len(t) \in Nat
  BY LenProperties
<1>2. ASSUME Len(s) <= Len(t)
      PROVE  SubSeq(s, 1, Len(s)) = SubSeq(t, 1, Len(s)) <=> Part(s, t, 0)
  <2> DEFINE u == SubSeq(t, 0 + 1, Len(s))
  <2>1. u \in Seq(C) /\ Len(u) = Len(s) - 0 /\ Part(u, t, 0)
    BY <1>1, <1>2, SliceIsPart
  <2>2. SubSeq(s, 1, Len(s)) = s
    BY SubSeqFull
  <2>3. u = SubSeq(t, 1, Len(s)) /\ Len(u) = Len(s)
    BY <1>1, <2>1
  <2> HIDE DEF u
  <2>4. Part(s, t, 0) => u = s
    BY <1>1, <2>1, <2>3, SamePart
  <2>5. u = s => Part(s, t, 0)
    BY <2>1
  <2>6. QED
    BY <2>2, <2>3, <2>4, <2>5
<1>3. Part(s, t, 0) => Len(s) <= Len(t)
  BY <1>1 DEF Part
<1>4. QED
  BY <1>2, <1>3 DEF IsPrefix

LEMMA ReverseIs ==
  ASSUME NEW C, NEW s \in Seq(C)
  PROVE  /\ Reverse(s) \in Seq(C) /\ Len(Reverse(s)) = Len(s)
         /\ \A i \in 1..Len(s) : Reverse(s)[i] = s[Len(s) - i + 1]
<1>1. Len(s) \in Nat /\ \A i \in 1..Len(s) : s[i] \in C
  BY LenProperties
<1>2. \A i \in 1..Len(s) : Reverse(s)[i] = s[Len(s) - i + 1]
  BY DEF Reverse
<1>3. Reverse(s) = [i \in 1..Len(s) |-> Reverse(s)[i]] /\ \A i \in 1..Len(s) : Reverse(s)[i] \in C
  <2>1. \A i \in 1..Len(s) : Len(s) - i + 1 \in 1..Len(s)
    BY <1>1
  <2>2. \A i \in 1..Len(s) : Reverse(s)[i] \in C
    BY <1>1, <1>2, <2>1
  <2>3. QED
    BY <2>2 DEF Reverse
<1>4. QED
  BY <1>1, <1>2, <1>3, IsSeq

LEMMA IsSuffixIs ==
  ASSUME NEW C, NEW s \in Seq(C), NEW t \in Seq(C)
  PROVE  IsSuffix(s, t) <=> Len(s) <= Len(t) /\ Part(s, t, Len(t) - Len(s))
<1>1. Len(s) \in Nat /\ Len(t) \in Nat
  BY LenProperties
<1>2. IsSuffix(s, t) <=> Part(Reverse(s), Reverse(t), 0)
  BY ReverseIs, IsPrefixIs DEF IsSuffix
<1>3. Len(Reverse(s)) = Len(s) /\ Len(Reverse(t)) = Len(t)
  BY ReverseIs
<1>4. ASSUME Len(s) <= Len(t)
      PROVE  (\A i \in 1..Len(s) : Reverse(s)[i] = Reverse(t)[0+i]) <=>
             (\A i \in 1..Len(s) : s[i] = t[Len(t) - Len(s) + i])
  <2>1. \A i \in 1..Len(s) : Reverse(s)[i] = s[Len(s) - i + 1] /\ Reverse(t)[0+i] = t[Len(t) - i + 1]
    <3>1. \A i \in 1..Len(s) : i \in 1..Len(t) /\ 0 + i = i
      BY <1>1, <1>4
    <3>2. \A i \in 1..Len(s) : Reverse(s)[i] = s[Len(s) - i + 1]
      BY ReverseIs
    <3>3. \A i \in 1..Len(t) : Reverse(t)[i] = t[Len(t) - i + 1]
      BY ReverseIs
    <3>4. QED
      BY <3>1, <3>2, <3>3
  <2>2. \A i \in 1..Len(s) : /\ Len(s) - i + 1 \in 1..Len(s)
                             /\ Len(s) - (Len(s) - i + 1) + 1 = i
                             /\ Len(t) - (Len(s) - i + 1) + 1 = Len(t) - Len(s) + i
                             /\ Len(t) - Len(s) + (Len(s) - i + 1) = Len(t) - i + 1
    BY <1>1
  <2>3. ASSUME \A i \in 1..Len(s) : Reverse(s)[i] = Reverse(t)[0+i], NEW i \in 1..Len(s)
        PROVE  s[i] = t[Len(t) - Len(s) + i]
    <3> DEFINE j == Len(s) - i + 1
    <3>1. j \in 1..Len(s) /\ Len(s) - j + 1 = i /\ Len(t) - j + 1 = Len(t) - Len(s) + i
      BY <2>2
    <3> HIDE DEF j
    <3>2. Reverse(s)[j] = Reverse(t)[0+j]
      BY <2>3, <3>1
    <3>3. QED
      BY <2>1, <3>1, <3>2
  <2>4. ASSUME \A i \in 1..Len(s) : s[i] = t[Len(t) - Len(s) + i], NEW i \in 1..Len(s)
        PROVE  Reverse(s)[i] = Reverse(t)[0+i]
    <3> DEFINE j == Len(s) - i + 1
    <3>1. j \in 1..Len(s) /\ Len(t) - Len(s) + j = Len(t) - i + 1
      BY <2>2
    <3>2. Reverse(s)[i] = s[j] /\ Reverse(t)[0+i] = t[Len(t) - i + 1]
      BY <2>1
    <3> HIDE DEF j
    <3>3. s[j] = t[Len(t) - Len(s) + j]
      BY <2>4, <3>1
    <3>4. QED
      BY <3>1, <3>2, <3>3
  <2>5. QED
    BY <2>3, <2>4
<1>5. Len(s) <= Len(t) => Len(t) - Len(s) + Len(s) <= Len(t) /\ 0 + Len(s) <= Len(t)
  BY <1>1
<1>6. 0 + Len(s) <= Len(t) => Len(s) <= Len(t)
  BY <1>1
<1>7. QED
  BY <1>2, <1>3, <1>4, <1>5, <1>6 DEF Part

LEMMA TextOfGrows ==
  ASSUME NEW C, NEW p \in Seq(Seq(C)), NEW i \in 0..Len(p), NEW j \in i..Len(p)
  PROVE  Part(TextOf(p, i), TextOf(p, j), 0)
<1> DEFINE n == Len(p) - i
           S == {k \in 0..n : Part(TextOf(p, i), TextOf(p, i + k), 0)}
<1>1. Len(p) \in Nat /\ n \in Nat /\ i + 0 = i
  BY LenProperties
<1>2. /\ \A k \in 0..Len(p) : TextOf(p, k) \in Seq(C)
      /\ \A k \in 1..Len(p) : TextOf(p, k) = TextOf(p, k-1) \o p[k]
  BY TextOfSteps
<1>3. 0 \in S
  <2>1. Part(TextOf(p, i), TextOf(p, i), 0)
    <3>1. Len(TextOf(p, i)) \in Nat
      BY <1>2, LenProperties
    <3>2. QED
      BY <3>1 DEF Part
  <2>2. QED
    BY <1>1, <2>1
<1>4. ASSUME NEW k \in 0..(n-1), k \in S PROVE k + 1 \in S
  <2>1. i + k \in 0..Len(p) /\ i + (k + 1) \in 1..Len(p) /\ i + (k + 1) - 1 = i + k
    BY <1>1
  <2>2. TextOf(p, i + (k + 1)) = TextOf(p, i + k) \o p[i + (k + 1)]
    <3> DEFINE l == i + (k + 1)
    <3>1. l \in 1..Len(p) /\ l - 1 = i + k
      BY <2>1
    <3> HIDE DEF l
    <3>2. TextOf(p, l) = TextOf(p, l-1) \o p[l]
      BY <1>2, <3>1
    <3>3. TextOf(p, l) = TextOf(p, i + k) \o p[l]
      BY <3>1, <3>2
    <3>4. QED
      BY <3>3 DEF l
  <2>3. p[i + (k + 1)] \in Seq(C) /\ TextOf(p, i + k) \in Seq(C) /\ TextOf(p, i) \in Seq(C)
    BY <1>2, <2>1, LenProperties
  <2>4. Part(TextOf(p, i + k), TextOf(p, i + (k + 1)), 0) /\ TextOf(p, i + (k + 1)) \in Seq(C)
    BY <2>2, <2>3, PartOfConcat
  <2>5. Part(TextOf(p, i), TextOf(p, i + (k + 1)), 0 + 0)
    BY <1>4, <2>3, <2>4, PartOfPart
  <2>6. QED
    BY <2>5, <1>1
<1>5. 0..n \subseteq S
  <2> HIDE DEF S, n
  <2>1. QED
    BY <1>1, <1>3, <1>4, UpTo
<1>6. j - i \in 0..n /\ i + (j - i) = j
  BY <1>1
<1>7. j - i \in S
  BY <1>5, <1>6
<1>8. QED
  BY <1>6, <1>7

LEMMA TextOfSame ==
  ASSUME NEW C, NEW p \in Seq(Seq(C)), NEW q \in Seq(Seq(C)), NEW n \in Nat,
         n <= Len(p), n <= Len(q), \A i \in 1..n : p[i] = q[i]
  PROVE  TextOf(p, n) = TextOf(q, n)
<1> DEFINE s == SubSeq(p, 0 + 1, n)
           t == SubSeq(q, 0 + 1, n)
<1>1. /\ s \in Seq(Seq(C)) /\ Len(s) = n - 0 /\ \A i \in 1..(n-0) : s[i] = p[0+i]
      /\ t \in Seq(Seq(C)) /\ Len(t) = n - 0 /\ \A i \in 1..(n-0) : t[i] = q[0+i]
  BY Slice
<1>2. Len(s) = Len(t) /\ \A i \in 1..Len(s) : s[i] = t[i]
  BY <1>1
<1> HIDE DEF s, t
<1>3. s = t
  BY <1>1, <1>2, SeqEqual
<1>4. SubSeq(p, 1, n) = SubSeq(q, 1, n)
  BY <1>3 DEF s, t
<1>5. QED
  BY <1>4 DEF TextOf

\* The texts of q are those of p after the first k.
Continues(C, p, q, k, n) ==
  /\ p \in Seq(Seq(C)) /\ q \in Seq(Seq(C)) /\ k \in Nat /\ n \in Nat
  /\ k + n <= Len(p) /\ n <= Len(q)
  /\ \A i \in 1..n : q[i] = p[k+i]

LEMMA TextOfAfter ==
  ASSUME NEW C, NEW p, NEW q, NEW k, NEW n, Continues(C, p, q, k, n)
  PROVE  TextOf(p, k + n) = TextOf(p, k) \o TextOf(q, n)
<1>1. /\ p \in Seq(Seq(C)) /\ q \in Seq(Seq(C)) /\ k \in Nat /\ n \in Nat
      /\ k + n <= Len(p) /\ n <= Len(q) /\ \A i \in 1..n : q[i] = p[k+i]
  BY DEF Continues
<1> DEFINE S == {m \in 0..n : TextOf(p, k + m) = TextOf(p, k) \o TextOf(q, m)}
<1>2. Len(p) \in Nat /\ Len(q) \in Nat /\ k \in 0..Len(p)
  BY <1>1, LenProperties
<1>3. /\ \A i \in 0..Len(p) : TextOf(p, i) \in Seq(C)
      /\ \A i \in 0..Len(q) : TextOf(q, i) \in Seq(C)
      /\ TextOf(q, 0) = <<>>
      /\ \A i \in 1..Len(p) : TextOf(p, i) = TextOf(p, i-1) \o p[i]
      /\ \A i \in 1..Len(q) : TextOf(q, i) = TextOf(q, i-1) \o q[i]
  BY <1>1, TextOfSteps
<1>4. 0 \in S
  <2>1. TextOf(p, k) \o <<>> = TextOf(p, k)
    BY <1>2, <1>3, ConcatEmptySeq
  <2>2. k + 0 = k /\ 0 \in 0..n
    BY <1>1
  <2>3. QED
    BY <2>1, <2>2, <1>3
<1>5. ASSUME NEW m \in 0..(n-1), m \in S PROVE m + 1 \in S
  <2>1. /\ k + (m + 1) \in 1..Len(p) /\ k + (m + 1) - 1 = k + m /\ m + 1 \in 1..Len(q) /\ (m + 1) - 1 = m
        /\ m \in 0..Len(q) /\ m + 1 \in 1..n
    BY <1>1, <1>2
  <2>2. TextOf(p, k + (m + 1)) = TextOf(p, k + m) \o p[k + (m + 1)]
    <3> DEFINE l == k + (m + 1)
    <3>1. l \in 1..Len(p) /\ l - 1 = k + m
      BY <1>1, <2>1
    <3> HIDE DEF l
    <3>2. TextOf(p, l) = TextOf(p, l-1) \o p[l]
      BY <1>3, <3>1
    <3>3. TextOf(p, l) = TextOf(p, k + m) \o p[l]
      BY <3>1, <3>2
    <3>4. QED
      BY <3>3 DEF l
  <2>3. TextOf(q, m + 1) = TextOf(q, m) \o q[m + 1]
    <3>1. TextOf(q, m + 1) = TextOf(q, (m + 1) - 1) \o q[m + 1]
      BY <1>3, <2>1
    <3>2. QED
      BY <2>1, <3>1
  <2>4. p[k + (m + 1)] = q[m + 1] /\ q[m + 1] \in Seq(C)
    BY <1>1, <2>1, LenProperties
  <2>5. TextOf(p, k) \in Seq(C) /\ TextOf(q, m) \in Seq(C)
    BY <1>2, <1>3, <2>1
  <2>6. (TextOf(p, k) \o TextOf(q, m)) \o q[m + 1] = TextOf(p, k) \o (TextOf(q, m) \o q[m + 1])
    <3> DEFINE a == TextOf(p, k)
               b == TextOf(q, m)
               c == q[m + 1]
    <3>1. a \in Seq(C) /\ b \in Seq(C) /\ c \in Seq(C)
      BY <2>4, <2>5
    <3> HIDE DEF a, b, c
    <3>2. (a \o b) \o c = a \o (b \o c)
      BY <3>1, ConcatAssociative
    <3>3. QED
      BY <3>2 DEF a, b, c
  <2>7. TextOf(p, k + m) = TextOf(p, k) \o TextOf(q, m)
    BY <1>5
  <2>8. TextOf(p, k + (m + 1)) = TextOf(p, k) \o TextOf(q, m + 1)
    BY <2>2, <2>3, <2>4, <2>6, <2>7
  <2>9. m + 1 \in 0..n
    BY <2>1
  <2>10. QED
    BY <2>8, <2>9
<1>6. n \in S
  <2> HIDE DEF S
  <2>1. 0..n \subseteq S
    BY <1>1, <1>4, <1>5, UpTo
  <2>2. QED
    BY <1>1, <2>1
<1>7. QED
  BY <1>6

LEMMA FlattenConcat ==
  ASSUME NEW C, NEW p \in Seq(Seq(C)), NEW q \in Seq(Seq(C))
  PROVE  /\ FlattenSeq(p \o q) = FlattenSeq(p) \o FlattenSeq(q)
         /\ \A n \in 0..Len(p) : TextOf(p \o q, n) = TextOf(p, n)
         /\ \A n \in 0..Len(q) : TextOf(p \o q, Len(p) + n) = FlattenSeq(p) \o TextOf(q, n)
<1>1. /\ p \o q \in Seq(Seq(C)) /\ Len(p \o q) = Len(p) + Len(q)
      /\ Len(p) \in Nat /\ Len(q) \in Nat
      /\ Part(p, p \o q, 0) /\ Part(q, p \o q, Len(p))
  BY PartOfConcat
<1>2. ASSUME NEW n \in 0..Len(p) PROVE TextOf(p \o q, n) = TextOf(p, n)
  <2>1. \A i \in 1..n : p[i] = (p \o q)[i]
    <3> SUFFICES ASSUME NEW i \in 1..n PROVE p[i] = (p \o q)[i]
      OBVIOUS
    <3>1. i \in 1..Len(p) /\ 0 + i = i
      BY <1>1
    <3>2. p[i] = (p \o q)[0+i]
      BY <1>1, <3>1 DEF Part
    <3>3. QED
      BY <3>1, <3>2
  <2>2. n \in Nat /\ n <= Len(p) /\ n <= Len(p \o q)
    BY <1>1
  <2>3. QED
    BY <1>1, <2>1, <2>2, TextOfSame
<1>3. ASSUME NEW n \in 0..Len(q) PROVE TextOf(p \o q, Len(p) + n) = TextOf(p, Len(p)) \o TextOf(q, n)
  <2>1. \A i \in 1..n : q[i] = (p \o q)[Len(p)+i]
    <3>1. \A i \in 1..n : i \in 1..Len(q)
      BY <1>1
    <3>2. QED
      BY <1>1, <3>1 DEF Part
  <2>2. n \in Nat /\ n <= Len(q) /\ Len(p) + n <= Len(p \o q)
    BY <1>1
  <2>3. TextOf(p \o q, Len(p) + n) = TextOf(p \o q, Len(p)) \o TextOf(q, n)
    <3> DEFINE r == p \o q
               k == Len(p)
    <3>1. /\ r \in Seq(Seq(C)) /\ k \in Nat /\ n \in Nat /\ k + n <= Len(r) /\ n <= Len(q)
          /\ \A i \in 1..n : q[i] = r[k+i]
      BY <1>1, <2>1, <2>2
    <3> HIDE DEF r, k
    <3>2. TextOf(r, k + n) = TextOf(r, k) \o TextOf(q, n)
      <4>1. Continues(C, r, q, k, n)
        BY <3>1 DEF Continues
      <4>2. QED
        BY <4>1, TextOfAfter
    <3>3. QED
      BY <3>2 DEF r, k
  <2>4. TextOf(p \o q, Len(p)) = TextOf(p, Len(p))
    <3>1. Len(p) \in 0..Len(p)
      BY <1>1
    <3>2. QED
      BY <1>2, <3>1
  <2>5. QED
    BY <2>3, <2>4
<1>4. FlattenSeq(p) = TextOf(p, Len(p)) /\ FlattenSeq(q) = TextOf(q, Len(q))
      /\ FlattenSeq(p \o q) = TextOf(p \o q, Len(p \o q))
  BY <1>1, TextOfSteps
<1>5. FlattenSeq(p \o q) = FlattenSeq(p) \o FlattenSeq(q)
  <2>1. Len(q) \in 0..Len(q)
    BY <1>1
  <2>2. TextOf(p \o q, Len(p) + Len(q)) = TextOf(p, Len(p)) \o TextOf(q, Len(q))
    BY <1>3, <2>1
  <2>3. QED
    BY <1>1, <1>4, <2>2
<1>6. QED
  BY <1>2, <1>3, <1>4, <1>5

\* A sequence of texts is those before a point and the rest.
LEMMA FlattenRest ==
  ASSUME NEW C, NEW p \in Seq(Seq(C)), NEW k \in 0..Len(p)
  PROVE  /\ SubSeq(p, k + 1, Len(p)) \in Seq(Seq(C))
         /\ FlattenSeq(SubSeq(p, k + 1, Len(p))) \in Seq(C)
         /\ TextOf(p, k) \in Seq(C)
         /\ FlattenSeq(p) = TextOf(p, k) \o FlattenSeq(SubSeq(p, k + 1, Len(p)))
<1> DEFINE q == SubSeq(p, k + 1, Len(p))
<1>1. Len(p) \in Nat /\ k \in Nat /\ k <= Len(p) /\ Len(p) <= Len(p)
  BY LenProperties
<1>2. q \in Seq(Seq(C)) /\ Len(q) = Len(p) - k /\ \A i \in 1..(Len(p) - k) : q[i] = p[k+i]
  BY <1>1, Slice
<1> HIDE DEF q
<1>3. Len(q) \in Nat /\ k + Len(q) = Len(p) /\ k + Len(q) <= Len(p) /\ Len(q) <= Len(q)
  BY <1>1, <1>2
<1>4. TextOf(p, k + Len(q)) = TextOf(p, k) \o TextOf(q, Len(q))
  <2> DEFINE n == Len(q)
  <2>1. /\ n \in Nat /\ k \in Nat /\ k + n <= Len(p) /\ n <= Len(q)
        /\ q \in Seq(Seq(C)) /\ \A i \in 1..n : q[i] = p[k+i]
    BY <1>1, <1>2, <1>3
  <2> HIDE DEF n
  <2>2. TextOf(p, k + n) = TextOf(p, k) \o TextOf(q, n)
    <3>1. Continues(C, p, q, k, n)
      BY <2>1 DEF Continues
    <3>2. QED
      BY <3>1, TextOfAfter
  <2>3. QED
    BY <2>2 DEF n
<1>5. FlattenSeq(p) = TextOf(p, Len(p)) /\ FlattenSeq(q) = TextOf(q, Len(q))
      /\ TextOf(p, k) \in Seq(C) /\ TextOf(q, Len(q)) \in Seq(C)
  <2>1. Len(q) \in 0..Len(q)
    BY <1>3
  <2>2. QED
    BY <1>2, <2>1, TextOfSteps
<1>6. QED
  BY <1>2, <1>3, <1>4, <1>5 DEF q

-----------------------------------------------------------------------------
(* Rewriting a text *)

Pieces(text, spans) == [i \in DOMAIN text |-> Piece(text, spans, i)]

LEMMA RewriteIs ==
  ASSUME NEW C, NEW text \in Seq(C), NEW spans,
         \A i \in 1..Len(text) : Piece(text, spans, i) \in Seq(C)
  PROVE  /\ Pieces(text, spans) \in Seq(Seq(C)) /\ Len(Pieces(text, spans)) = Len(text)
         /\ \A i \in 1..Len(text) : Pieces(text, spans)[i] = Piece(text, spans, i)
         /\ Rewrite(text, spans) = FlattenSeq(Pieces(text, spans))
         /\ Rewrite(text, spans) = TextOf(Pieces(text, spans), Len(text))
         /\ Rewrite(text, spans) \in Seq(C)
<1> DEFINE p == Pieces(text, spans)
<1>1. Len(text) \in Nat /\ DOMAIN text = 1..Len(text)
  BY LenProperties
<1>2. \A i \in 1..Len(text) : p[i] = Piece(text, spans, i)
  BY <1>1 DEF Pieces
<1>3. p = [i \in 1..Len(text) |-> p[i]]
  BY <1>1 DEF Pieces
<1>4. Rewrite(text, spans) = FlattenSeq(p)
  BY DEF Rewrite, Pieces
<1> HIDE DEF p
<1>5. p \in Seq(Seq(C)) /\ Len(p) = Len(text)
  <2>1. \A i \in 1..Len(text) : p[i] \in Seq(C)
    BY <1>2
  <2>2. QED
    BY <1>1, <1>3, <2>1, IsSeq
<1>6. FlattenSeq(p) = TextOf(p, Len(text)) /\ TextOf(p, Len(text)) \in Seq(C)
  <2>1. Len(text) \in 0..Len(text)
    BY <1>1
  <2>2. QED
    BY <1>5, <2>1, TextOfSteps
<1>7. QED
  BY <1>2, <1>4, <1>5, <1>6 DEF p

PiecesAgree(C, text, spans, t, left, u, right) ==
  /\ text \in Seq(C) /\ t \in Seq(C) /\ u \in Seq(C) /\ Len(text) = Len(t) + Len(u)
  /\ \A i \in 1..Len(t) : Piece(t, left, i) \in Seq(C) /\ Piece(text, spans, i) = Piece(t, left, i)
  /\ \A i \in 1..Len(u) : Piece(u, right, i) \in Seq(C) /\ Piece(text, spans, Len(t) + i) = Piece(u, right, i)

\* A text whose pieces are those of its two parts becomes what they become.
LEMMA RewriteSplit ==
  ASSUME NEW C, NEW text, NEW t, NEW u, NEW spans, NEW left, NEW right,
         PiecesAgree(C, text, spans, t, left, u, right)
  PROVE  /\ Rewrite(text, spans) = Rewrite(t, left) \o Rewrite(u, right)
         /\ Rewrite(t, left) \in Seq(C) /\ Rewrite(u, right) \in Seq(C)
<1> DEFINE p == Pieces(t, left)
           q == Pieces(u, right)
           r == Pieces(text, spans)
<1>0. /\ text \in Seq(C) /\ t \in Seq(C) /\ u \in Seq(C) /\ Len(text) = Len(t) + Len(u)
      /\ \A i \in 1..Len(t) : Piece(t, left, i) \in Seq(C) /\ Piece(text, spans, i) = Piece(t, left, i)
      /\ \A i \in 1..Len(u) : Piece(u, right, i) \in Seq(C) /\ Piece(text, spans, Len(t) + i) = Piece(u, right, i)
  BY DEF PiecesAgree
<1> USE <1>0
<1>1. Len(t) \in Nat /\ Len(u) \in Nat /\ Len(text) \in Nat
  BY LenProperties
<1>2. /\ p \in Seq(Seq(C)) /\ Len(p) = Len(t) /\ \A i \in 1..Len(t) : p[i] = Piece(t, left, i)
      /\ Rewrite(t, left) = FlattenSeq(p) /\ Rewrite(t, left) \in Seq(C)
  BY RewriteIs
<1>3. /\ q \in Seq(Seq(C)) /\ Len(q) = Len(u) /\ \A i \in 1..Len(u) : q[i] = Piece(u, right, i)
      /\ Rewrite(u, right) = FlattenSeq(q) /\ Rewrite(u, right) \in Seq(C)
  BY RewriteIs
<1>4. ASSUME NEW i \in 1..Len(text) PROVE Piece(text, spans, i) \in Seq(C)
  <2>1. CASE i <= Len(t)
    BY <1>1, <2>1
  <2>2. CASE i > Len(t)
    <3>1. i - Len(t) \in 1..Len(u) /\ Len(t) + (i - Len(t)) = i
      BY <1>1, <2>2
    <3>2. QED
      BY <3>1
  <2>3. QED
    BY <1>1, <2>1, <2>2
<1>5. /\ r \in Seq(Seq(C)) /\ Len(r) = Len(text) /\ \A i \in 1..Len(text) : r[i] = Piece(text, spans, i)
      /\ Rewrite(text, spans) = FlattenSeq(r)
  BY <1>4, RewriteIs
<1> HIDE DEF p, q, r
<1>6. Part(p, r, 0)
  <2>1. \A i \in 1..Len(p) : p[i] = r[0+i]
    <3> SUFFICES ASSUME NEW i \in 1..Len(p) PROVE p[i] = r[0+i]
      OBVIOUS
    <3>1. i \in 1..Len(t) /\ i \in 1..Len(text) /\ 0 + i = i
      BY <1>1, <1>2
    <3>2. QED
      BY <1>2, <1>5, <3>1
  <2>2. 0 + Len(p) <= Len(r)
    BY <1>1, <1>2, <1>5
  <2>3. QED
    BY <2>1, <2>2 DEF Part
<1>7. Part(q, r, Len(p))
  <2>1. \A i \in 1..Len(q) : q[i] = r[Len(p)+i]
    <3> SUFFICES ASSUME NEW i \in 1..Len(q) PROVE q[i] = r[Len(p)+i]
      OBVIOUS
    <3>1. i \in 1..Len(u) /\ Len(t) + i \in 1..Len(text)
      BY <1>1, <1>3
    <3>2. QED
      BY <1>2, <1>3, <1>5, <3>1
  <2>2. Len(p) + Len(q) <= Len(r)
    BY <1>1, <1>2, <1>3, <1>5
  <2>3. QED
    BY <2>1, <2>2 DEF Part
<1>8. r = p \o q
  <2>1. Len(r) = Len(p) + Len(q)
    BY <1>2, <1>3, <1>5
  <2>2. QED
    BY <1>2, <1>3, <1>5, <1>6, <1>7, <2>1, ConcatOfParts
<1>9. FlattenSeq(r) = FlattenSeq(p) \o FlattenSeq(q)
  BY <1>2, <1>3, <1>8, FlattenConcat
<1>10. QED
  BY <1>2, <1>3, <1>5, <1>9

-----------------------------------------------------------------------------
(* Matches, one at a time *)

Text == Seq(Characters)

LEMMA RuleFacts ==
  ASSUME NEW r \in Rules
  PROVE  /\ r.context \in Text /\ r.value \in Text /\ r.priority \in Nat
         /\ Len(r.context) \in Nat /\ Len(r.value) \in Nat \ {0}
         /\ Len(r.context) + Len(r.value) <= OverlapBytes
         /\ r.context \o r.value \in Text
         /\ Len(r.context \o r.value) = Len(r.context) + Len(r.value)
<1>1. /\ r.context \in Text /\ r.value \in Text /\ r.priority \in Nat /\ r.value # <<>>
      /\ Len(r.context) + Len(r.value) <= OverlapBytes
  BY RuleAssumption DEF Text
<1>2. Len(r.value) \in Nat \ {0}
  BY <1>1, EmptySeq DEF Text
<1>3. QED
  BY <1>1, <1>2, PartOfConcat DEF Text

Located == {m \in [rule : Rules, first : Nat \ {0}, last : Nat \ {0}] : m.first <= m.last}

LEMMA LocatedIs ==
  ASSUME NEW m \in Located
  PROVE  /\ m.rule \in Rules /\ m.first \in Nat \ {0} /\ m.last \in Nat \ {0} /\ m.first <= m.last
         /\ m = [rule |-> m.rule, first |-> m.first, last |-> m.last]
  BY DEF Located

LEMMA LocatedMake ==
  ASSUME NEW r \in Rules, NEW f \in Nat \ {0}, NEW l \in Nat, f <= l
  PROVE  [rule |-> r, first |-> f, last |-> l] \in Located
  BY DEF Located

LEMMA LocatedSame ==
  ASSUME NEW m \in Located, NEW n \in Located, m.rule = n.rule, m.first = n.first, m.last = n.last
  PROVE  m = n
  BY LocatedIs

LEMMA ShiftedIs ==
  ASSUME NEW X \in SUBSET Located, NEW d \in Nat
  PROVE  /\ Shifted(X, d) \in SUBSET Located
         /\ \A m \in Located : m \in Shifted(X, d) <=>
              \E k \in X : m.rule = k.rule /\ m.first = k.first + d /\ m.last = k.last + d
<1>2. Shifted(X, d) = {[rule |-> k.rule, first |-> k.first + d, last |-> k.last + d] : k \in X}
  BY DEF Shifted
<1>3. ASSUME NEW k \in X
      PROVE  [rule |-> k.rule, first |-> k.first + d, last |-> k.last + d] \in Located
  <2>1. k.rule \in Rules /\ k.first + d \in Nat \ {0} /\ k.last + d \in Nat /\ k.first + d <= k.last + d
    BY LocatedIs
  <2>2. QED
    BY <2>1, LocatedMake
<1>4. ASSUME NEW m \in Located, NEW k \in X, m.rule = k.rule, m.first = k.first + d, m.last = k.last + d
      PROVE  m = [rule |-> k.rule, first |-> k.first + d, last |-> k.last + d]
  BY <1>4, LocatedIs
<1>5. QED
  BY <1>2, <1>3, <1>4

\* What was shifted is as far apart as before.
LEMMA Unshift ==
  ASSUME NEW X \in SUBSET Located, NEW d \in Nat, NEW k \in X
  PROVE  \E m \in Shifted(X, d) : m.rule = k.rule /\ m.first = k.first + d /\ m.last = k.last + d
<1> DEFINE m == [rule |-> k.rule, first |-> k.first + d, last |-> k.last + d]
<1>1. k.rule \in Rules /\ k.first + d \in Nat \ {0} /\ k.last + d \in Nat /\ k.first + d <= k.last + d
  BY LocatedIs
<1>2. m \in Located /\ m.rule = k.rule /\ m.first = k.first + d /\ m.last = k.last + d
  BY <1>1, LocatedMake
<1> HIDE DEF m
<1>3. QED
  BY <1>2, ShiftedIs

\* A match is found where its rule's context and value stand.
Seen(m, text) ==
  /\ m.first > Len(m.rule.context)
  /\ m.last = m.first + Len(m.rule.value) - 1
  /\ Part(m.rule.context \o m.rule.value, text, m.first - Len(m.rule.context) - 1)

LEMMA ScanIs ==
  ASSUME NEW text \in Text
  PROVE  /\ Scan(text) \in SUBSET Located
         /\ \A m \in Located : m \in Scan(text) <=> Seen(m, text)
         /\ \A m \in Scan(text) : m.last <= Len(text)
<1> DEFINE At1(r, f) == f > Len(r.context) /\ OccursAt(r.context \o r.value, f - Len(r.context), text)
           M(r, f) == [rule |-> r, first |-> f, last |-> f + Len(r.value) - 1]
           All == {M(r, f) : r \in Rules, f \in DOMAIN text}
<1>1. Len(text) \in Nat /\ DOMAIN text = 1..Len(text)
  BY LenProperties DEF Text
<1>2. \A m : m \in Scan(text) <=> \E r \in Rules, f \in DOMAIN text : At1(r, f) /\ m = M(r, f)
  <2>1. Scan(text) = {m \in All : At1(m.rule, m.first)}
    BY DEF Scan
  <2>2. \A r, f : M(r, f).rule = r /\ M(r, f).first = f
    OBVIOUS
  <2>3. \A m : m \in All <=> \E r \in Rules, f \in DOMAIN text : m = M(r, f)
    OBVIOUS
  <2> HIDE DEF At1, M, All
  <2>4. QED
    BY <2>1, <2>2, <2>3
<1>3. ASSUME NEW r \in Rules, NEW f \in Nat \ {0}
      PROVE  At1(r, f) <=> f > Len(r.context) /\ Part(r.context \o r.value, text, f - Len(r.context) - 1)
  <2> SUFFICES ASSUME f > Len(r.context)
               PROVE  OccursAt(r.context \o r.value, f - Len(r.context), text)
                        <=> Part(r.context \o r.value, text, f - Len(r.context) - 1)
    OBVIOUS
  <2> DEFINE i == f - Len(r.context)
             s == r.context \o r.value
  <2>1. i \in Nat \ {0} /\ s \in Seq(Characters)
    <3>1. Len(r.context) \in Nat /\ s \in Text
      BY RuleFacts
    <3>2. QED
      BY <3>1 DEF Text
  <2> HIDE DEF i, s
  <2>2. OccursAt(s, i, text) <=> Part(s, text, i - 1)
    BY <2>1, OccursAtIs DEF Text
  <2>3. QED
    BY <2>2 DEF i, s
<1>4. ASSUME NEW r \in Rules, NEW f \in Nat \ {0}, f > Len(r.context),
             Part(r.context \o r.value, text, f - Len(r.context) - 1)
      PROVE  f \in DOMAIN text /\ f + Len(r.value) - 1 <= Len(text)
  <2>1. (f - Len(r.context) - 1) + (Len(r.context) + Len(r.value)) <= Len(text)
    BY <1>4, RuleFacts DEF Part
  <2>2. Len(r.context) \in Nat /\ Len(r.value) \in Nat \ {0}
    BY RuleFacts
  <2> DEFINE a == Len(r.context)
             b == Len(r.value)
             n == Len(text)
  <2>3. a \in Nat /\ b \in Nat \ {0} /\ n \in Nat /\ (f - a - 1) + (a + b) <= n
    BY <1>1, <2>1, <2>2
  <2> HIDE DEF a, b, n
  <2>4. f \in 1..n /\ f + b - 1 <= n
    BY <2>3
  <2>5. QED
    BY <1>1, <2>4 DEF b, n
<1>5. ASSUME NEW r \in Rules, NEW f \in Nat \ {0}
      PROVE  M(r, f) \in Located
  <2>1. f + Len(r.value) - 1 \in Nat /\ f <= f + Len(r.value) - 1
    <3>1. Len(r.value) \in Nat \ {0}
      BY RuleFacts
    <3>2. QED
      BY <3>1
  <2>2. QED
    BY <2>1, LocatedMake
<1> HIDE DEF At1
<1>6. Scan(text) \in SUBSET Located
  BY <1>1, <1>2, <1>5
<1>7. ASSUME NEW m \in Located, m \in Scan(text)
      PROVE  Seen(m, text) /\ m.last <= Len(text)
  <2>1. PICK r \in Rules, f \in DOMAIN text : At1(r, f) /\ m = M(r, f)
    BY <1>2, <1>7
  <2>2. f \in Nat \ {0} /\ m.rule = r /\ m.first = f /\ m.last = f + Len(r.value) - 1
    BY <1>1, <2>1
  <2>3. f > Len(r.context) /\ Part(r.context \o r.value, text, f - Len(r.context) - 1)
    BY <1>3, <2>1, <2>2
  <2>4. f + Len(r.value) - 1 <= Len(text)
    BY <1>4, <2>2, <2>3
  <2>5. QED
    BY <2>2, <2>3, <2>4 DEF Seen
<1>8. ASSUME NEW m \in Located, Seen(m, text)
      PROVE  m \in Scan(text)
  <2> DEFINE r == m.rule
             f == m.first
  <2>1. r \in Rules /\ f \in Nat \ {0} /\ m = [rule |-> r, first |-> f, last |-> m.last]
    BY LocatedIs
  <2>2. f > Len(r.context) /\ Part(r.context \o r.value, text, f - Len(r.context) - 1)
        /\ m.last = f + Len(r.value) - 1
    BY <1>8 DEF Seen
  <2>3. m = M(r, f)
    BY <2>1, <2>2
  <2> HIDE DEF r, f
  <2>4. f \in DOMAIN text /\ At1(r, f)
    BY <1>3, <1>4, <2>1, <2>2
  <2>5. QED
    BY <1>2, <2>1, <2>3, <2>4
<1>9. QED
  BY <1>6, <1>7, <1>8

-----------------------------------------------------------------------------
(* Merging matches that overlap *)

\* Some match covers both the p-th character and the next.
Joined(X, p) == \E m \in X : m.first <= p /\ p < m.last

Firsts(X) == {f \in {m.first : m \in X} : ~Joined(X, f - 1)}

Group(X, f) == {m \in X : m.first >= f /\ ~\E g \in Firsts(X) : f < g /\ g <= m.first}

\* What becomes of the matches from f on.
Merged(r, X, f) ==
  /\ r \in Located /\ r.first = f
  /\ \E m \in Group(X, f) : r.last = m.last
  /\ \E m \in Group(X, f) : r.rule = m.rule
  /\ \A m \in Group(X, f) : m.last <= r.last /\ m.rule.priority <= r.rule.priority

\* Z is what becomes of the matches of X, one for each group.
Merging(Z, X) ==
  /\ Z \in SUBSET Located
  /\ \A r \in Z : r.first \in Firsts(X) /\ Merged(r, X, r.first)
  /\ \A f \in Firsts(X) : \E r \in Z : r.first = f

\* Of the matches that are merged, those of one priority are of one rule.
Tied(X) ==
  \A m, n \in X :
    /\ m.first <= n.first /\ m.rule.priority = n.rule.priority
    /\ \A p \in m.first .. n.first - 1 : Joined(X, p)
    => m.rule = n.rule

\* Every match of A has its like in B: in the same place, of the same priority.
Alike(A, B) ==
  \A r \in A : \E q \in B :
    r.first = q.first /\ r.last = q.last /\ r.rule.priority = q.rule.priority

LEMMA FirstsIs ==
  ASSUME NEW X \in SUBSET Located
  PROVE  /\ Firsts(X) = {m.first : m \in {n \in X : ~\E k \in X : k.first < n.first /\ n.first <= k.last}}
         /\ Firsts(X) \in SUBSET (Nat \ {0})
<1>1. ASSUME NEW n \in X
      PROVE  (\E k \in X : k.first < n.first /\ n.first <= k.last) <=> Joined(X, n.first - 1)
  <2>1. ASSUME NEW k \in X
        PROVE  k.first < n.first /\ n.first <= k.last <=> k.first <= n.first - 1 /\ n.first - 1 < k.last
    <3>1. k.first \in Nat /\ k.last \in Nat /\ n.first \in Nat
      BY LocatedIs
    <3>2. QED
      BY <3>1
  <2>2. QED
    BY <2>1 DEF Joined
<1>2. \A n \in X : n.first \in Nat \ {0}
  BY LocatedIs
<1> HIDE DEF Joined
<1>3. QED
  BY <1>1, <1>2 DEF Firsts

LEMMA PrioritiesAreFinite ==
  ASSUME NEW R \in SUBSET Rules
  PROVE  IsFiniteSet({r.priority : r \in R}) /\ {r.priority : r \in R} \in SUBSET Nat
<1> DEFINE P == {r.priority : r \in R}
           f == [r \in R |-> r.priority]
<1>1. IsFiniteSet(R)
  BY RuleAssumption, FS_Subset
<1>2. f \in Surjection(R, P)
  BY DEF Surjection
<1>3. P \in SUBSET Nat
  <2>1. \A r \in Rules : r.priority \in Nat
    BY RuleAssumption
  <2>2. QED
    BY <2>1
<1> HIDE DEF P, f
<1>4. IsFiniteSet(P)
  BY <1>1, <1>2, FS_Surjection
<1>5. QED
  BY <1>3, <1>4 DEF P

\* Of matches, one has the highest priority and starts first among its equals.
LEMMA LeadingExists ==
  ASSUME NEW U \in SUBSET Located, U # {}
  PROVE  \E m \in U : \A n \in U : \/ m.rule.priority > n.rule.priority
                                   \/ m.rule.priority = n.rule.priority /\ m.first <= n.first
<1> DEFINE R == {m.rule : m \in U}
           P == {r.priority : r \in R}
<1>1. R \in SUBSET Rules /\ P # {}
  BY LocatedIs
<1>2. IsFiniteSet(P) /\ P \in SUBSET Nat
  <2> HIDE DEF R
  <2>1. QED
    BY <1>1, PrioritiesAreFinite
<1>3. PICK top \in P : \A y \in P : y <= top
  <2> HIDE DEF P
  <2>1. QED
    BY <1>1, <1>2, Greatest
<1> DEFINE F == {m.first : m \in {n \in U : n.rule.priority = top}}
<1>4. \A n \in U : n.rule.priority \in P /\ n.first \in Nat
  BY LocatedIs
<1>5. F # {} /\ F \in SUBSET Nat
  BY <1>4
<1>6. PICK f \in F : \A y \in F : f <= y
  <2> HIDE DEF F
  <2>1. QED
    BY <1>5, Least
<1>7. PICK m \in U : m.rule.priority = top /\ m.first = f
  BY <1>6
<1>8. ASSUME NEW n \in U
      PROVE  \/ m.rule.priority > n.rule.priority
             \/ m.rule.priority = n.rule.priority /\ m.first <= n.first
  <2>1. n.rule.priority <= top /\ n.rule.priority \in Nat /\ top \in Nat
    <3> HIDE DEF P
    <3>1. QED
      BY <1>2, <1>3, <1>4
  <2>2. CASE n.rule.priority = top
    <3>1. n.first \in F
      BY <2>2
    <3>2. QED
      BY <1>6, <1>7, <2>2, <3>1
  <2>3. CASE n.rule.priority # top
    BY <1>7, <2>1, <2>3
  <2>4. QED
    BY <2>2, <2>3
<1>9. QED
  BY <1>8

LEMMA GroupIn ==
  ASSUME NEW X \in SUBSET Located, NEW f \in Nat
  PROVE  Group(X, f) \in SUBSET X /\ \A m \in Group(X, f) : m.first >= f
  BY DEF Group

\* From where a group starts to each of its matches, one match joins the next.
LEMMA GroupJoined ==
  ASSUME NEW X \in SUBSET Located, NEW f \in Firsts(X), NEW m \in Group(X, f),
         NEW p \in Int, f <= p, p < m.first
  PROVE  Joined(X, p)
<1> SUFFICES ASSUME ~Joined(X, p) PROVE FALSE
  OBVIOUS
<1>1. \A k \in X : k.first \in Nat \ {0} /\ k.last \in Nat /\ k.first <= k.last
  BY LocatedIs
<1>2. m \in X /\ f \in Nat \ {0} /\ p \in Nat
  <2>1. m \in X /\ f \in Nat \ {0}
    BY FirstsIs DEF Group
  <2>2. QED
    BY <2>1
<1> DEFINE H == {h \in {k.first : k \in X} : h > p}
<1>3. H \in SUBSET Nat /\ m.first \in H
  BY <1>1, <1>2
<1>4. PICK h \in H : \A y \in H : h <= y
  <2> HIDE DEF H
  <2>1. QED
    BY <1>3, Least
<1>5. ~Joined(X, h - 1)
  <2> SUFFICES ASSUME NEW k \in X, k.first <= h - 1, h - 1 < k.last PROVE FALSE
    BY DEF Joined
  <2>1. k.first \notin H
    <3>1. k.first \in Nat /\ h \in Nat
      BY <1>1, <1>3, <1>4
    <3>2. QED
      BY <1>4, <3>1
  <2>2. k.first <= p /\ p < k.last
    <3>1. k.first \in Nat /\ k.last \in Nat /\ h \in Nat /\ h > p
      BY <1>1, <1>3, <1>4
    <3>2. QED
      BY <1>2, <2>1, <3>1
  <2>3. QED
    BY <2>2 DEF Joined
<1>6. h \in Firsts(X) /\ f < h /\ h <= m.first
  <2>1. h \in Firsts(X)
    BY <1>4, <1>5 DEF Firsts
  <2>2. h <= m.first
    BY <1>3, <1>4
  <2>3. h > p /\ h \in Nat
    BY <1>3, <1>4
  <2>4. QED
    BY <1>2, <2>1, <2>2, <2>3
<1>7. QED
  BY <1>6 DEF Group

\* However it is merged, a group becomes a match in one place, of one priority.
LEMMA MergedAlike ==
  ASSUME NEW X \in SUBSET Located, NEW f, NEW r \in Located, NEW s \in Located,
         Merged(r, X, f), Merged(s, X, f)
  PROVE  r.first = s.first /\ r.last = s.last /\ r.rule.priority = s.rule.priority
<1>1. r.first = f /\ s.first = f
  BY DEF Merged
<1> DEFINE U == Group(X, f)
<1>2. \A m \in U : m.last \in Nat /\ m.rule \in Rules
  BY LocatedIs DEF Group
<1>3. r.last = s.last
  <2>1. PICK m \in U : r.last = m.last
    BY DEF Merged
  <2>2. PICK k \in U : s.last = k.last
    BY DEF Merged
  <2>3. m.last <= s.last /\ k.last <= r.last
    BY DEF Merged
  <2>4. m.last \in Nat /\ k.last \in Nat
    BY <1>2
  <2>5. QED
    BY <2>1, <2>2, <2>3, <2>4
<1>4. r.rule.priority = s.rule.priority
  <2>1. PICK m \in U : r.rule = m.rule
    BY DEF Merged
  <2>2. PICK k \in U : s.rule = k.rule
    BY DEF Merged
  <2>3. m.rule.priority <= s.rule.priority /\ k.rule.priority <= r.rule.priority
    BY DEF Merged
  <2>4. m.rule \in Rules /\ k.rule \in Rules
    BY <1>2
  <2>5. \A q \in Rules : q.priority \in Nat
    BY RuleAssumption
  <2>6. QED
    BY <2>1, <2>2, <2>3, <2>4, <2>5
<1>5. QED
  BY <1>1, <1>3, <1>4

\* If ties agree, it becomes one match.
LEMMA MergedOnce ==
  ASSUME NEW X \in SUBSET Located, Tied(X), NEW f \in Firsts(X), NEW r \in Located, NEW s \in Located,
         Merged(r, X, f), Merged(s, X, f)
  PROVE  r = s
<1>1. r.first = s.first /\ r.last = s.last /\ r.rule.priority = s.rule.priority
  BY MergedAlike
<1>2. ASSUME NEW m \in Group(X, f), NEW k \in Group(X, f), m.first <= k.first, m.rule.priority = k.rule.priority
      PROVE  m.rule = k.rule
  <2>1. m \in X /\ k \in X /\ f <= m.first
    BY DEF Group
  <2>2. ASSUME NEW p \in m.first .. k.first - 1 PROVE Joined(X, p)
    <3>1. m.first \in Nat /\ k.first \in Nat /\ f \in Nat
      BY <2>1, LocatedIs, FirstsIs
    <3>2. p \in Int /\ f <= p /\ p < k.first
      BY <2>1, <3>1
    <3>3. QED
      BY <3>2, GroupJoined
  <2>3. QED
    BY <1>2, <2>1, <2>2 DEF Tied
<1>3. PICK m \in Group(X, f) : r.rule = m.rule
  BY DEF Merged
<1>4. PICK k \in Group(X, f) : s.rule = k.rule
  BY DEF Merged
<1>5. m.first \in Nat /\ k.first \in Nat
  BY LocatedIs DEF Group
<1>6. m.first <= k.first \/ k.first <= m.first
  BY <1>5
<1>7. r.rule = s.rule
  BY <1>1, <1>2, <1>3, <1>4, <1>6
<1>8. QED
  BY <1>1, <1>7, LocatedSame

LEMMA MergingOnce ==
  ASSUME NEW X \in SUBSET Located, NEW Y, NEW Z, Merging(Y, X), Merging(Z, X)
  PROVE  /\ Alike(Y, Z)
         /\ Tied(X) => Y = Z
<1>1. ASSUME NEW A, NEW B, Merging(A, X), Merging(B, X), NEW r \in A
      PROVE  \E q \in B : r.first = q.first /\ r.last = q.last /\ r.rule.priority = q.rule.priority /\ (Tied(X) => r = q)
  <2>1. r \in Located /\ r.first \in Firsts(X) /\ Merged(r, X, r.first)
    BY <1>1 DEF Merging
  <2>2. PICK q \in B : q.first = r.first
    BY <1>1, <2>1 DEF Merging
  <2>3. q \in Located /\ Merged(q, X, r.first)
    BY <1>1, <2>2 DEF Merging
  <2>4. r.last = q.last /\ r.rule.priority = q.rule.priority
    BY <2>1, <2>3, MergedAlike
  <2>5. Tied(X) => r = q
    BY <2>1, <2>3, MergedOnce
  <2>6. QED
    BY <2>2, <2>4, <2>5
<1>2. Alike(Y, Z)
  BY <1>1 DEF Alike
<1>3. ASSUME Tied(X) PROVE Y \subseteq Z /\ Z \subseteq Y
  <2>1. ASSUME NEW r \in Y PROVE r \in Z
    BY <1>1, <1>3
  <2>2. ASSUME NEW r \in Z PROVE r \in Y
    BY <1>1, <1>3
  <2>3. QED
    BY <2>1, <2>2
<1>4. QED
  BY <1>2, <1>3

\* Merge in terms of what becomes of each group.
LEMMA MergeIs ==
  ASSUME NEW n \in Nat, NEW X \in SUBSET Located, \A m \in X : m.last <= n
  PROVE  /\ Merge(X) \in SUBSET Located
         /\ \A r \in Located : r \in Merge(X) => r.first \in Firsts(X) /\ Merged(r, X, r.first)
         /\ \A f \in Firsts(X) : \E r \in Merge(X) : r.first = f
         /\ \A r, s \in Merge(X) : r.first = s.first => r = s
<1> DEFINE leading(u) == CHOOSE m \in u : \A k \in u :
                           \/ m.rule.priority > k.rule.priority
                           \/ m.rule.priority = k.rule.priority /\ m.first <= k.first
           lasts(f) == {m.last : m \in Group(X, f)}
           R(f) == [rule |-> leading(Group(X, f)).rule, first |-> f, last |-> LargestOf(lasts(f))]
<1>1. Merge(X) = {R(f) : f \in Firsts(X)}
  <2>1. Firsts(X) = {m.first : m \in {k \in X : ~\E l \in X : l.first < k.first /\ k.first <= l.last}}
    BY FirstsIs
  <2>2. QED
    BY <2>1 DEF Merge, Group
<1>2. Firsts(X) \in SUBSET (Nat \ {0})
  BY FirstsIs
<1>3. ASSUME NEW f \in Firsts(X)
      PROVE  R(f) \in Located /\ Merged(R(f), X, f)
  <2> DEFINE U == Group(X, f)
  <2>1. U \in SUBSET Located /\ \A m \in U : m.last \in 0..n /\ m.first >= f /\ m.first <= m.last
                            /\ m.first \in Nat /\ m.last \in Nat /\ m.rule \in Rules
    BY LocatedIs DEF Group
  <2>2. U # {}
    <3>1. PICK m \in X : m.first = f
      BY DEF Firsts
    <3>2. m \in U
      <4>1. \A g \in Firsts(X) : ~(f < g /\ g <= m.first)
        BY <1>2, <3>1
      <4>2. m.first >= f
        BY <1>2, <3>1
      <4>3. QED
        BY <4>1, <4>2 DEF Group
    <3>3. QED
      BY <3>2
  <2> DEFINE L == {m.last : m \in U}
  <2>3. LargestOf(L) \in L /\ \A y \in L : y <= LargestOf(L)
    <3>1. L \in SUBSET (0..n) /\ L # {}
      BY <2>1, <2>2
    <3> HIDE DEF L
    <3>2. QED
      BY <3>1, GreatestUpTo
  <2>4. /\ leading(U) \in U
        /\ \A k \in U : \/ leading(U).rule.priority > k.rule.priority
                        \/ leading(U).rule.priority = k.rule.priority /\ leading(U).first <= k.first
    <3> HIDE DEF U
    <3>1. QED
      BY <2>1, <2>2, LeadingExists
  <2>5. R(f) = [rule |-> leading(U).rule, first |-> f, last |-> LargestOf(L)]
    OBVIOUS
  <2> HIDE DEF leading, R
  <2>6. \E m \in U : LargestOf(L) = m.last
    BY <2>3
  <2>7. \A m \in U : m.last <= LargestOf(L)
    BY <2>3
  <2>8. \A r \in Rules : r.priority \in Nat
    BY RuleAssumption
  <2>9. \A m \in U : m.rule.priority <= leading(U).rule.priority
    <3> HIDE DEF U
    <3>1. QED
      BY <2>1, <2>4, <2>8
  <2> HIDE DEF U, L
  <2>10. R(f) \in Located
    <3>1. f \in Nat \ {0} /\ leading(U).rule \in Rules
      BY <1>2, <2>1, <2>4
    <3>2. LargestOf(L) \in Nat /\ f <= LargestOf(L)
      BY <2>1, <2>6, <3>1
    <3>3. QED
      BY <2>5, <3>1, <3>2, LocatedMake
  <2>11. Merged(R(f), X, f)
    <3>1. R(f).first = f /\ R(f).last = LargestOf(L) /\ R(f).rule = leading(U).rule
      BY <2>5
    <3>2. QED
      BY <2>4, <2>6, <2>7, <2>9, <2>10, <3>1 DEF Merged, U
  <2>12. QED
    BY <2>10, <2>11
<1>4. \A f : R(f).first = f
  OBVIOUS
<1> HIDE DEF R
<1>5. Merge(X) \in SUBSET Located
  BY <1>1, <1>3
<1>6. \A r \in Located : r \in Merge(X) => r.first \in Firsts(X) /\ Merged(r, X, r.first)
  BY <1>1, <1>3, <1>4
<1>7. \A r, s \in Merge(X) : r.first = s.first => r = s
  BY <1>1, <1>4
<1>8. QED
  BY <1>1, <1>4, <1>5, <1>6, <1>7

LEMMA MergeMerges ==
  ASSUME NEW n \in Nat, NEW X \in SUBSET Located, \A m \in X : m.last <= n
  PROVE  Merging(Merge(X), X)
<1>1. /\ Merge(X) \in SUBSET Located
      /\ \A r \in Located : r \in Merge(X) => r.first \in Firsts(X) /\ Merged(r, X, r.first)
      /\ \A f \in Firsts(X) : \E r \in Merge(X) : r.first = f
  BY MergeIs
<1>2. QED
  BY <1>1 DEF Merging

\* With fewer matches, fewer are merged.
LEMMA TiedIn ==
  ASSUME NEW X \in SUBSET Located, NEW Y \in SUBSET X, Tied(X)
  PROVE  Tied(Y)
<1>1. \A p : Joined(Y, p) => Joined(X, p)
  BY DEF Joined
<1> HIDE DEF Joined
<1>2. ASSUME NEW m \in Y, NEW k \in Y, m.first <= k.first, m.rule.priority = k.rule.priority,
             \A p \in m.first .. k.first - 1 : Joined(Y, p)
      PROVE  m.rule = k.rule
  <2>1. m \in X /\ k \in X /\ \A p \in m.first .. k.first - 1 : Joined(X, p)
    BY <1>1, <1>2
  <2>2. QED
    BY <1>2, <2>1 DEF Tied
<1>3. QED
  BY <1>2 DEF Tied

\* Merged matches are told apart by where they start.
LEMMA MergeUnique ==
  ASSUME NEW n \in Nat, NEW X \in SUBSET Located, \A m \in X : m.last <= n,
         NEW r \in Merge(X), NEW s \in Merge(X), r.first = s.first
  PROVE  r = s
  BY MergeIs

\* Matches on both sides of a point are merged apart.
LEMMA MergeSplit ==
  ASSUME NEW n \in Nat, NEW c \in Nat, NEW Y \in SUBSET Located, NEW Z \in SUBSET Located,
         \A m \in Y \cup Z : m.last <= n,
         \A m \in Y : m.last <= c, \A m \in Z : m.first > c, Tied(Y \cup Z)
  PROVE  Merge(Y \cup Z) = Merge(Y) \cup Merge(Z)
<1> DEFINE X == Y \cup Z
<1>1. \A m \in X : m.first \in Nat \ {0} /\ m.last \in Nat /\ m.first <= m.last
  BY LocatedIs
<1>2. \A m \in Y : ~Joined(Z, m.first - 1)
  BY <1>1 DEF Joined
<1>3. \A m \in Z : ~Joined(Y, m.first - 1)
  BY <1>1 DEF Joined
<1>4. \A p : Joined(X, p) <=> Joined(Y, p) \/ Joined(Z, p)
  BY DEF Joined
<1>5. Firsts(X) = Firsts(Y) \cup Firsts(Z)
  <2> HIDE DEF Joined
  <2>1. QED
    BY <1>2, <1>3, <1>4 DEF Firsts
<1>6. \A f \in Firsts(Y) : f <= c /\ f \in Nat
  BY <1>1 DEF Firsts
<1>7. \A f \in Firsts(Z) : f > c /\ f \in Nat
  BY <1>1 DEF Firsts
<1>8. ASSUME NEW m \in Z PROVE \E g \in Firsts(Z) : g <= m.first
  <2> DEFINE F == {k.first : k \in Z}
  <2>1. F \in SUBSET Nat /\ F # {}
    BY <1>1
  <2>2. PICK g \in F : \A y \in F : g <= y
    <3> HIDE DEF F
    <3>1. QED
      BY <2>1, Least
  <2>3. ~Joined(Z, g - 1)
    <3> SUFFICES ASSUME NEW k \in Z, k.first <= g - 1 PROVE FALSE
      BY DEF Joined
    <3>1. g <= k.first
      BY <2>2
    <3>2. g \in Nat /\ k.first \in Nat
      BY <2>1, <2>2
    <3>3. QED
      BY <3>1, <3>2
  <2>4. g \in Firsts(Z) /\ g <= m.first
    BY <2>2, <2>3 DEF Firsts
  <2>5. QED
    BY <2>4
<1>9. ASSUME NEW f \in Firsts(Y) PROVE Group(X, f) = Group(Y, f)
  <2>1. ASSUME NEW m \in Z PROVE m \notin Group(X, f)
    <3>1. PICK g \in Firsts(Z) : g <= m.first
      BY <1>8
    <3>2. f < g /\ g \in Firsts(X)
      <4>1. f <= c /\ f \in Nat /\ g > c /\ g \in Nat
        BY <1>6, <1>7
      <4>2. f < g
        BY <4>1
      <4>3. QED
        BY <1>5, <4>2
    <3>3. QED
      BY <3>1, <3>2 DEF Group
  <2>2. ASSUME NEW m \in Y PROVE m \in Group(X, f) <=> m \in Group(Y, f)
    <3>1. \A g \in Firsts(Z) : ~(g <= m.first)
      BY <1>1, <1>7
    <3>2. QED
      BY <1>5, <3>1 DEF Group
  <2>3. QED
    BY <2>1, <2>2 DEF Group
<1>10. ASSUME NEW f \in Firsts(Z) PROVE Group(X, f) = Group(Z, f)
  <2>1. ASSUME NEW m \in Y PROVE m \notin Group(X, f)
    BY <1>1, <1>7 DEF Group
  <2>2. ASSUME NEW m \in Z PROVE m \in Group(X, f) <=> m \in Group(Z, f)
    <3>1. \A g \in Firsts(Y) : ~(f < g)
      BY <1>6, <1>7
    <3>2. QED
      BY <1>5, <3>1 DEF Group
  <2>3. QED
    BY <2>1, <2>2 DEF Group
<1>11. \A r : \A f \in Firsts(Y) : Merged(r, X, f) <=> Merged(r, Y, f)
  BY <1>9 DEF Merged
<1>12. \A r : \A f \in Firsts(Z) : Merged(r, X, f) <=> Merged(r, Z, f)
  BY <1>10 DEF Merged
<1>13. X \in SUBSET Located /\ (\A m \in X : m.last <= n) /\ (\A m \in Y : m.last <= n) /\ (\A m \in Z : m.last <= n)
  OBVIOUS
<1>14. Tied(X)
  OBVIOUS
<1> HIDE DEF X
<1>15. Merging(Merge(X), X) /\ Merging(Merge(Y), Y) /\ Merging(Merge(Z), Z)
  BY <1>13, MergeMerges
<1>16. Merging(Merge(Y) \cup Merge(Z), X)
  <2>1. ASSUME NEW r \in Merge(Y) \cup Merge(Z)
        PROVE  r \in Located /\ r.first \in Firsts(X) /\ Merged(r, X, r.first)
    <3>1. CASE r \in Merge(Y)
      BY <1>5, <1>11, <1>15, <3>1 DEF Merging
    <3>2. CASE r \in Merge(Z)
      BY <1>5, <1>12, <1>15, <3>2 DEF Merging
    <3>3. QED
      BY <3>1, <3>2
  <2>2. \A f \in Firsts(X) : \E r \in Merge(Y) \cup Merge(Z) : r.first = f
    BY <1>5, <1>15 DEF Merging
  <2>3. QED
    BY <2>1, <2>2 DEF Merging
<1>17. Merge(X) = Merge(Y) \cup Merge(Z)
  BY <1>13, <1>14, <1>15, <1>16, MergingOnce
<1>18. QED
  BY <1>17 DEF X

\* Merging does not leave the range its matches lie in.
LEMMA MergeBounds ==
  ASSUME NEW n \in Nat, NEW X \in SUBSET Located, \A m \in X : m.last <= n, NEW r \in Merge(X)
  PROVE  /\ r \in Located /\ r.last <= n
         /\ \E m \in X : m.first = r.first
         /\ \E m \in X : m.rule = r.rule
         /\ \E m \in X : m.last = r.last
         /\ \A p \in r.first..r.last : \E m \in X : p \in m.first..m.last
<1>1. r \in Located /\ r.first \in Firsts(X) /\ Merged(r, X, r.first)
  BY MergeIs
<1>2. PICK m \in Group(X, r.first) : r.last = m.last
  BY <1>1 DEF Merged
<1>3. PICK k \in Group(X, r.first) : r.rule = k.rule
  BY <1>1 DEF Merged
<1>4. m \in X /\ k \in X
  BY <1>2, <1>3 DEF Group
<1>5. \E l \in X : l.first = r.first
  BY <1>1 DEF Firsts
<1>6. ASSUME NEW p \in r.first..r.last PROVE \E l \in X : p \in l.first..l.last
  <2>1. CASE p >= m.first
    <3>1. p \in m.first..m.last
      BY <1>1, <1>2, <1>4, <2>1, LocatedIs
    <3>2. QED
      BY <1>4, <3>1
  <2>2. CASE p < m.first
    <3>1. Joined(X, p)
      BY <1>1, <1>2, <1>4, <2>2, GroupJoined
    <3>2. PICK l \in X : l.first <= p /\ p < l.last
      BY <3>1 DEF Joined
    <3>3. p \in l.first..l.last
      <4>1. l.first \in Nat /\ l.last \in Nat /\ p \in Int
        BY LocatedIs
      <4>2. QED
        BY <3>2, <4>1
    <3>4. QED
      BY <3>3
  <2>3. QED
    <3>1. p \in Int /\ m.first \in Int
      BY <1>4, LocatedIs
    <3>2. QED
      BY <2>1, <2>2, <3>1
<1>7. QED
  BY <1>1, <1>2, <1>3, <1>4, <1>5, <1>6

\* Merging does not depend on where in a text the matches lie.
LEMMA MergeShifted ==
  ASSUME NEW n \in Nat, NEW d \in Nat, NEW X \in SUBSET Located, \A m \in X : m.last <= n
  PROVE  /\ Merging(Shifted(Merge(X), d), Shifted(X, d))
         /\ Tied(Shifted(X, d)) => Merge(Shifted(X, d)) = Shifted(Merge(X), d)
<1> DEFINE Y == Shifted(X, d)
           Sh(m, k) == m.rule = k.rule /\ m.first = k.first + d /\ m.last = k.last + d
<1>1. Y \in SUBSET Located /\ \A m \in Located : m \in Y <=> \E k \in X : Sh(m, k)
  BY ShiftedIs
<1>2. \A k \in X : \E m \in Y : Sh(m, k)
  BY Unshift
<1>3. \A k \in X : k.first \in Nat \ {0} /\ k.last \in Nat
  BY LocatedIs
<1>4. \A m \in Y : m.last <= n + d /\ m.first \in Nat /\ m.last \in Nat
  BY <1>1, <1>3, LocatedIs
<1> HIDE DEF Y
<1>5. ASSUME NEW p \in Int PROVE Joined(Y, p + d) <=> Joined(X, p)
  <2>1. ASSUME NEW m \in Y, NEW k \in X, Sh(m, k)
        PROVE  m.first <= p + d /\ p + d < m.last <=> k.first <= p /\ p < k.last
    <3>1. k.first \in Int /\ k.last \in Int
      BY <1>3
    <3>2. QED
      BY <2>1, <3>1
  <2> HIDE DEF Sh
  <2>2. \A m \in Y : \E k \in X : Sh(m, k)
    BY <1>1
  <2>3. QED
    BY <1>2, <2>1, <2>2 DEF Joined
<1>6. ASSUME NEW f \in Nat PROVE f + d \in Firsts(Y) <=> f \in Firsts(X)
  <2>1. Joined(Y, (f + d) - 1) <=> Joined(X, f - 1)
    <3>1. (f + d) - 1 = (f - 1) + d /\ f - 1 \in Int
      OBVIOUS
    <3>2. QED
      BY <1>5, <3>1
  <2>2. (\E m \in Y : m.first = f + d) <=> \E k \in X : k.first = f
    <3>1. ASSUME NEW m \in Y, NEW k \in X, Sh(m, k)
          PROVE  m.first = f + d <=> k.first = f
      BY <1>3, <3>1
    <3> HIDE DEF Sh
    <3>2. QED
      BY <1>1, <1>2, <3>1
  <2> HIDE DEF Joined
  <2>3. QED
    BY <2>1, <2>2 DEF Firsts
<1>7. \A g \in Firsts(Y) : g - d \in Firsts(X) /\ g = (g - d) + d
  <2> SUFFICES ASSUME NEW g \in Firsts(Y) PROVE g - d \in Firsts(X) /\ g = (g - d) + d
    OBVIOUS
  <2>1. PICK m \in Y : m.first = g
    BY DEF Firsts
  <2>2. PICK k \in X : Sh(m, k)
    BY <1>1
  <2>3. k.first \in Nat /\ g = k.first + d
    BY <1>3, <2>1, <2>2
  <2>4. k.first \in Firsts(X) /\ g - d = k.first /\ g = (g - d) + d
    BY <1>6, <2>3
  <2>5. QED
    BY <2>4
<1>8. \A g \in Firsts(X) : g \in Nat
  BY FirstsIs
<1>9. ASSUME NEW f \in Nat, NEW m \in Y, NEW k \in X, Sh(m, k)
      PROVE  m \in Group(Y, f + d) <=> k \in Group(X, f)
  <2>1. m.first >= f + d <=> k.first >= f
    BY <1>3, <1>9
  <2>2. ASSUME NEW g \in Firsts(X), f < g, g <= k.first
        PROVE  \E h \in Firsts(Y) : f + d < h /\ h <= m.first
    <3>1. g \in Nat /\ k.first \in Nat /\ m.first = k.first + d
      BY <1>3, <1>8, <1>9
    <3>2. g + d \in Firsts(Y)
      BY <1>6, <3>1
    <3>3. f + d < g + d /\ g + d <= m.first
      BY <2>2, <3>1
    <3>4. QED
      BY <3>2, <3>3
  <2>3. ASSUME NEW h \in Firsts(Y), f + d < h, h <= m.first
        PROVE  \E g \in Firsts(X) : f < g /\ g <= k.first
    <3>1. h - d \in Firsts(X) /\ h = (h - d) + d
      BY <1>7
    <3>2. h - d \in Nat /\ k.first \in Nat /\ m.first = k.first + d
      BY <1>3, <1>8, <1>9, <3>1
    <3> DEFINE g == h - d
    <3>3. g \in Nat /\ h = g + d
      BY <3>1, <3>2
    <3> HIDE DEF g
    <3>4. f < g /\ g <= k.first
      BY <2>3, <3>2, <3>3
    <3>5. QED
      BY <3>1, <3>4 DEF g
  <2>4. QED
    BY <2>1, <2>2, <2>3 DEF Group
<1>10. ASSUME NEW f \in Nat, NEW r \in Located, NEW s \in Located, Sh(s, r)
       PROVE  Merged(s, Y, f + d) <=> Merged(r, X, f)
  <2>1. s.first = f + d <=> r.first = f
    BY <1>10, LocatedIs
  <2>2. ASSUME NEW m \in Y, NEW k \in X, Sh(m, k)
        PROVE  /\ s.last = m.last <=> r.last = k.last
               /\ s.rule = m.rule <=> r.rule = k.rule
               /\ m.last <= s.last <=> k.last <= r.last
               /\ m.rule.priority <= s.rule.priority <=> k.rule.priority <= r.rule.priority
    <3>1. r.last \in Int /\ k.last \in Int /\ s.last = r.last + d /\ m.last = k.last + d
      BY <1>3, <1>10, <2>2, LocatedIs
    <3>2. s.rule = r.rule /\ m.rule = k.rule
      BY <1>10, <2>2
    <3>3. QED
      BY <3>1, <3>2
  <2> HIDE DEF Sh
  <2>3. \A m \in Group(Y, f + d) : m \in Y /\ \E k \in X : Sh(m, k)
    BY <1>1 DEF Group
  <2>4. \A k \in Group(X, f) : k \in X /\ \E m \in Y : Sh(m, k)
    BY <1>2 DEF Group
  <2>5. \A m \in Group(Y, f + d) : \E k \in Group(X, f) : k \in X /\ m \in Y /\ Sh(m, k)
    BY <1>9, <2>3
  <2>6. \A k \in Group(X, f) : \E m \in Group(Y, f + d) : k \in X /\ m \in Y /\ Sh(m, k)
    BY <1>9, <2>4
  <2>7. QED
    BY <2>1, <2>2, <2>5, <2>6 DEF Merged
<1>11. n + d \in Nat
  OBVIOUS
<1>12. Merging(Merge(Y), Y) /\ Merging(Merge(X), X)
  BY <1>1, <1>4, <1>11, MergeMerges
<1>13. Merge(X) \in SUBSET Located
  BY <1>12 DEF Merging
<1>14. /\ Shifted(Merge(X), d) \in SUBSET Located
       /\ \A s \in Located : s \in Shifted(Merge(X), d) <=> \E r \in Merge(X) : Sh(s, r)
  BY <1>13, ShiftedIs
<1>15. \A r \in Merge(X) : \E s \in Shifted(Merge(X), d) : Sh(s, r)
  BY <1>13, Unshift
<1>16. ASSUME NEW s \in Shifted(Merge(X), d)
       PROVE  s.first \in Firsts(Y) /\ Merged(s, Y, s.first)
  <2>1. PICK r \in Merge(X) : Sh(s, r)
    BY <1>14
  <2>2. s \in Located /\ r \in Located /\ r.first \in Firsts(X) /\ Merged(r, X, r.first)
    BY <1>12, <1>14 DEF Merging
  <2>3. r.first \in Nat /\ s.first = r.first + d
    BY <2>1, <2>2, LocatedIs
  <2>4. s.first \in Firsts(Y)
    BY <1>6, <2>2, <2>3
  <2>5. Merged(s, Y, s.first)
    BY <1>10, <2>1, <2>2, <2>3
  <2>6. QED
    BY <2>4, <2>5
<1>17. ASSUME NEW g \in Firsts(Y) PROVE \E s \in Shifted(Merge(X), d) : s.first = g
  <2>1. g - d \in Firsts(X) /\ g = (g - d) + d
    BY <1>7
  <2>2. PICK r \in Merge(X) : r.first = g - d
    BY <1>12, <2>1 DEF Merging
  <2>3. QED
    BY <1>15, <2>1, <2>2
<1> HIDE DEF Sh
<1>18. Merging(Shifted(Merge(X), d), Y)
  BY <1>14, <1>16, <1>17 DEF Merging
<1>19. QED
  BY <1>1, <1>12, <1>18, MergingOnce DEF Y

\* X was merged in parts, which lie in X and leave no match of it out; Y holds
\* what became of the parts.
MergedInParts(X, Y) ==
  /\ \A u \in Y : \E W \in SUBSET X : u.first \in Firsts(W) /\ Merged(u, W, u.first)
  /\ \A m \in X : \E u \in Y, W \in SUBSET X :
       u.first \in Firsts(W) /\ Merged(u, W, u.first) /\ m \in Group(W, u.first)

\* It does not matter that matches were merged before.
LEMMA MergeTwice ==
  ASSUME NEW n \in Nat, NEW X \in SUBSET Located, NEW Y \in SUBSET Located,
         \A m \in X : m.last <= n, \A u \in Y : u.last <= n, MergedInParts(X, Y)
  PROVE  Merging(Merge(Y), X)
<1>1. \A m \in Located : m.first \in Nat \ {0} /\ m.last \in Nat /\ m.first <= m.last
  BY LocatedIs
<1>2. ASSUME NEW W \in SUBSET X, NEW p, Joined(W, p) PROVE Joined(X, p)
  BY <1>2 DEF Joined
<1>3. ASSUME NEW p \in Int, Joined(Y, p) PROVE Joined(X, p)
  <2>1. PICK u \in Y : u.first <= p /\ p < u.last
    BY <1>3 DEF Joined
  <2>2. PICK W \in SUBSET X : u.first \in Firsts(W) /\ Merged(u, W, u.first)
    BY DEF MergedInParts
  <2>3. PICK m \in Group(W, u.first) : u.last = m.last
    BY <2>2 DEF Merged
  <2>4. m \in W /\ m \in Located
    BY <2>3 DEF Group
  <2>5. CASE p < m.first
    <3>1. W \in SUBSET Located
      OBVIOUS
    <3>2. Joined(W, p)
      BY <2>1, <2>2, <2>5, <3>1, GroupJoined
    <3>3. QED
      BY <1>2, <3>2
  <2>6. CASE p >= m.first
    BY <2>1, <2>3, <2>4, <2>6 DEF Joined
  <2>7. QED
    BY <1>1, <2>4, <2>5, <2>6
<1>4. ASSUME NEW p \in Int, Joined(X, p) PROVE Joined(Y, p)
  <2>1. PICK m \in X : m.first <= p /\ p < m.last
    BY <1>4 DEF Joined
  <2>2. PICK u \in Y, W \in SUBSET X :
          u.first \in Firsts(W) /\ Merged(u, W, u.first) /\ m \in Group(W, u.first)
    BY DEF MergedInParts
  <2>3. u.first <= m.first /\ m.last <= u.last
    BY <1>1, <2>2 DEF Merged, Group
  <2>4. u.first <= p /\ p < u.last
    BY <1>1, <2>1, <2>3
  <2>5. QED
    BY <2>4 DEF Joined
<1>5. Firsts(Y) = Firsts(X)
  <2>1. ASSUME NEW f \in Firsts(Y) PROVE f \in Firsts(X)
    <3>1. PICK u \in Y : u.first = f
      BY DEF Firsts
    <3>2. PICK W \in SUBSET X : u.first \in Firsts(W)
      BY DEF MergedInParts
    <3>3. \E m \in X : m.first = f
      BY <3>1, <3>2 DEF Firsts
    <3>4. ~Joined(Y, f - 1) /\ f - 1 \in Int
      BY <1>1, <3>1 DEF Firsts
    <3>5. ~Joined(X, f - 1)
      BY <1>4, <3>4
    <3>6. QED
      BY <3>3, <3>5 DEF Firsts
  <2>2. ASSUME NEW f \in Firsts(X) PROVE f \in Firsts(Y)
    <3>1. PICK m \in X : m.first = f
      BY DEF Firsts
    <3>2. PICK u \in Y, W \in SUBSET X :
            u.first \in Firsts(W) /\ Merged(u, W, u.first) /\ m \in Group(W, u.first)
      BY DEF MergedInParts
    <3>3. f \in Nat /\ u.first \in Nat /\ u.first <= f
      BY <1>1, <3>1, <3>2 DEF Group
    <3>4. ~Joined(X, f - 1)
      BY DEF Firsts
    <3>5. ~(u.first < f)
      <4> SUFFICES ASSUME u.first < f PROVE FALSE
        OBVIOUS
      <4>1. f - 1 \in Int /\ u.first <= f - 1 /\ f - 1 < m.first /\ W \in SUBSET Located
        BY <3>1, <3>3
      <4>2. Joined(W, f - 1)
        BY <3>2, <4>1, GroupJoined
      <4>3. QED
        BY <1>2, <3>4, <4>2
    <3>6. u.first = f
      BY <3>3, <3>5
    <3>7. ~Joined(Y, f - 1)
      <4>1. f - 1 \in Int
        BY <3>3
      <4>2. QED
        BY <1>3, <3>4, <4>1
    <3>8. QED
      BY <3>6, <3>7 DEF Firsts
  <2>3. QED
    BY <2>1, <2>2
<1>6. \A g \in Firsts(X) : g \in Nat /\ ~Joined(X, g - 1)
  BY FirstsIs DEF Firsts
<1>7. ASSUME NEW f \in Firsts(X), NEW u \in Group(Y, f), NEW W \in SUBSET X,
             u.first \in Firsts(W), NEW m \in Group(W, u.first)
      PROVE  m \in Group(X, f)
  <2>1. u \in Y /\ m \in X /\ m.first >= u.first /\ u.first >= f
    BY DEF Group
  <2>2. m.first \in Nat /\ u.first \in Nat /\ f \in Nat
    BY <1>1, <1>6, <2>1
  <2>3. ASSUME NEW g \in Firsts(X), f < g, g <= m.first PROVE FALSE
    <3>1. ~(g <= u.first)
      BY <1>5, <2>3 DEF Group
    <3>2. g - 1 \in Int /\ u.first <= g - 1 /\ g - 1 < m.first /\ W \in SUBSET Located
      BY <1>6, <2>2, <2>3, <3>1
    <3>3. Joined(W, g - 1)
      BY <1>7, <3>2, GroupJoined
    <3>4. QED
      BY <1>2, <1>6, <3>3
  <2>4. m.first >= f
    BY <2>1, <2>2
  <2>5. QED
    BY <2>1, <2>3, <2>4 DEF Group
<1>8. ASSUME NEW f \in Firsts(X), NEW m \in Group(X, f), NEW u \in Y, NEW W \in SUBSET X,
             u.first \in Firsts(W), m \in Group(W, u.first)
      PROVE  u \in Group(Y, f)
  <2>1. m.first >= u.first /\ m.first >= f /\ m \in X
    BY <1>8 DEF Group
  <2>2. m.first \in Nat /\ u.first \in Nat /\ f \in Nat
    BY <1>1, <1>6, <2>1
  <2>3. u.first >= f
    <3> SUFFICES ASSUME u.first < f PROVE FALSE
      BY <2>2
    <3>1. f - 1 \in Int /\ u.first <= f - 1 /\ f - 1 < m.first /\ W \in SUBSET Located
      BY <2>1, <2>2
    <3>2. Joined(W, f - 1)
      BY <1>8, <3>1, GroupJoined
    <3>3. QED
      BY <1>2, <1>6, <3>2
  <2>4. ASSUME NEW g \in Firsts(Y), f < g, g <= u.first PROVE FALSE
    <3>1. g \in Firsts(X) /\ g \in Nat
      BY <1>5, <1>6
    <3>2. g <= m.first
      BY <2>1, <2>2, <2>4, <3>1
    <3>3. QED
      BY <2>4, <3>1, <3>2 DEF Group
  <2>5. QED
    BY <2>3, <2>4 DEF Group
<1>9. ASSUME NEW f \in Firsts(X), NEW r \in Located, Merged(r, Y, f)
      PROVE  Merged(r, X, f)
  <2>1. \E m \in Group(X, f) : r.last = m.last
    <3>1. PICK u \in Group(Y, f) : r.last = u.last
      BY <1>9 DEF Merged
    <3>2. PICK W \in SUBSET X : u.first \in Firsts(W) /\ Merged(u, W, u.first)
      BY <3>1 DEF MergedInParts, Group
    <3>3. PICK m \in Group(W, u.first) : u.last = m.last
      BY <3>2 DEF Merged
    <3>4. QED
      BY <1>7, <3>1, <3>2, <3>3
  <2>2. \E m \in Group(X, f) : r.rule = m.rule
    <3>1. PICK u \in Group(Y, f) : r.rule = u.rule
      BY <1>9 DEF Merged
    <3>2. PICK W \in SUBSET X : u.first \in Firsts(W) /\ Merged(u, W, u.first)
      BY <3>1 DEF MergedInParts, Group
    <3>3. PICK m \in Group(W, u.first) : u.rule = m.rule
      BY <3>2 DEF Merged
    <3>4. QED
      BY <1>7, <3>1, <3>2, <3>3
  <2>3. ASSUME NEW m \in Group(X, f)
        PROVE  m.last <= r.last /\ m.rule.priority <= r.rule.priority
    <3>1. m \in X
      BY DEF Group
    <3>2. PICK u \in Y, W \in SUBSET X :
            u.first \in Firsts(W) /\ Merged(u, W, u.first) /\ m \in Group(W, u.first)
      BY <3>1 DEF MergedInParts
    <3>3. u \in Group(Y, f)
      BY <1>8, <3>2
    <3>4. m.last <= u.last /\ m.rule.priority <= u.rule.priority
      BY <3>2 DEF Merged
    <3>5. u.last <= r.last /\ u.rule.priority <= r.rule.priority
      BY <1>9, <3>3 DEF Merged
    <3>6. m.last \in Nat /\ u.last \in Nat /\ r.last \in Nat
      BY <1>1, <3>1
    <3>7. m.rule.priority \in Nat /\ u.rule.priority \in Nat /\ r.rule.priority \in Nat
      <4>1. m.rule \in Rules /\ u.rule \in Rules /\ r.rule \in Rules
        BY <3>1, LocatedIs
      <4>2. QED
        BY <4>1, RuleFacts
    <3>8. QED
      BY <3>4, <3>5, <3>6, <3>7
  <2>4. r.first = f
    BY <1>9 DEF Merged
  <2>5. QED
    BY <2>1, <2>2, <2>3, <2>4 DEF Merged
<1>10. Merging(Merge(Y), Y)
  BY MergeMerges
<1>11. \A r \in Merge(Y) : r \in Located /\ r.first \in Firsts(X) /\ Merged(r, X, r.first)
  BY <1>5, <1>9, <1>10 DEF Merging
<1>12. \A f \in Firsts(X) : \E r \in Merge(Y) : r.first = f
  BY <1>5, <1>10 DEF Merging
<1>13. QED
  BY <1>11, <1>12 DEF Merging

LEMMA PartOfSlice ==
  ASSUME NEW C, NEW s \in Seq(C), NEW w \in Seq(C), NEW c \in Nat, NEW n \in Nat, c <= n, n <= Len(s), NEW i \in Nat
  PROVE  Part(w, SubSeq(s, c + 1, n), i) <=> Part(w, s, c + i) /\ c + i + Len(w) <= n
<1> DEFINE t == SubSeq(s, c + 1, n)
<1>1. t \in Seq(C) /\ Len(t) = n - c /\ \A k \in 1..(n-c) : t[k] = s[c+k]
  BY Slice
<1>2. Len(w) \in Nat /\ Len(s) \in Nat
  BY LenProperties
<1> HIDE DEF t
<1>3. i + Len(w) <= Len(t) <=> c + i + Len(w) <= n
  BY <1>1, <1>2
<1>4. c + i + Len(w) <= n => c + i + Len(w) <= Len(s)
  BY <1>2
<1>5. ASSUME i + Len(w) <= Len(t), NEW k \in 1..Len(w) PROVE t[i+k] = s[(c+i)+k]
  <2> DEFINE l == i + k
  <2>1. l \in 1..(n-c) /\ (c+i)+k = c + l
    BY <1>1, <1>2, <1>5
  <2> HIDE DEF l
  <2>2. t[l] = s[c+l]
    BY <1>1, <2>1
  <2>3. QED
    BY <2>1, <2>2 DEF l
<1>6. QED
  BY <1>3, <1>4, <1>5 DEF t, Part

\* What is found in a slice is what is found in the whole and lies in the slice.
LEMMA ScanOfSlice ==
  ASSUME NEW text \in Text, NEW c \in Nat, NEW n \in Nat, c <= n, n <= Len(text)
  PROVE  Shifted(Scan(SubSeq(text, c + 1, n)), c) =
           {m \in Scan(text) : m.first - Len(m.rule.context) > c /\ m.last <= n}
<1> DEFINE t == SubSeq(text, c + 1, n)
           W == {m \in Scan(text) : m.first - Len(m.rule.context) > c /\ m.last <= n}
           Sh(m, k) == m.rule = k.rule /\ m.first = k.first + c /\ m.last = k.last + c
<1>1. t \in Text
  BY Slice DEF Text
<1>2. /\ Scan(text) \in SUBSET Located /\ \A m \in Located : m \in Scan(text) <=> Seen(m, text)
      /\ Scan(t) \in SUBSET Located /\ \A m \in Located : m \in Scan(t) <=> Seen(m, t)
  BY <1>1, ScanIs
<1>3. /\ Shifted(Scan(t), c) \in SUBSET Located
      /\ \A m \in Located : m \in Shifted(Scan(t), c) <=> \E k \in Scan(t) : Sh(m, k)
  BY <1>2, ShiftedIs
<1>4. ASSUME NEW m \in Located, NEW k \in Located, Sh(m, k)
      PROVE  Seen(k, t) <=> Seen(m, text) /\ m.first - Len(m.rule.context) > c /\ m.last <= n
  <2> DEFINE w == m.rule.context \o m.rule.value
             a == Len(m.rule.context)
             b == Len(m.rule.value)
             f == m.first
             l == m.last
             g == k.first
             h == k.last
             i == g - a - 1
  <2>1. m.rule = k.rule /\ m.rule \in Rules
    BY <1>4, LocatedIs
  <2>2. f \in Nat /\ l \in Nat /\ g \in Nat \ {0} /\ h \in Nat /\ f = g + c /\ l = h + c
    BY <1>4, LocatedIs
  <2>3. a \in Nat /\ b \in Nat \ {0} /\ w \in Text /\ Len(w) = a + b
    BY <2>1, RuleFacts
  <2>4. Seen(k, t) <=> g > a /\ h = g + b - 1 /\ Part(w, t, i)
    BY <2>1 DEF Seen
  <2>5. Seen(m, text) <=> f > a /\ l = f + b - 1 /\ Part(w, text, f - a - 1)
    BY DEF Seen
  <2>6. i \in Nat => (Part(w, t, i) <=> Part(w, text, c + i) /\ c + i + Len(w) <= n)
    BY <2>3, PartOfSlice DEF Text, t
  <2> HIDE DEF w, a, b, f, l, g, h, Sh, t, W
  <2>7. /\ g > a => i \in Nat /\ f - a - 1 = c + i
        /\ g > a <=> f - a > c
        /\ f - a > c => f > a
        /\ h = g + b - 1 <=> l = f + b - 1
        /\ l = f + b - 1 => (c + i + Len(w) <= n <=> l <= n)
    BY <2>2, <2>3
  <2> HIDE DEF i
  <2>8. Seen(k, t) <=> Seen(m, text) /\ f - a > c /\ l <= n
    BY <2>4, <2>5, <2>6, <2>7
  <2>9. QED
    BY <2>8 DEF a, f, l
<1>5. ASSUME NEW m \in W PROVE \E k \in Located : Sh(m, k)
  <2>1. m \in Located /\ m.first - Len(m.rule.context) > c
    BY <1>2
  <2>2. m.rule \in Rules /\ m.first \in Nat /\ m.last \in Nat /\ m.first <= m.last
    BY <2>1, LocatedIs
  <2>3. Len(m.rule.context) \in Nat
    BY <2>2, RuleFacts
  <2>4. m.first - c \in Nat \ {0} /\ m.last - c \in Nat /\ m.first - c <= m.last - c
        /\ m.first = m.first - c + c /\ m.last = m.last - c + c
    <3> DEFINE a == Len(m.rule.context)
    <3>1. a \in Nat /\ m.first - a > c
      BY <2>1, <2>3
    <3> HIDE DEF a, Sh, W
    <3>2. QED
      BY <2>2, <3>1
  <2> DEFINE k == [rule |-> m.rule, first |-> m.first - c, last |-> m.last - c]
  <2>5. k \in Located /\ k.rule = m.rule /\ k.first = m.first - c /\ k.last = m.last - c
    BY <2>2, <2>4, LocatedMake
  <2> HIDE DEF k
  <2>6. Sh(m, k)
    BY <2>4, <2>5
  <2>7. QED
    BY <2>5, <2>6
<1>6. \A m \in Located : m \in W <=> Seen(m, text) /\ m.first - Len(m.rule.context) > c /\ m.last <= n
  BY <1>2
<1>7. W \in SUBSET Located
  BY <1>2
<1> HIDE DEF t, W, Sh
<1>8. \A m \in Located : m \in Shifted(Scan(t), c) <=> m \in W
  BY <1>2, <1>3, <1>4, <1>5, <1>6
<1>9. Shifted(Scan(t), c) = W
  BY <1>3, <1>7, <1>8
<1>10. QED
  BY <1>9 DEF t, W

-----------------------------------------------------------------------------
(* Scanning in chunks *)

LEMMA ChunkEndIs ==
  ASSUME NEW text \in Text, NEW start \in 0 .. Len(text)
  PROVE  /\ ChunkEnd(text, start) \in start .. Len(text)
         /\ ChunkEnd(text, start) # Len(text) => ChunkEnd(text, start) - OverlapBytes \in (start + 1) .. Len(text)
<1> DEFINE full == start + ChunkBytes
           blanks == {e \in (full - OverlapBytes + 1) .. full : e > start + OverlapBytes /\ text[e] \in Blanks}
           end == IF blanks = {} THEN full ELSE LargestOf(blanks)
<1>1. Len(text) \in Nat /\ OverlapBytes \in Nat /\ ChunkBytes \in Nat /\ OverlapBytes < ChunkBytes
  BY LenProperties, ChunkAssumption DEF Text
<1>2. ChunkEnd(text, start) = IF full >= Len(text) THEN Len(text) ELSE end
  BY DEF ChunkEnd
<1>3. end \in (start + OverlapBytes + 1) .. full
  <2>1. full \in Nat /\ full \in (start + OverlapBytes + 1) .. full
    BY <1>1
  <2>2. blanks \in SUBSET (0..full) /\ \A e \in blanks : e \in (start + OverlapBytes + 1) .. full
    BY <1>1
  <2> HIDE DEF blanks, full
  <2>3. blanks # {} => LargestOf(blanks) \in blanks
    BY <2>1, <2>2, GreatestUpTo
  <2>4. QED
    BY <2>1, <2>2, <2>3
<1> HIDE DEF end
<1>4. QED
  BY <1>1, <1>2, <1>3

ChunkFound(text, start) == Shifted(Merge(Scan(SubSeq(text, start + 1, ChunkEnd(text, start)))), start)

\* Starts of chunks that lead to each other.
Closed(text, Q) ==
  \A u \in Q : ChunkEnd(text, u) # Len(text) => ChunkEnd(text, u) - OverlapBytes \in Q

\* Where the chunks from one on start.
Starts(text, start) ==
  {t \in 0 .. Len(text) : \A Q \in SUBSET (0 .. Len(text)) : start \in Q /\ Closed(text, Q) => t \in Q}

LEMMA StartsIs ==
  ASSUME NEW text \in Text, NEW start \in 0 .. Len(text)
  PROVE  /\ start \in Starts(text, start) /\ Closed(text, Starts(text, start))
         /\ ChunkEnd(text, start) = Len(text) => Starts(text, start) = {start}
         /\ ChunkEnd(text, start) # Len(text) =>
              Starts(text, start) = {start} \cup Starts(text, ChunkEnd(text, start) - OverlapBytes)
<1> DEFINE n == Len(text)
           S(s) == Starts(text, s)
           next(s) == ChunkEnd(text, s) - OverlapBytes
           More(s) == ChunkEnd(text, s) # n
<1>1. n \in Nat
  BY LenProperties DEF Text
<1>2. \A s \in 0..n : More(s) => next(s) \in 0..n
  BY <1>1, ChunkEndIs
<1>3. \A s \in 0..n : s \in S(s) /\ S(s) \in SUBSET (0..n)
  BY DEF Starts
<1>4. \A s \in 0..n : Closed(text, S(s))
  BY <1>2 DEF Starts, Closed
<1>5. \A s \in 0..n : \A Q \in SUBSET (0..n) : s \in Q /\ Closed(text, Q) => S(s) \subseteq Q
  BY DEF Starts
<1> HIDE DEF n
<1>6. CASE ~More(start)
  <2>1. Closed(text, {start})
    BY <1>6 DEF Closed, n
  <2>2. {start} \in SUBSET (0..n) /\ start \in {start}
    BY DEF n
  <2>3. S(start) \subseteq {start}
    BY <1>5, <2>1, <2>2 DEF n
  <2>4. QED
    BY <1>3, <1>4, <1>6, <2>3 DEF n
<1>7. CASE More(start)
  <2> DEFINE Q == {start} \cup S(next(start))
  <2>1. next(start) \in 0..n /\ start \in 0..n
    BY <1>2, <1>7 DEF n
  <2>2. next(start) \in S(next(start)) /\ Closed(text, S(next(start))) /\ Q \in SUBSET (0..n) /\ start \in Q
    BY <1>3, <1>4, <2>1
  <2>3. Closed(text, Q)
    BY <2>2 DEF Closed
  <2> HIDE DEF Q
  <2>4. S(start) \subseteq Q
    BY <1>5, <2>1, <2>2, <2>3
  <2>5. start \in S(start) /\ next(start) \in S(start) /\ S(start) \in SUBSET (0..n) /\ Closed(text, S(start))
    BY <1>3, <1>4, <1>7, <2>1 DEF Closed, n
  <2>6. S(next(start)) \subseteq S(start)
    BY <1>5, <2>1, <2>5
  <2>7. S(start) = Q
    BY <2>4, <2>5, <2>6 DEF Q
  <2>8. QED
    BY <1>7, <2>5, <2>7 DEF Q, n
<1>8. QED
  BY <1>6, <1>7

\* The chunks put together are those at the starts that follow each other.
LEMMA ChunksAre ==
  ASSUME NEW text \in Text
  PROVE  Matches(text) = Merge(UNION {ChunkFound(text, t) : t \in Starts(text, 0)})
<1> DEFINE n == Len(text)
           Step(f, s) == IF ChunkEnd(text, s) = n THEN ChunkFound(text, s)
                         ELSE ChunkFound(text, s) \cup f[ChunkEnd(text, s) - OverlapBytes]
           chunks == CHOOSE f : f = [s \in 0..n |-> Step(f, s)]
           g == [s \in 0..n |-> UNION {ChunkFound(text, t) : t \in Starts(text, s)}]
<1>1. Matches(text) = Merge(chunks[0])
  BY DEF Matches, ChunkFound
<1>2. n \in Nat
  BY LenProperties DEF Text
<1>3. \A s \in 0..n : ChunkEnd(text, s) # n => ChunkEnd(text, s) - OverlapBytes \in (s + 1)..n
  BY ChunkEndIs
<1>4. ASSUME NEW s \in 0..n PROVE g[s] = Step(g, s)
  <2>1. CASE ChunkEnd(text, s) = n
    <3>1. Starts(text, s) = {s}
      BY <2>1, StartsIs
    <3>2. QED
      BY <2>1, <3>1
  <2>2. CASE ChunkEnd(text, s) # n
    <3> DEFINE next == ChunkEnd(text, s) - OverlapBytes
    <3>1. Starts(text, s) = {s} \cup Starts(text, next)
      BY <2>2, StartsIs
    <3>2. next \in 0..n
      BY <1>2, <1>3, <2>2
    <3>3. g[next] = UNION {ChunkFound(text, t) : t \in Starts(text, next)}
      BY <3>2
    <3>4. g[s] = UNION {ChunkFound(text, t) : t \in Starts(text, s)}
      OBVIOUS
    <3> HIDE DEF next, g
    <3>5. g[s] = ChunkFound(text, s) \cup g[next]
      BY <3>1, <3>3, <3>4
    <3>6. QED
      BY <2>2, <3>5 DEF next
  <2>3. QED
    BY <2>1, <2>2
<1>5. g = [s \in 0..n |-> Step(g, s)]
  <2>1. g = [s \in 0..n |-> g[s]]
    OBVIOUS
  <2> HIDE DEF g, Step
  <2>2. QED
    BY <1>4, <2>1
<1>6. chunks = [s \in 0..n |-> Step(chunks, s)]
  <2> HIDE DEF g, Step
  <2>1. \E f : f = [s \in 0..n |-> Step(f, s)]
    BY <1>5
  <2>2. QED
    BY <2>1
<1> HIDE DEF chunks, g
<1>7. chunks[0] = g[0]
  <2> DEFINE T == {s \in 0..n : chunks[s] # g[s]}
  <2>1. SUFFICES ASSUME T # {} PROVE FALSE
    BY <1>2
  <2>2. LargestOf(T) \in T /\ \A s \in T : s <= LargestOf(T)
    <3>1. T \in SUBSET (0..n)
      OBVIOUS
    <3> HIDE DEF T
    <3>2. QED
      BY <1>2, <2>1, <3>1, GreatestUpTo
  <2>3. PICK s \in T : \A u \in T : u <= s
    BY <2>2
  <2>4. s \in 0..n /\ chunks[s] # g[s]
    OBVIOUS
  <2>5. ChunkEnd(text, s) # n => chunks[ChunkEnd(text, s) - OverlapBytes] = g[ChunkEnd(text, s) - OverlapBytes]
    <3> SUFFICES ASSUME ChunkEnd(text, s) # n
                 PROVE  chunks[ChunkEnd(text, s) - OverlapBytes] = g[ChunkEnd(text, s) - OverlapBytes]
      OBVIOUS
    <3> DEFINE u == ChunkEnd(text, s) - OverlapBytes
    <3>1. u \in (s + 1)..n
      BY <1>3, <2>4
    <3> HIDE DEF u
    <3>2. u \in 0..n /\ ~(u <= s)
      BY <1>2, <2>4, <3>1
    <3>3. u \notin T
      BY <2>3, <3>2
    <3>4. QED
      BY <3>2, <3>3 DEF u
  <2>6. Step(chunks, s) = Step(g, s)
    BY <2>5
  <2> HIDE DEF Step
  <2>7. chunks[s] = Step(chunks, s)
    BY <1>6, <2>4
  <2>8. QED
    BY <1>4, <2>4, <2>6, <2>7
<1>8. g[0] = UNION {ChunkFound(text, t) : t \in Starts(text, 0)}
  BY <1>2 DEF g
<1>9. QED
  BY <1>1, <1>7, <1>8

\* A match that is still to be found lies in a chunk.
LEMMA EveryMatchLiesInAChunk ==
  ASSUME NEW text \in Text, NEW m \in Scan(text)
  PROVE  \E t \in Starts(text, 0) : m.first - Len(m.rule.context) > t /\ m.last <= ChunkEnd(text, t)
<1> DEFINE n == Len(text)
           a == Len(m.rule.context)
           b == Len(m.rule.value)
           f == m.first
           l == m.last
           S == Starts(text, 0)
           T == {t \in S : t < f - a}
<1>1. n \in Nat /\ OverlapBytes \in Nat
  BY LenProperties, ChunkAssumption DEF Text
<1>2. m \in Located /\ Seen(m, text) /\ l <= n
  BY ScanIs
<1>3. m.rule \in Rules /\ f \in Nat /\ l \in Nat
  BY <1>2, LocatedIs
<1>4. a \in Nat /\ b \in Nat \ {0} /\ a + b <= OverlapBytes
  BY <1>3, RuleFacts
<1>5. f > a /\ l = f + b - 1
  BY <1>2 DEF Seen
<1>6. 0 \in S /\ Closed(text, S) /\ S \in SUBSET (0..n)
  <2>1. 0 \in 0..n
    BY <1>1
  <2>2. QED
    BY <2>1, StartsIs DEF Starts
<1> HIDE DEF n, a, b, f, l, S
<1>7. 0 \in T /\ T \in SUBSET (0..n)
  <2>1. 0 < f - a
    BY <1>3, <1>4, <1>5
  <2>2. QED
    BY <1>6, <2>1
<1>8. PICK t \in T : \A u \in T : u <= t
  <2> HIDE DEF T
  <2>1. LargestOf(T) \in T /\ \A u \in T : u <= LargestOf(T)
    BY <1>1, <1>7, GreatestUpTo
  <2>2. QED
    BY <2>1
<1>9. t \in S /\ t < f - a /\ t \in 0..n
  BY <1>6
<1>10. l <= ChunkEnd(text, t)
  <2>1. CASE ChunkEnd(text, t) = n
    BY <1>2, <2>1
  <2>2. CASE ChunkEnd(text, t) # n
    <3> DEFINE u == ChunkEnd(text, t) - OverlapBytes
               e == ChunkEnd(text, t)
    <3>1. u \in S
      BY <1>6, <1>9, <2>2 DEF Closed, n
    <3>2. u \in (t + 1)..n
      BY <1>9, <2>2, ChunkEndIs DEF n
    <3>3. e \in Int /\ u = e - OverlapBytes
      BY <1>9, ChunkEndIs DEF n
    <3> HIDE DEF u, e
    <3>4. ~(u <= t)
      BY <1>1, <1>9, <3>2
    <3>5. u \notin T
      BY <1>8, <3>4
    <3>6. ~(u < f - a)
      BY <3>1, <3>5
    <3>7. l <= e
      BY <1>1, <1>3, <1>4, <1>5, <3>2, <3>3, <3>6
    <3>8. QED
      BY <3>7 DEF e
  <2>3. QED
    BY <2>1, <2>2
<1>11. QED
  BY <1>3, <1>4, <1>9, <1>10 DEF S, f, a, l

\* A match belongs to a group of its own set.
LEMMA GroupExists ==
  ASSUME NEW X \in SUBSET Located, NEW m \in X
  PROVE  \E f \in Firsts(X) : m \in Group(X, f)
<1>1. \A k \in X : k.first \in Nat \ {0} /\ k.last \in Nat
  BY LocatedIs
<1>2. \E g \in Firsts(X) : g <= m.first
  <2> DEFINE H == {k.first : k \in X}
  <2>1. H \in SUBSET Nat /\ m.first \in H
    BY <1>1
  <2>2. PICK h \in H : \A y \in H : h <= y
    <3> HIDE DEF H
    <3>1. QED
      BY <2>1, Least
  <2>3. h \in Nat /\ h <= m.first
    BY <2>1, <2>2
  <2>4. ~Joined(X, h - 1)
    <3> SUFFICES ASSUME NEW k \in X, k.first <= h - 1 PROVE FALSE
      BY DEF Joined
    <3>1. k.first \in Nat /\ h <= k.first
      BY <1>1, <2>2
    <3>2. QED
      BY <2>3, <3>1
  <2>5. QED
    BY <2>3, <2>4 DEF Firsts
<1> DEFINE G == {g \in Firsts(X) : g <= m.first}
<1>3. G \in SUBSET (0..m.first) /\ G # {} /\ m.first \in Nat
  BY <1>1, <1>2, FirstsIs
<1>4. PICK f \in G : \A g \in G : g <= f
  <2> HIDE DEF G
  <2>1. LargestOf(G) \in G /\ \A g \in G : g <= LargestOf(G)
    BY <1>3, GreatestUpTo
  <2>2. QED
    BY <2>1
<1>5. f \in Firsts(X) /\ f <= m.first /\ f \in Nat
  BY <1>3
<1>6. ASSUME NEW g \in Firsts(X), f < g, g <= m.first PROVE FALSE
  <2>1. g <= f /\ g \in Nat
    BY <1>4, <1>6, FirstsIs
  <2>2. QED
    BY <1>5, <1>6, <2>1
<1>7. QED
  BY <1>1, <1>5, <1>6 DEF Group

\* Whatever the rules and the text, scanning in chunks finds values in the places
\* where scanning in one piece finds them, of the same priority, and no others: a
\* chunk's overlap holds what a rule needs to see, and what is found twice or in
\* parts is merged.  If ties agree in the text, it finds them under the same rules.
THEOREM ChunkedScanFindsEverything ==
  ASSUME NEW text \in Seq(Characters)
  PROVE  /\ Alike(Matches(text), Whole(text)) /\ Alike(Whole(text), Matches(text))
         /\ TiesAgree(text) => Matches(text) = Whole(text)
<1> DEFINE n == Len(text)
           X == Scan(text)
           Found(t) == ChunkFound(text, t)
           W(t) == {m \in X : m.first - Len(m.rule.context) > t /\ m.last <= ChunkEnd(text, t)}
           S == Starts(text, 0)
           Y == UNION {Found(t) : t \in S}
<1>1. text \in Text /\ n \in Nat
  BY LenProperties DEF Text
<1>2. X \in SUBSET Located /\ \A m \in X : m.last <= n
  BY <1>1, ScanIs
<1>3. ASSUME NEW t \in S PROVE Merging(Found(t), W(t))
  <2> DEFINE e == ChunkEnd(text, t)
             slice == SubSeq(text, t + 1, e)
  <2>1. t \in 0..n /\ e \in t..n
    BY <1>1, ChunkEndIs DEF Starts
  <2>2. slice \in Text /\ t \in Nat /\ e \in Nat /\ t <= e /\ e <= n
    <3>1. t \in Nat /\ e \in Nat /\ t <= e /\ e <= n
      BY <1>1, <2>1
    <3> HIDE DEF e
    <3>2. QED
      BY <1>1, <3>1, Slice DEF Text
  <2> HIDE DEF e
  <2>3. Scan(slice) \in SUBSET Located /\ \A m \in Scan(slice) : m.last <= Len(slice)
    BY <2>2, ScanIs
  <2>4. Len(slice) \in Nat
    BY <2>2, LenProperties DEF Text
  <2>5. Shifted(Scan(slice), t) = {m \in X : m.first - Len(m.rule.context) > t /\ m.last <= e}
    BY <1>1, <2>2, ScanOfSlice
  <2>6. Merging(Shifted(Merge(Scan(slice)), t), Shifted(Scan(slice), t))
    <3> HIDE DEF slice
    <3>1. QED
      BY <2>2, <2>3, <2>4, MergeShifted
  <2>7. QED
    BY <2>5, <2>6 DEF ChunkFound, e
<1>4. \A t : W(t) \in SUBSET X
  OBVIOUS
<1>5. \A m \in X : \E t \in S : m \in W(t)
  BY <1>1, EveryMatchLiesInAChunk
<1> HIDE DEF X, W, S, Found
<1>6. ASSUME NEW t \in S
      PROVE  /\ Found(t) \in SUBSET Located
             /\ \A r \in Found(t) : r.first \in Firsts(W(t)) /\ Merged(r, W(t), r.first) /\ r.last <= n
             /\ \A f \in Firsts(W(t)) : \E r \in Found(t) : r.first = f
  <2>1. ASSUME NEW r \in Found(t) PROVE r.last <= n
    <3>1. Merged(r, W(t), r.first)
      BY <1>3 DEF Merging
    <3>2. PICK m \in Group(W(t), r.first) : r.last = m.last
      BY <3>1 DEF Merged
    <3>3. m \in X
      BY <1>4, <3>2 DEF Group
    <3>4. QED
      BY <1>2, <3>2, <3>3
  <2>2. QED
    BY <1>3, <2>1 DEF Merging
<1>7. Y \in SUBSET Located /\ \A u \in Y : u.last <= n
  BY <1>6
<1>8. MergedInParts(X, Y)
  <2>1. ASSUME NEW u \in Y PROVE \E V \in SUBSET X : u.first \in Firsts(V) /\ Merged(u, V, u.first)
    <3>1. PICK t \in S : u \in Found(t)
      OBVIOUS
    <3>2. QED
      BY <1>4, <1>6, <3>1
  <2>2. ASSUME NEW m \in X
        PROVE  \E u \in Y, V \in SUBSET X :
                 u.first \in Firsts(V) /\ Merged(u, V, u.first) /\ m \in Group(V, u.first)
    <3>1. PICK t \in S : m \in W(t)
      BY <1>5
    <3>2. W(t) \in SUBSET Located
      BY <1>2, <1>4
    <3>3. PICK f \in Firsts(W(t)) : m \in Group(W(t), f)
      BY <3>1, <3>2, GroupExists
    <3>4. PICK u \in Found(t) : u.first = f
      BY <1>6
    <3>5. u \in Y
      BY <3>4
    <3>6. u.first \in Firsts(W(t)) /\ Merged(u, W(t), u.first) /\ m \in Group(W(t), u.first)
      BY <1>6, <3>3, <3>4
    <3>7. QED
      BY <1>4, <3>5, <3>6
  <2> HIDE DEF Y
  <2>3. QED
    BY <2>1, <2>2 DEF MergedInParts
<1>9. Matches(text) = Merge(Y)
  BY <1>1, ChunksAre DEF S, Found
<1> HIDE DEF Y, n
<1>10. Merging(Merge(Y), X) /\ Merging(Merge(X), X)
  BY <1>1, <1>2, <1>7, <1>8, MergeTwice, MergeMerges
<1>11. Alike(Merge(Y), Merge(X)) /\ Alike(Merge(X), Merge(Y)) /\ (Tied(X) => Merge(Y) = Merge(X))
  BY <1>2, <1>10, MergingOnce
<1>12. TiesAgree(text) => Tied(X)
  BY DEF TiesAgree, Tied, Joined, X
<1>13. QED
  BY <1>9, <1>11, <1>12 DEF Whole, X

-----------------------------------------------------------------------------
(* Two texts put together *)

LEMMA ConcatIs ==
  ASSUME NEW C, NEW s \in Seq(C), NEW t \in Seq(C)
  PROVE  /\ SubSeq(s \o t, 0 + 1, Len(s)) = s
         /\ SubSeq(s \o t, Len(s) + 1, Len(s \o t)) = t
         /\ \A i \in 1..Len(s) : (s \o t)[i] = s[i]
         /\ \A i \in 1..Len(t) : (s \o t)[Len(s) + i] = t[i]
<1> DEFINE u == s \o t
<1>1. /\ u \in Seq(C) /\ Len(u) = Len(s) + Len(t) /\ Len(s) \in Nat /\ Len(t) \in Nat
      /\ Part(s, u, 0) /\ Part(t, u, Len(s))
  BY PartOfConcat
<1> HIDE DEF u
<1>2. SubSeq(u, 0 + 1, Len(s)) = s
  <2> DEFINE v == SubSeq(u, 0 + 1, Len(s))
  <2>1. v \in Seq(C) /\ Len(v) = Len(s) - 0 /\ Part(v, u, 0)
    BY <1>1, SliceIsPart
  <2> HIDE DEF v
  <2>2. v = s
    BY <1>1, <2>1, SamePart
  <2>3. QED
    BY <2>2 DEF v
<1>3. SubSeq(u, Len(s) + 1, Len(u)) = t
  <2> DEFINE v == SubSeq(u, Len(s) + 1, Len(u))
  <2>1. v \in Seq(C) /\ Len(v) = Len(u) - Len(s) /\ Part(v, u, Len(s))
    BY <1>1, SliceIsPart
  <2> HIDE DEF v
  <2>2. v = t
    BY <1>1, <2>1, SamePart
  <2>3. QED
    BY <2>2 DEF v
<1>4. \A i \in 1..Len(s) : u[i] = s[i]
  BY <1>1 DEF Part
<1>5. \A i \in 1..Len(t) : u[Len(s) + i] = t[i]
  BY <1>1 DEF Part
<1>6. QED
  BY <1>2, <1>3, <1>4, <1>5 DEF u

LEMMA NotShifted ==
  ASSUME NEW X \in SUBSET Located
  PROVE  Shifted(X, 0) = X
<1>1. /\ Shifted(X, 0) \in SUBSET Located
      /\ \A m \in Located : m \in Shifted(X, 0) <=>
           \E k \in X : m.rule = k.rule /\ m.first = k.first + 0 /\ m.last = k.last + 0
  BY ShiftedIs
<1>2. \A k \in X : k.first + 0 = k.first /\ k.last + 0 = k.last
  BY LocatedIs
<1>3. ASSUME NEW m \in Located PROVE m \in Shifted(X, 0) <=> m \in X
  <2>1. ASSUME m \in Shifted(X, 0) PROVE m \in X
    <3>1. PICK k \in X : m.rule = k.rule /\ m.first = k.first + 0 /\ m.last = k.last + 0
      BY <1>1, <2>1
    <3>2. m = k
      BY <1>2, <3>1, LocatedSame
    <3>3. QED
      BY <3>2
  <2>2. QED
    BY <1>1, <1>2, <2>1
<1>4. QED
  BY <1>1, <1>3

Regular(text) == TiesAgree(text) /\ WordsStandFree(text)

\* The whole is regular, and nothing to be found in it goes on from one to the other.
Joint(s, t) == Regular(s \o t) /\ ~Straddled(s \o t, Len(s))

LEMMA NothingStraddles ==
  ASSUME NEW text \in Text, NEW c \in Nat, ~Straddled(text, c), NEW m \in Scan(text)
  PROVE  m.last <= c \/ m.first - Len(m.rule.context) > c
<1>1. m \in Located
  BY ScanIs
<1>2. m.rule \in Rules /\ m.first \in Nat /\ m.last \in Nat
  BY <1>1, LocatedIs
<1>3. Len(m.rule.context) \in Nat
  BY <1>2, RuleFacts
<1>4. ~(m.first - Len(m.rule.context) <= c /\ c < m.last)
  BY DEF Straddled
<1> DEFINE f == m.first
           l == m.last
           a == Len(m.rule.context)
<1>5. f \in Nat /\ l \in Nat /\ a \in Nat /\ ~(f - a <= c /\ c < l)
  BY <1>2, <1>3, <1>4
<1> HIDE DEF f, l, a
<1>6. l <= c \/ f - a > c
  BY <1>5
<1>7. QED
  BY <1>6 DEF f, l, a

LEMMA ScanJoint ==
  ASSUME NEW s \in Text, NEW t \in Text, Joint(s, t)
  PROVE  Scan(s \o t) = Scan(s) \cup Shifted(Scan(t), Len(s))
<1> DEFINE u == s \o t
           c == Len(s)
           n == Len(u)
<1>1. u \in Text /\ n = c + Len(t) /\ c \in Nat /\ Len(t) \in Nat /\ SubSeq(u, 0 + 1, c) = s /\ SubSeq(u, c + 1, n) = t
  BY PartOfConcat, ConcatIs DEF Text
<1>2. \A m \in Scan(u) : m.last <= c \/ m.first - Len(m.rule.context) > c
  BY <1>1, NothingStraddles DEF Joint
<1>3. \A m \in Scan(u) : m.last <= n /\ m.first - Len(m.rule.context) > 0
  <2> SUFFICES ASSUME NEW m \in Scan(u) PROVE m.last <= n /\ m.first - Len(m.rule.context) > 0
    OBVIOUS
  <2>1. m \in Located /\ Seen(m, u) /\ m.last <= n
    BY <1>1, ScanIs
  <2> DEFINE a == Len(m.rule.context)
             f == m.first
  <2>2. m.rule \in Rules /\ f \in Nat
    BY <2>1, LocatedIs
  <2>3. a \in Nat
    BY <2>2, RuleFacts
  <2>4. f > a
    BY <2>1 DEF Seen
  <2> HIDE DEF a, f
  <2>5. f - a > 0
    BY <2>2, <2>3, <2>4
  <2>6. QED
    BY <2>1, <2>5 DEF a, f
<1> HIDE DEF u, c, n
<1>4. Shifted(Scan(s), 0) = {m \in Scan(u) : m.first - Len(m.rule.context) > 0 /\ m.last <= c}
  <2>1. 0 \in Nat /\ 0 <= c /\ c <= n
    BY <1>1
  <2>2. Shifted(Scan(SubSeq(u, 0 + 1, c)), 0) = {m \in Scan(u) : m.first - Len(m.rule.context) > 0 /\ m.last <= c}
    BY <1>1, <2>1, ScanOfSlice DEF n
  <2>3. QED
    BY <1>1, <2>2
<1>5. Shifted(Scan(t), c) = {m \in Scan(u) : m.first - Len(m.rule.context) > c /\ m.last <= n}
  <2>1. c <= n /\ n \in Nat /\ n <= n
    BY <1>1
  <2>2. Shifted(Scan(SubSeq(u, c + 1, n)), c) = {m \in Scan(u) : m.first - Len(m.rule.context) > c /\ m.last <= n}
    BY <1>1, <2>1, ScanOfSlice DEF n
  <2>3. QED
    BY <1>1, <2>2
<1>6. Shifted(Scan(s), 0) = Scan(s)
  BY ScanIs, NotShifted
<1>7. Scan(u) = Scan(s) \cup Shifted(Scan(t), c)
  BY <1>2, <1>3, <1>4, <1>5, <1>6
<1>8. QED
  BY <1>7 DEF u, c

LEMMA WholeIs ==
  ASSUME NEW s \in Text
  PROVE  /\ Whole(s) \in SUBSET Located
         /\ \A r \in Whole(s) : r.first \in 1..Len(s) /\ r.last \in r.first..Len(s)
         /\ \A r, q \in Whole(s) : r.first = q.first => r = q
<1>1. Len(s) \in Nat /\ Scan(s) \in SUBSET Located /\ \A m \in Scan(s) : m.last <= Len(s)
  BY ScanIs, LenProperties DEF Text
<1>2. Whole(s) \in SUBSET Located /\ \A r \in Whole(s) : r.last <= Len(s)
  BY <1>1, MergeBounds DEF Whole
<1>3. ASSUME NEW r \in Whole(s) PROVE r.first \in 1..Len(s) /\ r.last \in r.first..Len(s)
  <2>1. r.first \in Nat \ {0} /\ r.last \in Nat /\ r.first <= r.last /\ r.last <= Len(s)
    BY <1>2, LocatedIs
  <2>2. QED
    BY <1>1, <2>1
<1>4. \A r, q \in Whole(s) : r.first = q.first => r = q
  BY <1>1, MergeUnique DEF Whole
<1>5. QED
  BY <1>2, <1>3, <1>4

\* What is to be found in two texts with no credential between them.
LEMMA WholeJoint ==
  ASSUME NEW s \in Text, NEW t \in Text, Joint(s, t)
  PROVE  Whole(s \o t) = Whole(s) \cup Shifted(Whole(t), Len(s))
<1> DEFINE c == Len(s)
           n == Len(s) + Len(t)
           Y == Scan(s)
           Z == Shifted(Scan(t), c)
<1>1. c \in Nat /\ Len(t) \in Nat /\ n \in Nat /\ c <= n
  BY LenProperties DEF Text
<1>2. Y \in SUBSET Located /\ (\A m \in Y : m.last <= c) /\ Scan(t) \in SUBSET Located /\ \A m \in Scan(t) : m.last <= Len(t)
  BY ScanIs
<1>3. Scan(s \o t) = Y \cup Z
  BY ScanJoint
<1>4. /\ Z \in SUBSET Located
      /\ \A m \in Located : m \in Z <=>
           \E k \in Scan(t) : m.rule = k.rule /\ m.first = k.first + c /\ m.last = k.last + c
  BY <1>1, <1>2, ShiftedIs
<1> HIDE DEF c, n, Y, Z
<1>5. \A m \in Z : m.first > c /\ m.last <= n
  <2> SUFFICES ASSUME NEW m \in Z PROVE m.first > c /\ m.last <= n
    OBVIOUS
  <2>1. PICK k \in Scan(t) : m.first = k.first + c /\ m.last = k.last + c
    BY <1>4
  <2>2. k.first \in Nat \ {0} /\ k.last \in Nat /\ k.last <= Len(t)
    BY <1>2, LocatedIs
  <2>3. QED
    BY <1>1, <2>1, <2>2 DEF n, c
<1>6. \A m \in Y \cup Z : m.last <= n
  <2>1. \A m \in Y : m.last \in Nat
    BY <1>2, LocatedIs
  <2>2. QED
    BY <1>1, <1>2, <1>5, <2>1
<1>7. Merge(Y \cup Z) = Merge(Y) \cup Merge(Z)
  <2>1. Y \in SUBSET Located /\ Z \in SUBSET Located
    BY <1>2, <1>4
  <2>2. (\A m \in Y : m.last <= c) /\ (\A m \in Z : m.first > c)
    BY <1>2, <1>5
  <2>3. Tied(Y \cup Z)
    BY <1>3 DEF Joint, Regular, TiesAgree, Tied, Joined
  <2> HIDE DEF c, n, Y, Z
  <2>4. QED
    BY <1>1, <1>6, <2>1, <2>2, <2>3, MergeSplit
<1>8. Merge(Z) = Shifted(Merge(Scan(t)), c)
  <2>1. Tied(Y \cup Z)
    BY <1>3 DEF Joint, Regular, TiesAgree, Tied, Joined
  <2>2. Tied(Z)
    BY <1>2, <1>4, <2>1, TiedIn
  <2>3. QED
    BY <1>1, <1>2, <2>2, MergeShifted DEF Z
<1>9. QED
  BY <1>3, <1>7, <1>8 DEF Whole, Y, c

-----------------------------------------------------------------------------
(* Markers and placeholders *)

Words == {Marker} \cup {Token(id) : id \in Ids}

LEMMA WordFacts ==
  /\ Marker \in Text /\ Closing \in Text /\ Redacted \in Text
  /\ Len(Marker) \in Nat \ {0} /\ Len(Closing) \in Nat \ {0} /\ Len(Redacted) \in Nat \ {0}
  /\ \A id \in DOMAIN Vault : id \in Ids /\ Vault[id] \in Text
<1>1. /\ Marker \in Text /\ Closing \in Text /\ Redacted \in Text
      /\ Marker # <<>> /\ Closing # <<>> /\ Redacted # <<>>
      /\ \A id \in DOMAIN Vault : id \in Ids /\ Vault[id] \in Text
  BY TextAssumption DEF Text
<1>2. Len(Marker) \in Nat \ {0} /\ Len(Closing) \in Nat \ {0} /\ Len(Redacted) \in Nat \ {0}
  BY <1>1, EmptySeq, LenProperties DEF Text
<1>3. QED
  BY <1>1, <1>2

LEMMA TokenIs ==
  ASSUME NEW id \in Ids
  PROVE  /\ Token(id) \in Text
         /\ Len(Token(id)) = Len(Marker) + 1 + Len(Closing)
         /\ Part(Marker, Token(id), 0)
         /\ Part(Closing, Token(id), Len(Marker) + 1)
<1> DEFINE o == <<id>>
           s == Marker \o o
<1>1. o \in Text /\ Len(o) = 1
  BY TextAssumption DEF Text
<1>2. Marker \in Text /\ Closing \in Text
  BY WordFacts
<1> HIDE DEF o
<1>3. s \in Text /\ Len(s) = Len(Marker) + 1 /\ Part(Marker, s, 0) /\ Len(Marker) \in Nat
  BY <1>1, <1>2, PartOfConcat DEF Text
<1> HIDE DEF s
<1>4. /\ s \o Closing \in Text /\ Len(s \o Closing) = Len(s) + Len(Closing) /\ Len(s) \in Nat /\ Len(Closing) \in Nat
      /\ Part(s, s \o Closing, 0) /\ Part(Closing, s \o Closing, Len(s))
  BY <1>2, <1>3, PartOfConcat DEF Text
<1>5. Part(Marker, s \o Closing, 0 + 0)
  BY <1>2, <1>3, <1>4, PartOfPart DEF Text
<1>6. Token(id) = s \o Closing
  BY DEF Token, s, o
<1>7. QED
  BY <1>3, <1>4, <1>5, <1>6

LEMMA WordIs ==
  ASSUME NEW w \in Words
  PROVE  w \in Text /\ Len(w) \in Nat \ {0}
<1>1. CASE w = Marker
  BY <1>1, WordFacts
<1>2. ASSUME NEW id \in Ids, w = Token(id) PROVE w \in Text /\ Len(w) \in Nat \ {0}
  BY <1>2, TokenIs, WordFacts
<1>3. QED
  BY <1>1, <1>2 DEF Words

\* A word can begin in the text and end after it.
OpenEnd(s) ==
  \E w \in Words, i \in Nat :
    i < Len(s) /\ Len(s) < i + Len(w) /\ \A k \in 1..(Len(s) - i) : w[k] = s[i + k]

LEMMA OpenEndJoint ==
  ASSUME NEW s \in Text, NEW t \in Text, ~OpenEnd(s), ~OpenEnd(t)
  PROVE  ~OpenEnd(s \o t)
<1> DEFINE u == s \o t
           c == Len(s)
<1>1. /\ u \in Text /\ Len(u) = c + Len(t) /\ c \in Nat /\ Len(t) \in Nat
      /\ \A j \in 1..c : u[j] = s[j]
      /\ \A j \in 1..Len(t) : u[c + j] = t[j]
  BY PartOfConcat, ConcatIs DEF Text
<1> HIDE DEF u, c
<1> SUFFICES ASSUME NEW w \in Words, NEW i \in Nat, i < Len(u), Len(u) < i + Len(w),
                    \A k \in 1..(Len(u) - i) : w[k] = u[i + k]
             PROVE  FALSE
  BY DEF OpenEnd, u
<1>2. Len(w) \in Nat
  BY WordIs
<1>3. CASE i < c
  <2>1. c < i + Len(w)
    BY <1>1, <1>2
  <2>2. ASSUME NEW k \in 1..(c - i) PROVE w[k] = s[i + k]
    <3> DEFINE j == i + k
    <3>1. k \in 1..(Len(u) - i) /\ j \in 1..c
      BY <1>1
    <3> HIDE DEF j
    <3>2. u[j] = s[j]
      BY <1>1, <3>1
    <3>3. QED
      BY <3>1, <3>2 DEF j
  <2>3. QED
    BY <1>3, <2>1, <2>2 DEF OpenEnd, c
<1>4. CASE i >= c
  <2> DEFINE h == i - c
  <2>1. h \in Nat /\ h < Len(t) /\ Len(t) < h + Len(w)
    BY <1>1, <1>2, <1>4
  <2>2. ASSUME NEW k \in 1..(Len(t) - h) PROVE w[k] = t[h + k]
    <3> DEFINE j == h + k
    <3>1. k \in 1..(Len(u) - i) /\ j \in 1..Len(t) /\ c + j = i + k
      BY <1>1, <1>4, <2>1
    <3> HIDE DEF j
    <3>2. u[c + j] = t[j]
      BY <1>1, <3>1
    <3>3. QED
      BY <3>1, <3>2 DEF j
  <2> HIDE DEF h
  <2>3. QED
    BY <2>1, <2>2 DEF OpenEnd
<1>5. QED
  BY <1>1, <1>3, <1>4

\* Where a word stands in two texts of which the first does not end within it.
LEMMA WordJoint ==
  ASSUME NEW s \in Text, NEW t \in Text, ~OpenEnd(s), NEW w \in Words, NEW i \in Nat
  PROVE  Part(w, s \o t, i) <=>
           \/ Part(w, s, i)
           \/ i >= Len(s) /\ Part(w, t, i - Len(s))
<1> DEFINE u == s \o t
           c == Len(s)
           n == Len(u)
<1>1. /\ u \in Text /\ n = c + Len(t) /\ c \in Nat /\ Len(t) \in Nat
      /\ SubSeq(u, 0 + 1, c) = s /\ SubSeq(u, c + 1, n) = t
      /\ \A j \in 1..c : u[j] = s[j]
  BY PartOfConcat, ConcatIs DEF Text
<1>2. w \in Text /\ Len(w) \in Nat
  BY WordIs
<1> HIDE DEF u, c, n
<1>3. Part(w, s, i) <=> Part(w, u, 0 + i) /\ 0 + i + Len(w) <= c
  <2>1. 0 \in Nat /\ 0 <= c /\ c <= n
    BY <1>1
  <2>2. Part(w, SubSeq(u, 0 + 1, c), i) <=> Part(w, u, 0 + i) /\ 0 + i + Len(w) <= c
    BY <1>1, <1>2, <2>1, PartOfSlice DEF Text, n
  <2>3. QED
    BY <1>1, <2>2
<1>4. i >= c => (Part(w, t, i - c) <=> Part(w, u, i))
  <2> SUFFICES ASSUME i >= c PROVE Part(w, t, i - c) <=> Part(w, u, i)
    OBVIOUS
  <2> DEFINE h == i - c
  <2>1. h \in Nat /\ c + h = i /\ c <= n /\ n \in Nat /\ n <= n
    BY <1>1
  <2> HIDE DEF h
  <2>2. Part(w, SubSeq(u, c + 1, n), h) <=> Part(w, u, c + h) /\ c + h + Len(w) <= n
    BY <1>1, <1>2, <2>1, PartOfSlice DEF Text, n
  <2>3. Part(w, u, i) => i + Len(w) <= n
    BY DEF Part, n
  <2>4. QED
    BY <1>1, <2>1, <2>2, <2>3 DEF h
<1>5. ASSUME Part(w, u, i), i < c PROVE i + Len(w) <= c
  <2> SUFFICES ASSUME c < i + Len(w) PROVE FALSE
    BY <1>1, <1>2
  <2>1. ASSUME NEW k \in 1..(c - i) PROVE w[k] = s[i + k]
    <3> DEFINE j == i + k
    <3>1. k \in 1..Len(w) /\ j \in 1..c
      BY <1>1, <1>2
    <3> HIDE DEF j
    <3>2. u[j] = s[j]
      BY <1>1, <3>1
    <3>3. w[k] = u[i + k]
      BY <1>5, <3>1 DEF Part
    <3>4. QED
      BY <3>2, <3>3 DEF j
  <2>2. QED
    BY <1>5, <2>1 DEF OpenEnd, c
<1>6. 0 + i = i
  OBVIOUS
<1>7. i < c \/ i >= c
  BY <1>1
<1>8. Part(w, u, i) <=> Part(w, s, i) \/ (i >= c /\ Part(w, t, i - c))
  BY <1>3, <1>4, <1>5, <1>6, <1>7
<1>9. QED
  BY <1>8 DEF u, c

\* Placeholders and where they stand.
Placed == [id : Ids, first : Nat \ {0}, last : Nat \ {0}]

LEMMA TokensIs ==
  ASSUME NEW text \in Text
  PROVE  /\ Tokens(text) \in SUBSET Placed
         /\ \A t \in Tokens(text) : /\ t.id \in Ids /\ t.first \in Nat \ {0}
                                    /\ t.last = t.first + Len(Token(t.id)) - 1
                                    /\ Part(Token(t.id), text, t.first - 1)
         /\ \A id \in Ids, i \in Nat \ {0} : Part(Token(id), text, i - 1) =>
              \E t \in Tokens(text) : t.id = id /\ t.first = i
<1> DEFINE P(id, i) == [id |-> id, first |-> i, last |-> i + Len(Token(id)) - 1]
           All == {P(id, i) : id \in Ids, i \in DOMAIN text}
<1>1. Len(text) \in Nat /\ DOMAIN text = 1..Len(text)
  BY LenProperties DEF Text
<1>2. Tokens(text) = {t \in All : OccursAt(Token(t.id), t.first, text)}
  BY DEF Tokens
<1>3. ASSUME NEW id \in Ids
      PROVE  Token(id) \in Text /\ Len(Token(id)) \in Nat \ {0}
  BY WordIs DEF Words
<1>4. ASSUME NEW id \in Ids, NEW i \in Nat \ {0}
      PROVE  OccursAt(Token(id), i, text) <=> Part(Token(id), text, i - 1)
  BY <1>3, OccursAtIs DEF Text
<1>5. ASSUME NEW t \in Tokens(text)
      PROVE  /\ t \in Placed /\ t.id \in Ids /\ t.first \in Nat \ {0}
             /\ t.last = t.first + Len(Token(t.id)) - 1
             /\ Part(Token(t.id), text, t.first - 1)
  <2>1. PICK id \in Ids, i \in DOMAIN text : t = P(id, i)
    BY <1>2
  <2>2. OccursAt(Token(t.id), t.first, text)
    BY <1>2
  <2>3. t.id = id /\ t.first = i /\ t.last = i + Len(Token(id)) - 1 /\ i \in Nat \ {0}
    BY <1>1, <2>1
  <2>4. i + Len(Token(id)) - 1 \in Nat \ {0}
    <3> DEFINE l == Len(Token(id))
    <3>1. l \in Nat \ {0}
      BY <1>3
    <3> HIDE DEF l
    <3>2. i + l - 1 \in Nat \ {0}
      BY <2>3, <3>1
    <3>3. QED
      BY <3>2 DEF l
  <2>5. t \in Placed
    BY <2>1, <2>3, <2>4 DEF Placed
  <2>6. QED
    BY <1>4, <2>2, <2>3, <2>5
<1>6. ASSUME NEW id \in Ids, NEW i \in Nat \ {0}, Part(Token(id), text, i - 1)
      PROVE  \E t \in Tokens(text) : t.id = id /\ t.first = i
  <2>1. i \in DOMAIN text
    <3> DEFINE l == Len(Token(id))
    <3>1. l \in Nat \ {0}
      BY <1>3
    <3>2. i - 1 + l <= Len(text)
      BY <1>6 DEF Part
    <3> HIDE DEF l
    <3>3. QED
      BY <1>1, <3>1, <3>2
  <2>2. OccursAt(Token(id), i, text)
    BY <1>4, <1>6
  <2>3. P(id, i) \in All /\ P(id, i).id = id /\ P(id, i).first = i
    BY <2>1
  <2> HIDE DEF P, All
  <2>4. P(id, i) \in Tokens(text)
    BY <1>2, <2>2, <2>3
  <2>5. QED
    BY <2>3, <2>4
<1>7. QED
  BY <1>5, <1>6

-----------------------------------------------------------------------------
(* Spans, by where they begin and what they cover *)

Span == [first : Nat \ {0}, last : Nat \ {0}, by : Text]

Begins(S, i, v) == \E x \in S : x.first = i /\ x.by = v

Covers(S, i) == \E x \in S : x.first <= i /\ i <= x.last

\* What begins at i is the same for all spans that do.
Begin1(S, i) == \A v, w : Begins(S, i, v) /\ Begins(S, i, w) => v = w

LEMMA PieceIs ==
  ASSUME NEW S \in SUBSET Span, NEW text, NEW i \in Nat, Begin1(S, i)
  PROVE  /\ \A v : Begins(S, i, v) => Piece(text, S, i) = v
         /\ (\A v : ~Begins(S, i, v)) /\ Covers(S, i) => Piece(text, S, i) = <<>>
         /\ (\A v : ~Begins(S, i, v)) /\ ~Covers(S, i) => Piece(text, S, i) = <<text[i]>>
<1> DEFINE x == CHOOSE s \in S : s.first = i
           begin == \E s \in S : s.first = i
           cover == \E s \in S : i \in s.first .. s.last
<1>1. begin <=> \E v : Begins(S, i, v)
  BY DEF Begins
<1>2. cover <=> Covers(S, i)
  <2>1. \A s \in S : s.first \in Nat /\ s.last \in Nat
    BY DEF Span
  <2>2. \A s \in S : i \in s.first .. s.last <=> s.first <= i /\ i <= s.last
    BY <2>1
  <2>3. QED
    BY <2>2 DEF Covers
<1>3. begin => Begins(S, i, x.by)
  BY DEF Begins
<1>4. Piece(text, S, i) = IF begin THEN x.by ELSE IF cover THEN <<>> ELSE <<text[i]>>
  BY DEF Piece
<1> HIDE DEF begin, cover, x
<1>5. QED
  BY <1>1, <1>2, <1>3, <1>4 DEF Begin1

LEMMA PieceInText ==
  ASSUME NEW S \in SUBSET Span, NEW text \in Text, NEW i \in 1..Len(text)
  PROVE  Piece(text, S, i) \in Text
<1> DEFINE x == CHOOSE s \in S : s.first = i
           begin == \E s \in S : s.first = i
<1>1. begin => x.by \in Text
  <2>1. begin => x \in S
    OBVIOUS
  <2> HIDE DEF x, begin
  <2>2. QED
    BY <2>1 DEF Span
<1>2. text[i] \in Characters
  BY LenProperties DEF Text
<1>3. <<text[i]>> \in Text /\ <<>> \in Text
  BY <1>2 DEF Text
<1>4. Piece(text, S, i) = IF begin THEN x.by
                          ELSE IF \E s \in S : i \in s.first .. s.last THEN <<>> ELSE <<text[i]>>
  BY DEF Piece
<1>5. QED
  BY <1>1, <1>3, <1>4

LEMMA PieceSame ==
  ASSUME NEW S \in SUBSET Span, NEW T \in SUBSET Span, NEW s, NEW t, NEW i \in Nat, NEW j \in Nat,
         s[i] = t[j], Begin1(S, i), \A v : Begins(S, i, v) <=> Begins(T, j, v), Covers(S, i) <=> Covers(T, j)
  PROVE  Piece(s, S, i) = Piece(t, T, j)
<1>1. Begin1(T, j)
  BY DEF Begin1
<1>2. /\ \A v : Begins(S, i, v) => Piece(s, S, i) = v
      /\ (\A v : ~Begins(S, i, v)) /\ Covers(S, i) => Piece(s, S, i) = <<>>
      /\ (\A v : ~Begins(S, i, v)) /\ ~Covers(S, i) => Piece(s, S, i) = <<s[i]>>
  BY PieceIs
<1>3. /\ \A v : Begins(T, j, v) => Piece(t, T, j) = v
      /\ (\A v : ~Begins(T, j, v)) /\ Covers(T, j) => Piece(t, T, j) = <<>>
      /\ (\A v : ~Begins(T, j, v)) /\ ~Covers(T, j) => Piece(t, T, j) = <<t[j]>>
  BY <1>1, PieceIs
<1>4. QED
  BY <1>2, <1>3

LEMMA RedactionsAre ==
  ASSUME NEW X \in SUBSET Located
  PROVE  /\ Redactions(X) \in SUBSET Span
         /\ \A i, v : Begins(Redactions(X), i, v) <=> v = Redacted /\ \E m \in X : m.rule.action = "redact" /\ m.first = i
         /\ \A i : Covers(Redactions(X), i) <=> \E m \in X : m.rule.action = "redact" /\ m.first <= i /\ i <= m.last
<1> DEFINE R(m) == [first |-> m.first, last |-> m.last, by |-> Redacted]
           Y == WithAction(X, "redact")
<1>1. Redactions(X) = {R(m) : m \in Y}
  BY DEF Redactions
<1>2. Y = {m \in X : m.rule.action = "redact"}
  BY DEF WithAction
<1>3. \A m \in X : m.first \in Nat \ {0} /\ m.last \in Nat \ {0}
  BY LocatedIs
<1>4. \A m \in X : R(m) \in Span
  BY <1>3, WordFacts DEF Span
<1>5. \A m : R(m).first = m.first /\ R(m).last = m.last /\ R(m).by = Redacted
  OBVIOUS
<1> HIDE DEF R, Y
<1>6. Redactions(X) \in SUBSET Span
  BY <1>1, <1>2, <1>4
<1>7. QED
  BY <1>1, <1>2, <1>5, <1>6 DEF Begins, Covers

LEMMA RestorationsAre ==
  ASSUME NEW T \in SUBSET Placed, \A t \in T : t.id \in DOMAIN Vault
  PROVE  /\ Restorations(T) \in SUBSET Span
         /\ \A i, v : Begins(Restorations(T), i, v) <=> \E t \in T : t.first = i /\ v = Vault[t.id]
         /\ \A i : Covers(Restorations(T), i) <=> \E t \in T : t.first <= i /\ i <= t.last
<1> DEFINE R(t) == [first |-> t.first, last |-> t.last, by |-> Vault[t.id]]
<1>1. Restorations(T) = {R(t) : t \in T}
  BY DEF Restorations
<1>2. \A t \in T : t.first \in Nat \ {0} /\ t.last \in Nat \ {0} /\ Vault[t.id] \in Text
  BY WordFacts DEF Placed
<1>3. \A t \in T : R(t) \in Span
  BY <1>2 DEF Span
<1>4. \A t : R(t).first = t.first /\ R(t).last = t.last /\ R(t).by = Vault[t.id]
  OBVIOUS
<1> HIDE DEF R
<1>5. Restorations(T) \in SUBSET Span
  BY <1>1, <1>3
<1>6. QED
  BY <1>1, <1>4, <1>5 DEF Begins, Covers

LEMMA UnionIs ==
  ASSUME NEW S, NEW T
  PROVE  /\ \A i, v : Begins(S \cup T, i, v) <=> Begins(S, i, v) \/ Begins(T, i, v)
         /\ \A i : Covers(S \cup T, i) <=> Covers(S, i) \/ Covers(T, i)
  BY DEF Begins, Covers

\* Where a text has something to hide and where a placeholder to restore.
Hides(text, i) == \E m \in Whole(text) : m.rule.action = "redact" /\ m.first = i
HidesIn(text, i) == \E m \in Whole(text) : m.rule.action = "redact" /\ m.first <= i /\ i <= m.last
Restores(text, i, v) == \E id \in DOMAIN Vault : v = Vault[id] /\ Part(Token(id), text, i - 1)
RestoresIn(text, i) ==
  \E id \in DOMAIN Vault, k \in Nat : k < i /\ i <= k + Len(Token(id)) /\ Part(Token(id), text, k)

Known(text) == {t \in Tokens(text) : t.id \in DOMAIN Vault}

Spans(text) == Redactions(Whole(text)) \cup Restorations(Known(text))

LEMMA RestoredAre ==
  ASSUME NEW text \in Text
  PROVE  /\ Restorations(Known(text)) \in SUBSET Span
         /\ \A i \in Nat \ {0} : \A v : Begins(Restorations(Known(text)), i, v) <=> Restores(text, i, v)
         /\ \A i \in Nat \ {0} : Covers(Restorations(Known(text)), i) <=> RestoresIn(text, i)
<1> DEFINE T == Known(text)
<1>1. /\ Tokens(text) \in SUBSET Placed
      /\ \A t \in Tokens(text) : /\ t.id \in Ids /\ t.first \in Nat \ {0}
                                 /\ t.last = t.first + Len(Token(t.id)) - 1
                                 /\ Part(Token(t.id), text, t.first - 1)
      /\ \A id \in Ids, i \in Nat \ {0} : Part(Token(id), text, i - 1) =>
           \E t \in Tokens(text) : t.id = id /\ t.first = i
  BY TokensIs
<1>2. T \in SUBSET Placed /\ \A t \in T : t.id \in DOMAIN Vault /\ t \in Tokens(text)
  BY <1>1 DEF Known
<1>3. \A id \in DOMAIN Vault : id \in Ids
  BY WordFacts
<1>4. \A id \in DOMAIN Vault, i \in Nat \ {0} : Part(Token(id), text, i - 1) => \E t \in T : t.id = id /\ t.first = i
  BY <1>1, <1>3 DEF Known
<1> HIDE DEF T
<1>5. /\ Restorations(T) \in SUBSET Span
      /\ \A i, v : Begins(Restorations(T), i, v) <=> \E t \in T : t.first = i /\ v = Vault[t.id]
      /\ \A i : Covers(Restorations(T), i) <=> \E t \in T : t.first <= i /\ i <= t.last
  BY <1>2, RestorationsAre
<1>6. ASSUME NEW i \in Nat \ {0}, NEW v
      PROVE  (\E t \in T : t.first = i /\ v = Vault[t.id]) <=> Restores(text, i, v)
  <2>1. ASSUME NEW t \in T, t.first = i, v = Vault[t.id] PROVE Restores(text, i, v)
    BY <1>1, <1>2, <2>1 DEF Restores
  <2>2. ASSUME Restores(text, i, v) PROVE \E t \in T : t.first = i /\ v = Vault[t.id]
    BY <1>4, <2>2 DEF Restores
  <2>3. QED
    BY <2>1, <2>2
<1>7. ASSUME NEW i \in Nat \ {0}
      PROVE  (\E t \in T : t.first <= i /\ i <= t.last) <=> RestoresIn(text, i)
  <2>1. ASSUME NEW t \in T, t.first <= i, i <= t.last PROVE RestoresIn(text, i)
    <3> DEFINE k == t.first - 1
               l == Len(Token(t.id))
    <3>1. t.first \in Nat \ {0} /\ t.last = t.first + l - 1 /\ Part(Token(t.id), text, k) /\ t.id \in DOMAIN Vault /\ l \in Nat
      BY <1>1, <1>2, <1>3, WordIs DEF Words
    <3> HIDE DEF l
    <3>2. k \in Nat /\ k < i /\ i <= k + l
      BY <2>1, <3>1
    <3>3. QED
      BY <3>1, <3>2 DEF RestoresIn, l
  <2>2. ASSUME NEW id \in DOMAIN Vault, NEW k \in Nat, k < i, i <= k + Len(Token(id)), Part(Token(id), text, k)
        PROVE  \E t \in T : t.first <= i /\ i <= t.last
    <3> DEFINE j == k + 1
               l == Len(Token(id))
    <3>1. j \in Nat \ {0} /\ j - 1 = k
      OBVIOUS
    <3>2. l \in Nat
      BY <1>3, WordIs DEF Words
    <3> HIDE DEF j, l
    <3>3. PICK t \in T : t.id = id /\ t.first = j
      BY <1>4, <2>2, <3>1
    <3>4. t.last = j + l - 1
      BY <1>1, <1>2, <3>3 DEF l
    <3>5. j <= i /\ i <= j + l - 1
      BY <2>2, <3>2 DEF j, l
    <3>6. QED
      BY <3>3, <3>4, <3>5
  <2>3. QED
    BY <2>1, <2>2 DEF RestoresIn
<1>8. QED
  BY <1>5, <1>6, <1>7 DEF T

LEMMA SpansAre ==
  ASSUME NEW text \in Text
  PROVE  /\ Spans(text) \in SUBSET Span
         /\ \A i \in Nat \ {0} : \A v : Begins(Spans(text), i, v) <=> (v = Redacted /\ Hides(text, i)) \/ Restores(text, i, v)
         /\ \A i \in Nat \ {0} : Covers(Spans(text), i) <=> HidesIn(text, i) \/ RestoresIn(text, i)
<1> DEFINE S == Redactions(Whole(text))
           T == Restorations(Known(text))
<1>1. /\ S \in SUBSET Span
      /\ \A i, v : Begins(S, i, v) <=> v = Redacted /\ Hides(text, i)
      /\ \A i : Covers(S, i) <=> HidesIn(text, i)
  <2>1. Whole(text) \in SUBSET Located
    BY WholeIs
  <2>2. QED
    BY <2>1, RedactionsAre DEF Hides, HidesIn
<1>2. /\ T \in SUBSET Span
      /\ \A i \in Nat \ {0} : \A v : Begins(T, i, v) <=> Restores(text, i, v)
      /\ \A i \in Nat \ {0} : Covers(T, i) <=> RestoresIn(text, i)
  BY RestoredAre
<1> HIDE DEF S, T
<1>3. /\ \A i, v : Begins(S \cup T, i, v) <=> Begins(S, i, v) \/ Begins(T, i, v)
      /\ \A i : Covers(S \cup T, i) <=> Covers(S, i) \/ Covers(T, i)
  BY UnionIs
<1>4. Spans(text) = S \cup T
  BY DEF Spans, S, T
<1>5. QED
  BY <1>1, <1>2, <1>3, <1>4

-----------------------------------------------------------------------------
(* Words that never overlap *)

LEMMA NotDiffer ==
  ASSUME NEW u \in Text, NEW v \in Text, NEW s, NEW c \in Nat, NEW d \in Nat, Part(u, s, c), Part(v, s, d)
  PROVE  ~Differ(u, v, d - c)
<1>1. Len(u) \in Nat /\ Len(v) \in Nat /\ DOMAIN u = 1..Len(u) /\ DOMAIN v = 1..Len(v)
  BY LenProperties DEF Text
<1> SUFFICES ASSUME NEW i \in DOMAIN u, i - (d - c) \in DOMAIN v, u[i] # v[i - (d - c)] PROVE FALSE
  BY DEF Differ
<1> DEFINE j == i - (d - c)
<1>2. i \in 1..Len(u) /\ j \in 1..Len(v) /\ d + j = c + i
  BY <1>1
<1>3. u[i] # v[j]
  OBVIOUS
<1> HIDE DEF j
<1>4. u[i] = s[c + i] /\ v[j] = s[d + j]
  BY <1>2 DEF Part
<1>5. QED
  BY <1>2, <1>3, <1>4

\* Words that are apart stand one after the other.
LEMMA ApartIs ==
  ASSUME NEW u \in Text, NEW v \in Text, NEW s, NEW c \in Nat, NEW d \in Nat, Part(u, s, c), Part(v, s, d), Apart(u, v)
  PROVE  c + Len(u) <= d \/ d + Len(v) <= c
<1>1. Len(u) \in Nat /\ Len(v) \in Nat
  BY LenProperties DEF Text
<1> SUFFICES ASSUME ~(c + Len(u) <= d), ~(d + Len(v) <= c) PROVE FALSE
  OBVIOUS
<1> DEFINE e == d - c
<1>2. e \in (1 - Len(v)) .. (Len(u) - 1)
  BY <1>1
<1>3. ~Differ(u, v, e)
  BY NotDiffer
<1> HIDE DEF e
<1>4. QED
  BY <1>2, <1>3 DEF Apart

\* One placeholder stands in a place, and where another word stands, it is that
\* of its marker.
LEMMA TokensApart ==
  ASSUME NEW id \in Ids, NEW s, NEW c \in Nat, NEW d \in Nat, Part(Token(id), s, c)
  PROVE  /\ \A other \in Ids : Part(Token(other), s, d) =>
              (c = d /\ id = other) \/ c + Len(Token(id)) <= d \/ d + Len(Token(other)) <= c
         /\ Part(Marker, s, d) => c = d \/ c + Len(Token(id)) <= d \/ d + Len(Marker) <= c
<1> DEFINE e == d - c
           u == Token(id)
<1>1. u \in Text /\ Len(u) \in Nat /\ Marker \in Text /\ Len(Marker) \in Nat
  BY WordIs, WordFacts DEF Words
<1>2. ASSUME NEW other \in Ids, Part(Token(other), s, d)
      PROVE  (c = d /\ id = other) \/ c + Len(u) <= d \/ d + Len(Token(other)) <= c
  <2> DEFINE v == Token(other)
  <2>1. v \in Text /\ Len(v) \in Nat
    BY WordIs DEF Words
  <2> SUFFICES ASSUME ~(c + Len(u) <= d), ~(d + Len(v) <= c) PROVE c = d /\ id = other
    OBVIOUS
  <2>2. ~Differ(u, v, e)
    BY <1>1, <1>2, <2>1, NotDiffer
  <2>3. \A k \in (1 - Len(v)) .. (Len(u) - 1) : (k = 0 /\ id = other) \/ Differ(u, v, k)
    BY WordAssumption
  <2> HIDE DEF u, v
  <2>4. e \in (1 - Len(v)) .. (Len(u) - 1)
    BY <1>1, <2>1
  <2>5. e = 0 /\ id = other
    <3> HIDE DEF e
    <3>1. QED
      BY <2>2, <2>3, <2>4
  <2>6. QED
    BY <2>5
<1>3. ASSUME Part(Marker, s, d)
      PROVE  c = d \/ c + Len(u) <= d \/ d + Len(Marker) <= c
  <2> SUFFICES ASSUME ~(c + Len(u) <= d), ~(d + Len(Marker) <= c) PROVE c = d
    OBVIOUS
  <2>1. ~Differ(u, Marker, e)
    BY <1>1, <1>3, NotDiffer
  <2>2. \A k \in (1 - Len(Marker)) .. (Len(u) - 1) : k = 0 \/ Differ(u, Marker, k)
    BY WordAssumption
  <2> HIDE DEF u
  <2>3. e \in (1 - Len(Marker)) .. (Len(u) - 1)
    BY <1>1
  <2>4. e = 0
    <3> HIDE DEF e
    <3>1. QED
      BY <2>1, <2>2, <2>3
  <2>5. QED
    BY <2>4
<1>4. QED
  BY <1>2, <1>3

LEMMA StandFree ==
  ASSUME NEW text \in Text
  PROVE  WordsStandFree(text) <=>
           \A m \in Scan(text), w \in Words, k \in Nat :
             Part(w, text, k) => m.last <= k \/ k + Len(w) < m.first
<1>1. Len(text) \in Nat /\ DOMAIN text = 1..Len(text) /\ \A m \in Scan(text) : m.first \in Nat /\ m.last \in Nat
  BY ScanIs, LocatedIs, LenProperties DEF Text
<1>2. \A w \in Words : w \in Text /\ Len(w) \in Nat \ {0}
  BY WordIs
<1>3. \A w \in Words, i \in Nat \ {0} : OccursAt(w, i, text) <=> Part(w, text, i - 1)
  BY <1>2, OccursAtIs DEF Text
<1>4. ASSUME WordsStandFree(text), NEW m \in Scan(text), NEW w \in Words, NEW k \in Nat, Part(w, text, k)
      PROVE  m.last <= k \/ k + Len(w) < m.first
  <2> DEFINE i == k + 1
             n == Len(w)
  <2>1. i \in Nat \ {0} /\ i - 1 = k /\ n \in Nat \ {0}
    BY <1>2
  <2>2. k + n <= Len(text)
    BY <1>4 DEF Part
  <2> HIDE DEF i, n
  <2>3. OccursAt(w, i, text)
    BY <1>3, <1>4, <2>1
  <2>4. i \in DOMAIN text
    BY <1>1, <2>1, <2>2
  <2>5. m.last < i \/ i + n - 1 < m.first
    BY <1>4, <2>3, <2>4 DEF WordsStandFree, Words, n
  <2>6. m.first \in Nat /\ m.last \in Nat
    BY <1>1
  <2>7. m.last <= k \/ k + n < m.first
    BY <2>1, <2>5, <2>6
  <2>8. QED
    BY <2>7 DEF n
<1>5. ASSUME \A m \in Scan(text), w \in Words, k \in Nat : Part(w, text, k) => m.last <= k \/ k + Len(w) < m.first,
             NEW m \in Scan(text), NEW w \in Words, NEW i \in DOMAIN text, OccursAt(w, i, text)
      PROVE  m.last < i \/ i + Len(w) - 1 < m.first
  <2> DEFINE k == i - 1
             n == Len(w)
  <2>1. i \in Nat \ {0} /\ k \in Nat /\ n \in Nat \ {0} /\ i = k + 1
    BY <1>1, <1>2
  <2>2. Part(w, text, k)
    BY <1>3, <1>5, <2>1
  <2> HIDE DEF k, n
  <2>3. m.last <= k \/ k + n < m.first
    BY <1>5, <2>1, <2>2 DEF n
  <2>4. m.first \in Nat /\ m.last \in Nat
    BY <1>1
  <2>5. m.last < i \/ i + n - 1 < m.first
    BY <2>1, <2>3, <2>4
  <2>6. QED
    BY <2>5 DEF n
<1>6. QED
  BY <1>4, <1>5 DEF WordsStandFree, Words

\* Nothing is found in a marker or in a placeholder.
LEMMA WordsUntouched ==
  ASSUME NEW text \in Text, WordsStandFree(text), NEW m \in Whole(text), NEW w \in Words, NEW k \in Nat, Part(w, text, k)
  PROVE  m.last <= k \/ k + Len(w) < m.first
<1>1. w \in Text /\ Len(w) \in Nat
  BY WordIs
<1>2. m \in Located
  BY WholeIs
<1> DEFINE f == m.first
           l == m.last
           n == k + Len(w)
<1>3. f \in Nat \ {0} /\ l \in Nat /\ f <= l
  BY <1>2, LocatedIs
<1>4. ASSUME NEW p \in Nat, f <= p, p <= l, k < p, p <= n PROVE FALSE
  <2>1. Len(text) \in Nat /\ Scan(text) \in SUBSET Located /\ \A x \in Scan(text) : x.last <= Len(text)
    BY ScanIs, LenProperties DEF Text
  <2>2. p \in m.first..m.last
    BY <1>3, <1>4
  <2>3. PICK x \in Scan(text) : p \in x.first..x.last
    BY <2>1, <2>2, MergeBounds DEF Whole
  <2>4. x.first \in Nat /\ x.last \in Nat
    BY <2>1, LocatedIs
  <2>5. x.last <= k \/ n < x.first
    BY StandFree
  <2>6. QED
    BY <1>1, <1>4, <2>3, <2>4, <2>5
<1>5. QED
  <2> SUFFICES ASSUME ~(l <= k), ~(n < f) PROVE FALSE
    OBVIOUS
  <2> HIDE DEF f, l
  <2> DEFINE p == IF f <= k THEN k + 1 ELSE f
  <2>1. p \in Nat /\ f <= p /\ p <= l /\ k < p
    BY <1>3
  <2>2. p <= n
    <3>1. Len(w) # 0
      BY WordIs
    <3>2. QED
      BY <1>1, <1>3, <3>1
  <2>3. QED
    BY <1>4, <2>1, <2>2

\* A span is one of them.
LEMMA SpansBegin1 ==
  ASSUME NEW text \in Text, WordsStandFree(text), NEW i \in Nat \ {0}
  PROVE  /\ Begin1(Spans(text), i)
         /\ \A v : Restores(text, i, v) => ~HidesIn(text, i) /\ ~Hides(text, i)
<1>1. \A v : Begins(Spans(text), i, v) <=> (v = Redacted /\ Hides(text, i)) \/ Restores(text, i, v)
  BY SpansAre
<1> DEFINE k == i - 1
<1>2. k \in Nat
  OBVIOUS
<1>3. ASSUME NEW v, Restores(text, i, v) PROVE ~HidesIn(text, i) /\ ~Hides(text, i)
  <2>1. PICK id \in DOMAIN Vault : Part(Token(id), text, k)
    BY <1>3 DEF Restores
  <2> DEFINE w == Token(id)
  <2>2. w \in Words /\ Len(w) \in Nat \ {0}
    BY WordFacts, WordIs DEF Words
  <2> HIDE DEF w
  <2>3. \A m \in Whole(text) : m.last <= k \/ k + Len(w) < m.first
    BY <1>2, <2>1, <2>2, WordsUntouched DEF w
  <2>4. \A m \in Whole(text) : m.first \in Nat /\ m.last \in Nat /\ m.first <= m.last
    BY WholeIs, LocatedIs
  <2>5. \A m \in Whole(text) : ~(m.first <= i /\ i <= m.last)
    BY <2>2, <2>3, <2>4
  <2>6. \A m \in Whole(text) : m.first # i
    BY <2>4, <2>5
  <2>7. QED
    BY <2>5, <2>6 DEF HidesIn, Hides
<1>4. ASSUME NEW v, NEW w, Restores(text, i, v), Restores(text, i, w) PROVE v = w
  <2>1. PICK id \in DOMAIN Vault : v = Vault[id] /\ Part(Token(id), text, k)
    BY <1>4 DEF Restores
  <2>2. PICK other \in DOMAIN Vault : w = Vault[other] /\ Part(Token(other), text, k)
    BY <1>4 DEF Restores
  <2>3. id \in Ids /\ other \in Ids
    BY WordFacts
  <2>4. (k = k /\ id = other) \/ k + Len(Token(id)) <= k \/ k + Len(Token(other)) <= k
    BY <1>2, <2>1, <2>2, <2>3, TokensApart
  <2>5. Len(Token(id)) \in Nat \ {0} /\ Len(Token(other)) \in Nat \ {0}
    BY <2>3, WordIs DEF Words
  <2>6. QED
    BY <1>2, <2>1, <2>2, <2>4, <2>5
<1>5. QED
  BY <1>1, <1>3, <1>4 DEF Begin1

-----------------------------------------------------------------------------
(* Texts made safe one after the other *)

Safe(text) == Rewrite(text, Spans(text))

\* What is hidden and restored in the first of two texts.
LEMMA SafeBefore ==
  ASSUME NEW s \in Text, NEW t \in Text, Joint(s, t), ~OpenEnd(s), NEW i \in 1..Len(s)
  PROVE  /\ Hides(s \o t, i) <=> Hides(s, i)
         /\ HidesIn(s \o t, i) <=> HidesIn(s, i)
         /\ \A v : Restores(s \o t, i, v) <=> Restores(s, i, v)
         /\ RestoresIn(s \o t, i) <=> RestoresIn(s, i)
<1> DEFINE c == Len(s)
           X == Whole(s)
           Z == Shifted(Whole(t), c)
<1>1. c \in Nat /\ i \in Nat \ {0} /\ i <= c
  BY LenProperties DEF Text
<1>2. Whole(s \o t) = X \cup Z
  BY WholeJoint
<1>3. \A m \in Z : m.first > c
  <2>1. Whole(t) \in SUBSET Located
    BY WholeIs
  <2>2. Z \in SUBSET Located /\ \A m \in Located : m \in Z =>
          \E k \in Whole(t) : m.rule = k.rule /\ m.first = k.first + c /\ m.last = k.last + c
    BY <1>1, <2>1, ShiftedIs
  <2> SUFFICES ASSUME NEW m \in Z PROVE m.first > c
    OBVIOUS
  <2>3. PICK k \in Whole(t) : m.first = k.first + c
    BY <2>2
  <2>4. k.first \in Nat \ {0}
    BY <2>1, LocatedIs
  <2>5. QED
    BY <1>1, <2>3, <2>4
<1> HIDE DEF X, Z, c
<1>4. \A m \in Z : m.first # i /\ ~(m.first <= i)
  <2> SUFFICES ASSUME NEW m \in Z PROVE m.first # i /\ ~(m.first <= i)
    OBVIOUS
  <2>1. m.first \in Nat
    <3>1. m \in Whole(s \o t) /\ s \o t \in Text
      BY <1>2, PartOfConcat DEF Text
    <3>2. QED
      BY <3>1, WholeIs, LocatedIs
  <2>2. QED
    BY <1>1, <1>3, <2>1
<1>5. Hides(s \o t, i) <=> Hides(s, i)
  BY <1>2, <1>4 DEF Hides, X
<1>6. HidesIn(s \o t, i) <=> HidesIn(s, i)
  BY <1>2, <1>4 DEF HidesIn, X
<1>7. ASSUME NEW id \in DOMAIN Vault, NEW k \in Nat, k < i
      PROVE  Part(Token(id), s \o t, k) <=> Part(Token(id), s, k)
  <2>1. Token(id) \in Words
    BY WordFacts DEF Words
  <2>2. Part(Token(id), s \o t, k) <=> Part(Token(id), s, k) \/ (k >= c /\ Part(Token(id), t, k - c))
    BY <2>1, WordJoint DEF c
  <2>3. ~(k >= c)
    BY <1>1, <1>7
  <2>4. QED
    BY <2>2, <2>3
<1>8. \A v : Restores(s \o t, i, v) <=> Restores(s, i, v)
  <2> DEFINE k == i - 1
  <2>1. k \in Nat /\ k < i
    BY <1>1
  <2> HIDE DEF k
  <2>2. \A id \in DOMAIN Vault : Part(Token(id), s \o t, k) <=> Part(Token(id), s, k)
    BY <1>7, <2>1
  <2>3. QED
    BY <2>2 DEF Restores, k
<1>9. RestoresIn(s \o t, i) <=> RestoresIn(s, i)
  BY <1>7 DEF RestoresIn
<1>10. QED
  BY <1>5, <1>6, <1>8, <1>9

\* And in the second.
LEMMA SafeAfter ==
  ASSUME NEW s \in Text, NEW t \in Text, Joint(s, t), ~OpenEnd(s), NEW i \in 1..Len(t)
  PROVE  /\ Hides(s \o t, Len(s) + i) <=> Hides(t, i)
         /\ HidesIn(s \o t, Len(s) + i) <=> HidesIn(t, i)
         /\ \A v : Restores(s \o t, Len(s) + i, v) <=> Restores(t, i, v)
         /\ RestoresIn(s \o t, Len(s) + i) <=> RestoresIn(t, i)
<1> DEFINE c == Len(s)
           X == Whole(s)
           Y == Whole(t)
           Z == Shifted(Whole(t), c)
           j == c + i
           Sh(m, k) == m.rule = k.rule /\ m.first = k.first + c /\ m.last = k.last + c
<1>1. c \in Nat /\ i \in Nat \ {0}
  BY LenProperties DEF Text
<1>2. Whole(s \o t) = X \cup Z
  BY WholeJoint
<1>3. Y \in SUBSET Located
  BY WholeIs
<1>4. (\A m \in Z : \E k \in Y : Sh(m, k)) /\ (\A k \in Y : \E m \in Z : Sh(m, k))
  <2>1. Z \in SUBSET Located /\ \A m \in Located : m \in Z => \E k \in Y : Sh(m, k)
    BY <1>1, <1>3, ShiftedIs
  <2>2. \A k \in Y : \E m \in Z : Sh(m, k)
    BY <1>1, <1>3, Unshift
  <2>3. QED
    BY <2>1, <2>2
<1>5. \A m \in X : m.first # j /\ ~(j <= m.last)
  <2> SUFFICES ASSUME NEW m \in X PROVE m.first # j /\ ~(j <= m.last)
    OBVIOUS
  <2>1. m.first \in 1..c /\ m.last \in m.first..c
    BY WholeIs
  <2> HIDE DEF c
  <2>2. QED
    BY <1>1, <2>1
<1>6. ASSUME NEW m, NEW k \in Y, Sh(m, k)
      PROVE  /\ m.rule = k.rule /\ (m.first = j <=> k.first = i)
             /\ (m.first <= j <=> k.first <= i) /\ (j <= m.last <=> i <= k.last)
  <2> DEFINE f == k.first
             l == k.last
  <2>1. f \in Nat /\ l \in Nat /\ m.first = f + c /\ m.last = l + c /\ m.rule = k.rule
    BY <1>3, <1>6, LocatedIs
  <2> HIDE DEF f, l, c
  <2>2. /\ f + c = c + i <=> f = i
        /\ f + c <= c + i <=> f <= i
        /\ c + i <= l + c <=> i <= l
    BY <1>1, <2>1
  <2>3. QED
    BY <2>1, <2>2 DEF f, l
<1> HIDE DEF X, Y, Z, c, Sh
<1>7. Hides(s \o t, j) <=> Hides(t, i)
  <2>1. (\E m \in X \cup Z : m.rule.action = "redact" /\ m.first = j) <=> \E k \in Y : k.rule.action = "redact" /\ k.first = i
    <3> HIDE DEF j
    <3>1. QED
      BY <1>4, <1>5, <1>6
  <2>2. QED
    BY <1>2, <2>1 DEF Hides, Y
<1>8. HidesIn(s \o t, j) <=> HidesIn(t, i)
  <2>1. (\E m \in X \cup Z : m.rule.action = "redact" /\ m.first <= j /\ j <= m.last)
          <=> \E k \in Y : k.rule.action = "redact" /\ k.first <= i /\ i <= k.last
    <3> HIDE DEF j
    <3>1. QED
      BY <1>4, <1>5, <1>6
  <2>2. QED
    BY <1>2, <2>1 DEF HidesIn, Y
<1>9. ASSUME NEW id \in DOMAIN Vault, NEW k \in Nat
      PROVE  /\ Part(Token(id), s \o t, c + k) <=> Part(Token(id), t, k)
             /\ Part(Token(id), s, k) => k + Len(Token(id)) <= c
             /\ Part(Token(id), s \o t, k) => Part(Token(id), s, k) \/ (k >= c /\ Part(Token(id), t, k - c))
             /\ Len(Token(id)) \in Nat \ {0}
  <2> DEFINE w == Token(id)
             h == c + k
  <2>1. w \in Words /\ Len(w) \in Nat \ {0}
    BY WordFacts, WordIs DEF Words
  <2>2. h \in Nat /\ h >= c /\ h - c = k /\ k \in Nat
    BY <1>1
  <2> HIDE DEF w, h
  <2>3. Part(w, s, k) => k + Len(w) <= c
    BY DEF Part, c
  <2>4. Part(w, s, h) => h + Len(w) <= c
    BY DEF Part, c
  <2>5. ~Part(w, s, h)
    BY <1>1, <2>1, <2>2, <2>4
  <2>6. Part(w, s \o t, h) <=> Part(w, s, h) \/ (h >= c /\ Part(w, t, h - c))
    BY <2>1, <2>2, WordJoint DEF c
  <2>7. Part(w, s \o t, k) <=> Part(w, s, k) \/ (k >= c /\ Part(w, t, k - c))
    BY <2>1, WordJoint DEF c
  <2>8. QED
    BY <2>1, <2>2, <2>3, <2>5, <2>6, <2>7 DEF w, h
<1>10. \A v : Restores(s \o t, j, v) <=> Restores(t, i, v)
  <2> DEFINE k == i - 1
  <2>1. k \in Nat /\ j - 1 = c + k
    BY <1>1
  <2> HIDE DEF k, j
  <2>2. \A id \in DOMAIN Vault : Part(Token(id), s \o t, j - 1) <=> Part(Token(id), t, k)
    BY <1>9, <2>1
  <2>3. QED
    BY <2>2 DEF Restores, k
<1>11. RestoresIn(s \o t, j) <=> RestoresIn(t, i)
  <2>1. ASSUME NEW id \in DOMAIN Vault, NEW k \in Nat, k < j, j <= k + Len(Token(id)), Part(Token(id), s \o t, k)
        PROVE  RestoresIn(t, i)
    <3> DEFINE h == k - c
               l == Len(Token(id))
    <3>1. l \in Nat \ {0}
      BY <1>9
    <3>2. ~Part(Token(id), s, k)
      <4>1. Part(Token(id), s, k) => k + l <= c
        BY <1>9
      <4>2. j <= k + l
        BY <2>1
      <4> HIDE DEF l
      <4>3. ~(k + l <= c)
        BY <1>1, <3>1, <4>2
      <4>4. QED
        BY <4>1, <4>3
    <3>3. k >= c /\ Part(Token(id), t, h)
      BY <1>9, <2>1, <3>2
    <3>4. j <= k + l
      BY <2>1
    <3> HIDE DEF l
    <3>5. h \in Nat /\ h < i /\ i <= h + l
      BY <1>1, <2>1, <3>1, <3>3, <3>4
    <3> HIDE DEF h
    <3>6. QED
      BY <3>3, <3>5 DEF RestoresIn, l
  <2>2. ASSUME NEW id \in DOMAIN Vault, NEW k \in Nat, k < i, i <= k + Len(Token(id)), Part(Token(id), t, k)
        PROVE  RestoresIn(s \o t, j)
    <3> DEFINE h == c + k
               l == Len(Token(id))
    <3>1. l \in Nat \ {0} /\ Part(Token(id), s \o t, h)
      BY <1>9, <2>2
    <3>2. i <= k + l
      BY <2>2
    <3> HIDE DEF l
    <3>3. h \in Nat /\ h < j /\ j <= h + l
      BY <1>1, <2>2, <3>1, <3>2
    <3> HIDE DEF h, j
    <3>4. QED
      BY <3>1, <3>3 DEF RestoresIn, l
  <2> HIDE DEF j
  <2>3. QED
    BY <2>1, <2>2 DEF RestoresIn
<1>12. QED
  BY <1>7, <1>8, <1>10, <1>11 DEF c

\* What becomes of the characters of the first text does not depend on the second.
LEMMA PiecesBefore ==
  ASSUME NEW s \in Text, NEW t \in Text, Joint(s, t), ~OpenEnd(s), NEW i \in 1..Len(s),
         NEW u, u[i] = s[i]
  PROVE  Piece(u, Spans(s \o t), i) = Piece(s, Spans(s), i)
<1> DEFINE st == s \o t
<1>1. st \in Text /\ i \in Nat \ {0}
  BY PartOfConcat, LenProperties DEF Text
<1>2. /\ Hides(st, i) <=> Hides(s, i)
      /\ HidesIn(st, i) <=> HidesIn(s, i)
      /\ \A v : Restores(st, i, v) <=> Restores(s, i, v)
      /\ RestoresIn(st, i) <=> RestoresIn(s, i)
  BY SafeBefore
<1> HIDE DEF st
<1>3. /\ Spans(s) \in SUBSET Span
      /\ \A v : Begins(Spans(s), i, v) <=> (v = Redacted /\ Hides(s, i)) \/ Restores(s, i, v)
      /\ Covers(Spans(s), i) <=> HidesIn(s, i) \/ RestoresIn(s, i)
  BY <1>1, SpansAre
<1>4. /\ Spans(st) \in SUBSET Span
      /\ \A v : Begins(Spans(st), i, v) <=> (v = Redacted /\ Hides(st, i)) \/ Restores(st, i, v)
      /\ Covers(Spans(st), i) <=> HidesIn(st, i) \/ RestoresIn(st, i)
  BY <1>1, SpansAre
<1>5. Begin1(Spans(st), i)
  BY <1>1, SpansBegin1 DEF Joint, Regular, st
<1>6. \A v : Begins(Spans(st), i, v) <=> Begins(Spans(s), i, v)
  BY <1>2, <1>3, <1>4
<1>7. Covers(Spans(st), i) <=> Covers(Spans(s), i)
  BY <1>2, <1>3, <1>4
<1>8. Piece(u, Spans(st), i) = Piece(s, Spans(s), i)
  BY <1>1, <1>3, <1>4, <1>5, <1>6, <1>7, PieceSame
<1>9. QED
  BY <1>8 DEF st

LEMMA PiecesAfter ==
  ASSUME NEW s \in Text, NEW t \in Text, Joint(s, t), ~OpenEnd(s), NEW i \in 1..Len(t)
  PROVE  Piece(s \o t, Spans(s \o t), Len(s) + i) = Piece(t, Spans(t), i)
<1> DEFINE st == s \o t
           j == Len(s) + i
<1>1. st \in Text /\ i \in Nat \ {0} /\ j \in Nat \ {0} /\ st[j] = t[i]
  BY PartOfConcat, ConcatIs, LenProperties DEF Text
<1>2. /\ Hides(st, j) <=> Hides(t, i)
      /\ HidesIn(st, j) <=> HidesIn(t, i)
      /\ \A v : Restores(st, j, v) <=> Restores(t, i, v)
      /\ RestoresIn(st, j) <=> RestoresIn(t, i)
  BY SafeAfter
<1> HIDE DEF st, j
<1>3. /\ Spans(t) \in SUBSET Span
      /\ \A v : Begins(Spans(t), i, v) <=> (v = Redacted /\ Hides(t, i)) \/ Restores(t, i, v)
      /\ Covers(Spans(t), i) <=> HidesIn(t, i) \/ RestoresIn(t, i)
  BY <1>1, SpansAre
<1>4. /\ Spans(st) \in SUBSET Span
      /\ \A v : Begins(Spans(st), j, v) <=> (v = Redacted /\ Hides(st, j)) \/ Restores(st, j, v)
      /\ Covers(Spans(st), j) <=> HidesIn(st, j) \/ RestoresIn(st, j)
  BY <1>1, SpansAre
<1>5. Begin1(Spans(st), j)
  BY <1>1, SpansBegin1 DEF Joint, Regular, st
<1>6. \A v : Begins(Spans(st), j, v) <=> Begins(Spans(t), i, v)
  BY <1>2, <1>3, <1>4
<1>7. Covers(Spans(st), j) <=> Covers(Spans(t), i)
  BY <1>2, <1>3, <1>4
<1>8. Piece(st, Spans(st), j) = Piece(t, Spans(t), i)
  BY <1>1, <1>3, <1>4, <1>5, <1>6, <1>7, PieceSame
<1>9. QED
  BY <1>8 DEF st, j

LEMMA SafeIs ==
  ASSUME NEW s \in Text
  PROVE  /\ Safe(s) \in Text
         /\ \A i \in 1..Len(s) : Piece(s, Spans(s), i) \in Text
<1>1. Spans(s) \in SUBSET Span
  BY SpansAre
<1>2. \A i \in 1..Len(s) : Piece(s, Spans(s), i) \in Text
  BY <1>1, PieceInText
<1>3. QED
  BY <1>2, RewriteIs DEF Safe, Text

LEMMA SafeJoint ==
  ASSUME NEW s \in Text, NEW t \in Text, Joint(s, t), ~OpenEnd(s)
  PROVE  Safe(s \o t) = Safe(s) \o Safe(t)
<1> DEFINE u == s \o t
<1>1. u \in Text /\ Len(u) = Len(s) + Len(t) /\ \A i \in 1..Len(s) : u[i] = s[i]
  BY PartOfConcat, ConcatIs DEF Text
<1>2. \A i \in 1..Len(s) : Piece(s, Spans(s), i) \in Text /\ Piece(u, Spans(u), i) = Piece(s, Spans(s), i)
  <2> SUFFICES ASSUME NEW i \in 1..Len(s)
               PROVE  Piece(s, Spans(s), i) \in Text /\ Piece(u, Spans(u), i) = Piece(s, Spans(s), i)
    OBVIOUS
  <2>1. u[i] = s[i]
    BY <1>1
  <2> HIDE DEF u
  <2>2. Piece(u, Spans(s \o t), i) = Piece(s, Spans(s), i)
    BY <2>1, PiecesBefore
  <2>3. QED
    BY <2>2, SafeIs DEF u
<1>3. \A i \in 1..Len(t) : Piece(t, Spans(t), i) \in Text /\ Piece(u, Spans(u), Len(s) + i) = Piece(t, Spans(t), i)
  BY SafeIs, PiecesAfter
<1> HIDE DEF u
<1>4. Rewrite(u, Spans(u)) = Rewrite(s, Spans(s)) \o Rewrite(t, Spans(t))
  <2> DEFINE S == Spans(s)
             T == Spans(t)
             U == Spans(u)
  <2>1. s \in Seq(Characters) /\ t \in Seq(Characters) /\ u \in Seq(Characters)
    BY <1>1 DEF Text
  <2>2. \A i \in 1..Len(s) : Piece(s, S, i) \in Seq(Characters) /\ Piece(u, U, i) = Piece(s, S, i)
    BY <1>2 DEF Text
  <2>3. \A i \in 1..Len(t) : Piece(t, T, i) \in Seq(Characters) /\ Piece(u, U, Len(s) + i) = Piece(t, T, i)
    BY <1>3 DEF Text
  <2> HIDE DEF S, T, U
  <2>4. Rewrite(u, U) = Rewrite(s, S) \o Rewrite(t, T)
    <3>1. Len(u) = Len(s) + Len(t)
      BY <1>1
    <3>2. PiecesAgree(Characters, u, U, s, S, t, T)
      BY <2>1, <2>2, <2>3, <3>1 DEF PiecesAgree
    <3>3. QED
      BY <3>2, RewriteSplit
  <2>5. QED
    BY <2>4 DEF S, T, U
<1>5. QED
  BY <1>4 DEF Safe, u

-----------------------------------------------------------------------------
(* Where a character goes when spans are replaced *)

\* The length of what the first i characters become.
EndAt(text, S, i) == Len(TextOf(Pieces(text, S), i))

LEMMA AtIs ==
  ASSUME NEW text \in Text, NEW S \in SUBSET Span
  PROVE  /\ Rewrite(text, S) \in Text /\ Len(Rewrite(text, S)) = EndAt(text, S, Len(text))
         /\ EndAt(text, S, 0) = 0
         /\ \A i \in 0..Len(text) : EndAt(text, S, i) \in Nat
         /\ \A i \in 1..Len(text) : /\ Piece(text, S, i) \in Text
                                    /\ EndAt(text, S, i) = EndAt(text, S, i - 1) + Len(Piece(text, S, i))
                                    /\ Part(Piece(text, S, i), Rewrite(text, S), EndAt(text, S, i - 1))
         /\ \A i \in 0..Len(text) : \A j \in i..Len(text) : EndAt(text, S, i) <= EndAt(text, S, j)
<1> DEFINE n == Len(text)
           p == Pieces(text, S)
           out == Rewrite(text, S)
           T(i) == TextOf(p, i)
<1>1. n \in Nat
  BY LenProperties DEF Text
<1>2. \A i \in 1..n : Piece(text, S, i) \in Text
  BY PieceInText
<1>3. /\ p \in Seq(Text) /\ Len(p) = n
      /\ \A i \in 1..n : p[i] = Piece(text, S, i)
      /\ out = T(n) /\ out \in Text
  BY <1>2, RewriteIs DEF Text
<1> HIDE DEF n, p, out
<1>4. /\ T(0) = <<>>
      /\ \A i \in 0..n : T(i) \in Text
      /\ \A i \in 1..n : T(i) = T(i - 1) \o p[i]
  BY <1>3, TextOfSteps DEF Text
<1>5. \A i \in 0..n : Len(T(i)) \in Nat
  BY <1>4, LenProperties DEF Text
<1>6. ASSUME NEW i \in 0..n, NEW j \in i..n PROVE Part(T(i), T(j), 0) /\ Len(T(i)) <= Len(T(j))
  <2>1. Part(T(i), T(j), 0)
    BY <1>3, TextOfGrows DEF Text
  <2>2. j \in 0..n
    BY <1>1
  <2>3. Len(T(i)) \in Nat /\ Len(T(j)) \in Nat /\ 0 + Len(T(i)) <= Len(T(j))
    BY <1>5, <2>1, <2>2 DEF Part
  <2>4. Len(T(i)) <= Len(T(j))
    BY <2>3
  <2>5. QED
    BY <2>1, <2>4
<1>7. ASSUME NEW i \in 1..n
      PROVE  Len(T(i)) = Len(T(i - 1)) + Len(p[i]) /\ Part(p[i], out, Len(T(i - 1)))
  <2> DEFINE h == i - 1
  <2>1. h \in 0..n /\ i \in 0..n /\ n \in i..n
    BY <1>1
  <2> HIDE DEF h
  <2>2. T(h) \in Text /\ p[i] \in Text /\ T(i) = T(h) \o p[i] /\ Len(T(h)) \in Nat
    BY <1>2, <1>3, <1>4, <1>5, <2>1 DEF h
  <2>3. Len(T(i)) = Len(T(h)) + Len(p[i]) /\ Part(p[i], T(i), Len(T(h))) /\ T(i) \in Text
    BY <2>2, PartOfConcat DEF Text
  <2>4. Part(T(i), out, 0)
    BY <1>3, <1>6, <2>1
  <2>5. Part(p[i], out, 0 + Len(T(h)))
    BY <1>3, <2>2, <2>3, <2>4, PartOfPart DEF Text
  <2>6. 0 + Len(T(h)) = Len(T(h))
    BY <2>2
  <2>7. QED
    BY <2>3, <2>5, <2>6 DEF h
<1>8. Len(T(0)) = 0
  BY <1>4, EmptySeq
<1>9. \A i : EndAt(text, S, i) = Len(T(i))
  BY DEF EndAt, p
<1> HIDE DEF T
<1>10. QED
  BY <1>2, <1>3, <1>5, <1>6, <1>7, <1>8, <1>9 DEF n, out

Plain(S, i) == ~Covers(S, i) /\ \A v : ~Begins(S, i, v)

LEMMA PieceOfPlain ==
  ASSUME NEW text \in Text, NEW S \in SUBSET Span, NEW i \in 1..Len(text), Plain(S, i)
  PROVE  /\ Piece(text, S, i) = <<text[i]>>
         /\ EndAt(text, S, i) = EndAt(text, S, i - 1) + 1
         /\ Rewrite(text, S)[EndAt(text, S, i - 1) + 1] = text[i]
<1>1. i \in Nat /\ Begin1(S, i)
  BY DEF Plain, Begin1
<1>2. Piece(text, S, i) = <<text[i]>>
  BY <1>1, PieceIs DEF Plain
<1>3. /\ EndAt(text, S, i) = EndAt(text, S, i - 1) + Len(Piece(text, S, i))
      /\ Part(Piece(text, S, i), Rewrite(text, S), EndAt(text, S, i - 1))
  BY AtIs
<1>4. Len(<<text[i]>>) = 1 /\ <<text[i]>>[1] = text[i]
  OBVIOUS
<1>5. 1 \in 1..Len(Piece(text, S, i))
  BY <1>2, <1>4
<1>6. Piece(text, S, i)[1] = Rewrite(text, S)[EndAt(text, S, i - 1) + 1]
  BY <1>3, <1>5 DEF Part
<1>7. QED
  BY <1>2, <1>3, <1>4, <1>6

\* A word of which no character is replaced stands in the result as well.
LEMMA PlainWord ==
  ASSUME NEW text \in Text, NEW S \in SUBSET Span, NEW w \in Text, NEW c \in Nat, Part(w, text, c),
         \A i \in (c + 1)..(c + Len(w)) : Plain(S, i)
  PROVE  /\ Part(w, Rewrite(text, S), EndAt(text, S, c))
         /\ \A k \in 0..Len(w) : EndAt(text, S, c + k) = EndAt(text, S, c) + k
<1> DEFINE n == Len(text)
           l == Len(w)
           q == EndAt(text, S, c)
           K == {k \in 0..l : EndAt(text, S, c + k) = q + k}
           out == Rewrite(text, S)
<1>1. n \in Nat /\ l \in Nat /\ c + l <= n
  BY LenProperties DEF Text, Part
<1>2. /\ \A i \in 0..n : EndAt(text, S, i) \in Nat
      /\ Len(out) = EndAt(text, S, n)
      /\ \A i \in 0..n : \A j \in i..n : EndAt(text, S, i) <= EndAt(text, S, j)
  BY AtIs
<1> HIDE DEF n, l, out
<1>3. ASSUME NEW k \in 1..l
      PROVE  /\ EndAt(text, S, c + k) = EndAt(text, S, c + (k - 1)) + 1
             /\ out[EndAt(text, S, c + (k - 1)) + 1] = w[k]
  <2> DEFINE i == c + k
  <2>1. i \in 1..n /\ i \in (c + 1)..(c + l) /\ i - 1 = c + (k - 1)
    BY <1>1
  <2> HIDE DEF i
  <2>2. EndAt(text, S, i) = EndAt(text, S, i - 1) + 1 /\ out[EndAt(text, S, i - 1) + 1] = text[i]
    BY <2>1, PieceOfPlain DEF n, l, out
  <2>3. w[k] = text[i]
    BY DEF Part, l, i
  <2>4. QED
    BY <2>1, <2>2, <2>3 DEF i
<1>4. q \in Nat
  BY <1>1, <1>2
<1>5. 0 \in K
  BY <1>1, <1>4
<1>6. ASSUME NEW k \in 0..(l-1), k \in K PROVE k + 1 \in K
  <2> DEFINE j == k + 1
  <2>1. j \in 1..l /\ j \in 0..l /\ j - 1 = k
    BY <1>1
  <2> HIDE DEF j
  <2>2. EndAt(text, S, c + j) = EndAt(text, S, c + k) + 1
    BY <1>3, <2>1
  <2>3. EndAt(text, S, c + k) = q + k
    BY <1>6
  <2> HIDE DEF q
  <2>4. EndAt(text, S, c + j) = q + j
    BY <1>4, <2>2, <2>3 DEF j
  <2>5. QED
    BY <2>1, <2>4 DEF q, j
<1>7. 0..l \subseteq K
  <2> HIDE DEF K
  <2>1. QED
    BY <1>1, <1>5, <1>6, UpTo
<1>8. \A k \in 0..l : EndAt(text, S, c + k) = q + k
  BY <1>7
<1>9. ASSUME NEW k \in 1..l PROVE w[k] = out[q + k]
  <2> DEFINE j == k - 1
  <2>1. j \in 0..l
    BY <1>1
  <2> HIDE DEF j
  <2>2. out[EndAt(text, S, c + j) + 1] = w[k] /\ EndAt(text, S, c + j) = q + j
    BY <1>3, <1>8, <2>1 DEF j
  <2> HIDE DEF q
  <2>3. (q + j) + 1 = q + k
    BY <1>4 DEF j
  <2>4. QED
    BY <2>2, <2>3
<1>10. q + l <= Len(out)
  <2> DEFINE j == c + l
  <2>1. j \in 0..n /\ n \in j..n
    BY <1>1
  <2>2. EndAt(text, S, j) = q + l
    BY <1>1, <1>8
  <2> HIDE DEF j
  <2>3. EndAt(text, S, j) <= EndAt(text, S, n)
    BY <1>2, <2>1
  <2>4. QED
    BY <1>2, <2>2, <2>3
<1>11. QED
  BY <1>8, <1>9, <1>10 DEF l, out, Part

\* Every character of the result comes from one of the text.
LEMMA Origin ==
  ASSUME NEW text \in Text, NEW S \in SUBSET Span, NEW q \in 1..Len(Rewrite(text, S))
  PROVE  \E i \in 1..Len(text) : EndAt(text, S, i - 1) < q /\ q <= EndAt(text, S, i)
<1> DEFINE n == Len(text)
           I == {i \in 0..n : q <= EndAt(text, S, i)}
<1>1. n \in Nat
  BY LenProperties DEF Text
<1>2. Len(Rewrite(text, S)) = EndAt(text, S, n) /\ EndAt(text, S, 0) = 0 /\ \A i \in 0..n : EndAt(text, S, i) \in Nat
  BY AtIs
<1>3. n \in I /\ I \in SUBSET Nat
  BY <1>1, <1>2
<1>4. PICK i \in I : \A j \in I : i <= j
  <2> HIDE DEF I
  <2>1. QED
    BY <1>3, Least
<1>5. i \in 0..n /\ q <= EndAt(text, S, i)
  OBVIOUS
<1>6. i # 0
  <2> SUFFICES ASSUME i = 0 PROVE FALSE
    OBVIOUS
  <2>1. q <= 0
    BY <1>2, <1>5
  <2>2. q \in Nat \ {0}
    BY <1>1, <1>2
  <2>3. QED
    BY <2>1, <2>2
<1> DEFINE h == i - 1
<1>7. h \in 0..n /\ ~(i <= h) /\ i \in 1..n
  BY <1>1, <1>5, <1>6
<1> HIDE DEF h, n
<1>8. h \notin I
  BY <1>4, <1>7
<1>9. ~(q <= EndAt(text, S, h))
  BY <1>7, <1>8
<1>10. EndAt(text, S, h) < q
  <2>1. EndAt(text, S, h) \in Nat /\ EndAt(text, S, n) \in Nat
    BY <1>1, <1>2, <1>7
  <2>2. q \in Int
    BY <1>2, <2>1
  <2>3. QED
    BY <1>9, <2>1, <2>2
<1>11. QED
  BY <1>5, <1>7, <1>10 DEF h, n

Hiding(S) == S \in SUBSET Span /\ \A x \in S : x.by = Redacted

\* What redacting makes of a character.
LEMMA HidingIs ==
  ASSUME NEW text \in Text, NEW S, Hiding(S), NEW i \in 1..Len(text)
  PROVE  \/ (\E v : Begins(S, i, v)) /\ Piece(text, S, i) = Redacted
         \/ (\A v : ~Begins(S, i, v)) /\ Covers(S, i) /\ Piece(text, S, i) = <<>>
         \/ Plain(S, i)
<1>1. \A v : Begins(S, i, v) => v = Redacted
  BY DEF Begins, Hiding
<1>2. Begin1(S, i) /\ i \in Nat /\ S \in SUBSET Span
  BY <1>1 DEF Begin1, Hiding
<1>3. /\ \A v : Begins(S, i, v) => Piece(text, S, i) = v
      /\ (\A v : ~Begins(S, i, v)) /\ Covers(S, i) => Piece(text, S, i) = <<>>
  BY <1>2, PieceIs
<1>4. QED
  BY <1>1, <1>3 DEF Plain

\* A word apart from what is put in place of values comes from where it stood.
LEMMA HiddenWord ==
  ASSUME NEW text \in Text, NEW S, Hiding(S), NEW w \in Text, Apart(Redacted, w), Len(w) # 0,
         NEW q \in Nat, Part(w, Rewrite(text, S), q)
  PROVE  \E c \in Nat : /\ Part(w, text, c) /\ EndAt(text, S, c) = q
                        /\ \A i \in (c + 1)..(c + Len(w)) : Plain(S, i)
<1> DEFINE n == Len(text)
           l == Len(w)
           out == Rewrite(text, S)
           A(i) == EndAt(text, S, i)
           From(i, k) == i \in 1..n /\ A(i - 1) = q + (k - 1) /\ A(i) = q + k /\ Plain(S, i) /\ text[i] = w[k]
<1>1. n \in Nat /\ l \in Nat \ {0} /\ Redacted \in Text /\ Len(Redacted) \in Nat \ {0} /\ S \in SUBSET Span
  BY LenProperties, WordFacts DEF Text, Hiding
<1>2. /\ \A i \in 0..n : A(i) \in Nat
      /\ A(0) = 0
      /\ Len(out) = A(n) /\ out \in Text
      /\ \A i \in 1..n : A(i) = A(i - 1) + Len(Piece(text, S, i)) /\ Part(Piece(text, S, i), out, A(i - 1))
      /\ \A i \in 0..n : \A j \in i..n : A(i) <= A(j)
  BY <1>1, AtIs
<1>3. q + l <= Len(out)
  BY DEF Part
<1> HIDE DEF n, l, out, A
<1>4. ASSUME NEW k \in 1..l PROVE \E i \in 1..n : From(i, k)
  <2> DEFINE p == q + k
  <2>1. p \in 1..Len(out)
    BY <1>1, <1>2, <1>3
  <2>2. PICK i \in 1..n : A(i - 1) < p /\ p <= A(i)
    BY <1>1, <2>1, Origin DEF out, n, A
  <2> DEFINE h == i - 1
  <2>3. h \in 0..n /\ i \in 0..n
    BY <1>1
  <2>4. A(h) \in Nat /\ A(i) \in Nat
    BY <1>2, <2>3
  <2>5. A(i) = A(h) + Len(Piece(text, S, i)) /\ Part(Piece(text, S, i), out, A(h))
    BY <1>2
  <2> HIDE DEF h, p
  <2>6. A(h) < p /\ p <= A(i)
    BY <2>2 DEF h
  <2>7. ~(Piece(text, S, i) = <<>>)
    <3> SUFFICES ASSUME Piece(text, S, i) = <<>> PROVE FALSE
      OBVIOUS
    <3>1. Len(<<>>) = 0
      BY EmptySeq
    <3>2. A(i) = A(h) + 0
      BY <2>5, <3>1
    <3>3. QED
      BY <2>4, <2>6, <3>2 DEF p
  <2>8. ~(Piece(text, S, i) = Redacted)
    <3> SUFFICES ASSUME Piece(text, S, i) = Redacted PROVE FALSE
      OBVIOUS
    <3>1. A(h) + Len(Redacted) <= q \/ q + l <= A(h)
      BY <1>1, <2>4, <2>5, ApartIs DEF out, l
    <3>2. A(i) = A(h) + Len(Redacted)
      BY <2>5
    <3> DEFINE r == Len(Redacted)
    <3>3. r \in Nat
      BY <1>1
    <3> HIDE DEF r
    <3>4. A(h) + r <= q \/ q + l <= A(h)
      BY <3>1 DEF r
    <3>5. A(i) = A(h) + r
      BY <3>2 DEF r
    <3>6. QED
      BY <1>1, <2>4, <2>6, <3>3, <3>4, <3>5 DEF p
  <2>9. Plain(S, i)
    BY <2>7, <2>8, HidingIs DEF n
  <2>10. A(i) = A(h) + 1 /\ out[A(h) + 1] = text[i]
    BY <1>1, <2>9, PieceOfPlain DEF n, A, out, h
  <2>11. A(h) = q + (k - 1) /\ A(i) = q + k /\ A(h) + 1 = q + k
    BY <2>4, <2>6, <2>10 DEF p
  <2>12. w[k] = out[q + k]
    BY DEF Part, out, l
  <2>13. text[i] = w[k]
    BY <2>10, <2>11, <2>12
  <2>14. QED
    BY <2>9, <2>11, <2>13 DEF h
<1>5. 1 \in 1..l
  BY <1>1
<1>6. PICK first \in 1..n : From(first, 1)
  BY <1>4, <1>5
<1> DEFINE c == first - 1
           m == l - 1
           K == {k \in 0..m : From(c + (k + 1), k + 1)}
<1>7. c \in Nat /\ c + (0 + 1) = first /\ m \in Nat /\ 0 + 1 = 1 /\ c \in 0..n
  BY <1>1
<1>8. 0 \in K
  BY <1>6, <1>7
<1>9. ASSUME NEW k \in 0..(m-1), k \in K PROVE k + 1 \in K
  <2> DEFINE a == c + (k + 1)
             b == (k + 1) + 1
             d == a + 1
  <2>1. b \in 1..l /\ k + 1 \in 0..m
    BY <1>1, <1>7
  <2>2. From(a, k + 1)
    BY <1>9
  <2>3. PICK i \in 1..n : From(i, b)
    BY <1>4, <2>1
  <2> DEFINE h == i - 1
  <2>4. a \in 1..n /\ A(a) = q + (k + 1) /\ Plain(S, a)
    BY <2>2
  <2>5. A(h) = q + (b - 1) /\ A(i) = q + b /\ Plain(S, i)
    BY <2>3
  <2>6. b \in Nat /\ b - 1 = k + 1 /\ k \in Nat /\ h \in 0..n /\ a \in 0..n /\ i \in 0..n
    BY <1>1, <1>7, <2>4
  <2> HIDE DEF a, b, h
  <2>7. A(h) = A(a) /\ A(a) < A(i)
    BY <2>4, <2>5, <2>6
  <2>8. a < i
    <3> SUFFICES ASSUME i <= a PROVE FALSE
      BY <2>6
    <3>1. a \in i..n
      BY <2>6
    <3>2. A(i) <= A(a)
      BY <1>2, <2>6, <3>1
    <3>3. A(i) \in Nat /\ A(a) \in Nat
      BY <1>2, <2>6
    <3>4. QED
      BY <2>7, <3>2, <3>3
  <2>9. i = d
    <3> SUFFICES ASSUME d < i PROVE FALSE
      BY <2>6, <2>8
    <3>1. d \in 1..n /\ d \in 0..n /\ h \in d..n /\ a \in 0..n /\ d \in a..n /\ d - 1 = a
      BY <1>1, <2>4, <2>6 DEF h
    <3> HIDE DEF d
    <3>2. A(a) <= A(d) /\ A(d) <= A(h)
      BY <1>2, <3>1
    <3>3. A(a) \in Nat /\ A(d) \in Nat
      BY <1>2, <3>1
    <3>4. A(d) = A(a)
      BY <2>7, <3>2, <3>3
    <3>5. A(d) = A(a) + Len(Piece(text, S, d))
      BY <1>2, <3>1
    <3>6. ~(Piece(text, S, d) = Redacted)
      <4> SUFFICES ASSUME Piece(text, S, d) = Redacted PROVE FALSE
        OBVIOUS
      <4>1. A(d) = A(a) + Len(Redacted)
        BY <3>5
      <4>2. QED
        BY <1>1, <3>3, <3>4, <4>1
    <3>7. ~Plain(S, d)
      <4> SUFFICES ASSUME Plain(S, d) PROVE FALSE
        OBVIOUS
      <4>1. A(d) = A(a) + 1
        BY <1>1, <3>1, PieceOfPlain DEF n, A
      <4>2. QED
        BY <3>3, <3>4, <4>1
    <3>8. (\A v : ~Begins(S, d, v)) /\ Covers(S, d)
      BY <3>1, <3>6, <3>7, HidingIs DEF n
    <3>9. PICK x \in S : x.first <= d /\ d <= x.last
      BY <3>8 DEF Covers
    <3>10. x.first # d
      BY <3>8 DEF Begins
    <3>11. x.first \in Nat /\ x.last \in Nat
      BY <1>1 DEF Span
    <3>12. x.first <= a /\ a <= x.last
      BY <3>1, <3>9, <3>10, <3>11
    <3>13. Covers(S, a)
      BY <3>12 DEF Covers
    <3>14. QED
      BY <2>4, <3>13 DEF Plain
  <2>10. c + ((k + 1) + 1) = d /\ c + (k + 1) = a
    BY <1>7, <2>6 DEF a
  <2> HIDE DEF d, c, m, From
  <2>11. From(c + ((k + 1) + 1), (k + 1) + 1)
    BY <2>3, <2>9, <2>10 DEF b
  <2>12. QED
    BY <2>1, <2>11
<1>10. \A k \in 0..m : From(c + (k + 1), k + 1)
  <2> HIDE DEF K
  <2>1. 0..m \subseteq K
    BY <1>7, <1>8, <1>9, UpTo
  <2>2. QED
    BY <2>1 DEF K
<1>11. ASSUME NEW k \in 1..l PROVE c + k \in 1..n /\ Plain(S, c + k) /\ text[c + k] = w[k]
  <2> DEFINE j == k - 1
  <2>1. j \in 0..m /\ j + 1 = k
    BY <1>1
  <2> HIDE DEF j, c, m
  <2>2. From(c + (j + 1), j + 1)
    BY <1>10, <2>1
  <2>3. QED
    BY <2>1, <2>2
<1>12. A(c) = q
  <2>1. A(first - 1) = q + (1 - 1)
    BY <1>6
  <2>2. QED
    BY <2>1
<1>13. Part(w, text, c)
  <2>1. c + l <= n
    <3>1. l \in 1..l
      BY <1>1
    <3>2. c + l \in 1..n
      BY <1>11, <3>1
    <3>3. QED
      BY <1>1, <3>2
  <2> HIDE DEF c
  <2>2. QED
    BY <1>11, <2>1 DEF Part, l, n
<1>14. \A i \in (c + 1)..(c + l) : Plain(S, i)
  <2> SUFFICES ASSUME NEW i \in (c + 1)..(c + l) PROVE Plain(S, i)
    OBVIOUS
  <2> DEFINE k == i - c
  <2>1. k \in 1..l /\ c + k = i
    BY <1>1, <1>7
  <2> HIDE DEF k, c
  <2>2. QED
    BY <1>11, <2>1
<1>15. QED
  BY <1>7, <1>12, <1>13, <1>14 DEF A, l

-----------------------------------------------------------------------------
(* Redacting first and then restoring *)

Masks(text) == Redactions(Whole(text))

Masked(text) == Redact(text, Whole(text))

\* Where a character goes when values are hidden.
To(text, i) == EndAt(text, Masks(text), i)

LEMMA MasksAre ==
  ASSUME NEW text \in Text
  PROVE  /\ Masks(text) \in SUBSET Span /\ Hiding(Masks(text))
         /\ Masked(text) = Rewrite(text, Masks(text)) /\ Masked(text) \in Text
         /\ \A i, v : Begins(Masks(text), i, v) <=> v = Redacted /\ Hides(text, i)
         /\ \A i : Covers(Masks(text), i) <=> HidesIn(text, i)
         /\ \A i : Hides(text, i) => HidesIn(text, i)
         /\ \A i : Plain(Masks(text), i) <=> ~HidesIn(text, i)
<1> DEFINE S == Masks(text)
<1>1. Whole(text) \in SUBSET Located
  BY WholeIs
<1>2. /\ S \in SUBSET Span
      /\ \A i, v : Begins(S, i, v) <=> v = Redacted /\ Hides(text, i)
      /\ \A i : Covers(S, i) <=> HidesIn(text, i)
  BY <1>1, RedactionsAre DEF Hides, HidesIn, Masks
<1>3. \A x \in S : x.by = Redacted
  BY DEF Masks, Redactions
<1>4. Masked(text) = Rewrite(text, S)
  BY DEF Masked, Masks, Redact
<1> HIDE DEF S
<1>5. Masked(text) \in Text
  BY <1>2, <1>4, AtIs
<1>6. \A i : Hides(text, i) => HidesIn(text, i)
  <2>1. \A m \in Whole(text) : m.first <= m.first /\ m.first <= m.last
    BY <1>1, LocatedIs
  <2>2. QED
    BY <2>1 DEF Hides, HidesIn
<1>7. \A i : Plain(S, i) <=> ~HidesIn(text, i)
  BY <1>2, <1>6 DEF Plain
<1>8. QED
  BY <1>2, <1>3, <1>4, <1>5, <1>6, <1>7 DEF S, Hiding

LEMMA ToIs ==
  ASSUME NEW text \in Text
  PROVE  /\ Len(Masked(text)) = To(text, Len(text)) /\ To(text, 0) = 0
         /\ \A i \in 0..Len(text) : To(text, i) \in Nat
         /\ \A i \in 0..Len(text) : \A j \in i..Len(text) : To(text, i) <= To(text, j)
         /\ \A i \in 1..Len(text) :
              \/ /\ Hides(text, i)
                 /\ To(text, i) = To(text, i - 1) + Len(Redacted)
                 /\ Part(Redacted, Masked(text), To(text, i - 1))
              \/ ~Hides(text, i) /\ HidesIn(text, i) /\ To(text, i) = To(text, i - 1)
              \/ ~HidesIn(text, i) /\ To(text, i) = To(text, i - 1) + 1 /\ Masked(text)[To(text, i)] = text[i]
<1> DEFINE S == Masks(text)
           M == Masked(text)
<1>1. /\ S \in SUBSET Span /\ Hiding(S) /\ M = Rewrite(text, S)
      /\ \A i, v : Begins(S, i, v) <=> v = Redacted /\ Hides(text, i)
      /\ \A i : Plain(S, i) <=> ~HidesIn(text, i)
      /\ \A i : Covers(S, i) <=> HidesIn(text, i)
  BY MasksAre
<1>2. \A i : To(text, i) = EndAt(text, S, i)
  BY DEF To
<1> HIDE DEF S, M
<1>3. /\ Len(M) = EndAt(text, S, Len(text)) /\ EndAt(text, S, 0) = 0
      /\ \A i \in 0..Len(text) : EndAt(text, S, i) \in Nat
      /\ \A i \in 1..Len(text) : /\ EndAt(text, S, i) = EndAt(text, S, i - 1) + Len(Piece(text, S, i))
                                 /\ Part(Piece(text, S, i), M, EndAt(text, S, i - 1))
      /\ \A i \in 0..Len(text) : \A j \in i..Len(text) : EndAt(text, S, i) <= EndAt(text, S, j)
  BY <1>1, AtIs
<1>4. ASSUME NEW i \in 1..Len(text)
      PROVE  \/ /\ Hides(text, i)
                /\ To(text, i) = To(text, i - 1) + Len(Redacted)
                /\ Part(Redacted, M, To(text, i - 1))
             \/ ~Hides(text, i) /\ HidesIn(text, i) /\ To(text, i) = To(text, i - 1)
             \/ ~HidesIn(text, i) /\ To(text, i) = To(text, i - 1) + 1 /\ M[To(text, i)] = text[i]
  <2>1. CASE (\E v : Begins(S, i, v)) /\ Piece(text, S, i) = Redacted
    BY <1>1, <1>2, <1>3, <2>1
  <2>2. CASE (\A v : ~Begins(S, i, v)) /\ Covers(S, i) /\ Piece(text, S, i) = <<>>
    <3>1. ~Hides(text, i) /\ HidesIn(text, i)
      BY <1>1, <2>2
    <3> DEFINE h == i - 1
    <3>2. h \in 0..Len(text)
      BY LenProperties DEF Text
    <3>3. EndAt(text, S, i) = EndAt(text, S, h) + Len(<<>>) /\ Len(<<>>) = 0
      BY <1>3, <2>2, EmptySeq
    <3> HIDE DEF h
    <3>4. EndAt(text, S, h) \in Nat
      BY <1>3, <3>2
    <3>5. EndAt(text, S, i) = EndAt(text, S, h)
      BY <3>3, <3>4
    <3>6. QED
      BY <1>2, <3>1, <3>5 DEF h
  <2>3. CASE Plain(S, i)
    <3>1. EndAt(text, S, i) = EndAt(text, S, i - 1) + 1 /\ M[EndAt(text, S, i - 1) + 1] = text[i]
      BY <1>1, <2>3, PieceOfPlain
    <3>2. QED
      BY <1>1, <1>2, <2>3, <3>1
  <2>4. QED
    BY <1>1, <2>1, <2>2, <2>3, HidingIs
<1>5. QED
  BY <1>2, <1>3, <1>4 DEF M

\* Characters that are not hidden do not meet.
LEMMA ToInjective ==
  ASSUME NEW text \in Text, NEW i \in 1..Len(text), NEW j \in 1..Len(text),
         ~HidesIn(text, i), ~HidesIn(text, j), To(text, i) = To(text, j)
  PROVE  i = j
<1> DEFINE n == Len(text)
<1>1. n \in Nat
  BY LenProperties DEF Text
<1>2. ASSUME NEW a \in 1..n, NEW b \in 1..n, ~HidesIn(text, b), a < b PROVE To(text, a) # To(text, b)
  <2> DEFINE h == b - 1
  <2>1. h \in 0..n /\ a \in 0..n /\ h \in a..n
    BY <1>1, <1>2
  <2>2. To(text, b) = To(text, h) + 1
    BY <1>2, ToIs, MasksAre
  <2> HIDE DEF h
  <2>3. To(text, a) <= To(text, h) /\ To(text, a) \in Nat /\ To(text, h) \in Nat
    BY <2>1, ToIs
  <2>4. QED
    BY <2>2, <2>3
<1>3. i < j \/ j < i \/ i = j
  BY <1>1
<1>4. QED
  BY <1>2, <1>3

LEMMA RedactedApart ==
  ASSUME NEW w \in Words
  PROVE  Apart(Redacted, w)
  BY WordAssumption DEF Words

\* Markers and placeholders stay,
LEMMA WordsStay ==
  ASSUME NEW text \in Text, WordsStandFree(text), NEW w \in Words, NEW c \in Nat, Part(w, text, c)
  PROVE  /\ \A i \in (c + 1)..(c + Len(w)) : i \in 1..Len(text) /\ ~HidesIn(text, i)
         /\ Part(w, Masked(text), To(text, c))
         /\ \A k \in 0..Len(w) : To(text, c + k) = To(text, c) + k
<1> DEFINE l == Len(w)
<1>1. w \in Text /\ l \in Nat /\ Len(text) \in Nat /\ c + l <= Len(text)
  BY WordIs, LenProperties DEF Text, Part
<1>2. \A m \in Whole(text) : m.last <= c \/ c + l < m.first
  BY WordsUntouched
<1>3. \A m \in Whole(text) : m.first \in Nat /\ m.last \in Nat
  BY WholeIs, LocatedIs
<1> HIDE DEF l
<1>4. ASSUME NEW i \in (c + 1)..(c + l) PROVE i \in 1..Len(text) /\ ~HidesIn(text, i)
  <2>1. i \in Nat /\ i \in 1..Len(text)
    BY <1>1
  <2>2. \A m \in Whole(text) : ~(m.first <= i /\ i <= m.last)
    BY <1>1, <1>2, <1>3, <2>1
  <2>3. QED
    BY <2>1, <2>2 DEF HidesIn
<1> DEFINE S == Masks(text)
<1>5. S \in SUBSET Span /\ Masked(text) = Rewrite(text, S) /\ \A i \in (c + 1)..(c + l) : Plain(S, i)
  BY <1>4, MasksAre
<1> HIDE DEF S
<1>6. Part(w, Rewrite(text, S), EndAt(text, S, c)) /\ \A k \in 0..l : EndAt(text, S, c + k) = EndAt(text, S, c) + k
  BY <1>1, <1>5, PlainWord DEF l
<1>7. QED
  BY <1>4, <1>5, <1>6 DEF To, S, l

\* and none comes about.
LEMMA WordsCome ==
  ASSUME NEW text \in Text, WordsStandFree(text), NEW w \in Words, NEW q \in Nat, Part(w, Masked(text), q)
  PROVE  \E c \in Nat : Part(w, text, c) /\ To(text, c) = q
<1> DEFINE S == Masks(text)
<1>1. Hiding(S) /\ Masked(text) = Rewrite(text, S)
  BY MasksAre
<1>2. w \in Text /\ Len(w) # 0 /\ Apart(Redacted, w)
  BY WordIs, RedactedApart
<1> HIDE DEF S
<1>3. Part(w, Rewrite(text, S), q)
  BY <1>1
<1>4. \E c \in Nat : Part(w, text, c) /\ EndAt(text, S, c) = q
  BY <1>1, <1>2, <1>3, HiddenWord
<1>5. QED
  BY <1>4 DEF To, S

\* A placeholder covers the same characters as before.
LEMMA WordPlaces ==
  ASSUME NEW text \in Text, WordsStandFree(text), NEW w \in Words, NEW i \in 1..Len(text), ~HidesIn(text, i)
  PROVE  /\ Part(w, Masked(text), To(text, i) - 1) <=> Part(w, text, i - 1)
         /\ (\E k \in Nat : k < To(text, i) /\ To(text, i) <= k + Len(w) /\ Part(w, Masked(text), k)) <=>
              (\E k \in Nat : k < i /\ i <= k + Len(w) /\ Part(w, text, k))
<1> DEFINE n == Len(text)
           l == Len(w)
           M == Masked(text)
           T(j) == To(text, j)
<1>1. n \in Nat /\ l \in Nat \ {0}
  BY WordIs, LenProperties DEF Text
<1>2. \A j \in 0..n : T(j) \in Nat
  BY ToIs
<1>3. T(i) = T(i - 1) + 1
  BY ToIs, MasksAre
<1>4. ASSUME NEW c \in Nat, Part(w, text, c)
      PROVE  /\ Part(w, M, T(c)) /\ c \in 0..n
             /\ \A k \in 1..l : c + k \in 1..n /\ T(c + k) = T(c) + k
             /\ \A k \in 1..l : T(c + k) = T(i) => c + k = i
  <2>1. /\ \A j \in (c + 1)..(c + l) : j \in 1..n /\ ~HidesIn(text, j)
        /\ Part(w, M, T(c))
        /\ \A k \in 0..l : T(c + k) = T(c) + k
    BY <1>4, WordsStay
  <2>2. c \in 0..n
    <3>1. c + l <= n
      BY <1>4 DEF Part
    <3> HIDE DEF l, n
    <3>2. QED
      BY <1>1, <3>1
  <2>3. ASSUME NEW k \in 1..l
        PROVE  /\ c + k \in 1..n /\ T(c + k) = T(c) + k
               /\ T(c + k) = T(i) => c + k = i
    <3> DEFINE j == c + k
    <3>1. j \in (c + 1)..(c + l) /\ k \in 0..l
      BY <1>1
    <3> HIDE DEF j
    <3>2. j \in 1..n /\ ~HidesIn(text, j)
      BY <2>1, <3>1
    <3>3. T(j) = T(i) => j = i
      BY <3>2, ToInjective
    <3>4. QED
      BY <2>1, <3>1, <3>2, <3>3 DEF j
  <2>4. QED
    BY <2>1, <2>2, <2>3
<1>5. ASSUME NEW q \in Nat, Part(w, M, q) PROVE \E c \in Nat : Part(w, text, c) /\ T(c) = q
  BY <1>5, WordsCome
<1> DEFINE h == i - 1
<1>6. h \in Nat /\ h \in 0..n /\ i \in 0..n /\ i = h + 1
  BY <1>1
<1>7. T(h) \in Nat /\ T(i) = T(h) + 1 /\ T(i) - 1 = T(h)
  <2>1. T(h) \in Nat
    BY <1>2, <1>6
  <2>2. QED
    BY <1>3, <2>1
<1> HIDE DEF n, l, M, T, h
<1>8. Part(w, M, T(h)) <=> Part(w, text, h)
  <2>1. ASSUME Part(w, M, T(h)) PROVE Part(w, text, h)
    <3>1. PICK c \in Nat : Part(w, text, c) /\ T(c) = T(h)
      BY <1>5, <1>7, <2>1
    <3>2. 1 \in 1..l
      BY <1>1
    <3>3. T(c + 1) = T(c) + 1
      BY <1>4, <3>1, <3>2
    <3>4. c + 1 = i
      BY <1>4, <1>7, <3>1, <3>2, <3>3
    <3>5. c = h
      BY <1>6, <3>4
    <3>6. QED
      BY <3>1, <3>5
  <2>2. QED
    BY <1>4, <1>6, <2>1
<1>9. ASSUME NEW k \in Nat, k < T(i), T(i) <= k + l, Part(w, M, k)
      PROVE  \E c \in Nat : c < i /\ i <= c + l /\ Part(w, text, c)
  <2>1. PICK c \in Nat : Part(w, text, c) /\ T(c) = k
    BY <1>5, <1>9
  <2> DEFINE j == T(i) - k
  <2>2. j \in 1..l /\ k + j = T(i)
    BY <1>1, <1>7, <1>9
  <2> HIDE DEF j
  <2>3. T(c + j) = T(c) + j
    BY <1>4, <2>1, <2>2
  <2>4. c + j = i
    BY <1>4, <2>1, <2>2, <2>3
  <2>5. c < i /\ i <= c + l
    BY <1>1, <2>2, <2>4
  <2>6. QED
    BY <2>1, <2>5
<1>10. ASSUME NEW c \in Nat, c < i, i <= c + l, Part(w, text, c)
       PROVE  \E k \in Nat : k < T(i) /\ T(i) <= k + l /\ Part(w, M, k)
  <2> DEFINE j == i - c
  <2>1. j \in 1..l /\ c + j = i
    BY <1>1, <1>6, <1>10
  <2> HIDE DEF j
  <2>2. T(c + j) = T(c) + j /\ Part(w, M, T(c)) /\ c \in 0..n
    BY <1>4, <1>10, <2>1
  <2>3. T(c) \in Nat
    BY <1>2, <2>2 DEF T
  <2>4. T(c) < T(i) /\ T(i) <= T(c) + l
    BY <1>1, <2>1, <2>2, <2>3
  <2>5. QED
    BY <2>2, <2>3, <2>4
<1>11. QED
  BY <1>7, <1>8, <1>9, <1>10 DEF M, T, l, h

\* Without spans a text stays what it is.
LEMMA RewriteNothing ==
  ASSUME NEW s \in Text
  PROVE  TextOf(Pieces(s, {}), Len(s)) = s /\ Pieces(s, {}) \in Seq(Text) /\ Len(Pieces(s, {})) = Len(s)
         /\ \A i \in 1..Len(s) : Pieces(s, {})[i] = <<s[i]>>
<1> DEFINE S == {}
           out == Rewrite(s, S)
           n == Len(s)
<1>1. S \in SUBSET Span /\ n \in Nat /\ \A i : Plain(S, i)
  BY LenProperties DEF Text, Plain, Begins, Covers
<1>2. \A i \in 1..n : Piece(s, S, i) = <<s[i]>> /\ Piece(s, S, i) \in Text
  BY <1>1, PieceOfPlain, PieceInText
<1>3. Part(s, s, 0)
  BY <1>1 DEF Part
<1> HIDE DEF S, out
<1>4. /\ Part(s, Rewrite(s, S), EndAt(s, S, 0))
      /\ \A k \in 0..n : EndAt(s, S, 0 + k) = EndAt(s, S, 0) + k
  BY <1>1, <1>3, PlainWord
<1>5. EndAt(s, S, 0) = 0 /\ out \in Text /\ Len(out) = EndAt(s, S, n)
  BY <1>1, AtIs DEF out
<1>6. Len(out) = n
  <2>1. n \in 0..n
    BY <1>1
  <2>2. EndAt(s, S, 0 + n) = 0 + n
    BY <1>4, <1>5, <2>1
  <2>3. 0 + n = n
    BY <1>1
  <2>4. QED
    BY <1>5, <2>2, <2>3
<1>7. Part(out, out, 0)
  BY <1>1, <1>6 DEF Part
<1>8. out = s
  <2>1. Part(s, out, 0)
    BY <1>4, <1>5 DEF out
  <2>2. QED
    BY <1>5, <1>6, <1>7, <2>1, SamePart DEF Text
<1>9. /\ Pieces(s, S) \in Seq(Text) /\ Len(Pieces(s, S)) = n
      /\ \A i \in 1..n : Pieces(s, S)[i] = Piece(s, S, i)
      /\ out = TextOf(Pieces(s, S), n)
  BY <1>2, RewriteIs DEF Text, out
<1>10. QED
  BY <1>2, <1>8, <1>9 DEF S

\* In a text of which every marker belongs to a placeholder of the request,
\* RestoreParts has nothing to complain about, and only then.
LEMMA MarkersOfTokens ==
  ASSUME NEW text \in Text, Restorable(text)
  PROVE  /\ \A t \in Tokens(text) : t.id \in DOMAIN Vault
         /\ \A c \in Nat : Part(Marker, text, c) => \E t \in Tokens(text) : t.first = c + 1
<1> DEFINE D == {[first |-> t.first, last |-> t.last, by |-> <<>>] : t \in Tokens(text)}
           without == Rewrite(text, D)
<1>1. (\A t \in Tokens(text) : t.id \in DOMAIN Vault) /\ ~\E i \in DOMAIN without : OccursAt(Marker, i, without)
  BY DEF Restorable
<1>2. \A t \in Tokens(text) : /\ t.id \in Ids /\ t.first \in Nat \ {0} /\ t.last \in Nat \ {0}
                              /\ t.last = t.first + Len(Token(t.id)) - 1
                              /\ Part(Token(t.id), text, t.first - 1)
  BY TokensIs DEF Placed
<1>3. D \in SUBSET Span
  <2>1. <<>> \in Text
    BY DEF Text
  <2>2. QED
    BY <1>2, <2>1 DEF Span
<1>4. \A x \in D : \E t \in Tokens(text) : x.first = t.first /\ x.last = t.last
  OBVIOUS
<1>5. Marker \in Text /\ Len(Marker) \in Nat \ {0}
  BY WordFacts
<1> HIDE DEF D, without
<1>6. without \in Text
  BY <1>3, AtIs DEF without
<1>7. ASSUME NEW c \in Nat, Part(Marker, text, c), ~\E t \in Tokens(text) : t.first = c + 1
      PROVE  FALSE
  <2>1. ASSUME NEW t \in Tokens(text)
        PROVE  t.last <= c \/ c + Len(Marker) < t.first
    <3> DEFINE f == t.first
               a == f - 1
               l == Len(Token(t.id))
               m == Len(Marker)
    <3>1. f \in Nat \ {0} /\ a \in Nat /\ l \in Nat /\ m \in Nat /\ t.id \in Ids /\ t.last = f + l - 1
          /\ Part(Token(t.id), text, a) /\ f # c + 1
      BY <1>2, <1>5, <1>7, WordIs DEF Words
    <3> HIDE DEF f, a, l, m
    <3>2. a = c \/ a + l <= c \/ c + m <= a
      BY <1>7, <3>1, TokensApart DEF l, m
    <3>3. a = f - 1
      BY DEF a
    <3>4. f + l - 1 <= c \/ c + m < f
      BY <3>1, <3>2, <3>3
    <3>5. QED
      BY <3>1, <3>4 DEF f, m
  <2>2. ASSUME NEW i \in (c + 1)..(c + Len(Marker)) PROVE Plain(D, i)
    <3>1. ASSUME NEW x \in D PROVE ~(x.first <= i /\ i <= x.last) /\ x.first # i
      <4>1. PICK t \in Tokens(text) : x.first = t.first /\ x.last = t.last
        BY <1>4
      <4>2. t.first \in Nat /\ t.last \in Nat /\ (t.last <= c \/ c + Len(Marker) < t.first) /\ t.first <= t.last
        <5> DEFINE l == Len(Token(t.id))
        <5>1. l \in Nat \ {0} /\ t.first \in Nat /\ t.last \in Nat /\ t.last = t.first + l - 1
          BY <1>2, WordIs DEF Words
        <5> HIDE DEF l
        <5>2. t.first <= t.last
          BY <5>1
        <5>3. QED
          BY <2>1, <5>1, <5>2
      <4>3. QED
        BY <1>5, <4>1, <4>2
    <3>2. QED
      BY <3>1 DEF Plain, Begins, Covers
  <2>3. Part(Marker, without, EndAt(text, D, c))
    BY <1>3, <1>5, <1>7, <2>2, PlainWord DEF without
  <2> DEFINE q == EndAt(text, D, c)
             i == q + 1
  <2>4. q \in Nat
    <3>1. c \in 0..Len(text)
      <4>1. c + Len(Marker) <= Len(text)
        BY <1>7 DEF Part
      <4>2. Len(text) \in Nat
        BY LenProperties DEF Text
      <4>3. QED
        BY <1>5, <4>1, <4>2
    <3>2. QED
      BY <1>3, <3>1, AtIs
  <2> HIDE DEF q
  <2>5. i \in Nat \ {0} /\ i - 1 = q
    BY <2>4
  <2> HIDE DEF i
  <2>6. OccursAt(Marker, i, without)
    BY <1>5, <1>6, <2>3, <2>5, OccursAtIs DEF Text, q
  <2>7. i \in DOMAIN without
    <3>1. q + Len(Marker) <= Len(without)
      BY <2>3 DEF Part, q
    <3>2. DOMAIN without = 1..Len(without) /\ Len(without) \in Nat
      BY <1>6, LenProperties DEF Text
    <3>3. QED
      BY <1>5, <2>4, <3>1, <3>2 DEF i
  <2>8. QED
    BY <1>1, <2>6, <2>7
<1>8. QED
  BY <1>1, <1>7

\* No marker begins anything else than a placeholder of the request.
MarkersKnown(text) ==
  \A c \in Nat : Part(Marker, text, c) => \E id \in DOMAIN Vault : Part(Token(id), text, c)

LEMMA MarkersBefore ==
  ASSUME NEW text \in Text, WordsStandFree(text), Restorable(Masked(text))
  PROVE  MarkersKnown(text)
<1> DEFINE M == Masked(text)
<1>1. M \in Text
  BY MasksAre
<1>2. /\ \A t \in Tokens(M) : t.id \in DOMAIN Vault
      /\ \A c \in Nat : Part(Marker, M, c) => \E t \in Tokens(M) : t.first = c + 1
  BY <1>1, MarkersOfTokens
<1> SUFFICES ASSUME NEW c \in Nat, Part(Marker, text, c) PROVE \E id \in DOMAIN Vault : Part(Token(id), text, c)
  BY DEF MarkersKnown
<1> DEFINE n == Len(text)
           m == Len(Marker)
           i == c + 1
<1>3. n \in Nat /\ m \in Nat \ {0} /\ Marker \in Words
  BY WordFacts, LenProperties DEF Text, Words
<1>4. /\ \A j \in (c + 1)..(c + m) : j \in 1..n /\ ~HidesIn(text, j)
      /\ Part(Marker, M, To(text, c))
      /\ \A k \in 0..m : To(text, c + k) = To(text, c) + k
  BY <1>3, WordsStay
<1>5. i \in 1..n /\ ~HidesIn(text, i) /\ i - 1 = c /\ c \in 0..n
  <2>1. i \in (c + 1)..(c + m)
    BY <1>3
  <2>2. i \in 1..n /\ ~HidesIn(text, i)
    BY <1>4, <2>1
  <2> HIDE DEF n
  <2>3. QED
    BY <1>3, <2>2
<1>6. To(text, c) \in Nat /\ To(text, i) = To(text, c) + 1
  <2>1. To(text, c) \in Nat
    BY <1>5, ToIs
  <2>2. 1 \in 0..m
    BY <1>3
  <2>3. QED
    BY <1>4, <2>1, <2>2
<1>7. PICK t \in Tokens(M) : t.first = To(text, c) + 1
  BY <1>2, <1>4, <1>6
<1>8. t.id \in DOMAIN Vault /\ t.id \in Ids /\ Part(Token(t.id), M, t.first - 1)
  BY <1>1, <1>2, TokensIs
<1> HIDE DEF M, n, m, i
<1>9. Token(t.id) \in Words /\ t.first - 1 = To(text, i) - 1
  BY <1>6, <1>7, <1>8 DEF Words
<1>10. Part(Token(t.id), text, i - 1)
  BY <1>5, <1>8, <1>9, WordPlaces DEF n, M
<1>11. QED
  BY <1>5, <1>8, <1>10

\* What restoring makes of the characters that were left alone,
LEMMA RestoredPiece ==
  ASSUME NEW text \in Text, WordsStandFree(text), NEW i \in 1..Len(text), ~HidesIn(text, i)
  PROVE  Piece(Masked(text), Restorations(Known(Masked(text))), To(text, i)) = Piece(text, Spans(text), i)
<1> DEFINE M == Masked(text)
           V == Restorations(Known(M))
           S == Spans(text)
           q == To(text, i)
<1>1. M \in Text /\ i \in Nat \ {0} /\ ~Hides(text, i)
  <2>1. M \in Text /\ \A k : Hides(text, k) => HidesIn(text, k)
    BY MasksAre
  <2>2. Len(text) \in Nat
    BY LenProperties DEF Text
  <2> HIDE DEF M
  <2>3. QED
    BY <2>1, <2>2
<1>2. q \in Nat \ {0} /\ M[q] = text[i]
  <2> DEFINE h == i - 1
  <2>1. h \in 0..Len(text)
    BY LenProperties DEF Text
  <2>2. q = To(text, h) + 1 /\ M[q] = text[i]
    BY <1>1, ToIs
  <2> HIDE DEF h, q, M
  <2>3. To(text, h) \in Nat
    BY <2>1, ToIs
  <2>4. QED
    BY <2>2, <2>3
<1>3. ASSUME NEW id \in DOMAIN Vault
      PROVE  /\ Part(Token(id), M, q - 1) <=> Part(Token(id), text, i - 1)
             /\ (\E k \in Nat : k < q /\ q <= k + Len(Token(id)) /\ Part(Token(id), M, k)) <=>
                  (\E k \in Nat : k < i /\ i <= k + Len(Token(id)) /\ Part(Token(id), text, k))
  <2>1. Token(id) \in Words
    BY WordFacts DEF Words
  <2>2. QED
    BY <2>1, WordPlaces
<1> HIDE DEF M, q
<1>4. \A v : Restores(M, q, v) <=> Restores(text, i, v)
  BY <1>3 DEF Restores
<1>5. RestoresIn(M, q) <=> RestoresIn(text, i)
  BY <1>3 DEF RestoresIn
<1>6. /\ V \in SUBSET Span
      /\ \A v : Begins(V, q, v) <=> Restores(M, q, v)
      /\ Covers(V, q) <=> RestoresIn(M, q)
  BY <1>1, <1>2, RestoredAre
<1>7. /\ S \in SUBSET Span
      /\ \A v : Begins(S, i, v) <=> (v = Redacted /\ Hides(text, i)) \/ Restores(text, i, v)
      /\ Covers(S, i) <=> HidesIn(text, i) \/ RestoresIn(text, i)
  BY <1>1, SpansAre
<1>8. Begin1(S, i)
  BY <1>1, SpansBegin1
<1> HIDE DEF V, S
<1>9. (\A v : Begins(S, i, v) <=> Begins(V, q, v)) /\ (Covers(S, i) <=> Covers(V, q))
  BY <1>1, <1>4, <1>5, <1>6, <1>7
<1>10. Piece(text, S, i) = Piece(M, V, q)
  BY <1>1, <1>2, <1>6, <1>7, <1>8, <1>9, PieceSame
<1>11. QED
  BY <1>10 DEF M, V, S, q

\* and of what stands for a hidden value.
LEMMA RestoredMask ==
  ASSUME NEW text \in Text, NEW q \in Nat, Part(Redacted, Masked(text), q), NEW j \in 1..Len(Redacted)
  PROVE  Piece(Masked(text), Restorations(Known(Masked(text))), q + j) = <<Redacted[j]>>
<1> DEFINE M == Masked(text)
           V == Restorations(Known(M))
           p == q + j
           r == Len(Redacted)
<1>1. M \in Text /\ Redacted \in Text /\ r \in Nat
  BY MasksAre, WordFacts
<1>2. q + r <= Len(M) /\ Redacted[j] = M[p]
  BY DEF Part
<1>3. p \in 1..Len(M) /\ p \in Nat \ {0}
  BY <1>1, <1>2, LenProperties DEF Text
<1>4. ASSUME NEW id \in DOMAIN Vault, NEW k \in Nat, k < p, p <= k + Len(Token(id)), Part(Token(id), M, k)
      PROVE  FALSE
  <2> DEFINE l == Len(Token(id))
  <2>1. Token(id) \in Words /\ Token(id) \in Text /\ l \in Nat
    BY WordFacts, WordIs DEF Words
  <2>2. q + r <= k \/ k + l <= q
    BY <1>1, <1>4, <2>1, ApartIs, RedactedApart
  <2>3. k < p /\ p <= k + l
    BY <1>4
  <2> HIDE DEF l, r
  <2>4. j \in 1..r
    BY DEF r
  <2>5. QED
    BY <1>1, <2>1, <2>2, <2>3, <2>4
<1>5. ~RestoresIn(M, p)
  BY <1>4 DEF RestoresIn
<1>6. \A v : ~Restores(M, p, v)
  <2> SUFFICES ASSUME NEW v, Restores(M, p, v) PROVE FALSE
    OBVIOUS
  <2>1. PICK id \in DOMAIN Vault : Part(Token(id), M, p - 1)
    BY DEF Restores
  <2> DEFINE k == p - 1
             l == Len(Token(id))
  <2>2. l \in Nat \ {0}
    BY WordFacts, WordIs DEF Words
  <2> HIDE DEF l, p
  <2>3. k \in Nat /\ k < p /\ p <= k + l
    BY <1>3, <2>2
  <2> HIDE DEF k
  <2>4. QED
    BY <1>4, <2>1, <2>3 DEF l, k
<1> HIDE DEF M, p
<1>7. /\ V \in SUBSET Span
      /\ \A v : Begins(V, p, v) <=> Restores(M, p, v)
      /\ Covers(V, p) <=> RestoresIn(M, p)
  BY <1>1, <1>3, RestoredAre
<1> HIDE DEF V
<1>8. Plain(V, p)
  BY <1>5, <1>6, <1>7 DEF Plain
<1>9. Piece(M, V, p) = <<M[p]>>
  BY <1>1, <1>3, <1>7, <1>8, PieceOfPlain
<1>10. QED
  BY <1>2, <1>9 DEF M, V, p

\* If no value lies over a marker or a placeholder, redacting a text and restoring
\* its placeholders afterwards is the same as doing both at once.
THEOREM RedactThenRestore ==
  ASSUME NEW text \in Text, WordsStandFree(text), Restorable(Masked(text))
  PROVE  Restore(Masked(text)) = Safe(text)
<1> DEFINE n == Len(text)
           M == Masked(text)
           V == Restorations(Known(M))
           S == Spans(text)
           p == Pieces(M, V)
           s == Pieces(text, S)
           T(i) == To(text, i)
<1>1. M \in Text /\ n \in Nat
  BY MasksAre, LenProperties DEF Text
<1>2. Restore(M) = Rewrite(M, V)
  <2>1. Known(M) = Tokens(M)
    BY <1>1, MarkersOfTokens DEF Known
  <2>2. QED
    BY <2>1 DEF Restore
<1>3. V \in SUBSET Span /\ S \in SUBSET Span
  BY <1>1, RestoredAre, SpansAre
<1>4. /\ p \in Seq(Text) /\ Len(p) = Len(M)
      /\ \A i \in 1..Len(M) : p[i] = Piece(M, V, i)
      /\ Rewrite(M, V) = TextOf(p, Len(M))
  <2>1. \A i \in 1..Len(M) : Piece(M, V, i) \in Seq(Characters)
    BY <1>1, <1>3, PieceInText DEF Text
  <2> HIDE DEF V, M
  <2>2. QED
    BY <1>1, <2>1, RewriteIs DEF Text
<1>5. /\ s \in Seq(Text) /\ Len(s) = n
      /\ \A i \in 1..n : s[i] = Piece(text, S, i)
      /\ Rewrite(text, S) = TextOf(s, n)
  <2>1. \A i \in 1..Len(text) : Piece(text, S, i) \in Seq(Characters)
    BY <1>3, PieceInText DEF Text
  <2> HIDE DEF S
  <2>2. QED
    BY <2>1, RewriteIs DEF Text
<1>6. /\ Len(M) = T(n) /\ T(0) = 0
      /\ \A i \in 0..n : T(i) \in Nat
      /\ \A i \in 0..n : \A j \in i..n : T(i) <= T(j)
      /\ \A i \in 1..n : \/ Hides(text, i) /\ T(i) = T(i - 1) + Len(Redacted) /\ Part(Redacted, M, T(i - 1))
                         \/ ~Hides(text, i) /\ HidesIn(text, i) /\ T(i) = T(i - 1)
                         \/ ~HidesIn(text, i) /\ T(i) = T(i - 1) + 1
  BY ToIs
<1>7. ASSUME NEW i \in 1..n, ~HidesIn(text, i) PROVE Piece(M, V, T(i)) = s[i]
  BY <1>5, <1>7, RestoredPiece
<1>8. ASSUME NEW q \in Nat, Part(Redacted, M, q), NEW j \in 1..Len(Redacted)
      PROVE  Piece(M, V, q + j) = <<Redacted[j]>>
  BY <1>8, RestoredMask
<1>9. ASSUME NEW i \in 1..n
      PROVE  /\ Hides(text, i) => s[i] = Redacted
             /\ ~Hides(text, i) /\ HidesIn(text, i) => s[i] = <<>>
  <2>1. i \in Nat \ {0}
    BY <1>1
  <2>2. /\ \A v : Begins(S, i, v) <=> (v = Redacted /\ Hides(text, i)) \/ Restores(text, i, v)
        /\ Covers(S, i) <=> HidesIn(text, i) \/ RestoresIn(text, i)
    BY <2>1, SpansAre
  <2>3. Begin1(S, i) /\ \A v : Restores(text, i, v) => ~HidesIn(text, i)
    BY <2>1, SpansBegin1
  <2> HIDE DEF S
  <2>4. /\ \A v : Begins(S, i, v) => Piece(text, S, i) = v
        /\ (\A v : ~Begins(S, i, v)) /\ Covers(S, i) => Piece(text, S, i) = <<>>
    BY <1>3, <2>1, <2>3, PieceIs
  <2>5. QED
    BY <1>5, <2>2, <2>3, <2>4
<1> HIDE DEF n, M, V, S, p, s, T
<1>10. /\ TextOf(p, 0) = <<>> /\ TextOf(s, 0) = <<>>
       /\ \A i \in 0..Len(M) : TextOf(p, i) \in Text
       /\ \A i \in 0..n : TextOf(s, i) \in Text
       /\ \A i \in 1..Len(M) : TextOf(p, i) = TextOf(p, i - 1) \o p[i]
       /\ \A i \in 1..n : TextOf(s, i) = TextOf(s, i - 1) \o s[i]
  BY <1>4, <1>5, TextOfSteps DEF Text
<1>11. \A i \in 0..n : T(i) \in 0..Len(M)
  <2> SUFFICES ASSUME NEW i \in 0..n PROVE T(i) \in 0..Len(M)
    OBVIOUS
  <2>1. n \in i..n /\ n \in 0..n
    BY <1>1
  <2>2. T(i) \in Nat /\ T(n) \in Nat /\ T(i) <= T(n)
    BY <1>6, <2>1
  <2>3. QED
    BY <1>6, <2>2
<1> DEFINE K == {i \in 0..n : TextOf(p, T(i)) = TextOf(s, i)}
<1>12. 0 \in K
  BY <1>1, <1>6, <1>10
<1>13. ASSUME NEW i \in 0..(n-1), i \in K PROVE i + 1 \in K
  <2> DEFINE j == i + 1
  <2>1. j \in 1..n /\ j \in 0..n /\ j - 1 = i /\ i \in 0..n
    BY <1>1
  <2> HIDE DEF j
  <2>2. TextOf(p, T(i)) = TextOf(s, i) /\ TextOf(s, j) = TextOf(s, i) \o s[j] /\ TextOf(s, i) \in Text
    BY <1>10, <1>13, <2>1
  <2>3. T(i) \in 0..Len(M) /\ T(j) \in 0..Len(M) /\ Len(M) \in Nat
    BY <1>1, <1>11, <2>1, LenProperties DEF Text
  <2>4. TextOf(p, T(j)) = TextOf(s, j)
    <3>1. CASE ~HidesIn(text, j) /\ T(j) = T(i) + 1
      <4>1. T(j) \in 1..Len(M) /\ T(j) - 1 = T(i)
        BY <2>3, <3>1
      <4>2. TextOf(p, T(j)) = TextOf(p, T(i)) \o p[T(j)]
        BY <1>10, <4>1
      <4>3. p[T(j)] = s[j]
        BY <1>4, <1>7, <2>1, <3>1, <4>1
      <4>4. QED
        BY <2>2, <4>2, <4>3
    <3>2. CASE ~Hides(text, j) /\ HidesIn(text, j) /\ T(j) = T(i)
      <4>1. s[j] = <<>>
        BY <1>9, <2>1, <3>2
      <4>2. TextOf(s, i) \o <<>> = TextOf(s, i)
        BY <2>2, ConcatEmptySeq DEF Text
      <4>3. QED
        BY <2>2, <3>2, <4>1, <4>2
    <3>3. CASE Hides(text, j) /\ T(j) = T(i) + Len(Redacted) /\ Part(Redacted, M, T(i))
      <4> DEFINE r == Len(Redacted)
                 o == Pieces(Redacted, {})
                 q == T(i)
      <4>1. /\ TextOf(o, r) = Redacted /\ o \in Seq(Text) /\ Len(o) = r
            /\ (\A k \in 1..r : o[k] = <<Redacted[k]>>) /\ r \in Nat
        BY WordFacts, RewriteNothing
      <4>2. q \in Nat /\ q + r <= Len(p) /\ r <= Len(o)
        BY <1>4, <2>3, <3>3, <4>1
      <4> HIDE DEF o
      <4>3. \A k \in 1..r : o[k] = p[q + k]
        <5> SUFFICES ASSUME NEW k \in 1..r PROVE o[k] = p[q + k]
          OBVIOUS
        <5>1. Piece(M, V, q + k) = <<Redacted[k]>>
          BY <1>8, <3>3, <4>2
        <5> DEFINE l == q + k
        <5>2. l \in 1..Len(M)
          BY <1>4, <4>1, <4>2
        <5> HIDE DEF l
        <5>3. p[l] = Piece(M, V, l)
          BY <1>4, <5>2
        <5>4. QED
          BY <4>1, <5>1, <5>3 DEF l
      <4> HIDE DEF r, q
      <4>4. TextOf(p, q + r) = TextOf(p, q) \o TextOf(o, r)
        <5>1. p \in Seq(Seq(Characters)) /\ o \in Seq(Seq(Characters))
          BY <1>4, <4>1 DEF Text
        <5>2. r \in Nat /\ q \in Nat /\ q + r <= Len(p) /\ r <= Len(o)
          BY <4>1, <4>2
        <5>3. QED
          <6>1. Continues(Characters, p, o, q, r)
            BY <4>3, <5>1, <5>2 DEF Continues
          <6>2. QED
            BY <6>1, TextOfAfter
      <4>5. s[j] = Redacted
        BY <1>9, <2>1, <3>3
      <4>6. T(j) = q + r
        BY <3>3 DEF q, r
      <4>7. QED
        BY <2>2, <4>1, <4>4, <4>5, <4>6 DEF q
    <3>4. QED
      BY <1>6, <2>1, <3>1, <3>2, <3>3
  <2>5. QED
    BY <2>1, <2>4 DEF j
<1>14. n \in K
  <2> HIDE DEF K
  <2>1. 0..n \subseteq K
    BY <1>1, <1>12, <1>13, UpTo
  <2>2. n \in 0..n
    BY <1>1
  <2>3. QED
    BY <2>1, <2>2
<1>15. TextOf(p, T(n)) = TextOf(s, n)
  BY <1>14
<1>16. Rewrite(M, V) = Rewrite(text, S)
  BY <1>4, <1>5, <1>6, <1>15
<1>17. QED
  BY <1>2, <1>16 DEF Safe, M, S

-----------------------------------------------------------------------------
(* Boundaries *)

\* A text ends in the beginning of the marker.
LEMMA MarkerSuffix ==
  ASSUME NEW s \in Text, NEW k \in 1..Len(Marker)
  PROVE  IsSuffix(SubSeq(Marker, 1, k), s) <=>
           k <= Len(s) /\ \A l \in 1..k : Marker[l] = s[Len(s) - k + l]
<1> DEFINE m == SubSeq(Marker, 1, k)
<1>1. Marker \in Seq(Characters) /\ Len(Marker) \in Nat /\ s \in Seq(Characters)
  BY WordFacts DEF Text
<1>2. k \in Nat /\ 0 <= k /\ k <= Len(Marker) /\ 0 + 1 = 1 /\ k - 0 = k /\ \A i : 0 + i \in Nat => 0 + i = 0 + i
  BY <1>1
<1>3. /\ SubSeq(Marker, 0 + 1, k) \in Seq(Characters) /\ Len(SubSeq(Marker, 0 + 1, k)) = k - 0
      /\ \A i \in 1..(k-0) : SubSeq(Marker, 0 + 1, k)[i] = Marker[0+i]
  BY <1>1, <1>2, Slice
<1>4. m \in Seq(Characters) /\ Len(m) = k /\ \A i \in 1..k : m[i] = Marker[i]
  BY <1>1, <1>2, <1>3
<1> HIDE DEF m
<1>5. IsSuffix(m, s) <=> Len(m) <= Len(s) /\ Part(m, s, Len(s) - Len(m))
  BY <1>1, <1>4, IsSuffixIs
<1>6. Len(s) \in Nat
  BY <1>1, LenProperties
<1>7. Part(m, s, Len(s) - k) <=> \A l \in 1..k : Marker[l] = s[Len(s) - k + l]
  <2>1. Len(s) - k + Len(m) <= Len(s)
    BY <1>2, <1>4, <1>6
  <2>2. QED
    BY <1>4, <2>1 DEF Part
<1>8. QED
  BY <1>4, <1>5, <1>7 DEF m

\* Where a boundary is safe for placeholders, no marker or placeholder is cut.
LEMMA SafeIsNotOpen ==
  ASSUME NEW s \in Text, SafePlaceholderBoundary(s)
  PROVE  ~OpenEnd(s)
<1> SUFFICES ASSUME OpenEnd(s) PROVE FALSE
  OBVIOUS
<1> DEFINE n == Len(s)
           a == Len(Marker)
           b == Len(Closing)
<1>1. PICK w \in Words, i \in Nat : i < n /\ n < i + Len(w) /\ \A k \in 1..(n - i) : w[k] = s[i + k]
  BY DEF OpenEnd
<1>2. n \in Nat /\ a \in Nat \ {0} /\ b \in Nat \ {0} /\ Len(w) \in Nat \ {0}
  BY WordFacts, WordIs, LenProperties DEF Text
<1>3. a <= Len(w) /\ \A k \in 1..a : w[k] = Marker[k]
  <2>1. CASE w = Marker
    BY <1>2, <2>1
  <2>2. ASSUME NEW id \in Ids, w = Token(id) PROVE a <= Len(w) /\ \A k \in 1..a : w[k] = Marker[k]
    <3>1. Part(Marker, w, 0) /\ Len(w) = a + 1 + b
      BY <2>2, TokenIs
    <3> HIDE DEF a, b
    <3>2. \A k \in 1..a : Marker[k] = w[0 + k] /\ 0 + k = k
      BY <3>1, <1>2 DEF Part, a
    <3>3. QED
      BY <1>2, <3>1, <3>2
  <2>3. QED
    BY <2>1, <2>2 DEF Words
<1> HIDE DEF n, a, b
<1>4. CASE n - i <= a
  <2> DEFINE k == n - i
  <2>1. k \in 1..a /\ k <= n /\ n - k = i
    BY <1>1, <1>2, <1>4
  <2>2. \A l \in 1..k : Marker[l] = s[n - k + l]
    BY <1>1, <1>2, <1>3, <2>1
  <2> HIDE DEF k
  <2>3. IsSuffix(SubSeq(Marker, 1, k), s)
    BY <2>1, <2>2, MarkerSuffix DEF a, n
  <2>4. QED
    BY <2>1, <2>3 DEF SafePlaceholderBoundary, a
<1>5. CASE n - i > a
  <2>1. Part(Marker, s, i)
    <3>1. \A k \in 1..a : k \in 1..(n - i)
      BY <1>1, <1>2, <1>5
    <3>2. \A k \in 1..a : Marker[k] = s[i + k]
      BY <1>1, <1>3, <3>1
    <3>3. i + a <= n
      BY <1>1, <1>2, <1>5
    <3>4. QED
      BY <3>2, <3>3 DEF Part, a, n
  <2> DEFINE h == i + 1
  <2>2. h \in Nat \ {0} /\ h - 1 = i /\ h \in 1..n
    BY <1>1, <1>2
  <2> HIDE DEF h
  <2>3. OccursAt(Marker, h, s)
    BY <2>1, <2>2, WordFacts, OccursAtIs DEF Text
  <2>4. DOMAIN s = 1..n
    BY LenProperties DEF Text, n
  <2>5. PICK j \in h..n : OccursAt(Closing, j, s)
    BY <2>2, <2>3, <2>4 DEF SafePlaceholderBoundary, n
  <2>6. j \in Nat \ {0} /\ j > i
    BY <1>2, <2>2, <2>5
  <2> DEFINE g == j - 1
  <2>7. Part(Closing, s, g)
    BY <2>5, <2>6, WordFacts, OccursAtIs DEF Text
  <2>8. g \in Nat /\ g >= i /\ j = g + 1
    BY <1>1, <2>6
  <2> HIDE DEF g
  <2>9. g + b <= n /\ \A l \in 1..b : Closing[l] = s[g + l]
    BY <2>7 DEF Part, b, n
  <2>10. CASE w = Marker
    BY <1>1, <1>2, <1>5, <2>10 DEF a
  <2>11. ASSUME NEW id \in Ids, w = Token(id) PROVE FALSE
    <3>1. w \in Text /\ Len(w) = a + 1 + b
      BY <2>11, TokenIs DEF a, b
    <3> DEFINE d == g - i
    <3>2. d \in Nat /\ d + b <= n - i /\ d + b <= Len(w)
      BY <1>1, <1>2, <2>8, <2>9
    <3>3. \A l \in 1..b : Closing[l] = w[d + l]
      <4> SUFFICES ASSUME NEW l \in 1..b PROVE Closing[l] = w[d + l]
        OBVIOUS
      <4> DEFINE e == d + l
      <4>1. e \in 1..(n - i) /\ i + e = g + l
        BY <1>1, <1>2, <2>8, <3>2
      <4> HIDE DEF e
      <4>2. w[e] = s[g + l]
        BY <1>1, <4>1
      <4>3. QED
        BY <2>9, <4>2 DEF e
    <3> HIDE DEF d
    <3>4. Part(Closing, w, d)
      BY <3>2, <3>3 DEF Part, b
    <3> DEFINE f == d + 1
    <3>5. f \in Nat \ {0} /\ f - 1 = d /\ f \in 1..Len(w)
      BY <1>2, <3>1, <3>2
    <3> HIDE DEF f
    <3>6. OccursAt(Closing, f, w)
      BY <3>1, <3>4, <3>5, WordFacts, OccursAtIs DEF Text
    <3>7. DOMAIN w = 1..Len(w)
      BY <3>1, LenProperties DEF Text
    <3>8. f = a + 2
      BY <2>11, <3>5, <3>6, <3>7, WordAssumption DEF a
    <3>9. QED
      BY <1>1, <1>2, <2>8, <2>9, <3>1, <3>8 DEF f, d
  <2>12. QED
    BY <2>10, <2>11 DEF Words
<1>6. QED
  BY <1>1, <1>2, <1>4, <1>5

\* Text that makes a boundary unsafe for placeholders holds the first character
\* of the marker.
LEMMA MarkerBegins ==
  ASSUME NEW s \in Text, NEW e \in Text, SafePlaceholderBoundary(s), ~SafePlaceholderBoundary(s \o e)
  PROVE  \E k \in 1..Len(e) : e[k] = Marker[1]
<1> DEFINE u == s \o e
           n == Len(s)
           q == Len(e)
           a == Len(Marker)
<1>1. /\ u \in Text /\ Len(u) = n + q /\ n \in Nat /\ q \in Nat /\ a \in Nat \ {0}
      /\ (\A i \in 1..n : u[i] = s[i]) /\ \A i \in 1..q : u[n + i] = e[i]
  BY WordFacts, PartOfConcat, ConcatIs DEF Text
<1>2. DOMAIN u = 1..(n + q) /\ DOMAIN s = 1..n
  BY <1>1, LenProperties DEF Text
<1>3. Marker \in Seq(Characters) /\ Closing \in Seq(Characters) /\ s \in Seq(Characters) /\ u \in Seq(Characters)
  BY <1>1, WordFacts DEF Text
<1>4. ASSUME NEW k \in 1..a, k <= n, \A l \in 1..k : Marker[l] = s[n - k + l] PROVE FALSE
  BY <1>4, MarkerSuffix DEF SafePlaceholderBoundary
<1>5. \/ \E k \in 1..a : IsSuffix(SubSeq(Marker, 1, k), u)
      \/ \E i \in 1..(n + q) : OccursAt(Marker, i, u) /\ ~\E j \in i..Len(u) : OccursAt(Closing, j, u)
  BY <1>2 DEF SafePlaceholderBoundary
<1> HIDE DEF u, n, q, a
<1>6. ASSUME NEW k \in 1..a, IsSuffix(SubSeq(Marker, 1, k), u)
      PROVE  \E l \in 1..q : e[l] = Marker[1]
  <2> DEFINE c == n + q - k
  <2>1. k <= n + q /\ \A l \in 1..k : Marker[l] = u[c + l]
    <3>1. k <= Len(u) /\ \A l \in 1..k : Marker[l] = u[Len(u) - k + l]
      BY <1>1, <1>6, MarkerSuffix DEF a
    <3>2. Len(u) - k = c
      BY <1>1
    <3> HIDE DEF c
    <3>3. QED
      BY <1>1, <3>1, <3>2
  <2>2. c \in Nat /\ k \in Nat \ {0}
    BY <1>1, <2>1
  <2>3. CASE k <= q
    <3> DEFINE d == q - k + 1
    <3>1. d \in 1..q /\ c + 1 = n + d /\ 1 \in 1..k
      BY <1>1, <2>2, <2>3
    <3> HIDE DEF c, d
    <3>2. Marker[1] = u[c + 1] /\ u[n + d] = e[d]
      BY <1>1, <2>1, <3>1
    <3>3. QED
      BY <3>1, <3>2
  <2>4. CASE k > q
    <3> DEFINE d == k - q
    <3>1. d \in 1..a /\ d <= n /\ n - d = c
      BY <1>1, <2>1, <2>2, <2>4
    <3>2. \A l \in 1..d : l \in 1..k /\ c + l \in 1..n
      BY <1>1, <2>1, <2>2, <2>4
    <3> HIDE DEF c, d
    <3>3. \A l \in 1..d : Marker[l] = s[n - d + l]
      <4> SUFFICES ASSUME NEW l \in 1..d PROVE Marker[l] = s[n - d + l]
        OBVIOUS
      <4> DEFINE h == c + l
      <4>1. h \in 1..n /\ Marker[l] = u[h]
        BY <2>1, <3>2
      <4> HIDE DEF h
      <4>2. Marker[l] = s[h]
        BY <1>1, <4>1
      <4>3. QED
        BY <3>1, <4>2 DEF h
    <3>4. QED
      BY <1>4, <3>1, <3>3
  <2>5. QED
    BY <1>1, <2>2, <2>3, <2>4
<1>7. ASSUME NEW i \in 1..(n + q), OccursAt(Marker, i, u), ~\E j \in i..Len(u) : OccursAt(Closing, j, u)
      PROVE  \E l \in 1..q : e[l] = Marker[1]
  <2> DEFINE c == i - 1
  <2>1. i \in Nat \ {0}
    BY <1>1
  <2>2. Part(Marker, u, c)
    BY <1>3, <1>7, <2>1, OccursAtIs
  <2>3. c \in Nat /\ c + 1 = i
    BY <2>1
  <2> HIDE DEF c
  <2>4. c + a <= n + q /\ \A l \in 1..a : Marker[l] = u[c + l]
    BY <1>1, <2>2 DEF Part, a
  <2>5. CASE i > n
    <3> DEFINE d == i - n
    <3>1. d \in 1..q /\ c + 1 = n + d /\ 1 \in 1..a
      BY <1>1, <2>3, <2>5
    <3> HIDE DEF d
    <3>2. Marker[1] = u[c + 1] /\ u[n + d] = e[d]
      BY <1>1, <2>4, <3>1
    <3>3. QED
      BY <3>1, <3>2
  <2>6. CASE i <= n /\ c + a > n
    <3> DEFINE d == n - c
    <3>1. d \in 1..a /\ d <= n /\ n - d = c
      BY <1>1, <2>3, <2>6
    <3>2. \A l \in 1..d : l \in 1..a /\ c + l \in 1..n
      BY <1>1, <2>3, <2>6
    <3> HIDE DEF d
    <3>3. \A l \in 1..d : Marker[l] = s[n - d + l]
      <4> SUFFICES ASSUME NEW l \in 1..d PROVE Marker[l] = s[n - d + l]
        OBVIOUS
      <4> DEFINE h == c + l
      <4>1. h \in 1..n /\ Marker[l] = u[h]
        BY <2>4, <3>2
      <4> HIDE DEF h
      <4>2. Marker[l] = s[h]
        BY <1>1, <4>1
      <4>3. QED
        BY <3>1, <4>2 DEF h
    <3>4. QED
      BY <1>4, <3>1, <3>3
  <2>7. CASE i <= n /\ c + a <= n
    <3>1. \A l \in 1..a : Marker[l] = s[c + l]
      <4> SUFFICES ASSUME NEW l \in 1..a PROVE Marker[l] = s[c + l]
        OBVIOUS
      <4> DEFINE h == c + l
      <4>1. h \in 1..n /\ Marker[l] = u[h]
        BY <1>1, <2>3, <2>4, <2>7
      <4> HIDE DEF h
      <4>2. QED
        BY <1>1, <4>1 DEF h
    <3>2. Part(Marker, s, i - 1)
      <4>1. Part(Marker, s, c)
        BY <2>7, <3>1 DEF Part, n, a
      <4>2. QED
        BY <4>1 DEF c
    <3>3. OccursAt(Marker, i, s)
      BY <1>3, <2>1, <3>2, OccursAtIs
    <3>4. PICK j \in i..n : OccursAt(Closing, j, s)
      BY <1>2, <2>1, <2>7, <3>3 DEF SafePlaceholderBoundary, n
    <3>5. j \in Nat \ {0} /\ j \in i..Len(u)
      BY <1>1, <2>1, <3>4
    <3> DEFINE g == j - 1
    <3>6. Part(Closing, s, g)
      BY <1>3, <3>4, <3>5, OccursAtIs
    <3>7. g \in Nat
      BY <3>5
    <3> HIDE DEF g
    <3>8. Part(s, u, 0)
      BY <1>3, PartOfConcat DEF u
    <3>9. Part(Closing, u, 0 + g) /\ 0 + g = g
      BY <1>3, <3>6, <3>7, <3>8, PartOfPart
    <3>10. Part(Closing, u, j - 1)
      BY <3>9 DEF g
    <3>11. OccursAt(Closing, j, u)
      BY <1>3, <3>5, <3>10, OccursAtIs
    <3>12. QED
      BY <1>7, <3>5, <3>11
  <2>8. QED
    BY <1>1, <2>3, <2>5, <2>6, <2>7
<1>8. QED
  BY <1>5, <1>6, <1>7 DEF q

\* No credential goes on from s to t.
Gap(s, t) == s = <<>> \/ t = <<>> \/ s[Len(s)] \notin CredentialBytes \/ t[1] \notin CredentialBytes

\* Events that begin a placeholder do not start in a credential.
Calm(p) ==
  \A n \in 1..Len(p) :
    Marker[1] \in ToSet(p[n]) => SafeCredentialBoundary(FlattenSeq(p), Len(TextOf(p, n - 1)))

LEMMA EventsAreTexts ==
  ASSUME NEW p \in Seq(Events)
  PROVE  p \in Seq(Seq(Characters)) /\ Len(p) \in Nat /\ \A i \in 1..Len(p) : p[i] \in Events /\ p[i] \in Text
<1>1. Events \subseteq Seq(Characters)
  BY TextAssumption
<1>2. Len(p) \in Nat /\ \A i \in 1..Len(p) : p[i] \in Events
  BY ElementOfSeq, LenProperties
<1>3. p = [i \in 1..Len(p) |-> p[i]] /\ \A i \in 1..Len(p) : p[i] \in Seq(Characters)
  BY <1>1, <1>2, LenProperties
<1>4. p \in Seq(Seq(Characters))
  BY <1>2, <1>3, IsSeq
<1>5. QED
  BY <1>2, <1>3, <1>4 DEF Text

\* The three loops of emitCount.
EmitFrom(p, n, whole, far) ==
  /\ n \in 0..whole /\ whole \in 0..far /\ far \in 0..Len(p)
  /\ \/ Len(TextOf(p, far)) = 0
     \/ Len(TextOf(p, far)) <= Len(TextOf(p, Len(p))) - Lookbehind
  /\ whole = 0 \/ SafeCredentialBoundary(TextOf(p, Len(p)), Len(TextOf(p, whole)))
  /\ n = 0 \/ SafePlaceholderBoundary(TextOf(p, n))
  /\ \A k \in (n + 1)..whole : ~SafePlaceholderBoundary(TextOf(p, k))

LEMMA EmitCountFrom ==
  ASSUME NEW p \in Seq(Events)
  PROVE  \E whole, far : EmitFrom(p, EmitCount(p), whole, far)
<1> DEFINE text == TextOf(p, Len(p))
           End(k) == Len(TextOf(p, k))
           F == {k \in 0 .. Len(p) : End(k) = 0 \/ End(k) <= Len(text) - Lookbehind}
           far == LargestOf(F)
           W == {k \in 0 .. far : k = 0 \/ SafeCredentialBoundary(text, End(k))}
           whole == LargestOf(W)
           N == {k \in 0 .. whole : k = 0 \/ SafePlaceholderBoundary(TextOf(p, k))}
           n == LargestOf(N)
<1>1. EmitCount(p) = n
  BY DEF EmitCount
<1>2. p \in Seq(Seq(Characters)) /\ Len(p) \in Nat
  BY EventsAreTexts
<1>3. End(0) = 0
  <2>1. TextOf(p, 0) = <<>>
    BY <1>2, TextOfSteps
  <2>2. Len(<<>>) = 0
    OBVIOUS
  <2>3. QED
    BY <2>1, <2>2
<1>4. far \in F
  <2>1. F \in SUBSET (0..Len(p)) /\ 0 \in F
    BY <1>2, <1>3
  <2> HIDE DEF F
  <2>2. QED
    BY <1>2, <2>1, GreatestUpTo
<1>5. far \in Nat
  BY <1>2, <1>4
<1> HIDE DEF far
<1>6. whole \in W
  <2>1. W \in SUBSET (0..far) /\ 0 \in W
    BY <1>5
  <2> HIDE DEF W
  <2>2. QED
    BY <1>5, <2>1, GreatestUpTo
<1>7. whole \in Nat
  BY <1>5, <1>6
<1> HIDE DEF whole
<1>8. n \in N /\ \A k \in N : k <= n
  <2>1. N \in SUBSET (0..whole) /\ 0 \in N
    BY <1>7
  <2> HIDE DEF N
  <2>2. QED
    BY <1>7, <2>1, GreatestUpTo
<1> HIDE DEF n
<1>9. \A k \in (n + 1)..whole : ~SafePlaceholderBoundary(TextOf(p, k))
  <2> SUFFICES ASSUME NEW k \in (n + 1)..whole, SafePlaceholderBoundary(TextOf(p, k)) PROVE FALSE
    OBVIOUS
  <2>1. n \in Nat /\ k \in 0..whole
    BY <1>7, <1>8
  <2>2. k \in N
    BY <2>1
  <2>3. QED
    BY <1>8, <2>1, <2>2
<1>10. EmitFrom(p, n, whole, far)
  BY <1>4, <1>6, <1>8, <1>9 DEF EmitFrom
<1>11. QED
  BY <1>1, <1>10

\* What is emitted ends where neither a credential nor a placeholder is cut, and
\* more text has followed.
LEMMA EmitCountIs ==
  ASSUME NEW p \in Seq(Events), Calm(p)
  PROVE  LET n == EmitCount(p)
             sent == TextOf(p, n)
             held == FlattenSeq(SubSeq(p, n + 1, Len(p)))
         IN  /\ n \in 0..Len(p)
             /\ sent \in Text /\ held \in Text /\ FlattenSeq(p) = sent \o held
             /\ ~OpenEnd(sent) /\ Gap(sent, held)
             /\ sent = <<>> \/ held # <<>>
<1> DEFINE n == EmitCount(p)
           L == TextOf(p, n)
           R == FlattenSeq(SubSeq(p, n + 1, Len(p)))
           text == FlattenSeq(p)
<1>1. PICK whole, far : EmitFrom(p, n, whole, far)
  BY EmitCountFrom
<1>2. p \in Seq(Seq(Characters)) /\ Len(p) \in Nat /\ \A i \in 1..Len(p) : p[i] \in Events /\ p[i] \in Text
  BY EventsAreTexts
<1> HIDE DEF n
<1>3. n \in 0..whole /\ whole \in 0..far /\ far \in 0..Len(p) /\ n \in 0..Len(p) /\ n \in 0..far
      /\ n \in Nat /\ whole \in Nat /\ far \in Nat
  BY <1>1, <1>2 DEF EmitFrom
<1>4. L \in Text /\ R \in Text /\ text = L \o R
  BY <1>2, <1>3, FlattenRest DEF Text
<1>5. /\ text = TextOf(p, Len(p))
      /\ \A i \in 0..Len(p) : TextOf(p, i) \in Seq(Characters)
      /\ \A i \in 1..Len(p) : TextOf(p, i) = TextOf(p, i-1) \o p[i]
  BY <1>2, TextOfSteps
<1>6. /\ text \in Text /\ Len(text) = Len(L) + Len(R) /\ Len(L) \in Nat /\ Len(R) \in Nat
      /\ (\A i \in 1..Len(L) : text[i] = L[i]) /\ \A i \in 1..Len(R) : text[Len(L) + i] = R[i]
  <2> HIDE DEF L, R, text
  <2>1. QED
    BY <1>4, PartOfConcat, ConcatIs DEF Text
<1>7. CASE L = <<>>
  BY <1>3, <1>4, <1>7 DEF OpenEnd, Gap, n
<1>8. CASE L # <<>>
  <2>1. Len(L) > 0
    BY <1>4, <1>6, <1>8, EmptySeq DEF Text
  <2>2. n # 0 /\ SafePlaceholderBoundary(L)
    <3>1. n # 0
      BY <1>2, <1>8, TextOfSteps
    <3>2. QED
      BY <1>1, <3>1 DEF EmitFrom
  <2>3. ~OpenEnd(L)
    BY <1>4, <2>2, SafeIsNotOpen
  <2>4. Len(R) > 0
    <3> DEFINE M == TextOf(p, far)
    <3>1. Part(L, M, 0) /\ far \in n..Len(p)
      <4>1. far \in n..Len(p)
        BY <1>3
      <4>2. QED
        BY <1>2, <1>3, <4>1, TextOfGrows
    <3>2. M \in Seq(Characters)
      BY <1>3, <1>5
    <3>3. Len(M) \in Nat
      BY <3>2, LenProperties
    <3>4. Len(M) = 0 \/ Len(M) <= Len(text) - Lookbehind
      BY <1>1, <1>5 DEF EmitFrom
    <3> HIDE DEF L, M, R, text
    <3>5. 0 + Len(L) <= Len(M)
      BY <3>1 DEF Part
    <3>6. QED
      BY <1>6, <2>1, <3>3, <3>4, <3>5, StreamLimitAssumption
  <2>5. SafeCredentialBoundary(text, Len(L))
    <3>1. CASE n = whole
      BY <1>1, <1>5, <2>2, <3>1 DEF EmitFrom
    <3>2. CASE n # whole
      <4> DEFINE k == n + 1
                 M == TextOf(p, k)
                 e == p[k]
      <4>1. k \in (n + 1)..whole /\ k \in 1..Len(p) /\ k - 1 = n
        BY <1>3, <3>2
      <4>2. ~SafePlaceholderBoundary(M) /\ e \in Text
        BY <1>1, <1>2, <4>1 DEF EmitFrom
      <4> HIDE DEF k
      <4>3. M = L \o e
        BY <1>5, <4>1
      <4>4. PICK j \in 1..Len(e) : e[j] = Marker[1]
        <5>1. ~SafePlaceholderBoundary(L \o e)
          BY <4>2, <4>3
        <5> HIDE DEF L, e, M
        <5>2. QED
          BY <1>4, <2>2, <4>2, <5>1, MarkerBegins
      <4>5. Marker[1] \in ToSet(e)
        <5>1. DOMAIN e = 1..Len(e)
          BY <4>2, LenProperties DEF Text
        <5>2. QED
          BY <4>4, <5>1 DEF ToSet
      <4>6. SafeCredentialBoundary(text, Len(TextOf(p, k - 1)))
        BY <4>1, <4>5 DEF Calm
      <4>7. QED
        BY <4>1, <4>6
    <3>3. QED
      BY <3>1, <3>2
  <2>6. Gap(L, R)
    <3> HIDE DEF L, R, text
    <3>1. text[Len(L)] \notin CredentialBytes \/ text[Len(L) + 1] \notin CredentialBytes
      BY <1>6, <2>1, <2>4, <2>5 DEF SafeCredentialBoundary
    <3>2. text[Len(L)] = L[Len(L)] /\ text[Len(L) + 1] = R[1]
      BY <1>6, <2>1, <2>4
    <3>3. QED
      BY <3>1, <3>2 DEF Gap
  <2>7. R # <<>>
    BY <2>4
  <2>8. QED
    BY <1>3, <1>4, <2>3, <2>6, <2>7 DEF n
<1>9. QED
  BY <1>7, <1>8

-----------------------------------------------------------------------------
(* Reporting matches *)

\* Matches that begin in different places, up to n.
Spread(X, n) ==
  /\ X \in SUBSET Located
  /\ \A m \in X : m.first <= n
  /\ \A m, k \in X : m.first = k.first => m = k

Descends(s, X) == s \in [1..Cardinality(X) -> X] /\ \A i, j \in DOMAIN s : i < j => s[i].first > s[j].first

LEMMA SpreadIsFinite ==
  ASSUME NEW n \in Nat, NEW X, Spread(X, n)
  PROVE  IsFiniteSet(X) /\ Cardinality(X) \in Nat
<1> DEFINE f == [m \in X |-> m.first]
<1>1. \A m \in X : m.first \in 1..n
  BY LocatedIs DEF Spread
<1>2. f \in Injection(X, 1..n)
  BY <1>1 DEF Spread, Injection, IsInjective
<1>3. IsFiniteSet(1..n)
  BY FS_Interval
<1> HIDE DEF f
<1>4. IsFiniteSet(X)
  BY <1>2, <1>3, FS_Injection
<1>5. QED
  BY <1>4, FS_CardinalityType

\* They can be listed from the last to the first.
LEMMA Descending ==
  ASSUME NEW n \in Nat, NEW X, Spread(X, n)
  PROVE  \E s : Descends(s, X)
<1> DEFINE Y(k) == {m \in X : m.first <= k}
           K == {k \in 0..n : \E s : Descends(s, Y(k))}
<1>1. \A m \in X : m.first \in 1..n
  BY LocatedIs DEF Spread
<1>2. \A k : Spread(Y(k), n)
  BY DEF Spread
<1>3. 0 \in K
  <2>1. Y(0) = {}
    BY <1>1
  <2>2. Cardinality({}) = 0
    BY FS_EmptySet
  <2>3. Descends(<<>>, {})
    BY <2>2 DEF Descends
  <2>4. Descends(<<>>, Y(0))
    BY <2>1, <2>3
  <2> HIDE DEF Y
  <2>5. QED
    BY <2>4
<1>4. ASSUME NEW k \in 0..(n-1), k \in K PROVE k + 1 \in K
  <2> DEFINE l == k + 1
             A == Y(k)
             B == Y(l)
             c == Cardinality(A)
  <2>1. PICK s : Descends(s, A)
    BY <1>4
  <2>2. l \in 0..n /\ l \in 1..n /\ \A i \in Nat : i <= l <=> i <= k \/ i = l
    OBVIOUS
  <2>3. IsFiniteSet(A) /\ c \in Nat
    BY <1>2, SpreadIsFinite
  <2>4. \E t : Descends(t, B)
    <3>1. CASE \A m \in X : m.first # l
      <4>1. A = B
        BY <1>1, <2>2, <3>1
      <4>2. QED
        BY <2>1, <4>1
    <3>2. ASSUME NEW m \in X, m.first = l PROVE \E t : Descends(t, B)
      <4>1. B = A \cup {m} /\ m \notin A
        <5>1. \A x \in X : x.first = l => x = m
          BY <3>2 DEF Spread
        <5>2. \A x \in X : x.first <= l <=> x.first <= k \/ x.first = l
          BY <1>1
        <5>3. QED
          BY <3>2, <5>1, <5>2
      <4>2. \A x \in A : x.first < m.first
        BY <1>1, <2>2, <3>2
      <4> HIDE DEF A, B, l
      <4>3. Cardinality(B) = c + 1
        BY <2>3, <4>1, FS_AddElement
      <4> DEFINE t == [i \in 1..(c + 1) |-> IF i = 1 THEN m ELSE s[i - 1]]
      <4>4. s \in [1..c -> A] /\ \A i, j \in 1..c : i < j => s[i].first > s[j].first
        BY <2>1 DEF Descends
      <4>5. \A i \in 1..(c + 1) : i = 1 \/ i - 1 \in 1..c
        BY <2>3
      <4>6. t \in [1..(c + 1) -> B]
        BY <4>1, <4>4, <4>5
      <4>7. ASSUME NEW i \in 1..(c + 1), NEW j \in 1..(c + 1), i < j PROVE t[i].first > t[j].first
        <5> DEFINE h == j - 1
                   g == i - 1
        <5>1. j # 1 /\ h \in 1..c /\ t[j] = s[h]
          BY <2>3, <4>5, <4>7
        <5>2. CASE i = 1
          <6>1. t[i] = m /\ s[h] \in A
            BY <4>4, <5>1, <5>2
          <6>2. m.first \in Nat /\ s[h].first \in Nat
            BY <1>1, <3>2, <4>1, <6>1 DEF A
          <6>3. s[h].first < m.first
            BY <4>2, <6>1
          <6> HIDE DEF h, t
          <6>4. QED
            BY <5>1, <6>1, <6>2, <6>3
        <5>3. CASE i # 1
          <6>1. g \in 1..c /\ g < h /\ t[i] = s[g]
            BY <2>3, <4>5, <4>7, <5>3
          <6> HIDE DEF h, g, t
          <6>2. QED
            BY <4>4, <5>1, <6>1
        <5>4. QED
          BY <5>2, <5>3
      <4> HIDE DEF t
      <4>8. DOMAIN t = 1..(c + 1)
        BY DEF t
      <4>9. Descends(t, B)
        BY <4>3, <4>6, <4>7, <4>8 DEF Descends
      <4>10. QED
        BY <4>9
    <3>3. QED
      BY <3>1, <3>2
  <2> HIDE DEF Y
  <2>5. QED
    BY <2>2, <2>4
<1>5. n \in K
  <2> HIDE DEF K
  <2>1. 0..n \subseteq K
    BY <1>3, <1>4, UpTo
  <2>2. QED
    BY <2>1
<1>6. Y(n) = X
  BY <1>1
<1>7. QED
  BY <1>5, <1>6

LEMMA ShiftedSpread ==
  ASSUME NEW n \in Nat, NEW d \in Nat, NEW X, Spread(X, n)
  PROVE  /\ Spread(Shifted(X, d), n + d)
         /\ Cardinality(Shifted(X, d)) = Cardinality(X)
<1> DEFINE Y == Shifted(X, d)
           To2(m) == [rule |-> m.rule, first |-> m.first + d, last |-> m.last + d]
           f == [m \in X |-> To2(m)]
<1>1. X \in SUBSET Located /\ Y \in SUBSET Located
  BY ShiftedIs DEF Spread
<1>2. Y = {To2(m) : m \in X}
  BY DEF Shifted
<1>3. \A m \in X : m.first \in Nat /\ m.last \in Nat /\ m.first <= n
  BY <1>1, LocatedIs DEF Spread
<1>4. \A m, k \in X : m.first + d = k.first + d => m = k
  <2> SUFFICES ASSUME NEW m \in X, NEW k \in X, m.first + d = k.first + d PROVE m = k
    OBVIOUS
  <2> DEFINE a == m.first
             b == k.first
  <2>1. a \in Nat /\ b \in Nat /\ a + d = b + d
    BY <1>3
  <2> HIDE DEF a, b
  <2>2. a = b
    BY <2>1
  <2>3. QED
    BY <2>2 DEF Spread, a, b
<1>5. \A m, k \in X : To2(m).first = To2(k).first => m = k
  BY <1>4
<1>6. Spread(Y, n + d)
  <2>1. \A y \in Y : y.first <= n + d
    <3> SUFFICES ASSUME NEW m \in X PROVE To2(m).first <= n + d
      BY <1>2
    <3> DEFINE a == m.first
    <3>1. a \in Nat /\ a <= n
      BY <1>3
    <3> HIDE DEF a
    <3>2. a + d <= n + d
      BY <3>1
    <3>3. QED
      BY <3>2 DEF a
  <2>2. \A y, z \in Y : y.first = z.first => y = z
    <3> SUFFICES ASSUME NEW m \in X, NEW k \in X, To2(m).first = To2(k).first PROVE To2(m) = To2(k)
      BY <1>2
    <3>1. m = k
      BY <1>5
    <3>2. QED
      BY <3>1
  <2>3. QED
    BY <1>1, <2>1, <2>2 DEF Spread
<1>7. f \in Bijection(X, Y)
  <2>1. f \in [X -> Y]
    BY <1>2
  <2>2. \A m, k \in X : f[m] = f[k] => m = k
    <3> SUFFICES ASSUME NEW m \in X, NEW k \in X, f[m] = f[k] PROVE m = k
      OBVIOUS
    <3>1. To2(m) = To2(k)
      OBVIOUS
    <3>2. To2(m).first = To2(k).first
      BY <3>1
    <3>3. QED
      BY <1>5, <3>2
  <2>3. \A y \in Y : \E m \in X : f[m] = y
    BY <1>2
  <2> HIDE DEF f, Y
  <2>4. QED
    BY <2>1, <2>2, <2>3 DEF Bijection, Injection, Surjection, IsInjective
<1>8. IsFiniteSet(X)
  BY SpreadIsFinite
<1> HIDE DEF f, Y
<1>9. ExistsBijection(X, Y)
  BY <1>7 DEF ExistsBijection
<1>10. Cardinality(Y) = Cardinality(X)
  BY <1>8, <1>9, FS_Bijection
<1>11. QED
  BY <1>6, <1>10 DEF Y

\* Every match is reported once.
LEMMA ReportedIs ==
  ASSUME NEW n \in Nat, NEW d \in Nat, NEW X, Spread(X, n)
  PROVE  /\ Reported(X, d) \in Seq(Located)
         /\ Len(Reported(X, d)) = Cardinality(X)
         /\ ToSet(Reported(X, d)) = Shifted(X, d)
<1> DEFINE Y == Shifted(X, d)
           c == Cardinality(X)
           s == Reported(X, d)
<1>1. Spread(Y, n + d) /\ Cardinality(Y) = c /\ n + d \in Nat
  BY ShiftedSpread
<1>2. c \in Nat /\ IsFiniteSet(Y)
  BY <1>1, SpreadIsFinite
<1>3. \E t \in [1..c -> Y] : \A i, j \in DOMAIN t : i < j => t[i].first > t[j].first
  BY <1>1, Descending DEF Descends
<1>4. s \in [1..c -> Y] /\ \A i, j \in DOMAIN s : i < j => s[i].first > s[j].first
  BY <1>3 DEF Reported
<1> HIDE DEF s, c, Y
<1>5. \A i \in 1..c : s[i] \in Y /\ s[i] \in Located /\ s[i].first \in Nat
  BY <1>1, <1>4, LocatedIs DEF Spread
<1>6. ASSUME NEW i \in 1..c, NEW j \in 1..c, s[i] = s[j] PROVE i = j
  <2>1. DOMAIN s = 1..c
    BY <1>4
  <2>2. ~(s[i].first > s[j].first) /\ ~(s[j].first > s[i].first)
    BY <1>5, <1>6
  <2>3. ~(i < j) /\ ~(j < i)
    BY <1>4, <2>1, <2>2
  <2>4. QED
    BY <1>2, <2>3
<1>7. s \in Injection(1..c, Y)
  BY <1>4, <1>6 DEF Injection, IsInjective
<1>8. Cardinality(1..c) = c
  <2>1. Cardinality(1..c) = IF 1 > c THEN 0 ELSE c - 1 + 1
    BY <1>2, FS_Interval
  <2>2. QED
    BY <1>2, <2>1
<1>9. s \in Surjection(1..c, Y)
  BY <1>1, <1>2, <1>7, <1>8, FS_Injection
<1>10. \A y \in Y : \E i \in 1..c : s[i] = y
  BY <1>9 DEF Surjection
<1>11. s \in Seq(Located) /\ Len(s) = c
  <2>1. s = [i \in 1..c |-> s[i]]
    BY <1>4
  <2>2. QED
    BY <1>2, <1>5, <2>1, IsSeq
<1>12. ToSet(s) = Y
  <2>1. DOMAIN s = 1..c
    BY <1>4
  <2>2. QED
    BY <1>5, <1>10, <2>1 DEF ToSet
<1>13. QED
  BY <1>11, <1>12 DEF s, c, Y

-----------------------------------------------------------------------------
(* Where a response stops *)

\* A response must stop at i.
Stop(text, i) ==
  \/ \E m \in Whole(text) : m.rule.action = "block" /\ m.first = i
  \/ /\ i \in 1..Len(text)
     /\ Part(Marker, text, i - 1)
     /\ ~\E id \in DOMAIN Vault : Part(Token(id), text, i - 1)

LEMMA StopsAtIs ==
  ASSUME NEW text \in Text
  PROVE  StopsAt(text) \subseteq 1..Len(text) /\ \A i : i \in StopsAt(text) <=> Stop(text, i)
<1>1. DOMAIN text = 1..Len(text) /\ Len(text) \in Nat
  BY LenProperties DEF Text
<1>2. \A m \in Whole(text) : m.first \in 1..Len(text)
  BY WholeIs
<1>3. ASSUME NEW i \in 1..Len(text)
      PROVE  /\ OccursAt(Marker, i, text) <=> Part(Marker, text, i - 1)
             /\ (\E t \in Tokens(text) : t.first = i /\ t.id \in DOMAIN Vault) <=>
                  \E id \in DOMAIN Vault : Part(Token(id), text, i - 1)
  <2>1. i \in Nat \ {0}
    BY <1>1
  <2>2. OccursAt(Marker, i, text) <=> Part(Marker, text, i - 1)
    BY <2>1, WordFacts, OccursAtIs DEF Text
  <2>3. ASSUME NEW t \in Tokens(text), t.first = i, t.id \in DOMAIN Vault
        PROVE  \E id \in DOMAIN Vault : Part(Token(id), text, i - 1)
    BY <2>3, TokensIs
  <2>4. ASSUME NEW id \in DOMAIN Vault, Part(Token(id), text, i - 1)
        PROVE  \E t \in Tokens(text) : t.first = i /\ t.id \in DOMAIN Vault
    <3>1. id \in Ids
      BY WordFacts
    <3>2. PICK t \in Tokens(text) : t.id = id /\ t.first = i
      BY <2>1, <2>4, <3>1, TokensIs
    <3>3. QED
      BY <3>2
  <2>5. QED
    BY <2>2, <2>3, <2>4
<1>4. \A i : i \in StopsAt(text) <=>
        \/ \E m \in Whole(text) : m.rule.action = "block" /\ m.first = i
        \/ /\ i \in 1..Len(text) /\ OccursAt(Marker, i, text)
           /\ ~\E t \in Tokens(text) : t.first = i /\ t.id \in DOMAIN Vault
  BY <1>1 DEF StopsAt, WithAction
<1>5. \A i : i \in StopsAt(text) <=> Stop(text, i)
  BY <1>3, <1>4 DEF Stop
<1>6. \A i : Stop(text, i) => i \in 1..Len(text)
  BY <1>2 DEF Stop
<1>7. QED
  BY <1>5, <1>6

\* A text in two parts stops where one of them does.
LEMMA StopJoint ==
  ASSUME NEW s \in Text, NEW t \in Text, Joint(s, t), ~OpenEnd(s), NEW i \in Nat \ {0}, Stop(s \o t, i)
  PROVE  Stop(s, i) \/ (i > Len(s) /\ Stop(t, i - Len(s)))
<1> DEFINE u == s \o t
           n == Len(s)
           h == i - 1
           g == i - n
<1>1. n \in Nat /\ Len(t) \in Nat /\ u \in Text /\ Len(u) = n + Len(t)
  BY PartOfConcat DEF Text
<1>2. ASSUME NEW m \in Whole(u), m.rule.action = "block", m.first = i
      PROVE  Stop(s, i) \/ (i > n /\ Stop(t, g))
  <2>1. m \in Whole(s) \/ m \in Shifted(Whole(t), n)
    BY WholeJoint
  <2>2. CASE m \in Whole(s)
    BY <1>2, <2>2 DEF Stop
  <2>3. CASE m \in Shifted(Whole(t), n)
    <3>1. m \in Located /\ Whole(t) \in SUBSET Located
      BY <1>1, <2>3, WholeIs, ShiftedIs
    <3>2. PICK k \in Whole(t) : m.rule = k.rule /\ m.first = k.first + n
      BY <1>1, <2>3, <3>1, ShiftedIs
    <3> DEFINE f == k.first
    <3>3. f \in Nat \ {0} /\ i = f + n
      BY <1>2, <3>1, <3>2, LocatedIs
    <3> HIDE DEF f, n
    <3>4. i > n /\ f = i - n
      BY <1>1, <3>3
    <3>5. Stop(t, f)
      BY <1>2, <3>2 DEF Stop, f
    <3>6. QED
      BY <3>4, <3>5
  <2>4. QED
    BY <2>1, <2>2, <2>3
<1>3. ASSUME Part(Marker, u, h), \A id \in DOMAIN Vault : ~Part(Token(id), u, h)
      PROVE  Stop(s, i) \/ (i > n /\ Stop(t, g))
  <2>1. h \in Nat /\ i = h + 1
    OBVIOUS
  <2>2. \A id \in DOMAIN Vault : Token(id) \in Words
    BY WordFacts DEF Words
  <2>3. Marker \in Words /\ Len(Marker) \in Nat \ {0}
    BY WordFacts DEF Words
  <2> HIDE DEF h
  <2>4. \A w \in Words : Part(w, u, h) <=> Part(w, s, h) \/ (h >= n /\ Part(w, t, h - n))
    BY <2>1, WordJoint
  <2>5. CASE Part(Marker, s, h)
    <3>1. \A id \in DOMAIN Vault : ~Part(Token(id), s, h)
      BY <1>3, <2>2, <2>4
    <3>2. h + Len(Marker) <= n
      BY <2>5 DEF Part
    <3> HIDE DEF n
    <3>3. i \in 1..n
      BY <1>1, <2>1, <2>3, <3>2
    <3>4. Stop(s, i)
      BY <2>5, <3>1, <3>3 DEF Stop, h, n
    <3>5. QED
      BY <3>4
  <2>6. CASE h >= n /\ Part(Marker, t, h - n)
    <3> DEFINE e == h - n
    <3>1. \A id \in DOMAIN Vault : ~Part(Token(id), t, e)
      BY <1>3, <2>2, <2>4, <2>6
    <3>2. e + Len(Marker) <= Len(t)
      BY <2>6 DEF Part
    <3>3. e \in Nat /\ g = e + 1 /\ i > n
      BY <1>1, <2>1, <2>6
    <3>4. Part(Marker, t, e)
      BY <2>6
    <3> HIDE DEF n, e, g
    <3>5. g \in 1..Len(t) /\ g - 1 = e
      BY <1>1, <2>3, <3>2, <3>3
    <3>6. Stop(t, g)
      BY <3>1, <3>4, <3>5 DEF Stop
    <3>7. QED
      BY <3>3, <3>6
  <2>7. QED
    BY <1>3, <2>3, <2>4, <2>5, <2>6
<1>4. QED
  BY <1>2, <1>3 DEF Stop

LEMMA NoStops ==
  ASSUME NEW text \in Text
  PROVE  StopsAt(text) = {} <=>
           MarkersKnown(text) /\ \A m \in Whole(text) : m.rule.action # "block"
<1>1. StopsAt(text) = {} <=> \A i : ~Stop(text, i)
  BY StopsAtIs
<1>2. ASSUME MarkersKnown(text), \A m \in Whole(text) : m.rule.action # "block", NEW i, Stop(text, i)
      PROVE  FALSE
  <2>1. i \in 1..Len(text) /\ Part(Marker, text, i - 1) /\ ~\E id \in DOMAIN Vault : Part(Token(id), text, i - 1)
    BY <1>2 DEF Stop
  <2> DEFINE c == i - 1
  <2>2. c \in Nat
    BY <2>1, LenProperties DEF Text
  <2> HIDE DEF c
  <2>3. \E id \in DOMAIN Vault : Part(Token(id), text, c)
    BY <1>2, <2>1, <2>2 DEF MarkersKnown, c
  <2>4. QED
    BY <2>1, <2>3 DEF c
<1>3. ASSUME \A i : ~Stop(text, i)
      PROVE  MarkersKnown(text) /\ \A m \in Whole(text) : m.rule.action # "block"
  <2>1. \A m \in Whole(text) : m.rule.action # "block"
    BY <1>3 DEF Stop
  <2>2. ASSUME NEW c \in Nat, Part(Marker, text, c)
        PROVE  \E id \in DOMAIN Vault : Part(Token(id), text, c)
    <3> DEFINE i == c + 1
    <3>1. c + Len(Marker) <= Len(text) /\ Len(Marker) \in Nat \ {0} /\ Len(text) \in Nat
      BY <2>2, WordFacts, LenProperties DEF Part, Text
    <3>2. i \in 1..Len(text) /\ i - 1 = c
      BY <3>1
    <3> HIDE DEF i
    <3>3. ~Stop(text, i)
      BY <1>3
    <3>4. QED
      BY <2>2, <3>2, <3>3 DEF Stop
  <2>3. QED
    BY <2>1, <2>2 DEF MarkersKnown
<1>4. QED
  BY <1>1, <1>2, <1>3

\* What has been dealt with can be told from the whole.
LEMMA SanitisedPart ==
  ASSUME NEW s \in Text, NEW t \in Text, Joint(s, t), ~OpenEnd(s), StopsAt(s) = {}
  PROVE  IsPrefix(Safe(s), Sanitised(s \o t))
<1> DEFINE u == s \o t
           n == Len(s)
           S == Spans(u)
           F == {k \in 0 .. Len(u) : \A i \in StopsAt(u) : k < i}
           end == LargestOf(F)
           v == SubSeq(u, 1, end)
           p == Pieces(s, Spans(s))
           q == Pieces(v, S)
<1>1. n \in Nat /\ Len(t) \in Nat /\ u \in Text /\ Len(u) = n + Len(t) /\ \A i \in 1..n : u[i] = s[i]
  BY PartOfConcat, ConcatIs DEF Text
<1>2. n \in F
  <2>1. n \in 0..Len(u)
    BY <1>1
  <2>2. ASSUME NEW i \in StopsAt(u) PROVE n < i
    <3>1. Stop(u, i) /\ i \in 1..Len(u)
      BY <1>1, StopsAtIs
    <3>2. i \in Nat \ {0}
      BY <1>1, <3>1
    <3>3. ~Stop(s, i)
      BY StopsAtIs
    <3> HIDE DEF n
    <3>4. i > n
      BY <3>1, <3>2, <3>3, StopJoint DEF n
    <3>5. QED
      BY <1>1, <3>2, <3>4
  <2>3. QED
    BY <2>1, <2>2
<1>3. end \in n..Len(u)
  <2>1. F \in SUBSET (0..Len(u)) /\ Len(u) \in Nat
    BY <1>1
  <2> HIDE DEF F
  <2>2. end \in F /\ n <= end
    BY <1>2, <2>1, GreatestUpTo
  <2> HIDE DEF end, n, u
  <2>3. end \in 0..Len(u)
    BY <2>1, <2>2
  <2>4. QED
    BY <1>1, <2>1, <2>2, <2>3
<1> HIDE DEF end, F
<1>4. v \in Text /\ Len(v) = end /\ \A i \in 1..n : v[i] = s[i]
  <2>1. 0 \in Nat /\ end \in Nat /\ 0 <= end /\ end <= Len(u) /\ 0 + 1 = 1 /\ end - 0 = end
    BY <1>1, <1>3
  <2> HIDE DEF u
  <2>2. /\ SubSeq(u, 0 + 1, end) \in Seq(Characters) /\ Len(SubSeq(u, 0 + 1, end)) = end - 0
        /\ \A i \in 1..(end - 0) : SubSeq(u, 0 + 1, end)[i] = u[0 + i]
    BY <1>1, <2>1, Slice DEF Text
  <2>3. v \in Text /\ Len(v) = end /\ \A i \in 1..end : v[i] = u[0 + i]
    BY <2>1, <2>2 DEF Text
  <2> HIDE DEF v
  <2>4. \A i \in 1..n : i \in 1..end /\ 0 + i = i
    BY <1>1, <1>3
  <2>5. QED
    BY <1>1, <2>3, <2>4
<1>5. Sanitised(u) = Rewrite(v, S)
  BY DEF Sanitised, Spans, Known, v, end, F
<1>6. S \in SUBSET Span /\ Spans(s) \in SUBSET Span
  BY <1>1, SpansAre
<1>7. \A i \in 1..Len(v) : Piece(v, S, i) \in Seq(Characters)
  <2> HIDE DEF v, S
  <2>1. QED
    BY <1>4, <1>6, PieceInText DEF Text
<1>8. /\ q \in Seq(Seq(Characters)) /\ Len(q) = end
      /\ \A i \in 1..end : q[i] = Piece(v, S, i)
      /\ Rewrite(v, S) = TextOf(q, end) /\ Rewrite(v, S) \in Seq(Characters)
  <2>1. v \in Seq(Characters)
    BY <1>4 DEF Text
  <2> HIDE DEF v, S
  <2>2. QED
    BY <1>4, <1>7, <2>1, RewriteIs
<1>9. /\ p \in Seq(Seq(Characters)) /\ Len(p) = n
      /\ \A i \in 1..n : p[i] = Piece(s, Spans(s), i)
      /\ Safe(s) = TextOf(p, n) /\ Safe(s) \in Seq(Characters)
  <2>1. \A i \in 1..Len(s) : Piece(s, Spans(s), i) \in Seq(Characters)
    BY SafeIs DEF Text
  <2>2. QED
    BY <2>1, RewriteIs DEF Text, Safe
<1>10. \A i \in 1..n : Piece(v, S, i) = Piece(s, Spans(s), i)
  <2> HIDE DEF v
  <2>1. QED
    BY <1>4, PiecesBefore
<1> HIDE DEF v, S, p, q, n, u
<1>11. n \in 0..end /\ end \in n..end /\ end \in Nat /\ n <= end
  BY <1>1, <1>3
<1>12. \A i \in 1..n : p[i] = q[i]
  <2>1. \A i \in 1..n : i \in 1..end
    BY <1>1, <1>11
  <2>2. QED
    BY <1>8, <1>9, <1>10, <2>1
<1>13. TextOf(p, n) = TextOf(q, n)
  <2>1. n <= Len(p) /\ n <= Len(q)
    BY <1>1, <1>8, <1>9, <1>11
  <2>2. QED
    BY <1>1, <1>8, <1>9, <1>12, <2>1, TextOfSame
<1>14. Part(TextOf(q, n), TextOf(q, end), 0)
  BY <1>8, <1>11, TextOfGrows
<1>15. IsPrefix(Safe(s), Rewrite(v, S))
  BY <1>8, <1>9, <1>13, <1>14, IsPrefixIs
<1>16. QED
  BY <1>5, <1>15 DEF u

LEMMA SanitisedWhole ==
  ASSUME NEW s \in Text, StopsAt(s) = {}
  PROVE  Sanitised(s) = Safe(s)
<1> DEFINE n == Len(s)
           F == {k \in 0 .. n : \A i \in StopsAt(s) : k < i}
<1>1. n \in Nat /\ F = 0..n
  BY LenProperties DEF Text
<1>2. LargestOf(F) = n
  <2>1. n \in F /\ F \in SUBSET (0..n)
    BY <1>1
  <2> HIDE DEF F, n
  <2>2. LargestOf(F) \in F /\ n <= LargestOf(F)
    BY <1>1, <2>1, GreatestUpTo
  <2>3. QED
    BY <1>1, <2>1, <2>2
<1>3. SubSeq(s, 1, n) = s
  <2>1. s \o <<>> = s /\ <<>> \in Seq(Characters)
    BY ConcatEmptySeq DEF Text
  <2>2. SubSeq(s \o <<>>, 0 + 1, Len(s)) = s
    BY <2>1, ConcatIs DEF Text
  <2>3. 0 + 1 = 1
    OBVIOUS
  <2>4. QED
    BY <2>1, <2>2, <2>3
<1>4. Sanitised(s) = Rewrite(SubSeq(s, 1, LargestOf(F)), Spans(s))
  BY DEF Sanitised, Spans, Known
<1>5. QED
  BY <1>2, <1>3, <1>4 DEF Safe

-----------------------------------------------------------------------------
(* Passing events on *)

LEMMA GapParts ==
  ASSUME NEW d \in Text, NEW s \in Text, NEW t \in Text
  PROVE  /\ Gap(d, s \o t) /\ Gap(s, t) => Gap(d \o s, t)
         /\ Gap(d, s) /\ (d = <<>> \/ s # <<>>) => Gap(d, s \o t)
<1> DEFINE u == s \o t
           v == d \o s
<1>1. /\ Len(d) \in Nat /\ Len(s) \in Nat /\ Len(t) \in Nat
      /\ u \in Text /\ Len(u) = Len(s) + Len(t) /\ v \in Text /\ Len(v) = Len(d) + Len(s)
      /\ (\A i \in 1..Len(s) : u[i] = s[i]) /\ \A i \in 1..Len(s) : v[Len(d) + i] = s[i]
  BY PartOfConcat, ConcatIs DEF Text
<1>2. (s = <<>> <=> Len(s) = 0) /\ (u = <<>> <=> Len(u) = 0) /\ (s = <<>> => u = t) /\ (s = <<>> => v = d)
  BY <1>1, EmptySeq, ConcatEmptySeq DEF Text
<1> HIDE DEF u, v
<1>3. CASE s = <<>>
  BY <1>2, <1>3 DEF Gap, u, v
<1>4. CASE s # <<>>
  <2>1. 1 \in 1..Len(s) /\ Len(s) \in 1..Len(s)
    BY <1>1, <1>2, <1>4
  <2>2. u[1] = s[1] /\ v[Len(v)] = s[Len(s)]
    BY <1>1, <2>1
  <2>3. u # <<>>
    BY <1>1, <1>2, <2>1
  <2>4. QED
    BY <1>4, <2>2, <2>3 DEF Gap, u, v
<1>5. QED
  BY <1>3, <1>4

LEMMA TiedBefore ==
  ASSUME NEW d \in Nat, NEW X \in SUBSET Located, Tied(Shifted(X, d))
  PROVE  Tied(X)
<1> DEFINE Y == Shifted(X, d)
           Sh(m, k) == m.rule = k.rule /\ m.first = k.first + d /\ m.last = k.last + d
<1>1. Y \in SUBSET Located /\ \A m \in Located : m \in Y <=> \E k \in X : Sh(m, k)
  BY ShiftedIs
<1>2. \A k \in X : \E m \in Y : Sh(m, k)
  BY Unshift
<1>3. \A k \in X : k.first \in Nat /\ k.last \in Nat
  BY LocatedIs
<1> HIDE DEF Y
<1>4. ASSUME NEW p \in Nat, Joined(X, p) PROVE Joined(Y, p + d)
  <2>1. PICK k \in X : k.first <= p /\ p < k.last
    BY <1>4 DEF Joined
  <2>2. PICK m \in Y : Sh(m, k)
    BY <1>2
  <2>3. m.first <= p + d /\ p + d < m.last
    BY <1>3, <2>1, <2>2
  <2>4. QED
    BY <2>3 DEF Joined
<1>5. ASSUME NEW m \in X, NEW n \in X, m.first <= n.first, m.rule.priority = n.rule.priority,
             \A p \in m.first .. n.first - 1 : Joined(X, p)
      PROVE  m.rule = n.rule
  <2>1. PICK a \in Y : Sh(a, m)
    BY <1>2
  <2>2. PICK b \in Y : Sh(b, n)
    BY <1>2
  <2>3. a.first <= b.first /\ a.rule.priority = b.rule.priority
    BY <1>3, <1>5, <2>1, <2>2
  <2>4. ASSUME NEW q \in a.first .. b.first - 1 PROVE Joined(Y, q)
    <3> DEFINE p == q - d
    <3>1. p \in Nat /\ p \in m.first .. n.first - 1 /\ q = p + d
      BY <1>3, <2>1, <2>2
    <3> HIDE DEF p
    <3>2. QED
      BY <1>4, <1>5, <3>1
  <2>5. a.rule = b.rule
    BY <1>1, <2>3, <2>4 DEF Tied, Y
  <2>6. QED
    BY <2>1, <2>2, <2>5
<1>6. QED
  BY <1>5 DEF Tied

\* A part of a regular text is regular, and what does not go on in the text does
\* not in the part.
LEMMA RegularSlice ==
  ASSUME NEW text \in Text, NEW c \in Nat, NEW n \in Nat, c <= n, n <= Len(text)
  PROVE  LET t == SubSeq(text, c + 1, n)
         IN  /\ Regular(text) => Regular(t)
             /\ \A k \in Nat : Straddled(t, k) => Straddled(text, c + k)
<1> DEFINE t == SubSeq(text, c + 1, n)
           Sh(m, k) == m.rule = k.rule /\ m.first = k.first + c /\ m.last = k.last + c
<1>1. t \in Text /\ Len(t) = n - c
  BY Slice DEF Text
<1>2. Scan(t) \in SUBSET Located /\ Scan(text) \in SUBSET Located
  BY <1>1, ScanIs
<1>3. Shifted(Scan(t), c) \in SUBSET Scan(text)
  BY ScanOfSlice
<1> HIDE DEF t
<1>4. ASSUME NEW k \in Scan(t) PROVE \E m \in Scan(text) : Sh(m, k)
  <2>1. \E m \in Shifted(Scan(t), c) : Sh(m, k)
    BY <1>2, Unshift
  <2>2. QED
    BY <1>3, <2>1
<1>5. ASSUME TiesAgree(text) PROVE TiesAgree(t)
  <2>1. Tied(Scan(text))
    BY <1>5 DEF TiesAgree, Tied, Joined
  <2>2. Tied(Shifted(Scan(t), c))
    BY <1>2, <1>3, <2>1, TiedIn
  <2>3. Tied(Scan(t))
    BY <1>2, <2>2, TiedBefore
  <2>4. QED
    BY <2>3 DEF TiesAgree, Tied, Joined
<1>6. ASSUME WordsStandFree(text) PROVE WordsStandFree(t)
  <2>1. ASSUME NEW k \in Scan(t), NEW w \in Words, NEW i \in Nat, Part(w, t, i)
        PROVE  k.last <= i \/ i + Len(w) < k.first
    <3>1. PICK m \in Scan(text) : Sh(m, k)
      BY <1>4
    <3>2. w \in Text /\ Len(w) \in Nat
      BY WordIs
    <3>3. Part(w, text, c + i)
      BY <2>1, <3>2, PartOfSlice DEF Text, t
    <3>4. c + i \in Nat
      OBVIOUS
    <3>5. m.last <= c + i \/ (c + i) + Len(w) < m.first
      BY <1>6, <3>3, <3>4, StandFree
    <3>6. k.first \in Nat /\ k.last \in Nat
      BY <1>2, LocatedIs
    <3> DEFINE l == Len(w)
    <3>7. l \in Nat /\ m.first = k.first + c /\ m.last = k.last + c /\ (m.last <= c + i \/ (c + i) + l < m.first)
      BY <3>1, <3>2, <3>5
    <3> HIDE DEF l, Sh
    <3>8. k.last <= i \/ i + l < k.first
      BY <3>6, <3>7
    <3>9. QED
      BY <3>8 DEF l
  <2>2. QED
    BY <1>1, <2>1, StandFree
<1>7. ASSUME NEW k \in Nat, Straddled(t, k) PROVE Straddled(text, c + k)
  <2>1. PICK v \in Scan(t) : v.first - Len(v.rule.context) <= k /\ k < v.last
    BY <1>7 DEF Straddled
  <2>2. PICK m \in Scan(text) : Sh(m, v)
    BY <1>4
  <2>3. v.first \in Nat /\ v.last \in Nat /\ v.rule \in Rules
    BY <1>2, LocatedIs
  <2> DEFINE a == Len(v.rule.context)
  <2>4. a \in Nat
    BY <2>3, RuleFacts
  <2>5. v.first - a <= k
    BY <2>1
  <2>6. Len(m.rule.context) = a
    BY <2>2
  <2> HIDE DEF a
  <2>7. m.first - a <= c + k /\ c + k < m.last
    BY <2>1, <2>2, <2>3, <2>4, <2>5
  <2>8. m.first - Len(m.rule.context) <= c + k
    BY <2>6, <2>7
  <2> HIDE DEF Sh
  <2>9. QED
    BY <2>7, <2>8 DEF Straddled
<1>8. QED
  BY <1>5, <1>6, <1>7 DEF t, Regular

LEMMA NothingStraddlesEnds ==
  ASSUME NEW text \in Text
  PROVE  ~Straddled(text, 0) /\ ~Straddled(text, Len(text))
<1> SUFFICES ASSUME NEW m \in Scan(text)
             PROVE  ~(m.first - Len(m.rule.context) <= 0) /\ ~(Len(text) < m.last)
  BY DEF Straddled
<1>1. m \in Located /\ Seen(m, text) /\ m.last <= Len(text)
  BY ScanIs
<1>2. m.rule \in Rules /\ m.first \in Nat /\ m.last \in Nat
  BY <1>1, LocatedIs
<1> DEFINE a == Len(m.rule.context)
           f == m.first
<1>3. a \in Nat /\ f \in Nat
  BY <1>2, RuleFacts
<1>4. f > a
  BY <1>1 DEF Seen
<1>5. Len(text) \in Nat
  BY LenProperties DEF Text
<1> HIDE DEF a, f
<1>6. ~(f - a <= 0)
  BY <1>3, <1>4
<1>7. ~(Len(text) < m.last)
  BY <1>1, <1>2, <1>5
<1>8. QED
  BY <1>6, <1>7 DEF a, f

\* Two texts between which there is no credential are joint, if values go on from
\* one to the other only in credentials.
LEMMA GapIsJoint ==
  ASSUME NEW s \in Text, NEW t \in Text, Regular(s \o t), Gap(s, t),
         s = <<>> \/ t = <<>> \/ (Straddled(s \o t, Len(s)) => InCredential(s \o t, Len(s)))
  PROVE  Joint(s, t)
<1> DEFINE u == s \o t
           n == Len(s)
<1>1. /\ n \in Nat /\ Len(t) \in Nat /\ u \in Text /\ Len(u) = n + Len(t)
      /\ (\A i \in 1..n : u[i] = s[i]) /\ \A i \in 1..Len(t) : u[n + i] = t[i]
  BY PartOfConcat, ConcatIs DEF Text
<1>2. (s = <<>> <=> n = 0) /\ (t = <<>> <=> Len(t) = 0)
  BY EmptySeq DEF Text
<1> HIDE DEF u, n
<1>3. CASE s = <<>> \/ t = <<>>
  <2>1. n = 0 \/ n = Len(u)
    BY <1>1, <1>2, <1>3
  <2>2. ~Straddled(u, n)
    BY <1>1, <2>1, NothingStraddlesEnds
  <2>3. QED
    BY <2>2 DEF Joint, u, n
<1>4. CASE s # <<>> /\ t # <<>>
  <2>1. n \in 1..n /\ 1 \in 1..Len(t)
    BY <1>1, <1>2, <1>4
  <2>2. u[n] = s[n] /\ u[n + 1] = t[1]
    BY <1>1, <2>1
  <2>3. u[n] \notin CredentialBytes \/ u[n + 1] \notin CredentialBytes
    BY <1>4, <2>2 DEF Gap, n
  <2>4. ~InCredential(u, n)
    BY <2>3 DEF InCredential
  <2>5. ~Straddled(u, n)
    BY <1>4, <2>4 DEF u, n
  <2>6. QED
    BY <2>5 DEF Joint, u, n
<1>5. QED
  BY <1>3, <1>4

LEMMA JointParts ==
  ASSUME NEW d \in Text, NEW s \in Text, NEW t \in Text, Joint(d, s \o t), Joint(d \o s, t)
  PROVE  Joint(d, s) /\ Joint(s, t) /\ Regular(s)
<1> DEFINE u == d \o (s \o t)
           v == d \o s
           w == s \o t
           a == Len(d)
           b == Len(s)
<1>1. /\ a \in Nat /\ b \in Nat /\ Len(t) \in Nat /\ v \in Text /\ w \in Text /\ u \in Text
      /\ Len(v) = a + b /\ Len(w) = b + Len(t) /\ Len(u) = a + Len(w)
  <2>1. w \in Text /\ v \in Text
    BY PartOfConcat DEF Text
  <2> HIDE DEF w, v
  <2>2. Len(d \o w) = Len(d) + Len(w) /\ d \o w \in Text
    BY <2>1, PartOfConcat DEF Text
  <2>3. QED
    BY <2>1, <2>2, PartOfConcat DEF Text, v, w
<1>2. u = v \o t
  BY ConcatAssociative DEF Text
<1>3. v = SubSeq(u, 0 + 1, a + b)
  <2> HIDE DEF u, v
  <2>1. SubSeq(v \o t, 0 + 1, Len(v)) = v
    BY <1>1, ConcatIs DEF Text
  <2>2. QED
    BY <1>1, <1>2, <2>1
<1>4. w = SubSeq(u, a + 1, Len(u))
  <2>1. w \in Text /\ u = d \o w
    BY <1>1
  <2> HIDE DEF u, v, w
  <2>2. SubSeq(d \o w, Len(d) + 1, Len(d \o w)) = w
    BY <2>1, ConcatIs DEF Text
  <2>3. QED
    BY <2>1, <2>2
<1>5. s = SubSeq(w, 0 + 1, b)
  BY ConcatIs DEF Text
<1>6. Regular(u) /\ ~Straddled(u, a) /\ ~Straddled(u, a + b)
  BY <1>1, <1>2 DEF Joint
<1> HIDE DEF u, v, w, a, b
<1>7. 0 \in Nat /\ 0 <= a + b /\ a + b \in Nat /\ a + b <= Len(u) /\ a <= Len(u) /\ Len(u) \in Nat
      /\ Len(u) <= Len(u) /\ 0 <= b /\ b <= Len(w) /\ 0 + a = a
  BY <1>1
<1>8. Regular(v) /\ ~Straddled(v, a)
  <2>1. Regular(v) /\ (Straddled(v, a) => Straddled(u, 0 + a))
    BY <1>1, <1>3, <1>6, <1>7, RegularSlice
  <2>2. QED
    BY <1>6, <1>7, <2>1
<1>9. Regular(w) /\ ~Straddled(w, b)
  <2>1. Regular(w) /\ (Straddled(w, b) => Straddled(u, a + b))
    BY <1>1, <1>4, <1>6, <1>7, RegularSlice
  <2>2. QED
    BY <1>6, <2>1
<1>10. Regular(s)
  BY <1>1, <1>5, <1>7, <1>9, RegularSlice
<1>11. QED
  BY <1>8, <1>9, <1>10 DEF Joint, v, w, a, b

\* What a flush takes for settled is all there is in what goes out.
LEMMA SettledIs ==
  ASSUME NEW s \in Text, NEW t \in Text, Joint(s, t)
  PROVE  /\ Settled(Matches(s \o t), Len(s)) = Whole(s)
         /\ Redact(SubSeq(s \o t, 1, Len(s)), Whole(s)) = Masked(s)
         /\ WithAction(Matches(s \o t), "block") = {} => \A m \in Whole(s) : m.rule.action # "block"
<1> DEFINE n == Len(s)
           X == Whole(s)
           Y == Shifted(Whole(t), n)
<1>1. n \in Nat /\ s \o t \in Text
  BY PartOfConcat DEF Text
<1>2. Matches(s \o t) = X \cup Y
  <2>1. Matches(s \o t) = Whole(s \o t)
    BY <1>1, ChunkedScanFindsEverything DEF Joint, Regular, Text
  <2>2. QED
    BY <2>1, WholeJoint
<1>3. \A m \in X : m.last <= n
  BY <1>1, WholeIs
<1>4. \A m \in Y : ~(m.last <= n)
  <2> SUFFICES ASSUME NEW m \in Y, m.last <= n PROVE FALSE
    OBVIOUS
  <2>1. m \in Located /\ Whole(t) \in SUBSET Located
    BY <1>1, WholeIs, ShiftedIs
  <2>2. PICK k \in Whole(t) : m.last = k.last + n
    BY <1>1, <2>1, ShiftedIs
  <2> DEFINE l == k.last
  <2>3. l \in Nat \ {0}
    BY <2>1, LocatedIs
  <2> HIDE DEF l, n
  <2>4. l + n <= n
    BY <2>2 DEF l
  <2>5. QED
    BY <1>1, <2>3, <2>4
<1>5. Settled(Matches(s \o t), n) = X
  <2> HIDE DEF X, Y, n
  <2>1. QED
    BY <1>2, <1>3, <1>4 DEF Settled
<1>6. SubSeq(s \o t, 1, n) = s
  <2>1. SubSeq(s \o t, 0 + 1, Len(s)) = s
    BY ConcatIs DEF Text
  <2>2. 0 + 1 = 1
    OBVIOUS
  <2>3. QED
    BY <2>1, <2>2
<1>7. WithAction(Matches(s \o t), "block") = {} => \A m \in X : m.rule.action # "block"
  BY <1>2 DEF WithAction
<1>8. QED
  BY <1>5, <1>6, <1>7 DEF Masked

\* What becomes of the text that goes out.
LEMMA EmissionIs ==
  ASSUME NEW d \in Text, NEW s \in Text, Joint(d, s), WordsStandFree(s), ~OpenEnd(d),
         StopsAt(d) = {}, \A m \in Whole(s) : m.rule.action # "block", Restorable(Masked(s))
  PROVE  /\ Safe(d) \o Restore(Masked(s)) = Safe(d \o s)
         /\ StopsAt(d \o s) = {}
<1>1. Restore(Masked(s)) = Safe(s) /\ Safe(d \o s) = Safe(d) \o Safe(s)
  BY RedactThenRestore, SafeJoint
<1>2. MarkersKnown(s)
  BY MarkersBefore
<1>3. StopsAt(s) = {}
  BY <1>2, NoStops
<1>4. d \o s \in Text /\ Len(d) \in Nat
  BY PartOfConcat DEF Text
<1>5. StopsAt(d \o s) = {}
  <2> SUFFICES ASSUME NEW i \in StopsAt(d \o s) PROVE FALSE
    OBVIOUS
  <2>1. Stop(d \o s, i) /\ i \in 1..Len(d \o s)
    BY <1>4, StopsAtIs
  <2>2. i \in Nat \ {0}
    BY <1>4, <2>1, LenProperties DEF Text
  <2>3. Stop(d, i) \/ Stop(s, i - Len(d))
    BY <2>1, <2>2, StopJoint
  <2>4. QED
    BY <1>3, <2>3, StopsAtIs
<1>6. QED
  BY <1>1, <1>5

\* What is reported of it.
Accounted(list, text) ==
  list \in Seq(Located) /\ ToSet(list) = Whole(text) /\ Len(list) = Cardinality(Whole(text))

LEMMA WholeSpread ==
  ASSUME NEW s \in Text
  PROVE  Spread(Whole(s), Len(s)) /\ Len(s) \in Nat
<1>1. Len(s) \in Nat
  BY LenProperties DEF Text
<1>2. QED
  BY <1>1, WholeIs DEF Spread

LEMMA FindingsGrow ==
  ASSUME NEW d \in Text, NEW s \in Text, Joint(d, s), NEW list, Accounted(list, d)
  PROVE  Accounted(list \o Reported(Whole(s), Len(d)), d \o s)
<1> DEFINE n == Len(d)
           more == Reported(Whole(s), n)
           X == Whole(d)
           Y == Shifted(Whole(s), n)
           all == list \o more
<1>1. Spread(Whole(d), n) /\ Spread(Whole(s), Len(s)) /\ n \in Nat /\ Len(s) \in Nat
  BY WholeSpread
<1>2. more \in Seq(Located) /\ Len(more) = Cardinality(Whole(s)) /\ ToSet(more) = Y
  BY <1>1, ReportedIs
<1>3. Spread(Y, Len(s) + n) /\ Cardinality(Y) = Cardinality(Whole(s)) /\ Len(s) + n \in Nat
  BY <1>1, ShiftedSpread
<1>4. IsFiniteSet(X) /\ IsFiniteSet(Y) /\ Cardinality(X) \in Nat /\ Cardinality(Y) \in Nat
  BY <1>1, <1>3, SpreadIsFinite
<1>5. X \cap Y = {}
  <2> SUFFICES ASSUME NEW m \in X, m \in Y PROVE FALSE
    OBVIOUS
  <2>1. m \in Located /\ Whole(s) \in SUBSET Located /\ m.first <= n
    BY <1>1, WholeIs DEF Spread
  <2>2. PICK k \in Whole(s) : m.first = k.first + n
    BY <1>1, <2>1, ShiftedIs
  <2> DEFINE f == k.first
  <2>3. f \in Nat \ {0}
    BY <2>1, LocatedIs
  <2> HIDE DEF f, n
  <2>4. f + n <= n
    BY <2>1, <2>2 DEF f
  <2>5. QED
    BY <1>1, <2>3, <2>4
<1>6. Whole(d \o s) = X \cup Y
  BY WholeJoint
<1>7. Cardinality(X \cup Y) = Cardinality(X) + Cardinality(Y)
  <2>1. Cardinality({}) = 0
    BY FS_EmptySet
  <2> HIDE DEF X, Y
  <2>2. Cardinality(X \cup Y) = Cardinality(X) + Cardinality(Y) - Cardinality(X \cap Y)
    BY <1>4, FS_Union
  <2>3. Cardinality(X \cap Y) = 0
    BY <1>5, <2>1
  <2> DEFINE x == Cardinality(X)
             y == Cardinality(Y)
  <2>4. x \in Nat /\ y \in Nat /\ Cardinality(X \cup Y) = x + y - 0
    BY <1>4, <2>2, <2>3
  <2> HIDE DEF x, y
  <2>5. Cardinality(X \cup Y) = x + y
    BY <2>4
  <2>6. QED
    BY <2>5 DEF x, y
<1>8. list \in Seq(Located) /\ ToSet(list) = X /\ Len(list) = Cardinality(X)
  BY DEF Accounted
<1> HIDE DEF X, Y, more, n
<1>9. /\ all \in Seq(Located) /\ Len(all) = Len(list) + Len(more) /\ Len(list) \in Nat /\ Len(more) \in Nat
      /\ (\A i \in 1..Len(list) : all[i] = list[i]) /\ \A i \in 1..Len(more) : all[Len(list) + i] = more[i]
  BY <1>2, <1>8, PartOfConcat, ConcatIs
<1> HIDE DEF all
<1>10. ToSet(all) = ToSet(list) \cup ToSet(more)
  <2>1. DOMAIN all = 1..Len(all) /\ DOMAIN list = 1..Len(list) /\ DOMAIN more = 1..Len(more)
    BY <1>2, <1>8, <1>9, LenProperties
  <2>2. ASSUME NEW i \in DOMAIN list PROVE list[i] \in ToSet(all)
    <3>1. i \in DOMAIN all
      BY <1>9, <2>1
    <3>2. QED
      BY <1>9, <2>1, <3>1 DEF ToSet
  <2>3. ASSUME NEW i \in DOMAIN more PROVE more[i] \in ToSet(all)
    <3> DEFINE j == Len(list) + i
    <3>1. j \in DOMAIN all
      BY <1>9, <2>1
    <3>2. all[j] = more[i]
      BY <1>9, <2>1
    <3> HIDE DEF j
    <3>3. QED
      BY <3>1, <3>2 DEF ToSet
  <2>4. ASSUME NEW i \in DOMAIN all PROVE all[i] \in ToSet(list) \cup ToSet(more)
    <3>1. CASE i <= Len(list)
      <4>1. i \in DOMAIN list
        BY <1>9, <2>1, <3>1
      <4>2. QED
        BY <1>9, <2>1, <4>1 DEF ToSet
    <3>2. CASE ~(i <= Len(list))
      <4> DEFINE j == i - Len(list)
      <4>1. j \in 1..Len(more) /\ i = Len(list) + j
        BY <1>9, <2>1, <3>2
      <4> HIDE DEF j
      <4>2. all[i] = more[j]
        BY <1>9, <4>1
      <4>3. QED
        BY <2>1, <4>1, <4>2 DEF ToSet
    <3>3. QED
      BY <3>1, <3>2
  <2>5. ToSet(list) \subseteq ToSet(all)
    BY <2>2 DEF ToSet
  <2>6. ToSet(more) \subseteq ToSet(all)
    BY <2>3 DEF ToSet
  <2>7. ToSet(all) \subseteq ToSet(list) \cup ToSet(more)
    <3> SUFFICES ASSUME NEW x \in ToSet(all) PROVE x \in ToSet(list) \cup ToSet(more)
      OBVIOUS
    <3>1. PICK i \in DOMAIN all : x = all[i]
      BY DEF ToSet
    <3>2. QED
      BY <2>4, <3>1
  <2>8. QED
    BY <2>5, <2>6, <2>7
<1>11. Len(all) = Cardinality(X \cup Y)
  <2>1. Len(more) = Cardinality(Y)
    BY <1>2, <1>3
  <2>2. QED
    BY <1>7, <1>8, <1>9, <2>1
<1>12. ToSet(all) = X \cup Y
  BY <1>2, <1>8, <1>10
<1>13. Accounted(all, d \o s)
  BY <1>6, <1>9, <1>11, <1>12 DEF Accounted
<1>14. QED
  BY <1>13 DEF all, more, n

-----------------------------------------------------------------------------
(* The invariant of the stream processor *)

\* Places are places of what arrived.
PlacesIn == \A e \in places : e.from \in Nat /\ e.to \in e.from .. Len(arrived)

\* An event ends behind done.
Ended(done) == done = <<>> \/ \E e \in places : e.to = Len(done)

\* done has been dealt with, left is held back or was never passed on.
Handled(done, left) ==
  /\ arrived = done \o left
  /\ emitted = Safe(done)
  /\ StopsAt(done) = {}
  /\ pending \in Seq(Events) /\ Len(pending) <= MaxPendingStreamEvents
  /\ status \in {"open", "closed", "failed"}
  /\ status # "closed" => Gap(done, left) /\ Ended(done) /\ ~OpenEnd(done)
  /\ status = "open" => (done = <<>> \/ left # <<>>) /\ PlacesOf(pending, Len(done)) \subseteq places
  /\ status = "closed" => left = <<>> /\ pending = <<>>
  /\ status # "failed" => left = FlattenSeq(pending) /\ Accounted(findings, done)

StreamInv ==
  /\ arrived \in Text /\ PlacesIn
  /\ Ordinary => \E done \in Text, left \in Text : Handled(done, left)

\* The events that go out end at a boundary, or nothing is left.
Cut(done, events, count, outcome) ==
  LET sent == TextOf(events, count)
      held == FlattenSeq(SubSeq(events, count + 1, Len(events)))
  IN  \/ /\ outcome = "open" /\ ~OpenEnd(sent) /\ Gap(sent, held)
         /\ sent = <<>> \/ held # <<>>
         /\ done = <<>> \/ FlattenSeq(events) # <<>>
      \/ outcome = "closed" /\ count = Len(events)

LEMMA PlacesAre ==
  ASSUME NEW p, NEW offset
  PROVE  \A e : e \in PlacesOf(p, offset) <=>
           \E n \in DOMAIN p : /\ p[n] # <<>>
                             /\ e = [from |-> offset + Len(TextOf(p, n - 1)), to |-> offset + Len(TextOf(p, n))]
  BY DEF PlacesOf

\* Where the last event ends that has a text.
LEMMA LastPlace ==
  ASSUME NEW p \in Seq(Events), NEW n \in 0..Len(p), NEW offset \in Nat
  PROVE  TextOf(p, n) = <<>> \/ \E e \in PlacesOf(p, offset) : e.to = offset + Len(TextOf(p, n))
<1> DEFINE S == {k \in 0..n : TextOf(p, k) = TextOf(p, n)}
<1>1. p \in Seq(Seq(Characters)) /\ Len(p) \in Nat /\ DOMAIN p = 1..Len(p) /\ n \in Nat
  BY EventsAreTexts, LenProperties
<1>2. /\ TextOf(p, 0) = <<>>
      /\ \A i \in 1..Len(p) : TextOf(p, i) = TextOf(p, i-1) \o p[i]
      /\ \A i \in 0..Len(p) : TextOf(p, i) \in Seq(Characters)
  BY <1>1, TextOfSteps
<1>3. S \in SUBSET Nat /\ n \in S
  BY <1>1
<1> HIDE DEF S
<1>4. PICK k \in S : \A j \in S : k <= j
  BY <1>3, Least
<1>5. k \in 0..n /\ TextOf(p, k) = TextOf(p, n)
  BY <1>4 DEF S
<1>6. CASE k = 0
  BY <1>2, <1>5, <1>6
<1>7. CASE k # 0
  <2>1. k \in 1..Len(p) /\ k \in DOMAIN p /\ k - 1 \in 0..n /\ k - 1 \in 0..Len(p)
    BY <1>1, <1>5, <1>7
  <2>2. p[k] # <<>>
    <3> SUFFICES ASSUME p[k] = <<>> PROVE FALSE
      OBVIOUS
    <3>1. TextOf(p, k) = TextOf(p, k - 1)
      BY <1>2, <2>1, ConcatEmptySeq
    <3>2. k - 1 \in S
      BY <1>5, <2>1, <3>1 DEF S
    <3>3. k <= k - 1
      BY <1>4, <3>2
    <3>4. QED
      BY <1>5, <3>3
  <2> DEFINE e == [from |-> offset + Len(TextOf(p, k - 1)), to |-> offset + Len(TextOf(p, k))]
  <2>3. e \in PlacesOf(p, offset)
    BY <2>1, <2>2, PlacesAre
  <2>4. e.to = offset + Len(TextOf(p, n))
    BY <1>5
  <2> HIDE DEF e
  <2>5. QED
    BY <2>3, <2>4
<1>8. QED
  BY <1>6, <1>7

\* Places of events that follow others, and of the ones that are left of some.
LEMMA PlacesTogether ==
  ASSUME NEW p \in Seq(Events), NEW q \in Seq(Events), NEW offset \in Nat
  PROVE  /\ PlacesOf(p \o q, offset) \subseteq
              PlacesOf(p, offset) \cup PlacesOf(q, offset + Len(FlattenSeq(p)))
         /\ PlacesOf(q, offset + Len(FlattenSeq(p))) \subseteq PlacesOf(p \o q, offset)
<1> DEFINE u == p \o q
           a == Len(p)
           l == Len(FlattenSeq(p))
<1>1. p \in Seq(Seq(Characters)) /\ q \in Seq(Seq(Characters))
  BY EventsAreTexts
<1>2. /\ u \in Seq(Seq(Characters)) /\ Len(u) = a + Len(q) /\ a \in Nat /\ Len(q) \in Nat
      /\ (\A i \in 1..a : u[i] = p[i]) /\ \A i \in 1..Len(q) : u[a + i] = q[i]
  BY <1>1, PartOfConcat, ConcatIs
<1>3. DOMAIN u = 1..Len(u) /\ DOMAIN p = 1..a /\ DOMAIN q = 1..Len(q)
  BY <1>1, <1>2, LenProperties
<1>4. /\ \A n \in 0..a : TextOf(u, n) = TextOf(p, n)
      /\ \A n \in 0..Len(q) : TextOf(u, a + n) = FlattenSeq(p) \o TextOf(q, n)
  BY <1>1, FlattenConcat
<1>5. FlattenSeq(p) \in Seq(Characters) /\ l \in Nat
  <2>1. FlattenSeq(p) \in Seq(Characters)
    <3>1. a \in 0..a
      BY <1>2
    <3>2. QED
      BY <1>1, <3>1, TextOfSteps
  <2>2. QED
    BY <2>1, LenProperties
<1>6. ASSUME NEW n \in 0..Len(q)
      PROVE  Len(TextOf(u, a + n)) = l + Len(TextOf(q, n)) /\ Len(TextOf(q, n)) \in Nat
  <2>1. TextOf(q, n) \in Seq(Characters)
    BY <1>1, TextOfSteps
  <2>2. QED
    BY <1>4, <1>5, <2>1, PartOfConcat
<1> HIDE DEF u, a, l
<1>7. ASSUME NEW n \in 1..Len(q)
      PROVE  /\ offset + Len(TextOf(u, (a + n) - 1)) = (offset + l) + Len(TextOf(q, n - 1))
             /\ offset + Len(TextOf(u, a + n)) = (offset + l) + Len(TextOf(q, n))
             /\ u[a + n] = q[n] /\ a + n \in DOMAIN u
  <2>1. n - 1 \in 0..Len(q) /\ n \in 0..Len(q) /\ (a + n) - 1 = a + (n - 1) /\ a + n \in 1..Len(u)
    BY <1>2
  <2>2. /\ Len(TextOf(u, a + (n - 1))) = l + Len(TextOf(q, n - 1)) /\ Len(TextOf(q, n - 1)) \in Nat
        /\ Len(TextOf(u, a + n)) = l + Len(TextOf(q, n)) /\ Len(TextOf(q, n)) \in Nat
    BY <1>6, <2>1
  <2>3. offset + Len(TextOf(u, (a + n) - 1)) = (offset + l) + Len(TextOf(q, n - 1))
    <3> DEFINE x == Len(TextOf(q, n - 1))
               y == Len(TextOf(u, (a + n) - 1))
    <3>1. x \in Nat /\ y = l + x
      BY <2>1, <2>2
    <3> HIDE DEF x, y
    <3>2. offset + y = (offset + l) + x
      BY <1>5, <3>1
    <3>3. QED
      BY <3>2 DEF x, y
  <2>4. offset + Len(TextOf(u, a + n)) = (offset + l) + Len(TextOf(q, n))
    <3> DEFINE x == Len(TextOf(q, n))
               y == Len(TextOf(u, a + n))
    <3>1. x \in Nat /\ y = l + x
      BY <2>2
    <3> HIDE DEF x, y
    <3>2. offset + y = (offset + l) + x
      BY <1>5, <3>1
    <3>3. QED
      BY <3>2 DEF x, y
  <2>5. u[a + n] = q[n] /\ a + n \in DOMAIN u
    BY <1>2, <1>3, <2>1
  <2>6. QED
    BY <2>3, <2>4, <2>5
<1>8. ASSUME NEW e \in PlacesOf(u, offset)
      PROVE  e \in PlacesOf(p, offset) \/ e \in PlacesOf(q, offset + l)
  <2>1. PICK n \in 1..Len(u) : /\ u[n] # <<>>
                               /\ e = [from |-> offset + Len(TextOf(u, n - 1)), to |-> offset + Len(TextOf(u, n))]
    <3>1. \E n \in DOMAIN u : /\ u[n] # <<>>
                              /\ e = [from |-> offset + Len(TextOf(u, n - 1)), to |-> offset + Len(TextOf(u, n))]
      BY PlacesAre
    <3>2. QED
      BY <1>3, <3>1
  <2>2. CASE n <= a
    <3>1. n \in DOMAIN p /\ n \in 0..a /\ n - 1 \in 0..a /\ n \in 1..a
      BY <1>2, <1>3, <2>2
    <3>2. p[n] # <<>> /\ TextOf(u, n) = TextOf(p, n) /\ TextOf(u, n - 1) = TextOf(p, n - 1)
      BY <1>2, <1>4, <2>1, <3>1
    <3>3. QED
      BY <2>1, <3>1, <3>2, PlacesAre
  <2>3. CASE ~(n <= a)
    <3> DEFINE k == n - a
    <3>1. k \in 1..Len(q) /\ n = a + k
      BY <1>2, <2>3
    <3> HIDE DEF k
    <3>2. /\ e = [from |-> (offset + l) + Len(TextOf(q, k - 1)), to |-> (offset + l) + Len(TextOf(q, k))]
          /\ q[k] # <<>> /\ k \in DOMAIN q
      BY <1>3, <1>7, <2>1, <3>1
    <3>3. QED
      BY <3>2, PlacesAre
  <2>4. QED
    BY <2>2, <2>3
<1>9. ASSUME NEW e \in PlacesOf(q, offset + l)
      PROVE  e \in PlacesOf(u, offset)
  <2>1. PICK n \in 1..Len(q) :
          /\ q[n] # <<>>
          /\ e = [from |-> (offset + l) + Len(TextOf(q, n - 1)), to |-> (offset + l) + Len(TextOf(q, n))]
    <3>1. \E n \in DOMAIN q :
            /\ q[n] # <<>>
            /\ e = [from |-> (offset + l) + Len(TextOf(q, n - 1)), to |-> (offset + l) + Len(TextOf(q, n))]
      BY PlacesAre
    <3>2. QED
      BY <1>3, <3>1
  <2>2. /\ e = [from |-> offset + Len(TextOf(u, (a + n) - 1)), to |-> offset + Len(TextOf(u, a + n))]
        /\ u[a + n] # <<>> /\ a + n \in DOMAIN u
    BY <1>7, <2>1
  <2> DEFINE j == a + n
  <2>3. e = [from |-> offset + Len(TextOf(u, j - 1)), to |-> offset + Len(TextOf(u, j))] /\ u[j] # <<>> /\ j \in DOMAIN u
    BY <2>2
  <2> HIDE DEF j
  <2>4. QED
    BY <2>3, PlacesAre
<1>10. QED
  BY <1>8, <1>9 DEF u, l

\* Places lie within what they are places of, and the text of each event stands there.
LEMMA PlacesWithin ==
  ASSUME NEW p \in Seq(Events), NEW done \in Text, NEW e \in PlacesOf(p, Len(done))
  PROVE  e.from \in Nat /\ e.to \in e.from .. Len(done \o FlattenSeq(p))
<1>1. p \in Seq(Seq(Characters)) /\ Len(p) \in Nat /\ DOMAIN p = 1..Len(p)
  BY EventsAreTexts, LenProperties
<1>2. PICK n \in 1..Len(p) :
        e = [from |-> Len(done) + Len(TextOf(p, n - 1)), to |-> Len(done) + Len(TextOf(p, n))]
  <2>1. \E n \in DOMAIN p :
          e = [from |-> Len(done) + Len(TextOf(p, n - 1)), to |-> Len(done) + Len(TextOf(p, n))]
    BY PlacesAre
  <2>2. QED
    BY <1>1, <2>1
<1>3. n - 1 \in 0..Len(p) /\ n \in (n-1)..Len(p) /\ n \in 0..Len(p) /\ Len(p) \in n..Len(p) /\ Len(p) \in 0..Len(p)
  BY <1>1
<1>4. /\ TextOf(p, n - 1) \in Seq(Characters) /\ TextOf(p, n) \in Seq(Characters)
      /\ FlattenSeq(p) = TextOf(p, Len(p)) /\ TextOf(p, Len(p)) \in Seq(Characters)
  BY <1>1, <1>3, TextOfSteps
<1>5. Part(TextOf(p, n - 1), TextOf(p, n), 0) /\ Part(TextOf(p, n), TextOf(p, Len(p)), 0)
  BY <1>1, <1>3, TextOfGrows
<1> DEFINE a == TextOf(p, n - 1)
           b == TextOf(p, n)
           c == FlattenSeq(p)
<1>6. 0 + Len(a) <= Len(b) /\ 0 + Len(b) <= Len(c)
  BY <1>4, <1>5 DEF Part
<1>7. Len(a) \in Nat /\ Len(b) \in Nat /\ Len(c) \in Nat /\ Len(done) \in Nat /\ Len(done \o c) = Len(done) + Len(c)
  <2>1. a \in Seq(Characters) /\ b \in Seq(Characters) /\ c \in Seq(Characters)
    BY <1>4
  <2> HIDE DEF a, b, c
  <2>2. QED
    BY <2>1, PartOfConcat, LenProperties DEF Text
<1>8. e.from = Len(done) + Len(a) /\ e.to = Len(done) + Len(b)
  BY <1>2
<1> HIDE DEF a, b, c
<1>9. e.from \in Nat /\ e.to \in e.from .. Len(done \o c)
  BY <1>6, <1>7, <1>8
<1>10. QED
  BY <1>9 DEF c

\* What is held in the place of an event is the event.
LEMMA PlaceHolds ==
  ASSUME NEW p \in Seq(Events), NEW done \in Text, NEW n \in 1..Len(p)
  PROVE  SubSeq(done \o FlattenSeq(p), Len(done) + Len(TextOf(p, n - 1)) + 1, Len(done) + Len(TextOf(p, n))) = p[n]
<1>1. p \in Seq(Seq(Characters)) /\ Len(p) \in Nat /\ p[n] \in Seq(Characters)
  BY EventsAreTexts DEF Text
<1>2. n - 1 \in 0..Len(p) /\ n \in 0..Len(p) /\ Len(p) \in n..Len(p) /\ Len(p) \in 0..Len(p)
  BY <1>1
<1> DEFINE a == TextOf(p, n - 1)
           b == TextOf(p, n)
           c == FlattenSeq(p)
           u == done \o c
           f == Len(done) + Len(a)
           t == Len(done) + Len(b)
           v == SubSeq(u, f + 1, t)
           w == p[n]
<1>3. a \in Seq(Characters) /\ b \in Seq(Characters) /\ c \in Seq(Characters) /\ c = TextOf(p, Len(p))
  BY <1>1, <1>2, TextOfSteps
<1>4. b = a \o w
  BY <1>1, TextOfSteps
<1>5. Part(b, c, 0)
  BY <1>1, <1>2, <1>3, TextOfGrows
<1>6. w \in Seq(Characters)
  BY <1>1
<1> HIDE DEF a, b, c, w
<1>7. Part(w, b, Len(a)) /\ Len(b) = Len(a) + Len(w) /\ Len(a) \in Nat /\ Len(w) \in Nat
  BY <1>3, <1>4, <1>6, PartOfConcat
<1>8. /\ Part(c, u, Len(done)) /\ u \in Seq(Characters) /\ Len(done) \in Nat /\ Len(c) \in Nat
      /\ Len(u) = Len(done) + Len(c)
  BY <1>3, PartOfConcat DEF Text
<1> HIDE DEF u
<1>9. Part(b, u, Len(done) + 0)
  BY <1>3, <1>5, <1>8, PartOfPart
<1>10. Part(b, u, Len(done))
  BY <1>8, <1>9
<1>11. Part(w, u, Len(done) + Len(a))
  BY <1>3, <1>6, <1>7, <1>8, <1>10, PartOfPart
<1>12. f \in Nat /\ t \in Nat /\ f <= t /\ t <= Len(u) /\ t - f = Len(w)
  <2>1. 0 + Len(b) <= Len(c)
    BY <1>5 DEF Part
  <2>2. QED
    BY <1>7, <1>8, <2>1
<1>13. Part(w, u, f)
  BY <1>11
<1> HIDE DEF f, t
<1>14. v \in Seq(Characters) /\ Len(v) = Len(w) /\ Part(v, u, f)
  BY <1>8, <1>12, SliceIsPart
<1> HIDE DEF v
<1>15. v = w
  BY <1>6, <1>12, <1>13, <1>14, SamePart
<1>16. QED
  BY <1>15 DEF v, w, u, f, t, a, b, c

LEMMA FlattenNothing == FlattenSeq(<<>>) = <<>>
<1>1. <<>> \in Seq(Seq(Characters))
  OBVIOUS
<1>2. FlattenSeq(<<>>) = TextOf(<<>>, Len(<<>>)) /\ TextOf(<<>>, 0) = <<>>
  BY <1>1, TextOfSteps
<1>3. Len(<<>>) = 0
  OBVIOUS
<1>4. QED
  BY <1>2, <1>3

LEMMA TextsTogether ==
  ASSUME NEW a \in Text, NEW b \in Text, NEW c \in Text
  PROVE  a \o (b \o c) = (a \o b) \o c
  BY ConcatAssociative DEF Text

\* A flush stops the response or passes on what is settled.
LEMMA FlushDoes ==
  ASSUME NEW events, NEW count, NEW outcome, Flush(events, count, outcome)
  PROVE  LET text == TextOf(events, Len(events))
             sent == TextOf(events, count)
             settled == Settled(Matches(text), Len(sent))
             clean == Redact(SubSeq(text, 1, Len(sent)), settled)
         IN  \/ status' = "failed" /\ emitted' = emitted /\ pending' = events
             \/ /\ WithAction(Matches(text), "block") = {}
                /\ findings' = findings \o Reported(settled, Len(arrived') - Len(text))
                /\ Restorable(clean)
                /\ emitted' = emitted \o Restore(clean)
                /\ pending' = SubSeq(events, count + 1, Len(events)) /\ status' = outcome
  BY DEF Flush, Fail

LEMMA FlushHandles ==
  ASSUME NEW done \in Text, NEW events \in Seq(Events), NEW count \in 0..Len(events), NEW outcome,
         Len(events) <= MaxPendingStreamEvents,
         arrived' = done \o FlattenSeq(events), emitted = Safe(done), StopsAt(done) = {},
         Gap(done, FlattenSeq(events)), ~OpenEnd(done), Accounted(findings, done),
         Ordinary', PlacesOf(events, Len(done)) \subseteq places', Ended(done)',
         Cut(done, events, count, outcome), Flush(events, count, outcome)
  PROVE  \E new \in Text, left \in Text : Handled(new, left)'
<1> DEFINE sent == TextOf(events, count)
           rest == SubSeq(events, count + 1, Len(events))
           held == FlattenSeq(rest)
           text == FlattenSeq(events)
<1>1. Regular(arrived') /\ \A e \in places' : Straddled(arrived', e.to) => InCredential(arrived', e.to)
  BY DEF Ordinary, EvenlyCut, Regular
<1>2. events \in Seq(Seq(Characters)) /\ Len(events) \in Nat
  BY EventsAreTexts
<1>3. sent \in Text /\ held \in Text /\ text = sent \o held /\ text \in Text /\ text = TextOf(events, Len(events))
  <2>1. sent \in Text /\ held \in Text /\ text = sent \o held
    BY <1>2, FlattenRest DEF Text
  <2>2. text = TextOf(events, Len(events))
    BY <1>2, TextOfSteps
  <2> HIDE DEF sent, held, text
  <2>3. text \in Text
    BY <2>1, PartOfConcat DEF Text
  <2>4. QED
    BY <2>1, <2>2, <2>3
<1>4. rest \in Seq(Events) /\ Len(rest) <= MaxPendingStreamEvents
  <2>1. 0 <= count /\ count \in Nat /\ count <= Len(events) /\ Len(events) <= Len(events)
    BY <1>2
  <2>2. rest \in Seq(Events) /\ Len(rest) = Len(events) - count
    BY <1>2, <2>1, Slice
  <2> HIDE DEF rest
  <2>3. QED
    BY <1>2, <2>1, <2>2, StreamLimitAssumption
<1>5. outcome = "closed" => rest = <<>> /\ held = <<>>
  <2> SUFFICES ASSUME outcome = "closed" PROVE rest = <<>> /\ held = <<>>
    OBVIOUS
  <2>1. count = Len(events)
    BY DEF Cut
  <2>2. rest = <<>>
    <3>1. SubSeq(events, Len(events) + 1, Len(events)) \in Seq(Events) /\ Len(SubSeq(events, Len(events) + 1, Len(events))) = Len(events) - Len(events)
      BY <1>2, Slice
    <3>2. rest \in Seq(Events) /\ Len(rest) = 0
      BY <1>2, <2>1, <3>1
    <3> HIDE DEF rest
    <3>3. QED
      BY <3>2, EmptySeq
  <2>3. QED
    BY <2>2, FlattenNothing
<1>6. events = SubSeq(events, 1, count) \o rest /\ SubSeq(events, 1, count) \in Seq(Events)
  <2>1. 0 \in Nat /\ count \in Nat /\ 0 <= count /\ count <= Len(events) /\ Len(events) <= Len(events)
    BY <1>2
  <2> DEFINE p == SubSeq(events, 0 + 1, count)
             q == SubSeq(events, count + 1, Len(events))
  <2>2. p \in Seq(Events) /\ Len(p) = count - 0 /\ Part(p, events, 0)
    BY <1>2, <2>1, SliceIsPart
  <2>3. q \in Seq(Events) /\ Len(q) = Len(events) - count /\ Part(q, events, count)
    BY <1>2, <2>1, SliceIsPart
  <2> HIDE DEF p, q
  <2>4. Len(events) = Len(p) + Len(q) /\ Part(q, events, Len(p))
    BY <1>2, <2>1, <2>2, <2>3
  <2>5. events = p \o q
    BY <2>2, <2>3, <2>4, ConcatOfParts
  <2>6. 0 + 1 = 1
    OBVIOUS
  <2>7. QED
    BY <2>2, <2>5, <2>6 DEF p, q
<1>7. sent = FlattenSeq(SubSeq(events, 1, count))
  BY DEF TextOf
<1>8. PlacesOf(rest, Len(done) + Len(sent)) \subseteq places'
  <2> DEFINE p == SubSeq(events, 1, count)
  <2>1. p \in Seq(Events) /\ rest \in Seq(Events) /\ events = p \o rest /\ sent = FlattenSeq(p)
    BY <1>4, <1>6, <1>7
  <2>2. Len(done) \in Nat
    BY LenProperties DEF Text
  <2> HIDE DEF p, rest, sent
  <2>3. PlacesOf(rest, Len(done) + Len(FlattenSeq(p))) \subseteq PlacesOf(p \o rest, Len(done))
    BY <2>1, <2>2, PlacesTogether
  <2>4. QED
    BY <2>1, <2>3
<1> HIDE DEF sent, held, rest, text
<1>9. done \o sent \in Text /\ Len(done \o sent) = Len(done) + Len(sent)
  BY <1>3, PartOfConcat DEF Text
<1>10. Ended(done \o sent)'
  <2>1. CASE sent = <<>>
    BY <2>1, ConcatEmptySeq DEF Text
  <2>2. CASE sent # <<>>
    <3>1. Len(done) \in Nat
      BY LenProperties DEF Text
    <3>2. PICK e \in PlacesOf(events, Len(done)) : e.to = Len(done) + Len(sent)
      BY <2>2, <3>1, LastPlace DEF sent
    <3>3. QED
      BY <1>9, <3>2 DEF Ended
  <2>3. QED
    BY <2>1, <2>2
<1>11. Gap(sent, held) /\ Gap(done, sent \o held)
  BY <1>3, <1>5 DEF Cut, Gap, sent, held, rest, text
<1>12. Gap(done \o sent, held)
  BY <1>3, <1>11, GapParts
<1>13. arrived' = done \o (sent \o held) /\ arrived' = (done \o sent) \o held
  <2>1. arrived' = done \o text
    BY DEF text
  <2>2. done \o (sent \o held) = (done \o sent) \o held
    BY <1>3, TextsTogether
  <2>3. QED
    BY <1>3, <2>1, <2>2
<1>14. Joint(done, sent \o held)
  <2>1. Regular(done \o (sent \o held))
    BY <1>1, <1>13
  <2>2. done = <<>> \/ (Straddled(done \o (sent \o held), Len(done)) => InCredential(done \o (sent \o held), Len(done)))
    BY <1>1, <1>13 DEF Ended
  <2>3. sent \o held \in Text
    BY <1>3
  <2>4. QED
    BY <1>11, <2>1, <2>2, <2>3, GapIsJoint
<1>15. Joint(done \o sent, held)
  <2> DEFINE new == done \o sent
  <2>1. new \in Text /\ Gap(new, held) /\ Ended(new)' /\ arrived' = new \o held
    BY <1>9, <1>10, <1>12, <1>13
  <2> HIDE DEF new
  <2>2. Regular(new \o held)
    BY <1>1, <2>1
  <2>3. new = <<>> \/ (Straddled(new \o held, Len(new)) => InCredential(new \o held, Len(new)))
    BY <1>1, <2>1 DEF Ended
  <2>4. Joint(new, held)
    BY <1>3, <2>1, <2>2, <2>3, GapIsJoint
  <2>5. QED
    BY <2>4 DEF new
<1>16. Joint(sent, held) /\ Joint(done, sent) /\ WordsStandFree(sent)
  BY <1>3, <1>14, <1>15, JointParts DEF Regular
<1>17. Len(done) \in Nat /\ Len(text) \in Nat /\ Len(arrived') - Len(text) = Len(done)
  <2>1. Len(done \o text) = Len(done) + Len(text) /\ Len(done) \in Nat /\ Len(text) \in Nat
    BY <1>3, PartOfConcat DEF Text
  <2>2. QED
    BY <2>1 DEF text
<1>18. /\ Settled(Matches(text), Len(sent)) = Whole(sent)
       /\ Redact(SubSeq(text, 1, Len(sent)), Whole(sent)) = Masked(sent)
       /\ WithAction(Matches(text), "block") = {} => \A m \in Whole(sent) : m.rule.action # "block"
  BY <1>3, <1>16, SettledIs
<1>19. \/ status' = "failed" /\ emitted' = emitted /\ pending' = events
       \/ /\ \A m \in Whole(sent) : m.rule.action # "block"
          /\ findings' = findings \o Reported(Whole(sent), Len(done))
          /\ Restorable(Masked(sent))
          /\ emitted' = emitted \o Restore(Masked(sent))
          /\ pending' = rest /\ status' = outcome
  <2>1. text = TextOf(events, Len(events)) /\ sent = TextOf(events, count) /\ Len(arrived') - Len(text) = Len(done)
    BY <1>3, <1>17 DEF sent
  <2>2. rest = SubSeq(events, count + 1, Len(events))
    BY DEF rest
  <2> DEFINE t == TextOf(events, Len(events))
             g == TextOf(events, count)
             settled == Settled(Matches(t), Len(g))
             clean == Redact(SubSeq(t, 1, Len(g)), settled)
  <2>3. \/ status' = "failed" /\ emitted' = emitted /\ pending' = events
        \/ /\ WithAction(Matches(t), "block") = {}
           /\ findings' = findings \o Reported(settled, Len(arrived') - Len(t))
           /\ Restorable(clean)
           /\ emitted' = emitted \o Restore(clean)
           /\ pending' = SubSeq(events, count + 1, Len(events)) /\ status' = outcome
    BY FlushDoes
  <2>4. t = text /\ g = sent
    BY <2>1
  <2> HIDE DEF t, g
  <2>5. settled = Whole(sent) /\ clean = Masked(sent)
    <3>1. settled = Whole(sent)
      BY <1>18, <2>4
    <3> HIDE DEF settled
    <3>2. clean = Masked(sent)
      BY <1>18, <2>4, <3>1
    <3>3. QED
      BY <3>1, <3>2
  <2>6. WithAction(Matches(t), "block") = {} => \A m \in Whole(sent) : m.rule.action # "block"
    BY <1>18, <2>4
  <2>7. Len(arrived') - Len(t) = Len(done)
    BY <2>1, <2>4
  <2> HIDE DEF settled, clean
  <2>8. \/ status' = "failed" /\ emitted' = emitted /\ pending' = events
        \/ /\ \A m \in Whole(sent) : m.rule.action # "block"
           /\ findings' = findings \o Reported(Whole(sent), Len(done))
           /\ Restorable(Masked(sent))
           /\ emitted' = emitted \o Restore(Masked(sent))
           /\ pending' = SubSeq(events, count + 1, Len(events)) /\ status' = outcome
    BY <2>3, <2>5, <2>6, <2>7
  <2>9. QED
    BY <2>2, <2>8
<1>20. CASE status' = "failed" /\ emitted' = emitted /\ pending' = events
  <2>1. Handled(done, text)'
    BY <1>20 DEF Handled, text
  <2>2. QED
    BY <1>3, <2>1
<1>21. CASE /\ \A m \in Whole(sent) : m.rule.action # "block"
            /\ findings' = findings \o Reported(Whole(sent), Len(done))
            /\ Restorable(Masked(sent))
            /\ emitted' = emitted \o Restore(Masked(sent))
            /\ pending' = rest /\ status' = outcome
  <2> DEFINE new == done \o sent
  <2>1. new \in Text /\ arrived' = new \o held
    <3>1. new \in Text
      BY <1>3, PartOfConcat DEF Text
    <3>2. done \o (sent \o held) = (done \o sent) \o held
      BY <1>3, TextsTogether
    <3>3. arrived' = done \o text
      BY DEF text
    <3>4. QED
      BY <1>3, <3>1, <3>2, <3>3
  <2>2. emitted' = Safe(new) /\ StopsAt(new) = {}
    BY <1>3, <1>16, <1>21, EmissionIs
  <2>3. Accounted(findings', new)
    BY <1>3, <1>16, <1>21, FindingsGrow
  <2>4. Gap(new, held) /\ Ended(new)' /\ PlacesOf(rest, Len(new)) \subseteq places'
    BY <1>8, <1>9, <1>10, <1>12
  <2>5. outcome = "open" => ~OpenEnd(new) /\ (new = <<>> \/ held # <<>>)
    <3> SUFFICES ASSUME outcome = "open" PROVE ~OpenEnd(new) /\ (new = <<>> \/ held # <<>>)
      OBVIOUS
    <3>1. /\ ~OpenEnd(sent) /\ (sent = <<>> \/ held # <<>>)
          /\ done = <<>> \/ text # <<>>
      BY DEF Cut, sent, held, rest, text
    <3>2. ~OpenEnd(new)
      BY <1>3, <3>1, OpenEndJoint
    <3>3. sent = <<>> => new = done /\ text = held
      BY <1>3, ConcatEmptySeq DEF Text
    <3>4. QED
      BY <3>1, <3>2, <3>3
  <2> HIDE DEF new
  <2>6. outcome \in {"open", "closed"}
    BY DEF Cut
  <2>7. held = FlattenSeq(rest)
    BY DEF held
  <2>8. Handled(new, held)'
    BY <1>4, <1>5, <1>21, <2>1, <2>2, <2>3, <2>4, <2>5, <2>6, <2>7 DEF Handled
  <2>9. QED
    BY <1>3, <2>1, <2>8
<1>22. QED
  BY <1>19, <1>20, <1>21

LEMMA NoPlaces == \A offset : PlacesOf(<<>>, offset) = {}
<1>1. DOMAIN <<>> = {}
  OBVIOUS
<1>2. QED
  BY <1>1, PlacesAre

LEMMA StreamInvInit == StreamInit => StreamInv
<1> SUFFICES ASSUME StreamInit PROVE StreamInv
  OBVIOUS
<1>1. <<>> \in Text /\ <<>> \o <<>> = <<>> /\ Len(<<>>) = 0 /\ <<>> \in Seq(Events) /\ <<>> \in Seq(Located)
  BY ConcatEmptySeq DEF Text
<1>2. Safe(<<>>) = <<>>
  <2>1. Len(<<>>) = 0 /\ <<>> \in Seq(Characters)
    OBVIOUS
  <2>2. /\ Pieces(<<>>, Spans(<<>>)) \in Seq(Seq(Characters))
        /\ Safe(<<>>) = TextOf(Pieces(<<>>, Spans(<<>>)), Len(<<>>))
    <3>1. \A i \in 1..Len(<<>>) : Piece(<<>>, Spans(<<>>), i) \in Seq(Characters)
      BY <1>1, SafeIs DEF Text
    <3>2. QED
      BY <2>1, <3>1, RewriteIs DEF Safe
  <2>3. TextOf(Pieces(<<>>, Spans(<<>>)), 0) = <<>>
    BY <2>2, TextOfSteps
  <2>4. QED
    BY <2>1, <2>2, <2>3
<1>3. Whole(<<>>) = {} /\ StopsAt(<<>>) = {}
  <2>1. 1..Len(<<>>) = {}
    BY <1>1
  <2>2. \A m \in Whole(<<>>) : m.first \in 1..Len(<<>>)
    BY <1>1, WholeIs
  <2>3. StopsAt(<<>>) \subseteq 1..Len(<<>>)
    BY <1>1, StopsAtIs
  <2>4. QED
    BY <2>1, <2>2, <2>3
<1>4. Accounted(<<>>, <<>>)
  <2>1. Cardinality({}) = 0
    BY FS_EmptySet
  <2>2. ToSet(<<>>) = {}
    BY DEF ToSet
  <2>3. QED
    BY <1>1, <1>3, <2>1, <2>2 DEF Accounted
<1>5. ~OpenEnd(<<>>)
  <2>1. \A i \in Nat : ~(i < Len(<<>>))
    BY <1>1
  <2>2. QED
    BY <2>1 DEF OpenEnd
<1>6. Handled(<<>>, <<>>)
  BY <1>1, <1>2, <1>3, <1>4, <1>5, FlattenNothing, StreamLimitAssumption, NoPlaces DEF Handled, StreamInit, Gap, Ended
<1>7. PlacesIn
  BY DEF StreamInit, PlacesIn
<1>8. QED
  BY <1>1, <1>6, <1>7 DEF StreamInv, StreamInit

LEMMA EventLists == BoundedSeq(Events, MaxBatch) \subseteq Seq(Events)
<1> SUFFICES ASSUME NEW events \in BoundedSeq(Events, MaxBatch) PROVE events \in Seq(Events)
  OBVIOUS
<1>1. PICK n \in 0..MaxBatch : events \in [1..n -> Events]
  BY DEF BoundedSeq, SeqOf
<1>2. n \in Nat /\ events = [i \in 1..n |-> events[i]] /\ \A i \in 1..n : events[i] \in Events
  BY <1>1
<1>3. QED
  BY <1>2, IsSeq

\* What has arrived of an ordinary response is ordinary.
LEMMA OrdinaryBefore ==
  ASSUME arrived \in Text, PlacesIn, NEW more \in Text, arrived' = arrived \o more,
         places \subseteq places', Ordinary'
  PROVE  Ordinary
<1> DEFINE s == arrived
           u == arrived'
           n == Len(s)
<1>1. /\ n \in Nat /\ Len(more) \in Nat /\ s \in Text /\ u \in Text /\ Len(u) = n + Len(more)
      /\ s = SubSeq(u, 0 + 1, n) /\ \A i \in 1..n : u[i] = s[i]
  BY PartOfConcat, ConcatIs DEF Text
<1>2. Regular(u) /\ \A e \in places' :
        /\ Straddled(u, e.to) => InCredential(u, e.to)
        /\ Marker[1] \in ToSet(SubSeq(u, e.from + 1, e.to)) => ~InCredential(u, e.from)
  BY DEF Ordinary, EvenlyCut, Regular
<1>3. \A e \in places : e \in places' /\ e.from \in Nat /\ e.to \in e.from .. n
  BY DEF PlacesIn
<1> HIDE DEF s, u
<1>4. Regular(s) /\ \A k \in Nat : Straddled(s, k) => Straddled(u, 0 + k)
  <2>1. 0 \in Nat /\ 0 <= n /\ n <= Len(u)
    BY <1>1
  <2> DEFINE t == SubSeq(u, 0 + 1, n)
  <2>2. (Regular(u) => Regular(t)) /\ \A k \in Nat : Straddled(t, k) => Straddled(u, 0 + k)
    BY <1>1, <2>1, RegularSlice
  <2>3. t = s
    BY <1>1
  <2> HIDE DEF t
  <2>4. QED
    BY <1>2, <2>2, <2>3
<1>5. ASSUME NEW c \in Nat, c < n PROVE InCredential(u, c) <=> InCredential(s, c)
  <2>1. c \in 1..Len(u) - 1 <=> c \in 1..n - 1
    BY <1>1, <1>5
  <2>2. c \in 1..n - 1 => u[c] = s[c] /\ u[c + 1] = s[c + 1]
    BY <1>1
  <2>3. QED
    BY <2>1, <2>2 DEF InCredential, n
<1>6. ASSUME NEW e \in places, Straddled(s, e.to) PROVE InCredential(s, e.to)
  <2> DEFINE c == e.to
  <2>1. c \in Nat
    BY <1>3
  <2> HIDE DEF c
  <2>2. Straddled(s, c) /\ Straddled(u, 0 + c) /\ 0 + c = c
    BY <1>4, <1>6, <2>1 DEF c
  <2>3. InCredential(u, c)
    BY <1>2, <1>3, <2>2 DEF c
  <2>4. PICK m \in Scan(s) : c < m.last
    BY <2>2 DEF Straddled
  <2>5. m.last <= n /\ m.last \in Nat
    BY <1>1, ScanIs, LocatedIs
  <2>6. c < n
    BY <1>1, <2>1, <2>4, <2>5
  <2>7. QED
    BY <1>5, <2>1, <2>3, <2>6 DEF c
<1>7. ASSUME NEW e \in places, Marker[1] \in ToSet(SubSeq(s, e.from + 1, e.to)) PROVE ~InCredential(s, e.from)
  <2> DEFINE a == e.from
             b == e.to
  <2>1. a \in Nat /\ b \in Nat /\ a <= b /\ b <= n
    BY <1>1, <1>3
  <2> HIDE DEF a, b
  <2>2. SubSeq(u, a + 1, b) = SubSeq(s, a + 1, b)
    <3>1. b <= Len(u)
      BY <1>1, <2>1
    <3>2. /\ SubSeq(u, a + 1, b) \in Seq(Characters) /\ Len(SubSeq(u, a + 1, b)) = b - a
          /\ \A i \in 1..(b - a) : SubSeq(u, a + 1, b)[i] = u[a + i]
      BY <1>1, <2>1, <3>1, Slice DEF Text
    <3>3. /\ SubSeq(s, a + 1, b) \in Seq(Characters) /\ Len(SubSeq(s, a + 1, b)) = b - a
          /\ \A i \in 1..(b - a) : SubSeq(s, a + 1, b)[i] = s[a + i]
      BY <1>1, <2>1, Slice DEF Text, n
    <3>4. \A i \in 1..(b - a) : a + i \in 1..n
      BY <1>1, <2>1
    <3>5. \A i \in 1..(b - a) : SubSeq(u, a + 1, b)[i] = SubSeq(s, a + 1, b)[i]
      BY <1>1, <3>2, <3>3, <3>4
    <3>6. QED
      BY <3>2, <3>3, <3>5, SeqEqual
  <2>3. ~InCredential(u, a)
    BY <1>2, <1>3, <1>7, <2>2 DEF a, b
  <2>4. CASE a < n
    BY <1>5, <2>1, <2>3, <2>4 DEF a
  <2>5. CASE ~(a < n)
    <3>1. a \notin 1..n - 1
      BY <1>1, <2>1, <2>5
    <3>2. QED
      BY <3>1 DEF InCredential, n, a
  <2>6. QED
    BY <2>4, <2>5
<1>8. QED
  BY <1>4, <1>6, <1>7 DEF Ordinary, EvenlyCut, Regular, s

\* In an ordinary response the events that begin placeholders do not start in
\* credentials.
LEMMA OrdinaryIsCalm ==
  ASSUME NEW done \in Text, NEW p \in Seq(Events), arrived' = done \o FlattenSeq(p),
         PlacesOf(p, Len(done)) \subseteq places', Ordinary'
  PROVE  Calm(p)
<1> DEFINE c == FlattenSeq(p)
           u == done \o c
           d == Len(done)
<1> SUFFICES ASSUME NEW n \in 1..Len(p), Marker[1] \in ToSet(p[n])
             PROVE  SafeCredentialBoundary(c, Len(TextOf(p, n - 1)))
  BY DEF Calm
<1> DEFINE a == TextOf(p, n - 1)
           o == Len(a)
           e == [from |-> d + o, to |-> d + Len(TextOf(p, n))]
<1>1. p \in Seq(Seq(Characters)) /\ Len(p) \in Nat /\ DOMAIN p = 1..Len(p)
  BY EventsAreTexts, LenProperties
<1>2. n - 1 \in 0..Len(p) /\ Len(p) \in 0..Len(p) /\ Len(p) \in (n - 1)..Len(p)
  BY <1>1
<1>3. a \in Seq(Characters) /\ c \in Seq(Characters) /\ Part(a, c, 0)
  <2>1. c = TextOf(p, Len(p))
    BY <1>1, TextOfSteps
  <2>2. QED
    BY <1>1, <1>2, <2>1, TextOfSteps, TextOfGrows
<1>4. p[n] # <<>>
  <2>1. ToSet(<<>>) = {}
    BY DEF ToSet
  <2>2. QED
    BY <2>1
<1>5. e \in places'
  <2>1. e \in PlacesOf(p, d)
    BY <1>1, <1>4, PlacesAre
  <2>2. QED
    BY <2>1
<1>6. SubSeq(u, e.from + 1, e.to) = p[n]
  BY PlaceHolds
<1>7. e.from = d + o
  OBVIOUS
<1> HIDE DEF e
<1>8. ~InCredential(u, e.from)
  BY <1>5, <1>6 DEF Ordinary, EvenlyCut
<1> HIDE DEF c, a
<1>9. /\ d \in Nat /\ Len(c) \in Nat /\ Len(u) = d + Len(c) /\ \A i \in 1..Len(c) : u[d + i] = c[i]
  BY <1>3, PartOfConcat, ConcatIs DEF Text
<1>10. o \in Nat /\ 0 + o <= Len(c)
  BY <1>3, LenProperties DEF Part
<1>11. ASSUME o = 0 \/ o = Len(c) PROVE SafeCredentialBoundary(c, o)
  BY <1>11 DEF SafeCredentialBoundary
<1>12. ASSUME o # 0, o # Len(c) PROVE SafeCredentialBoundary(c, o)
  <2> HIDE DEF u, d, o
  <2>1. d + o \in 1..Len(u) - 1 /\ o \in 1..Len(c) /\ o + 1 \in 1..Len(c) /\ d + (o + 1) = (d + o) + 1
    BY <1>9, <1>10, <1>12
  <2>2. u[d + o] \notin CredentialBytes \/ u[(d + o) + 1] \notin CredentialBytes
    BY <1>7, <1>8, <2>1 DEF InCredential
  <2>3. u[d + o] = c[o] /\ u[(d + o) + 1] = c[o + 1]
    BY <1>9, <2>1
  <2>4. SafeCredentialBoundary(c, o)
    BY <2>2, <2>3 DEF SafeCredentialBoundary
  <2>5. QED
    BY <2>4 DEF o
<1>13. QED
  BY <1>11, <1>12 DEF c, a, o

\* Whatever arrives, its places lie in what arrived.
LEMMA PushPlaces ==
  ASSUME StreamInv, NEW new \in Seq(Events), Push(new)
  PROVE  arrived' \in Text /\ PlacesIn' /\ FlattenSeq(new) \in Text
<1> DEFINE more == FlattenSeq(new)
           s == arrived
<1>1. s \in Text /\ PlacesIn
  BY DEF StreamInv
<1>2. arrived' = s \o more /\ places' = places \cup PlacesOf(new, Len(s))
  BY DEF Push
<1>3. more \in Text
  <2>1. new \in Seq(Seq(Characters)) /\ Len(new) \in 0..Len(new)
    BY EventsAreTexts
  <2>2. more = TextOf(new, Len(new)) /\ TextOf(new, Len(new)) \in Seq(Characters)
    BY <2>1, TextOfSteps
  <2>3. QED
    BY <2>2 DEF Text
<1>4. s \o more \in Text /\ Len(s \o more) = Len(s) + Len(more) /\ Len(s) \in Nat /\ Len(more) \in Nat
  <2> HIDE DEF more, s
  <2>1. QED
    BY <1>1, <1>3, PartOfConcat DEF Text
<1>5. ASSUME NEW e \in places' PROVE e.from \in Nat /\ e.to \in e.from .. Len(arrived')
  <2>1. CASE e \in places
    <3>1. e.from \in Nat /\ e.to \in e.from .. Len(s)
      BY <1>1, <2>1 DEF PlacesIn
    <3> HIDE DEF s, more
    <3>2. e.to \in e.from .. Len(s \o more)
      BY <1>4, <3>1
    <3>3. QED
      BY <1>2, <3>1, <3>2
  <2>2. CASE e \in PlacesOf(new, Len(s))
    BY <1>1, <1>2, <2>2, PlacesWithin
  <2>3. QED
    BY <1>2, <1>5, <2>1, <2>2
<1>6. QED
  BY <1>2, <1>3, <1>4, <1>5 DEF PlacesIn

LEMMA PushHandles ==
  ASSUME StreamInv, NEW new \in Seq(Events), Push(new)
  PROVE  StreamInv'
<1> DEFINE more == FlattenSeq(new)
           events == pending \o new
<1>1. arrived' \in Text /\ PlacesIn' /\ more \in Text
  BY PushPlaces
<1>2. /\ status = "open" /\ arrived' = arrived \o more
      /\ places' = places \cup PlacesOf(new, Len(arrived))
      /\ IF Len(new) > MaxPendingStreamEvents - Len(pending)
         THEN Fail /\ UNCHANGED <<pending, findings>>
         ELSE Flush(events, EmitCount(events), "open")
  BY DEF Push
<1> SUFFICES ASSUME Ordinary' PROVE \E d \in Text, l \in Text : Handled(d, l)'
  BY <1>1 DEF StreamInv
<1>3. Ordinary
  BY <1>1, <1>2, OrdinaryBefore DEF StreamInv
<1>4. PICK done \in Text, left \in Text : Handled(done, left)
  BY <1>3 DEF StreamInv
<1> DEFINE both == left \o more
<1>5. /\ arrived = done \o left /\ emitted = Safe(done) /\ StopsAt(done) = {}
      /\ pending \in Seq(Events) /\ Len(pending) <= MaxPendingStreamEvents
      /\ Gap(done, left) /\ Ended(done) /\ ~OpenEnd(done) /\ (done = <<>> \/ left # <<>>)
      /\ PlacesOf(pending, Len(done)) \subseteq places
      /\ left = FlattenSeq(pending) /\ Accounted(findings, done)
  BY <1>2, <1>4 DEF Handled
<1>6. /\ new \in Seq(Seq(Characters)) /\ pending \in Seq(Seq(Characters))
      /\ Len(new) \in Nat /\ Len(pending) \in Nat
  BY <1>5, EventsAreTexts
<1>7. both \in Text /\ both = FlattenSeq(events)
  BY <1>1, <1>5, <1>6, FlattenConcat, PartOfConcat DEF Text
<1> HIDE DEF more
<1>8. arrived' = done \o both
  BY <1>1, <1>2, <1>5, ConcatAssociative DEF Text
<1>9. Gap(done, both)
  BY <1>1, <1>5, GapParts
<1>10. Ended(done)'
  BY <1>2, <1>5 DEF Ended
<1>11. PlacesOf(events, Len(done)) \subseteq places'
  <2>1. Len(arrived) = Len(done) + Len(left) /\ Len(done) \in Nat
    BY <1>5, PartOfConcat DEF Text
  <2>2. PlacesOf(events, Len(done)) \subseteq PlacesOf(pending, Len(done)) \cup PlacesOf(new, Len(done) + Len(left))
    BY <1>5, <2>1, PlacesTogether
  <2> HIDE DEF events
  <2>3. QED
    BY <1>2, <1>5, <2>1, <2>2
<1>12. done = <<>> \/ both # <<>>
  <2>1. CASE left # <<>>
    <3>1. Len(left) # 0 /\ Len(both) = Len(left) + Len(more) /\ Len(left) \in Nat /\ Len(more) \in Nat
      BY <1>1, <2>1, EmptySeq, PartOfConcat DEF Text
    <3> HIDE DEF both
    <3>2. Len(both) # 0
      BY <3>1
    <3>3. QED
      BY <3>2
  <2>2. QED
    BY <1>5, <2>1
<1>13. CASE Len(new) > MaxPendingStreamEvents - Len(pending)
  <2>1. status' = "failed" /\ emitted' = emitted /\ pending' = pending
    BY <1>2, <1>13 DEF Fail
  <2> HIDE DEF both
  <2>2. Handled(done, both)'
    BY <1>5, <1>8, <1>9, <1>10, <2>1 DEF Handled
  <2>3. QED
    BY <1>7, <2>2
<1>14. CASE ~(Len(new) > MaxPendingStreamEvents - Len(pending))
  <2>1. Flush(events, EmitCount(events), "open")
    BY <1>2, <1>14
  <2>2. events \in Seq(Events) /\ Len(events) <= MaxPendingStreamEvents
    <3>1. events \in Seq(Events) /\ Len(events) = Len(pending) + Len(new)
      BY <1>5, PartOfConcat
    <3> HIDE DEF events
    <3>2. QED
      BY <1>6, <1>14, <3>1, StreamLimitAssumption
  <2> HIDE DEF events, both
  <2>3. Calm(events)
    BY <1>7, <1>8, <1>11, <2>2, OrdinaryIsCalm
  <2>4. EmitCount(events) \in 0..Len(events)
    BY <2>2, <2>3, EmitCountIs
  <2>5. Cut(done, events, EmitCount(events), "open")
    BY <1>7, <1>12, <2>2, <2>3, EmitCountIs DEF Cut
  <2>6. QED
    BY <1>5, <1>7, <1>8, <1>9, <1>10, <1>11, <2>1, <2>2, <2>4, <2>5, FlushHandles
<1>15. QED
  BY <1>13, <1>14

LEMMA CloseHandles ==
  ASSUME StreamInv, CloseStream
  PROVE  StreamInv'
<1>1. status = "open" /\ arrived' = arrived /\ places' = places /\ Flush(pending, Len(pending), "closed")
  BY DEF CloseStream
<1>2. arrived \in Text /\ PlacesIn
  BY DEF StreamInv
<1>3. arrived' \in Text
  BY <1>1, <1>2
<1>4. PlacesIn'
  BY <1>1, <1>2 DEF PlacesIn
<1> SUFFICES ASSUME Ordinary' PROVE \E d \in Text, l \in Text : Handled(d, l)'
  BY <1>3, <1>4 DEF StreamInv
<1>5. Ordinary
  BY <1>1 DEF Ordinary, EvenlyCut
<1>6. PICK done \in Text, left \in Text : Handled(done, left)
  BY <1>5 DEF StreamInv
<1>7. /\ arrived = done \o left /\ emitted = Safe(done) /\ StopsAt(done) = {}
      /\ pending \in Seq(Events) /\ Len(pending) <= MaxPendingStreamEvents
      /\ Gap(done, left) /\ Ended(done) /\ ~OpenEnd(done)
      /\ PlacesOf(pending, Len(done)) \subseteq places
      /\ left = FlattenSeq(pending) /\ Accounted(findings, done)
  BY <1>1, <1>6 DEF Handled
<1>8. Len(pending) \in 0..Len(pending)
  BY <1>7, LenProperties
<1>9. Cut(done, pending, Len(pending), "closed")
  BY DEF Cut
<1>10. arrived' = done \o FlattenSeq(pending) /\ Gap(done, FlattenSeq(pending))
  BY <1>1, <1>7
<1>11. Ended(done)' /\ PlacesOf(pending, Len(done)) \subseteq places'
  BY <1>1, <1>7 DEF Ended
<1>12. QED
  BY <1>1, <1>7, <1>8, <1>9, <1>10, <1>11, FlushHandles

LEMMA AbortHandles ==
  ASSUME StreamInv, Abort
  PROVE  StreamInv'
<1>1. /\ arrived' = arrived /\ places' = places /\ pending' = pending /\ findings' = findings
      /\ status = "open" /\ status' = "failed" /\ emitted' = emitted
  BY DEF Abort, Fail
<1>2. arrived' \in Text /\ PlacesIn'
  BY <1>1 DEF StreamInv, PlacesIn
<1> SUFFICES ASSUME Ordinary' PROVE \E d \in Text, l \in Text : Handled(d, l)'
  BY <1>2 DEF StreamInv
<1>3. Ordinary
  BY <1>1 DEF Ordinary, EvenlyCut
<1>4. PICK done \in Text, left \in Text : Handled(done, left)
  BY <1>3 DEF StreamInv
<1>5. Handled(done, left)'
  BY <1>1, <1>4 DEF Handled, Ended
<1>6. QED
  BY <1>5

\* However a response is cut into events and chunks, what has arrived of an
\* ordinary one is what was dealt with followed by what is pending, the two meet
\* where nothing is cut, and emissions and findings are those of the first: the
\* inductive invariant.
THEOREM StreamInvHolds == StreamSpec => []StreamInv
<1>1. ASSUME StreamInv, [StreamNext]_streamVars
      PROVE  StreamInv'
  <2>1. ASSUME NEW events \in BoundedSeq(Events, MaxBatch), Push(events) PROVE StreamInv'
    <3>1. events \in Seq(Events)
      BY EventLists
    <3>2. QED
      BY <1>1, <2>1, <3>1, PushHandles
  <2>2. CASE CloseStream
    BY <1>1, <2>2, CloseHandles
  <2>3. CASE Abort
    BY <1>1, <2>3, AbortHandles
  <2>4. CASE UNCHANGED streamVars
    BY <1>1, <2>4 DEF StreamInv, Handled, PlacesIn, Ended, Ordinary, EvenlyCut, streamVars
  <2>5. QED
    BY <1>1, <2>1, <2>2, <2>3, <2>4 DEF StreamNext
<1>2. QED
  BY <1>1, StreamInvInit, PTL DEF StreamSpec

LEMMA InvSanitised == StreamInv => EmittedTextIsSanitised
<1> SUFFICES ASSUME StreamInv, Ordinary PROVE IsPrefix(emitted, Sanitised(arrived))
  BY DEF EmittedTextIsSanitised
<1>1. PICK done \in Text, left \in Text : Handled(done, left)
  BY DEF StreamInv
<1>2. CASE status = "closed"
  <2>1. arrived = done /\ emitted = Sanitised(done)
    BY <1>1, <1>2, SanitisedWhole, ConcatEmptySeq DEF Handled, Text
  <2>2. Safe(done) \in Seq(Characters) /\ emitted = Safe(done)
    BY <1>1, SafeIs DEF Text, Handled
  <2> DEFINE e == emitted
  <2>3. e \in Seq(Characters)
    BY <2>2
  <2> HIDE DEF e
  <2>4. Part(e, e, 0)
    BY <2>3, LenProperties DEF Part
  <2>5. IsPrefix(e, e)
    BY <2>3, <2>4, IsPrefixIs
  <2>6. QED
    BY <2>1, <2>5 DEF e
<1>3. CASE status # "closed"
  <2>1. /\ arrived = done \o left /\ emitted = Safe(done) /\ StopsAt(done) = {}
        /\ Gap(done, left) /\ Ended(done) /\ ~OpenEnd(done)
    BY <1>1, <1>3 DEF Handled
  <2>2. Regular(done \o left)
    BY <2>1 DEF Ordinary, Regular
  <2>3. done = <<>> \/ (Straddled(done \o left, Len(done)) => InCredential(done \o left, Len(done)))
    BY <2>1 DEF Ended, Ordinary, EvenlyCut
  <2>4. Joint(done, left)
    BY <2>1, <2>2, <2>3, GapIsJoint
  <2>5. QED
    BY <2>1, <2>4, SanitisedPart
<1>4. QED
  BY <1>2, <1>3

LEMMA InvComplete == StreamInv => ClosedStreamsAreComplete /\ EveryFindingIsReportedOnce
<1> SUFFICES ASSUME StreamInv, Ordinary, status = "closed"
             PROVE  /\ StopsAt(arrived) = {} /\ emitted = Sanitised(arrived)
                    /\ ToSet(findings) = Whole(arrived)
                    /\ Len(findings) = Cardinality(Whole(arrived))
  BY DEF ClosedStreamsAreComplete, EveryFindingIsReportedOnce
<1>1. PICK done \in Text, left \in Text : Handled(done, left)
  BY DEF StreamInv
<1>2. arrived = done
  BY <1>1, ConcatEmptySeq DEF Handled, Text
<1>3. emitted = Sanitised(done) /\ StopsAt(done) = {}
  BY <1>1, SanitisedWhole DEF Handled
<1>4. Accounted(findings, done)
  BY <1>1 DEF Handled
<1>5. QED
  BY <1>2, <1>3, <1>4 DEF Accounted

\* The same for any texts: what is pending is the end of what arrived.
StreamTypeInv ==
  /\ status \in {"open", "closed", "failed"}
  /\ pending \in Seq(Events) /\ Len(pending) <= MaxPendingStreamEvents
  /\ status = "closed" => pending = <<>>
  /\ status # "failed" => \E done \in Text : arrived = done \o FlattenSeq(pending)

LEMMA FlushTypes ==
  ASSUME NEW done \in Text, NEW events \in Seq(Events), NEW count \in 0..Len(events), NEW outcome,
         Len(events) <= MaxPendingStreamEvents, arrived' = done \o FlattenSeq(events),
         outcome = "open" \/ (outcome = "closed" /\ count = Len(events)),
         Flush(events, count, outcome)
  PROVE  StreamTypeInv'
<1> DEFINE sent == TextOf(events, count)
           rest == SubSeq(events, count + 1, Len(events))
           held == FlattenSeq(rest)
<1>1. events \in Seq(Seq(Characters)) /\ Len(events) \in Nat
  BY EventsAreTexts
<1>2. sent \in Seq(Characters) /\ held \in Seq(Characters) /\ FlattenSeq(events) = sent \o held
  BY <1>1, FlattenRest
<1>3. rest \in Seq(Events) /\ Len(rest) = Len(events) - count
  <2>1. 0 <= count /\ count \in Nat /\ count <= Len(events) /\ Len(events) <= Len(events)
    BY <1>1
  <2>2. QED
    BY <1>1, <2>1, Slice
<1> HIDE DEF sent, rest, held
<1>4. Len(rest) <= MaxPendingStreamEvents
  BY <1>1, <1>3, StreamLimitAssumption
<1>5. count = Len(events) => rest = <<>>
  <2> SUFFICES ASSUME count = Len(events) PROVE rest = <<>>
    OBVIOUS
  <2>1. Len(rest) = 0
    BY <1>1, <1>3
  <2>2. QED
    BY <1>3, <2>1, EmptySeq
<1>6. done \o sent \in Text /\ arrived' = (done \o sent) \o held
  <2>1. done \in Seq(Characters)
    BY DEF Text
  <2>2. done \o sent \in Seq(Characters) /\ (done \o sent) \o held = done \o (sent \o held)
    BY <1>2, <2>1, PartOfConcat, ConcatAssociative
  <2>3. QED
    BY <1>2, <2>2 DEF Text
<1>7. \/ status' = "failed" /\ pending' = events
      \/ pending' = rest /\ status' = outcome
  BY DEF Flush, Fail, rest
<1>8. QED
  BY <1>3, <1>4, <1>5, <1>6, <1>7 DEF StreamTypeInv, held

\* However the responses of a provider come in, what is held back is the end of
\* what has arrived and within its limit.
THEOREM StreamTypesHold == StreamSpec => []StreamTypeOK
<1>1. StreamInit => StreamTypeInv
  <2>1. <<>> \in Text /\ <<>> \o <<>> = <<>> /\ Len(<<>>) = 0 /\ <<>> \in Seq(Events)
    BY ConcatEmptySeq DEF Text
  <2>2. QED
    BY <2>1, FlattenNothing, StreamLimitAssumption DEF StreamInit, StreamTypeInv
<1>2. ASSUME StreamTypeInv, [StreamNext]_streamVars
      PROVE  StreamTypeInv'
  <2>1. ASSUME NEW new \in BoundedSeq(Events, MaxBatch), Push(new) PROVE StreamTypeInv'
    <3> DEFINE events == pending \o new
    <3>1. /\ status = "open" /\ arrived' = arrived \o FlattenSeq(new)
          /\ IF Len(new) > MaxPendingStreamEvents - Len(pending)
             THEN Fail /\ UNCHANGED <<pending, findings>>
             ELSE Flush(events, EmitCount(events), "open")
      BY <2>1 DEF Push
    <3>2. pending \in Seq(Events) /\ Len(pending) \in Nat
      BY <1>2, LenProperties DEF StreamTypeInv
    <3>3. new \in Seq(Events) /\ Len(new) \in Nat
      <4>1. new \in Seq(Events)
        BY EventLists
      <4>2. QED
        BY <4>1, LenProperties
    <3>4. CASE Len(new) > MaxPendingStreamEvents - Len(pending)
      BY <1>2, <3>1, <3>4 DEF StreamTypeInv, Fail
    <3>5. CASE ~(Len(new) > MaxPendingStreamEvents - Len(pending))
      <4>1. PICK done \in Text : arrived = done \o FlattenSeq(pending)
        BY <1>2, <3>1 DEF StreamTypeInv
      <4>2. /\ pending \in Seq(Seq(Characters)) /\ new \in Seq(Seq(Characters))
        BY <3>2, <3>3, EventsAreTexts
      <4>3. /\ FlattenSeq(events) = FlattenSeq(pending) \o FlattenSeq(new)
            /\ FlattenSeq(pending) \in Seq(Characters) /\ FlattenSeq(new) \in Seq(Characters)
        <5>1. Len(pending) \in 0..Len(pending) /\ Len(new) \in 0..Len(new)
          BY <3>2, <3>3
        <5>2. FlattenSeq(pending) \in Seq(Characters) /\ FlattenSeq(new) \in Seq(Characters)
          BY <4>2, <5>1, TextOfSteps
        <5>3. QED
          BY <4>2, <5>2, FlattenConcat
      <4>4. arrived' = done \o FlattenSeq(events)
        <5>1. done \in Seq(Characters)
          BY DEF Text
        <5>2. QED
          BY <3>1, <4>1, <4>3, <5>1, ConcatAssociative
      <4>5. events \in Seq(Events) /\ Len(events) <= MaxPendingStreamEvents
        <5>1. events \in Seq(Events) /\ Len(events) = Len(pending) + Len(new)
          BY <3>2, <3>3, PartOfConcat
        <5> HIDE DEF events
        <5>2. QED
          BY <3>2, <3>3, <3>5, <5>1, StreamLimitAssumption
      <4> HIDE DEF events
      <4>6. EmitCount(events) \in 0..Len(events)
        <5>1. PICK whole, far : EmitFrom(events, EmitCount(events), whole, far)
          BY <4>5, EmitCountFrom
        <5>2. Len(events) \in Nat
          BY <4>5, LenProperties
        <5>3. QED
          BY <5>1, <5>2 DEF EmitFrom
      <4>7. QED
        BY <3>1, <3>5, <4>4, <4>5, <4>6, FlushTypes
    <3>6. QED
      BY <3>4, <3>5
  <2>2. CASE CloseStream
    <3>1. status = "open" /\ arrived' = arrived /\ Flush(pending, Len(pending), "closed")
      BY <2>2 DEF CloseStream
    <3>2. PICK done \in Text : arrived = done \o FlattenSeq(pending)
      BY <1>2, <3>1 DEF StreamTypeInv
    <3>3. pending \in Seq(Events) /\ Len(pending) <= MaxPendingStreamEvents /\ Len(pending) \in 0..Len(pending)
      BY <1>2, LenProperties DEF StreamTypeInv
    <3>4. QED
      BY <3>1, <3>2, <3>3, FlushTypes
  <2>3. CASE Abort
    BY <1>2, <2>3 DEF StreamTypeInv, Abort, Fail
  <2>4. CASE UNCHANGED streamVars
    BY <1>2, <2>4 DEF StreamTypeInv, streamVars
  <2>5. QED
    BY <1>2, <2>1, <2>2, <2>3, <2>4 DEF StreamNext
<1>3. StreamTypeInv => StreamTypeOK
  <2> SUFFICES ASSUME StreamTypeInv, status # "failed" PROVE IsSuffix(FlattenSeq(pending), arrived)
    BY DEF StreamTypeInv, StreamTypeOK
  <2> DEFINE left == FlattenSeq(pending)
  <2>1. PICK done \in Text : arrived = done \o left
    BY DEF StreamTypeInv
  <2>2. left \in Seq(Characters) /\ done \in Seq(Characters)
    <3>1. pending \in Seq(Seq(Characters)) /\ Len(pending) \in 0..Len(pending)
      BY EventsAreTexts DEF StreamTypeInv
    <3>2. QED
      BY <3>1, TextOfSteps DEF Text
  <2> HIDE DEF left
  <2> DEFINE u == done \o left
  <2>3. /\ u \in Seq(Characters) /\ Len(u) = Len(done) + Len(left) /\ Len(done) \in Nat /\ Len(left) \in Nat
        /\ Part(left, u, Len(done))
    BY <2>2, PartOfConcat
  <2> HIDE DEF u
  <2>4. Len(left) <= Len(u) /\ Len(u) - Len(left) = Len(done)
    BY <2>3
  <2>5. IsSuffix(left, u)
    BY <2>2, <2>3, <2>4, IsSuffixIs
  <2>6. QED
    BY <2>1, <2>5 DEF u, left
<1>4. QED
  BY <1>1, <1>2, <1>3, PTL DEF StreamSpec

\* However a response is cut up on its way, what reaches the agent is a part of
\* the response as it would be made safe in one piece.
THEOREM StreamIsSanitised == StreamSpec => []EmittedTextIsSanitised
<1>1. StreamInv => EmittedTextIsSanitised
  BY InvSanitised
<1>2. StreamSpec => []StreamInv
  BY StreamInvHolds
<1>3. QED
  BY <1>1, <1>2, PTL

\* A response that ends normally has been passed on in full.
THEOREM StreamIsComplete == StreamSpec => []ClosedStreamsAreComplete
<1>1. StreamInv => ClosedStreamsAreComplete
  BY InvComplete
<1>2. StreamSpec => []StreamInv
  BY StreamInvHolds
<1>3. QED
  BY <1>1, <1>2, PTL

\* Every detected value of a completed response is reported exactly once.
THEOREM StreamFindingsOnce == StreamSpec => []EveryFindingIsReportedOnce
<1>1. StreamInv => EveryFindingIsReportedOnce
  BY InvComplete
<1>2. StreamSpec => []StreamInv
  BY StreamInvHolds
<1>3. QED
  BY <1>1, <1>2, PTL

=============================================================================
