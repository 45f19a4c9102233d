--------------------------- MODULE StreamProcessor ---------------------------
(***************************************************************************)
(* pipeline.SSEProcessor: the response of a provider, received as events    *)
(* and passed on to the agent with secrets redacted and placeholders        *)
(* restored, while it is still arriving.                                    *)
(*                                                                         *)
(* Secrets and placeholders may be split over events, so the processor      *)
(* holds events back until enough text has followed and the boundary cuts   *)
(* neither a credential nor a placeholder.  What it emits is compared with  *)
(* what becomes of the whole text when it is treated in one piece, as a     *)
(* buffered response is (ProcessResponse).                                  *)
(*                                                                         *)
(* A text is a sequence of characters; an event is the text of its fields,  *)
(* and the empty text for an event without any ([DONE], a ping).            *)
(***************************************************************************)
EXTENDS Integers, Sequences, FiniteSets, SequencesExt

CONSTANTS
  Characters,        \* of texts
  Events,            \* bound: the texts of the events a provider sends
  Rules,             \* what the scanner detects, and what the policy says of it
  CredentialBytes,   \* credentialByte
  Marker, Closing,   \* "[[VEIL_" and "]]"
  Ids,               \* what can stand between them in a complete placeholder
  Vault,             \* the originals in the request's vault, by Id
  Redacted,          \* "[REDACTED]"
  ChunkBytes, OverlapBytes, Blanks,  \* of the chunk scanner, and where it prefers to cut
  Lookbehind,        \* SSEProcessor.lookbehind
  MaxPendingStreamEvents,
  MaxBatch,          \* bound: events completed by one chunk
  MaxText            \* bound: the length of the response

ASSUME StreamLimitAssumption ==
  Lookbehind \in Nat \ {0} /\ MaxPendingStreamEvents \in Nat /\ MaxBatch \in Nat
ASSUME TextAssumption ==
  /\ Events \subseteq Seq(Characters) /\ Ids \subseteq Characters
  /\ {Marker, Closing, Redacted} \subseteq Seq(Characters) \ {<<>>}
  /\ DOMAIN Vault \subseteq Ids /\ \A id \in DOMAIN Vault : Vault[id] \in Seq(Characters)
\* A rule detects its value after its context; of two that overlap, the one with
\* the higher priority decides.  What a rule needs to see fits into an overlap.
ASSUME RuleAssumption ==
  /\ IsFiniteSet(Rules)
  /\ \A r \in Rules :
       /\ {r.context, r.value} \subseteq Seq(Characters) /\ r.value # <<>>
       /\ r.action \in {"allow", "redact", "block"} /\ r.priority \in Nat
       /\ Len(r.context) + Len(r.value) <= OverlapBytes
ASSUME ChunkAssumption == OverlapBytes \in Nat /\ ChunkBytes \in Nat /\ OverlapBytes < ChunkBytes

VARIABLES
  arrived,    \* everything received so far (history)
  places,     \* where in arrived each event stands (history)
  pending,    \* SSEProcessor.pending
  emitted,    \* the text passed on to the agent
  findings,   \* SSEProcessor.findings, located in arrived
  status      \* "open", "closed", or "failed" when the response was cut off

streamVars == <<arrived, places, pending, emitted, findings, status>>

-----------------------------------------------------------------------------
(* Texts *)

LargestOf(S) == CHOOSE n \in S : \A k \in S : k <= n

OccursAt(s, i, text) ==
  i + Len(s) - 1 <= Len(text) /\ SubSeq(text, i, i + Len(s) - 1) = s

\* What becomes of one character when spans of a text are replaced: the
\* replacement stands where the span starts, the rest of the span is dropped.
Piece(text, spans, i) ==
  IF \E s \in spans : s.first = i
  THEN (CHOOSE s \in spans : s.first = i).by
  ELSE IF \E s \in spans : i \in s.first .. s.last THEN <<>> ELSE <<text[i]>>

\* text with every span replaced, as redactParts and RestoreParts do.
Rewrite(text, spans) == FlattenSeq([i \in DOMAIN text |-> Piece(text, spans, i)])

\* What the scanner finds in a text: the location is that of the value alone.
Scan(text) ==
  {m \in {[rule |-> r, first |-> i, last |-> i + Len(r.value) - 1] : r \in Rules, i \in DOMAIN text} :
     LET context == m.rule.context
     IN  /\ m.first > Len(context)
         /\ OccursAt(context \o m.rule.value, m.first - Len(context), text)}

\* Merge: matches that overlap, one after the other, become one, and the first of
\* the highest priority leads.
Merge(matches) ==
  LET firsts == {m.first : m \in {n \in matches :
                   ~\E k \in matches : k.first < n.first /\ n.first <= k.last}}
      union(f) == {m \in matches : m.first >= f /\ ~\E g \in firsts : f < g /\ g <= m.first}
      leading(u) == CHOOSE m \in u : \A n \in u :
                      \/ m.rule.priority > n.rule.priority
                      \/ m.rule.priority = n.rule.priority /\ m.first <= n.first
  IN {[rule |-> leading(union(f)).rule, first |-> f,
       last |-> LargestOf({m.last : m \in union(f)})] : f \in firsts}

\* stableChunkEnd: after the last blank of the overlap, else where the chunk is full.
ChunkEnd(text, start) ==
  LET full == start + ChunkBytes
      blanks == {e \in (full - OverlapBytes + 1) .. full : e > start + OverlapBytes /\ text[e] \in Blanks}
  IN  IF full >= Len(text) THEN Len(text) ELSE IF blanks = {} THEN full ELSE LargestOf(blanks)

\* Matches located in a text of which the scanned one starts after offset.
Shifted(matches, offset) ==
  {[rule |-> m.rule, first |-> m.first + offset, last |-> m.last + offset] : m \in matches}

\* ChunkedScanner.Scan: chunk by chunk, each one overlapping the one before it,
\* and what overlaps in the end is merged once more.  Chunks it has scanned
\* before are looked up, to the same effect.
Matches(text) ==
  LET chunks[start \in 0 .. Len(text)] ==
        LET end == ChunkEnd(text, start)
            found == Shifted(Merge(Scan(SubSeq(text, start + 1, end))), start)
        IN  IF end = Len(text) THEN found ELSE found \cup chunks[end - OverlapBytes]
  IN  Merge(chunks[0])

WithAction(matches, action) == {m \in matches : m.rule.action = action}

Redactions(matches) ==
  {[first |-> m.first, last |-> m.last, by |-> Redacted] : m \in WithAction(matches, "redact")}

Redact(text, matches) == Rewrite(text, Redactions(matches))

Token(id) == Marker \o <<id>> \o Closing

\* Put over each other, the second word d places after the first, they do not agree.
Differ(u, v, d) == \E i \in DOMAIN u : i - d \in DOMAIN v /\ u[i] # v[i - d]

\* No text holds the two words in places that overlap.
Apart(u, v) == \A d \in (1 - Len(v)) .. (Len(u) - 1) : Differ(u, v, d)

\* The words of the code are such that placeholders never overlap, begin with
\* the marker and end with the closing, and do not touch a redaction.
ASSUME WordAssumption ==
  /\ Apart(Redacted, Marker)
  /\ \A id \in Ids :
       /\ Apart(Redacted, Token(id))
       /\ \A d \in (1 - Len(Marker)) .. (Len(Token(id)) - 1) : d = 0 \/ Differ(Token(id), Marker, d)
       /\ \A other \in Ids : \A d \in (1 - Len(Token(other))) .. (Len(Token(id)) - 1) :
            (d = 0 /\ id = other) \/ Differ(Token(id), Token(other), d)
       /\ \A i \in DOMAIN Token(id) : OccursAt(Closing, i, Token(id)) => i = Len(Marker) + 2

\* The complete placeholders in a text.
Tokens(text) ==
  {t \in {[id |-> id, first |-> i, last |-> i + Len(Token(id)) - 1] : id \in Ids, i \in DOMAIN text} :
     OccursAt(Token(t.id), t.first, text)}

\* RestoreParts fails on a placeholder it does not know and on a malformed one.
Restorable(text) ==
  LET without == Rewrite(text, {[first |-> t.first, last |-> t.last, by |-> <<>>] :
                                  t \in Tokens(text)})
  IN  /\ \A t \in Tokens(text) : t.id \in DOMAIN Vault
      /\ ~\E i \in DOMAIN without : OccursAt(Marker, i, without)

Restorations(tokens) ==
  {[first |-> t.first, last |-> t.last, by |-> Vault[t.id]] : t \in tokens}

Restore(text) == Rewrite(text, Restorations(Tokens(text)))

-----------------------------------------------------------------------------
(* Holding events back *)

TextOf(events, n) == FlattenSeq(SubSeq(events, 1, n))

SafeCredentialBoundary(text, offset) ==
  \/ offset = 0 \/ offset = Len(text)
  \/ text[offset] \notin CredentialBytes
  \/ text[offset + 1] \notin CredentialBytes

\* Faulty variant: an incomplete marker is not waited for.
SafePlaceholderBoundaryMarkerOnly(left) ==
  ~\E i \in DOMAIN left :
     /\ OccursAt(Marker, i, left)
     /\ ~\E j \in i .. Len(left) : OccursAt(Closing, j, left)

\* The text does not end in the marker or a prefix of it, and after its last
\* marker comes a closing.
SafePlaceholderBoundary(left) ==
  /\ \A n \in 1 .. Len(Marker) : ~IsSuffix(SubSeq(Marker, 1, n), left)
  /\ \A i \in DOMAIN left :
       OccursAt(Marker, i, left) =>
         \E j \in i .. Len(left) : OccursAt(Closing, j, left)

\* How many of the pending events may go: those followed by enough text, then
\* back to a boundary outside credentials, then to one outside placeholders.
EmitCount(events) ==
  LET text == TextOf(events, Len(events))
      End(n) == Len(TextOf(events, n))
      far == LargestOf({n \in 0 .. Len(events) :
                          End(n) = 0 \/ End(n) <= Len(text) - Lookbehind})
      whole == LargestOf({n \in 0 .. far :
                            n = 0 \/ SafeCredentialBoundary(text, End(n))})
  IN  LargestOf({n \in 0 .. whole :
                   n = 0 \/ SafePlaceholderBoundary(TextOf(events, n))})

-----------------------------------------------------------------------------
(* Passing events on *)

\* Faulty variant: what is not emitted yet is reported all the same.
SettledTooSoon(matches, end) == matches

\* The matches dealt with now: others are left for a later flush.
Settled(matches, end) == {m \in matches : m.last <= end}

\* Findings are reported from the last match to the first.
Reported(matches, offset) ==
  CHOOSE s \in [1 .. Cardinality(matches) -> Shifted(matches, offset)] :
    \A i, j \in DOMAIN s : i < j => s[i].first > s[j].first

Fail == status' = "failed" /\ UNCHANGED emitted

\* The text of the first count events goes out, unless a match anywhere in
\* what is pending is blocked or a placeholder cannot be restored.
Flush(events, count, outcome) ==
  LET text == TextOf(events, Len(events))
      offset == Len(arrived') - Len(text)
      end == Len(TextOf(events, count))
      matches == Matches(text)
      settled == Settled(matches, end)
      blocked == WithAction(matches, "block")
      last == CHOOSE m \in blocked : \A n \in blocked : n.first <= m.first
      clean == Redact(SubSeq(text, 1, end), settled)
  IN  IF blocked # {}
      THEN /\ findings' = findings \o
                Reported({m \in settled : m.first > last.first} \cup {last}, offset)
           /\ pending' = events
           /\ Fail
      ELSE /\ findings' = findings \o Reported(settled, offset)
           /\ IF Restorable(clean)
              THEN /\ emitted' = emitted \o Restore(clean)
                   /\ pending' = SubSeq(events, count + 1, Len(events))
                   /\ status' = outcome
              ELSE pending' = events /\ Fail

-----------------------------------------------------------------------------
(* Operations *)

\* Where the events that have a text stand, when they follow offset characters.
PlacesOf(events, offset) ==
  {[from |-> offset + Len(TextOf(events, n - 1)), to |-> offset + Len(TextOf(events, n))] :
     n \in {k \in DOMAIN events : events[k] # <<>>}}

\* A chunk completes some events, or none.
Push(events) ==
  /\ status = "open"
  /\ arrived' = arrived \o FlattenSeq(events)
  /\ places' = places \cup PlacesOf(events, Len(arrived))
  /\ IF Len(events) > MaxPendingStreamEvents - Len(pending)
     THEN Fail /\ UNCHANGED <<pending, findings>>
     ELSE Flush(pending \o events, EmitCount(pending \o events), "open")

\* Faulty variant: the tail is held back for text that will not come.
CloseStreamHolding ==
  /\ status = "open"
  /\ UNCHANGED <<arrived, places>>
  /\ Flush(pending, EmitCount(pending), "closed")

\* The provider's response ended: everything left goes out.
CloseStream ==
  /\ status = "open"
  /\ UNCHANGED <<arrived, places>>
  /\ Flush(pending, Len(pending), "closed")

\* The connection broke, the response grew too large, an event was malformed or
\* the last one incomplete: the caller gives up and nothing more goes out.
Abort ==
  /\ status = "open"
  /\ Fail
  /\ UNCHANGED <<arrived, places, pending, findings>>

StreamInit ==
  /\ arrived = <<>>
  /\ places = {}
  /\ pending = <<>>
  /\ emitted = <<>>
  /\ findings = <<>>
  /\ status = "open"

StreamNext ==
  \/ \E events \in BoundedSeq(Events, MaxBatch) :
       /\ Len(arrived) + Len(FlattenSeq(events)) <= MaxText
       /\ Len(pending) + Len(events) <= MaxPendingStreamEvents + 1
       /\ Push(events)
  \/ CloseStream
  \/ Abort

StreamSpec == StreamInit /\ [][StreamNext]_streamVars

-----------------------------------------------------------------------------
(* Properties *)

\* What there is to find when a text is scanned in one piece.
Whole(text) == Merge(Scan(text))

\* Where a response must stop: at the first blocked value, or at a marker that
\* opens no placeholder of the request.
StopsAt(text) ==
  {m.first : m \in WithAction(Whole(text), "block")}
    \cup {i \in DOMAIN text :
            /\ OccursAt(Marker, i, text)
            /\ ~\E t \in Tokens(text) : t.first = i /\ t.id \in DOMAIN Vault}

\* The whole text made safe in one piece: up to where it must stop, with every
\* redacted value hidden and every known placeholder restored.
Sanitised(text) ==
  LET safe == {n \in 0 .. Len(text) : \A i \in StopsAt(text) : n < i}
      end == LargestOf(safe)
  IN  Rewrite(SubSeq(text, 1, end),
        Redactions(Whole(text)) \cup
        Restorations({t \in Tokens(text) : t.id \in DOMAIN Vault}))

(* Of which responses the properties hold.  In what they leave out the program
   falls short of them: the text that tells a value is gone when the value is
   scanned (stream.go:144), the search for the second boundary undoes the first
   (stream.go:118), or the end of a chunk decides between two rules of one
   priority (detector.go:372). *)

\* Whichever rule leads, it leads wherever the text is cut: among matches that
\* are merged, those of one priority are of one rule.
TiesAgree(text) ==
  \A m, n \in Scan(text) :
    /\ m.first <= n.first /\ m.rule.priority = n.rule.priority
    /\ \A p \in m.first .. n.first - 1 : \E k \in Scan(text) : k.first <= p /\ p < k.last
    => m.rule = n.rule

\* No value that is found lies over a marker or a placeholder.
WordsStandFree(text) ==
  \A m \in Scan(text), w \in {Marker} \cup {Token(id) : id \in Ids}, i \in DOMAIN text :
    OccursAt(w, i, text) => m.last < i \/ i + Len(w) - 1 < m.first

InCredential(text, c) == c \in 1 .. Len(text) - 1 /\ {text[c], text[c + 1]} \subseteq CredentialBytes

\* A value, or the context it is told by, goes on behind the c-th character.
Straddled(text, c) == \E m \in Scan(text) : m.first - Len(m.rule.context) <= c /\ c < m.last

\* An event ends in a value or in its context only between credential bytes, and
\* one that begins a placeholder does not start in a credential.
EvenlyCut ==
  \A e \in places :
    /\ Straddled(arrived, e.to) => InCredential(arrived, e.to)
    /\ Marker[1] \in ToSet(SubSeq(arrived, e.from + 1, e.to)) => ~InCredential(arrived, e.from)

Ordinary == TiesAgree(arrived) /\ WordsStandFree(arrived) /\ EvenlyCut

\* Types; what has not been emitted is still pending, in order.
StreamTypeOK ==
  /\ status \in {"open", "closed", "failed"}
  /\ status # "failed" => IsSuffix(FlattenSeq(pending), arrived)
  /\ Len(pending) <= MaxPendingStreamEvents
  /\ status = "closed" => pending = <<>>

\* However the response was cut into events, chunks and emissions, the agent
\* never gets anything but a part of the sanitised whole: no piece of a redacted
\* or blocked value, of a placeholder or of what follows them.
EmittedTextIsSanitised == Ordinary => IsPrefix(emitted, Sanitised(arrived))

\* A response that ends normally arrives in full, as the buffered path would
\* have delivered it.
ClosedStreamsAreComplete ==
  Ordinary /\ status = "closed" => StopsAt(arrived) = {} /\ emitted = Sanitised(arrived)

\* The audit of a completed response counts every detected value once, though
\* each is scanned again with every chunk that arrives before it is emitted.
EveryFindingIsReportedOnce ==
  Ordinary /\ status = "closed" =>
    /\ ToSet(findings) = Whole(arrived)
    /\ Len(findings) = Cardinality(Whole(arrived))

=============================================================================
