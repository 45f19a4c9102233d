-------------------------- MODULE MCStreamProcessor --------------------------
(* Small instances of StreamProcessor for TLC. *)
EXTENDS StreamProcessor

Rule(value, action, priority) ==
  [context |-> <<>>, value |-> value, action |-> action, priority |-> priority]

\* A value of one character told by the one before it.
Told(context, value) ==
  [context |-> <<context>>, value |-> <<value>>, action |-> "redact", priority |-> 1]

\* Characters: k, s, b are credential bytes and so are V, 1 and 2 inside a
\* placeholder; brackets and # are not.
Bytes == {"k", "s", "b", "V", "1", "2", "o"}

TheCharacters == Bytes \cup {"[", "]", "#"}

TheMarker == <<"[", "V">>
TheClosing == <<"]", "]">>
TheRedacted == <<"#">>

\* A closing bracket stands for white space as well.
TheBlanks == {"]"}

\* Two placeholders can arrive; the vault knows only 1.
Known == [i \in {"1"} |-> <<"o", "o">>]

\* A key to redact and one to block, which share their second half, a third that
\* overlaps both, and one that is told by what is before it: a credential byte, as
\* the equals sign of an assignment is, or a blank.  Whether two rules of one
\* priority meet, a key is cut off from the blank that tells it, or an event both
\* goes on with a key and begins a placeholder, depends on the response.
SplitRules ==
  {Rule(<<"k", "s">>, "redact", 2), Rule(<<"b", "s">>, "block", 3), Rule(<<"s", "b">>, "redact", 2),
   Told("o", "s"), Told("]", "s")}
SplitEvents ==
  {<<>>, <<"k">>, <<"s">>, <<"o">>, <<"b", "s">>, <<"s", "[">>, <<"[">>, <<"V", "1">>, <<"V", "2">>,
   <<"]", "]">>}

=============================================================================
