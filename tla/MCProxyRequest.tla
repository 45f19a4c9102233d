--------------------------- MODULE MCProxyRequest ---------------------------
(* Small instance of ProxyRequest for TLC. *)
EXTENDS ProxyRequest, TLC

CONSTANTS r1, r2, s1, p, q

MCAsks == {<<r1, "request", 1, 1>>, <<r2, "response", 1, 1>>, <<r2, "response", 1, 2>>}
MCSessionOf == (r1 :> s1) @@ (r2 :> s1)
MCCategory == (p :> "email") @@ (q :> "key")
MCCapacity == ("request" :> 2) @@ ("stream" :> 1)
MCArrivals ==
  {<<r1, "post", <<p, q>>>>, <<r2, "stream", <<>>>>, <<r2, "metadata", <<>>>>}
MCAnswers == {<<r1, q>>, <<r1, <<s1, p>>>>, <<r1, <<s1, q>>>>, <<r2, p>>, <<r2, <<s1, q>>>>}

Scope(finding) ==
  [agent |-> Unset, workspace |-> Unset, provider |-> Unset, surface |-> Unset, finding |-> finding]
Rule(finding, action) == [scope |-> Scope(finding), action |-> action]
Asking == [default |-> "allow", rules |-> <<Rule("key", "redact"), Rule("email", "ask")>>]
Blocking == [default |-> "redact", rules |-> <<Rule("key", "block")>>]
Redacting == [default |-> "redact", rules |-> <<>>]
MCEngines == {Asking, Blocking}

\* policy.Engine's loop picks what an unordered reading of its documentation picks,
\* for every list of up to three rules over two of the dimensions.
Pairs == {Unset, "here", "there"} \X {Unset, "here", "there"}
TwoDimensional == {[Scope(s[1]) EXCEPT !["provider"] = s[2]] : s \in Pairs}
SomeRules == [scope : TwoDimensional, action : {"allow", "ask", "block"}]
Here == [d \in Dimensions |-> "here"]

ASSUME DecideAgreesWithReference ==
  \A n \in 0 .. 3 : \A rules \in [1 .. n -> SomeRules] :
    (\A i, j \in 1 .. n : rules[i].scope = rules[j].scope => i = j) =>
      \A default \in {"redact", "block"}, interactive \in BOOLEAN :
        LET e == [default |-> default, rules |-> rules]
        IN  Decide(e, Here, interactive) = Reference(e, Here, interactive)

=============================================================================
