----------------------------- MODULE MCExtensions -----------------------------
(* Small instances of Extensions. *)
EXTENDS Extensions
CONSTANTS a, b, padded

Custom == [id |-> "c", kind |-> "custom", enabled |-> TRUE, applies |-> TRUE, trusted |-> TRUE,
           valid |-> TRUE, effect |-> {}, recovery |-> {"idempotent"}, declared |-> "observe",
           tools |-> <<a>>, restarts |-> 1]
Stdio == [Custom EXCEPT !.id = "m", !.kind = "mcp", !.effect = {"observe"}, !.tools = <<a, b>>]
Http == [Stdio EXCEPT !.id = "h", !.kind = "mcp_http", !.tools = <<b>>]

With(entries) == [entries |-> entries, safe |-> FALSE, custom |-> TRUE, ceiling |-> {}]
External == {"external_side_effect"}

\* One stdio server at most, and no custom tool beside it: the calls of the two
\* share nothing. The policy lets the tools of the first be called.
MCConfigs ==
    { With(<<Stdio>>),
      With(<<[Stdio EXCEPT !.tools = <<a, a>>, !.effect = {"change_reversible"}], Http>>),
      With(<<[Stdio EXCEPT !.tools = <<padded, b>>], Http>>),
      With(<<[Stdio EXCEPT !.effect = {}, !.restarts = 9]>>),
      With(<<[Stdio EXCEPT !.valid = FALSE], [Http EXCEPT !.valid = FALSE]>>),
      With(<<Custom, [Custom EXCEPT !.id = "d", !.effect = {"change_reversible"}]>>),
      With(<<[Custom EXCEPT !.declared = "external_side_effect", !.effect = {"observe"}], Http>>),
      With(<<[Custom EXCEPT !.trusted = FALSE], [Http EXCEPT !.id = "g", !.recovery = {}], [Http EXCEPT !.kind = "wasm"]>>),
      [With(<<[Custom EXCEPT !.effect = External], [Http EXCEPT !.effect = External],
              [Http EXCEPT !.enabled = FALSE]>>) EXCEPT !.ceiling = {"change_reversible"}],
      [With(<<Stdio, Custom, Http>>) EXCEPT !.safe = TRUE] }
=============================================================================
