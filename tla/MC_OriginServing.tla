--------------------------- MODULE MC_OriginServing ---------------------------
(* An edge config file and an index object in a directory of its own.        *)
EXTENDS OriginServing

CONSTANTS edge, home, v1, v2, v3

\* The CDN, which no request of the model passes, knows each object by its key.
MCCdnUrls == Paths
MCObjectUrl == [p \in Paths |-> p]
MCMadeFrom == [p \in Paths |-> {p}]
MCHtml == {<<home, v1>>}
MCEdgeConfigPaths == <<edge>>
MCNoConfigPaths == <<>>

MCPieces == {"/", "*", ":splat", "?", "..", "index.html", ".rendermesh",
             ".rendermesh-meta", "edge.yaml", "docs", "x", "q", "."}

EdgeText == <<".rendermesh", "/", "edge.yaml">>
PageText == <<"docs", "/", "index.html">>
MCKeyText == edge :> EdgeText @@ home :> PageText
MCPageText == home :> PageText

Docs == <<"/", "docs">>
Page == <<"/">> \o PageText
BelowPage == Page \o <<"/", "x">>
OddPage == <<"/", "docs", "/", "/", ".", "/", "index.html">>

\* A directory, and a path below a file.
MCUrls == {[path |-> text, query |-> <<"q">>] : text \in {Docs, BelowPage}}
MCPageUrl == {[path |-> Page, query |-> <<>>]}
\* Another spelling of the page, and a path that is refused.
MCHookFiles == {<<"/">> \o EdgeText, OddPage, <<"/", "..", "/", "x">>}
MCHookStatuses == {201, 500}

\* With v1 there is a hook, no candidates, rules that compete and a redirect for
\* missing files; v2 serves a file in their place; v3 is not valid.
MCRules ==
  v1 :>
    [DefaultEdgeConfig EXCEPT
      !.auto_rewrite_index = FALSE,
      !.missing = [action |-> "redirect", page |-> {}, path |-> {},
                   to |-> {<<"/", "docs", "/">>}, status |-> {307}],
      !.redirects = <<[from |-> Page \o <<"*">>, to |-> <<"/", "x">>, status |-> 302],
                      [from |-> Page \o <<"/", "*">>, to |-> <<"/", "docs", ":splat">>,
                       status |-> 301]>>,
      !.rewrites = <<[from |-> Docs, to |-> <<"/", "docs", "/">>],
                     [from |-> <<"/", "*">>, to |-> <<"/", "x">>]>>,
      !.edges = <<[named |-> TRUE, timeout_ms |-> 800, scheme |-> "http"]>>]
  @@ v2 :>
    [DefaultEdgeConfig EXCEPT
      !.missing = [action |-> "serve", page |-> {}, path |-> {Page}, to |-> {}, status |-> {}],
      !.rewrites = <<[from |-> BelowPage, to |-> <<"/", "x">>]>>]
  @@ v3 :>
    [DefaultEdgeConfig EXCEPT !.missing.action = "serve"]
  @@ DefaultConfig :> DefaultEdgeConfig
==============================================================================
