----------------------------- MODULE StaticRules -----------------------------
(***************************************************************************)
(* A parsed edge configuration: when it is accepted                        *)
(* (services/edge_config.rs), which redirect or rewrite a path takes       *)
(* (services/static_rules.rs), which key a path is read as and which file  *)
(* that key names (LocalMirrorRepository::object_path).                    *)
(*                                                                         *)
(* A text is the sequence of its pieces, slashes among them; pieces are    *)
(* such that a text has one such sequence.  An optional text is a set of   *)
(* at most one.  Blanks around a path, which are trimmed, are left out.    *)
(***************************************************************************)
EXTENDS Integers, Sequences, SequencesExt

CONSTANTS
  Pieces,
  Slash, Wild, Splat, Question,      \* "/"  "*"  ":splat"  "?"
  Up, Dot,                           \* ".."  "."
  IndexHtml,                         \* "index.html"
  Controls,                          \* pieces with a control character
  PrivateDirs,                       \* ".rendermesh" and "_rendermesh"
  MetadataDir                        \* ".rendermesh-meta"

ASSUME TextAssumption ==
  /\ {Slash, Wild, Splat, Question, Up, Dot, IndexHtml, MetadataDir}
       \cup Controls \cup PrivateDirs \subseteq Pieces
  /\ Slash \notin {Wild, Splat, Question, Up, Dot, IndexHtml, MetadataDir}
                     \cup Controls \cup PrivateDirs

Texts == Seq(Pieces)
Absolute(text) == text # << >> /\ Head(text) = Slash

NotSlash(text) == {i \in DOMAIN text : text[i] # Slash}
TrimStart(text) == IF NotSlash(text) = {} THEN << >> ELSE SubSeq(text, Min(NotSlash(text)), Len(text))
TrimEnd(text) == IF NotSlash(text) = {} THEN << >> ELSE SubSeq(text, 1, Max(NotSlash(text)))

Segment(text, i) ==
  /\ i = 1 \/ text[i - 1] = Slash
  /\ i = Len(text) \/ text[i + 1] = Slash

------------------------------------------------------------------------------
(* The one rule a path takes.                                              *)

Matches(pattern, path) ==
  \/ pattern = path
  \/ pattern # << >> /\ Last(pattern) = Wild /\ IsPrefix(Front(pattern), path)

(* MatchKind first, then the length; among wildcards that match, a length  *)
(* is a prefix of the path, so the exact match is one longer than any.     *)
Rank(pattern, path) == IF pattern = path THEN Len(path) + 1 ELSE Len(pattern) - 1

Matching(rules, path) == {i \in DOMAIN rules : Matches(rules[i].from, path)}

(* A slip in find_redirect and resolve_rewrite: the first rule that matches.*)
FirstRule(rules, path) ==
  LET matching == Matching(rules, path)
  IN  IF matching = {} THEN 0 ELSE Min(matching)

(* max_by_key keeps the last of several maxima; 0 stands for none.         *)
BestRule(rules, path) ==
  LET matching == Matching(rules, path)
      best == {i \in matching : \A j \in matching :
                 Rank(rules[j].from, path) <= Rank(rules[i].from, path)}
  IN  IF matching = {} THEN 0 ELSE Max(best)

SplatOf(pattern, path) ==
  IF pattern = path THEN << >> ELSE SubSeq(path, Len(pattern), Len(path))

ApplySplat(target, splat) ==
  FlattenSeq([i \in DOMAIN target |-> IF target[i] = Splat THEN splat ELSE <<target[i]>>])

(* The same rules in any order, when no two are for the same pattern.      *)
Distinct(rules) == \A i, j \in DOMAIN rules : rules[i].from = rules[j].from => i = j
Reordered(rules) ==
  IF Distinct(rules)
    THEN {[i \in DOMAIN rules |-> rules[p[i]]] : p \in Bijection(DOMAIN rules, DOMAIN rules)}
    ELSE {rules}

Outcome(rule, path) == ApplySplat(rule.to, SplatOf(rule.from, path))

(* The status and location, or nothing.                                    *)
FindRedirect(edgeConfig, path, query) ==
  LET i == BestRule(edgeConfig.redirects, path)
      location == Outcome(edgeConfig.redirects[i], path)
      asked == IF query = << >> \/ Question \in ToSet(location) THEN << >>
               ELSE <<Question>> \o query
  IN  IF i = 0 THEN {} ELSE {[status |-> edgeConfig.redirects[i].status, location |-> location \o asked]}

ResolveRewrite(edgeConfig, path) ==
  LET i == BestRule(edgeConfig.rewrites, path)
  IN  IF i = 0 THEN path ELSE Outcome(edgeConfig.rewrites[i], path)

ResolveRootObject(edgeConfig, path) ==
  IF path # << >> /\ Last(path) = Slash THEN TrimEnd(path) \o edgeConfig.root_object ELSE path

RequestTarget(edgeConfig, path) == ResolveRootObject(edgeConfig, ResolveRewrite(edgeConfig, path))

AutoIndexCandidate(path) == TrimEnd(path) \o <<Slash, IndexHtml>>

------------------------------------------------------------------------------
(* The key a path is read as, as it is spelled; the empty text where there *)
(* can be none.                                                            *)

FirstSegmentIn(text, names) == text # << >> /\ Head(text) \in names /\ Segment(text, 1)

ObjectKey(path) ==
  LET key == TrimStart(path)
      rejected == \/ ToSet(key) \cap Controls # {}
                  \/ \E i \in DOMAIN key : key[i] = Up /\ Segment(key, i)
                  \/ FirstSegmentIn(key, {MetadataDir})
  IN  IF rejected THEN << >> ELSE key

(* The file that is opened for a key: the file system passes over doubled  *)
(* slashes and single dots, which the key keeps.                           *)
FilePath(key) ==
  LET names == {i \in DOMAIN key : key[i] # Slash /\ ~(key[i] = Dot /\ Segment(key, i))}
      kept == names \cup {i \in DOMAIN key : key[i] = Slash /\ i - 1 \in names}
  IN  FlattenSeq([i \in DOMAIN key |-> IF i \in kept THEN <<key[i]>> ELSE << >>])

(* The text decides, not the file.                                         *)
IsReserved(path) == FirstSegmentIn(TrimStart(path), PrivateDirs)

ValidHookFile(path) == Absolute(path) /\ ToSet(path) \cap (Controls \cup {Up}) = {}

------------------------------------------------------------------------------
(* Configurations.                                                         *)

RedirectStatuses == {301, 302, 307, 308}

MissingRules ==
  [action : {"not_found", "serve", "redirect"}, page : SUBSET Texts,
   path : SUBSET Texts, to : SUBSET Texts, status : SUBSET Nat]

EdgeConfigs ==
  [version : Nat, root_object : Texts, auto_rewrite_index : BOOLEAN, missing : MissingRules,
   redirects : Seq([from : Texts, to : Texts, status : Nat]),
   rewrites : Seq([from : Texts, to : Texts]),
   edges : Seq([named : BOOLEAN, timeout_ms : Nat, scheme : STRING])]

DefaultEdgeConfig ==
  [version |-> 1, root_object |-> <<Slash, IndexHtml>>, auto_rewrite_index |-> TRUE,
   missing |-> [action |-> "not_found", page |-> {<<Slash, IndexHtml>>},
                path |-> {}, to |-> {}, status |-> {}],
   redirects |-> << >>, rewrites |-> << >>, edges |-> << >>]

AbsolutePath(text) ==
  /\ Absolute(text)
  /\ ToSet(text) \cap Controls = {}
  /\ \A i \in DOMAIN text : text[i] = Up => ~Segment(text, i)

(* Each action of missing has the fields it needs and no other.            *)
ValidMissing(missing) ==
  LET given == {f \in {"page", "path", "to", "status"} : missing[f] # {}}
  IN  /\ \/ missing.action = "not_found" /\ given \subseteq {"page"}
         \/ missing.action = "serve" /\ given = {"path"}
         \/ missing.action = "redirect" /\ given = {"to", "status"}
      /\ \A text \in missing.page \cup missing.path \cup missing.to : AbsolutePath(text)
      /\ missing.status \subseteq RedirectStatuses

ValidEdgeConfig(edgeConfig) ==
  /\ edgeConfig.version = 1
  /\ AbsolutePath(edgeConfig.root_object)
  /\ ValidMissing(edgeConfig.missing)
  /\ \A rule \in ToSet(edgeConfig.redirects) \cup ToSet(edgeConfig.rewrites) :
       AbsolutePath(rule.from) /\ AbsolutePath(rule.to)
  /\ \A rule \in ToSet(edgeConfig.redirects) : rule.status \in RedirectStatuses
  /\ \A hook \in ToSet(edgeConfig.edges) :
       hook.named /\ hook.timeout_ms > 0 /\ hook.scheme \in {"http", "https"}
==============================================================================
