---------------------------- MODULE Serving_proofs ----------------------------
(***************************************************************************)
(* Theorems about static rules and about requests, for any keys, texts,    *)
(* configurations and refreshes of the origin under them.                  *)
(***************************************************************************)
EXTENDS OriginServing, Acceptance_proofs, Activation_proofs, SequenceTheorems, WellFoundedInduction

------------------------------------------------------------------------------
(* Static rules.                                                           *)

(* Naturals have a least and, when they are bounded, a greatest one.        *)
LEMMA LeastElement ==
  ASSUME NEW S \in SUBSET Nat, S # {}
  PROVE  \E m \in S : \A k \in S : m <= k
<1> DEFINE R == OpToRel(<, Nat)
<1>1. PICK m \in S : \A k \in S : <<k, m>> \notin R
  BY WFMin, NatLessThanWellFounded, Zenon
<1>2. \A k \in S : ~(k < m)
  BY <1>1, Zenon DEF OpToRel
<1>3. \A k \in S : k \in Nat /\ m \in Nat
  OBVIOUS
<1> HIDE DEF R
<1> QED
  BY <1>2, <1>3

LEMMA GreatestElement ==
  ASSUME NEW n \in Nat, NEW S \in SUBSET (0 .. n), S # {}
  PROVE  \E m \in S : \A k \in S : k <= m
<1> DEFINE D == {n - k : k \in S}
<1>1. D \in SUBSET Nat /\ D # {}
  <2>1. \A k \in S : k \in Nat /\ k <= n
    OBVIOUS
  <2>2. \A k \in S : n - k \in Nat
    BY <2>1
  <2> QED
    BY <2>2
<1>2. PICK d \in D : \A e \in D : d <= e
  <2> HIDE DEF D
  <2> QED BY <1>1, LeastElement
<1>3. PICK m \in S : d = n - m
  BY <1>2
<1>4. ASSUME NEW k \in S PROVE k <= m
  <2>1. n - m <= n - k
    BY <1>2, <1>3
  <2> QED BY <2>1
<1> QED
  BY <1>4

(* A text without its last piece.                                          *)
LEMMA FrontOfText ==
  ASSUME NEW w \in Texts, w # << >>
  PROVE  /\ Len(w) \in Nat /\ Len(w) >= 1
         /\ Front(w) \in Texts
         /\ Len(Front(w)) = Len(w) - 1
         /\ \A i \in 1 .. Len(w) - 1 : Front(w)[i] = w[i]
<1>1. Len(w) \in Nat /\ Len(w) >= 1
  BY LenProperties, EmptySeq DEF Texts
<1> DEFINE n == Len(w) - 1
<1>2. n \in Int /\ n >= 0 /\ \A i \in 1 .. n : w[i] \in Pieces
  BY <1>1, ElementOfSeq DEF Texts
<1>3. Front(w) = SubSeq(w, 1, n)
  BY DEF Front
<1> HIDE DEF n
<1>4. /\ SubSeq(w, 1, n) \in Seq(Pieces)
      /\ Len(SubSeq(w, 1, n)) = IF 1 <= n THEN n - 1 + 1 ELSE 0
      /\ \A i \in 1 .. n - 1 + 1 : SubSeq(w, 1, n)[i] = w[1 + i - 1]
  BY <1>2, SubSeqProperties
<1>5. Front(w) \in Texts /\ Len(Front(w)) = n /\ \A i \in 1 .. n : Front(w)[i] = w[i]
  <2>1. \A i \in 1 .. n : 1 + i - 1 = i
    BY <1>2
  <2>2. n - 1 + 1 = n
    BY <1>2
  <2> QED
    BY <1>2, <1>3, <1>4, <2>1, <2>2 DEF Texts
<1> QED
  BY <1>1, <1>5 DEF n

(* Two patterns that match a path and rank the same are one pattern: an     *)
(* exact match outranks every wildcard, and two wildcards that match and    *)
(* are equally long are the same prefix of the path.                        *)
LEMMA EqualRanks ==
  ASSUME NEW p \in Texts, NEW q \in Texts, NEW path \in Texts,
         Matches(p, path), Matches(q, path), Rank(p, path) = Rank(q, path)
  PROVE  p = q
<1>1. ASSUME NEW w \in Texts, Matches(w, path), w # path
      PROVE  /\ w # << >> /\ Len(w) \in Nat /\ Len(w) >= 1 /\ Len(w) - 1 <= Len(path)
             /\ \A i \in 1 .. Len(w) - 1 : w[i] = path[i]
             /\ w[Len(w)] = Wild
  <2>1. w # << >> /\ Last(w) = Wild /\ IsPrefix(Front(w), path)
    BY <1>1 DEF Matches
  <2>2. Len(w) \in Nat /\ Len(w) >= 1 /\ Len(path) \in Nat
    BY <2>1, FrontOfText, LenProperties DEF Texts
  <2>3. Front(w) \in Texts /\ Len(Front(w)) = Len(w) - 1 /\ \A i \in 1 .. Len(w) - 1 : Front(w)[i] = w[i]
    BY <2>1, FrontOfText
  <2>4. Len(w) - 1 <= Len(path) /\ SubSeq(Front(w), 1, Len(w) - 1) = SubSeq(path, 1, Len(w) - 1)
    BY <2>1, <2>3 DEF IsPrefix
  <2>5. ASSUME NEW i \in 1 .. Len(w) - 1 PROVE w[i] = path[i]
    <3>1. SubSeq(Front(w), 1, Len(w) - 1)[i] = Front(w)[i]
      BY <2>2, <2>3 DEF Texts
    <3>2. SubSeq(path, 1, Len(w) - 1)[i] = path[i]
      BY <2>2, <2>4 DEF Texts
    <3> QED BY <2>3, <2>4, <3>1, <3>2
  <2> QED
    BY <2>1, <2>2, <2>4, <2>5 DEF Last
<1>2. Len(path) \in Nat
  BY LenProperties DEF Texts
<1>3. CASE p = path \/ q = path
  BY <1>1, <1>2, <1>3 DEF Rank
<1>4. CASE p # path /\ q # path
  <2>1. Len(p) = Len(q)
    BY <1>1, <1>4 DEF Rank
  <2>2. ASSUME NEW i \in 1 .. Len(p) PROVE p[i] = q[i]
    <3>1. CASE i = Len(p)
      BY <1>1, <1>4, <2>1, <3>1
    <3>2. CASE i # Len(p)
      <4>1. i \in 1 .. Len(p) - 1 /\ i \in 1 .. Len(q) - 1
        BY <1>1, <1>4, <2>1, <3>2
      <4> QED BY <1>1, <1>4, <4>1
    <3> QED BY <3>1, <3>2
  <2> QED
    BY <2>1, <2>2, SeqEqual DEF Texts
<1> QED
  BY <1>3, <1>4

(* A matching pattern has a rank between 0 and one more than the path.      *)
LEMMA RankType ==
  ASSUME NEW p \in Texts, NEW path \in Texts, Matches(p, path)
  PROVE  Rank(p, path) \in 0 .. Len(path) + 1
<1>1. Len(path) \in Nat /\ Len(p) \in Nat
  BY LenProperties DEF Texts
<1>2. CASE p = path
  BY <1>1, <1>2 DEF Rank
<1>3. CASE p # path
  <2>1. p # << >> /\ IsPrefix(Front(p), path)
    BY <1>3 DEF Matches
  <2>2. Len(p) >= 1
    BY <1>1, <2>1, EmptySeq DEF Texts
  <2>3. Len(Front(p)) = Len(p) - 1
    BY <2>1, FrontOfText
  <2>4. Len(p) - 1 <= Len(path)
    BY <2>1, <2>3 DEF IsPrefix
  <2> QED
    BY <1>1, <1>3, <2>2, <2>4 DEF Rank
<1> QED
  BY <1>2, <1>3

(* The best rule is none when none matches, and otherwise one that matches  *)
(* and that none outranks.                                                 *)
LEMMA BestRuleIsBest ==
  ASSUME NEW R, \A r \in R : r.from \in Texts, NEW rules \in Seq(R), NEW path \in Texts
  PROVE  LET m == Matching(rules, path)
             b == BestRule(rules, path)
         IN  /\ m = {} => b = 0
             /\ m # {} => /\ b \in m
                         /\ \A j \in m : Rank(rules[j].from, path) <= Rank(rules[b].from, path)
<1> DEFINE m == Matching(rules, path)
           rank(i) == Rank(rules[i].from, path)
           best == {i \in m : \A j \in m : rank(j) <= rank(i)}
           ranks == {rank(i) : i \in m}
<1>1. Len(rules) \in Nat /\ Len(path) \in Nat /\ m \subseteq 1 .. Len(rules)
  BY LenProperties DEF Matching, Texts
<1>2. \A i \in m : rank(i) \in 0 .. Len(path) + 1
  <2> SUFFICES ASSUME NEW i \in m PROVE rank(i) \in 0 .. Len(path) + 1
    OBVIOUS
  <2>1. rules[i].from \in Texts /\ Matches(rules[i].from, path)
    BY ElementOfSeq DEF Matching
  <2> QED
    BY <2>1, RankType
<1>3. BestRule(rules, path) = IF m = {} THEN 0 ELSE Max(best)
  BY DEF BestRule
<1> SUFFICES ASSUME m # {}
             PROVE  /\ BestRule(rules, path) \in m
                    /\ \A j \in m : rank(j) <= rank(BestRule(rules, path))
  BY <1>3
<1> HIDE DEF m, rank
<1>4. PICK top \in ranks : \A r \in ranks : r <= top
  <2>1. ranks \in SUBSET (0 .. Len(path) + 1) /\ ranks # {}
    BY <1>2
  <2>2. Len(path) + 1 \in Nat
    BY <1>1
  <2> HIDE DEF ranks
  <2> QED
    BY <2>1, <2>2, GreatestElement
<1>5. best # {}
  BY <1>4
<1>6. best \in SUBSET (0 .. Len(rules))
  <2>1. best \subseteq m /\ m \subseteq 0 .. Len(rules)
    BY <1>1
  <2> QED
    BY <2>1
<1>7. \E b \in best : \A k \in best : b >= k
  <2> HIDE DEF best
  <2>1. PICK b \in best : \A k \in best : k <= b
    BY <1>1, <1>5, <1>6, GreatestElement
  <2>2. \A k \in best : b >= k
    BY <1>1, <1>6, <2>1
  <2> QED
    BY <2>2
<1>8. Max(best) \in best
  BY <1>7 DEF Max
<1> QED
  BY <1>3, <1>8

(* Another order of the rules has the same best rule, at another place.    *)
LEMMA BestOfReordered ==
  ASSUME NEW R, \A r \in R : r.from \in Texts, NEW rules \in Seq(R), NEW path \in Texts,
         NEW other \in Reordered(rules)
  PROVE  LET b == BestRule(rules, path)
             o == BestRule(other, path)
         IN  (o = 0 <=> b = 0) /\ (b # 0 => other[o] = rules[b])
<1> DEFINE b == BestRule(rules, path)
           o == BestRule(other, path)
<1>1. CASE ~Distinct(rules)
  BY <1>1 DEF Reordered
<1>2. CASE Distinct(rules)
  <2>1. PICK p \in Bijection(DOMAIN rules, DOMAIN rules) : other = [i \in DOMAIN rules |-> rules[p[i]]]
    BY <1>2 DEF Reordered
  <2>2. /\ p \in [DOMAIN rules -> DOMAIN rules]
        /\ \A j \in DOMAIN rules : \E i \in DOMAIN rules : p[i] = j
    BY DEF Bijection, Surjection
  <2>3. Len(rules) \in Nat /\ DOMAIN rules = 1 .. Len(rules)
    BY LenProperties
  <2>4. other \in Seq(R) /\ DOMAIN other = DOMAIN rules
    <3>1. \A i \in 1 .. Len(rules) : rules[p[i]] \in R
      BY <2>2, <2>3, ElementOfSeq
    <3> QED
      BY <2>1, <2>3, <3>1, IsASeq
  <2>5. \A i \in DOMAIN rules : other[i] = rules[p[i]] /\ p[i] \in DOMAIN rules
    BY <2>1, <2>2
  <2>6. Matching(other, path) = {i \in DOMAIN rules : p[i] \in Matching(rules, path)}
    BY <2>4, <2>5 DEF Matching
  <2>7. CASE Matching(rules, path) = {}
    <3>1. Matching(other, path) = {}
      BY <2>6, <2>7
    <3> QED
      BY <2>4, <2>7, <3>1, BestRuleIsBest
  <2>8. CASE Matching(rules, path) # {}
    <3>1. /\ b \in Matching(rules, path)
          /\ \A j \in Matching(rules, path) : Rank(rules[j].from, path) <= Rank(rules[b].from, path)
      BY <2>8, BestRuleIsBest
    <3>2. b \in DOMAIN rules /\ b # 0
      BY <2>3, <3>1 DEF Matching
    <3>3. PICK i \in DOMAIN rules : p[i] = b
      BY <2>2, <3>2
    <3>4. i \in Matching(other, path)
      BY <2>6, <3>1, <3>3
    <3>5. /\ o \in Matching(other, path)
          /\ Rank(other[i].from, path) <= Rank(other[o].from, path)
      BY <2>4, <3>4, BestRuleIsBest
    <3>6. o \in DOMAIN rules /\ o # 0 /\ p[o] \in Matching(rules, path)
      BY <2>3, <2>6, <3>5
    <3>7. /\ Rank(rules[b].from, path) <= Rank(rules[p[o]].from, path)
          /\ Rank(rules[p[o]].from, path) <= Rank(rules[b].from, path)
      BY <2>5, <3>1, <3>3, <3>5, <3>6
    <3>8. /\ rules[b].from \in Texts /\ Matches(rules[b].from, path)
          /\ rules[p[o]].from \in Texts /\ Matches(rules[p[o]].from, path)
      BY <2>5, <2>3, <3>1, <3>2, <3>6, ElementOfSeq DEF Matching
    <3>9. Rank(rules[b].from, path) = Rank(rules[p[o]].from, path)
      <4>1. Rank(rules[b].from, path) \in Int /\ Rank(rules[p[o]].from, path) \in Int
        BY <3>8, RankType
      <4> QED
        BY <3>7, <4>1
    <3>10. rules[b].from = rules[p[o]].from
      BY <3>8, <3>9, EqualRanks
    <3>11. p[o] = b
      BY <1>2, <2>5, <3>2, <3>6, <3>10 DEF Distinct
    <3> QED
      BY <2>5, <3>2, <3>6, <3>11
  <2> QED
    BY <2>7, <2>8
<1> QED
  BY <1>1, <1>2

------------------------------------------------------------------------------
(* resolve_rewrite gives a path the same target whatever the order of the   *)
(* rewrites in the file.                                                   *)
THEOREM RewriteOrderIsImmaterial ==
  ASSUME NEW edgeConfig \in EdgeConfigs, NEW rewrites \in Reordered(edgeConfig.rewrites),
         NEW other, other.rewrites = rewrites, NEW path \in Texts
  PROVE  ResolveRewrite(other, path) = ResolveRewrite(edgeConfig, path)
<1>1. edgeConfig.rewrites \in Seq([from : Texts, to : Texts])
  BY DEF EdgeConfigs
<1>2. \A r \in [from : Texts, to : Texts] : r.from \in Texts
  OBVIOUS
<1> DEFINE b == BestRule(edgeConfig.rewrites, path)
           o == BestRule(rewrites, path)
<1>3. (o = 0 <=> b = 0) /\ (b # 0 => rewrites[o] = edgeConfig.rewrites[b])
  BY <1>1, <1>2, BestOfReordered
<1> HIDE DEF b, o
<1> QED
  BY <1>3 DEF ResolveRewrite, b, o

(* find_redirect answers a path and a query with the same status and        *)
(* location whatever the order of the redirects in the file.               *)
THEOREM RedirectOrderIsImmaterial ==
  ASSUME NEW edgeConfig \in EdgeConfigs, NEW redirects \in Reordered(edgeConfig.redirects),
         NEW other, other.redirects = redirects, NEW path \in Texts, NEW query
  PROVE  FindRedirect(other, path, query) = FindRedirect(edgeConfig, path, query)
<1>1. edgeConfig.redirects \in Seq([from : Texts, to : Texts, status : Nat])
  BY DEF EdgeConfigs
<1>2. \A r \in [from : Texts, to : Texts, status : Nat] : r.from \in Texts
  OBVIOUS
<1> DEFINE b == BestRule(edgeConfig.redirects, path)
           o == BestRule(redirects, path)
<1>3. (o = 0 <=> b = 0) /\ (b # 0 => redirects[o] = edgeConfig.redirects[b])
  BY <1>1, <1>2, BestOfReordered
<1> HIDE DEF b, o
<1> QED
  BY <1>3 DEF FindRedirect, b, o

------------------------------------------------------------------------------
(* Configurations that were accepted.                                      *)

(* load_origin_edge_config gives a file of the origin or the default.       *)
LEMMA ConfigExists ==
  ASSUME NEW files \in Files
  PROVE  EdgeConfig(files) \in Contents \cup {DefaultConfig}
<1> DEFINE present == {i \in DOMAIN EdgeConfigPaths : files[EdgeConfigPaths[i]] # Absent}
<1>1. CASE present = {}
  BY <1>1 DEF EdgeConfig
<1>2. CASE present # {}
  <2>1. present \in SUBSET Nat
    BY ConstantsAssumption, LenProperties
  <2>2. \E i \in present : \A j \in present : i <= j
    <3> HIDE DEF present
    <3> QED
      BY <1>2, <2>1, LeastElement
  <2>3. PICK i \in present : EdgeConfig(files) = files[EdgeConfigPaths[i]]
    BY <1>2, <2>2 DEF EdgeConfig
  <2>4. EdgeConfigPaths[i] \in Paths
    BY ConstantsAssumption, ElementOfSeq, LenProperties
  <2>5. files[EdgeConfigPaths[i]] \in Contents
    BY <2>4 DEF Files, Index, FileState
  <2> QED
    BY <2>3, <2>5
<1> QED
  BY <1>1, <1>2

(* What is accepted redirects with the statuses of a redirect only.        *)
LEMMA AcceptedRules ==
  ASSUME NEW c \in AcceptedConfigs
  PROVE  /\ c \in DOMAIN Rules /\ Rules[c] \in EdgeConfigs /\ c # NoConfig
         /\ \A i \in DOMAIN Rules[c].redirects : Rules[c].redirects[i].status \in RedirectStatuses
         /\ Rules[c].missing.status \subseteq RedirectStatuses
<1>1. c \in Contents \cup {DefaultConfig} /\ c \notin BadConfigs
  BY ConfigExists DEF AcceptedConfigs
<1>2. c \in DOMAIN Rules /\ Rules[c] \in EdgeConfigs /\ c # NoConfig
  BY <1>1, ServingAssumption, RefreshAssumption
<1>3. CASE c = DefaultConfig
  <2>1. Rules[c].redirects = << >> /\ Rules[c].missing.status = {}
    BY <1>3, ServingAssumption DEF DefaultEdgeConfig
  <2> QED
    BY <1>2, <2>1
<1>4. CASE c # DefaultConfig
  <2>1. ValidEdgeConfig(Rules[c])
    BY <1>1, <1>4, ServingAssumption
  <2>2. \A i \in DOMAIN Rules[c].redirects : Rules[c].redirects[i].status \in RedirectStatuses
    BY <2>1 DEF ValidEdgeConfig, ToSet
  <2>3. Rules[c].missing.status \subseteq RedirectStatuses
    BY <2>1 DEF ValidEdgeConfig, ValidMissing
  <2> QED
    BY <1>2, <2>2, <2>3
<1> QED
  BY <1>3, <1>4

------------------------------------------------------------------------------
(* A request under way holds a configuration that was accepted and one of   *)
(* the requests.                                                           *)
RequestInv ==
  /\ DOMAIN request = DOMAIN Idle
  /\ request.step # "idle" => request.config \in AcceptedConfigs /\ request.url \in Urls

ServedInv == AcceptInv /\ RequestInv

LEMMA ServingInitInv == ServingInit => ServedInv
<1> SUFFICES ASSUME ServingInit PROVE ServedInv
  OBVIOUS
<1>1. AcceptInv
  BY InitAccepts DEF ServingInit
<1>2. request = Idle /\ Idle.step = "idle"
  BY DEF ServingInit, Idle
<1> QED
  BY <1>1, <1>2 DEF ServedInv, RequestInv

(* A request that is answered is over, and one that is not keeps what it    *)
(* was given.                                                              *)
Kept ==
  \/ request' = Idle
  \/ /\ DOMAIN request' = DOMAIN request
     /\ request'.config = request.config
     /\ request'.url = request.url
     /\ request.step # "idle"

LEMMA KeptInv ==
  ASSUME RequestInv, Kept
  PROVE  RequestInv'
<1>1. Idle.step = "idle"
  BY DEF Idle
<1> QED
  BY <1>1 DEF RequestInv, Kept, Idle

LEMMA ServeStaticKeeps ==
  ASSUME RequestInv, request.step # "idle", NEW p, NEW access, NEW params, NEW miss, NEW status,
         ServeStatic(p, access, params, miss, status)
  PROVE  Kept
BY DEF ServeStatic, Kept, RequestInv, Idle

LEMMA NotServedKeeps ==
  ASSUME RequestInv, request.step # "idle", NotServed
  PROVE  Kept
<1>1. CASE request.retry
  <2>1. request' = [request EXCEPT !.step = "stat", !.path = AutoIndexCandidate(@), !.retry = FALSE]
    BY <1>1 DEF NotServed
  <2> QED
    BY <2>1 DEF Kept, RequestInv, Idle
<1>2. CASE ~request.retry
  <2>1. CASE request.missing \/ plan.miss = "not_found"
    BY <1>2, <2>1 DEF NotServed, ReplyEmpty, Reply, Kept
  <2>2. CASE ~(request.missing \/ plan.miss = "not_found")
    <3>1. HandleMissing(RulesOf(request.config).missing)
      BY <1>2, <2>2 DEF NotServed
    <3>2. ASSUME NEW page, NEW status, ReadMissing(page, status) PROVE Kept
      BY <3>2 DEF ReadMissing, Kept, RequestInv, Idle
    <3> QED
      BY <3>1, <3>2 DEF HandleMissing, Redirect, ReplyEmpty, Reply, Kept
  <2> QED
    BY <2>1, <2>2
<1> QED
  BY <1>1, <1>2

LEMMA HandleRequestKeeps ==
  ASSUME RequestInv, HandleRequest
  PROVE  Kept
<1>1. CASE EdgeFails
  BY <1>1 DEF EdgeFails, ReplyEmpty, Reply, Kept
<1>2. CASE EdgeContinues
  BY <1>2 DEF EdgeContinues, HookIsNext, Kept, RequestInv, Idle
<1>3. CASE EdgeResponds
  BY <1>3 DEF EdgeResponds, ReplyEmpty, Reply, Kept
<1>4. CASE EdgeServesFile
  BY <1>4, ServeStaticKeeps DEF EdgeServesFile, HookIsNext
<1>5. CASE EdgeRendersTarget
  BY <1>5, ServeStaticKeeps DEF EdgeRendersTarget, HookIsNext
<1>6. CASE Route
  BY <1>6, ServeStaticKeeps DEF Route, Redirect, Reply, Kept
<1>7. CASE Stat
  <2>1. CASE NotServed
    BY <1>7, <2>1, NotServedKeeps DEF Stat
  <2>2. CASE request' = [request EXCEPT !.step = "read"]
    BY <1>7, <2>2 DEF Stat, Kept, RequestInv, Idle
  <2> QED
    BY <1>7, <2>1, <2>2 DEF Stat
<1>8. CASE ReadBody
  <2>1. CASE NotServed
    BY <1>8, <2>1, NotServedKeeps DEF ReadBody
  <2>2. CASE ReplyEmpty(500)
    BY <2>2 DEF ReplyEmpty, Reply, Kept
  <2>3. CASE request' = [request EXCEPT !.step = "sidecar", !.body = FileAt(Live, request.path)]
    BY <1>8, <2>3 DEF ReadBody, Kept, RequestInv, Idle
  <2> QED
    BY <1>8, <2>1, <2>2, <2>3 DEF ReadBody
<1>9. CASE ReadSidecar
  <2>1. CASE request' = [request EXCEPT !.step = "render", !.meta = NamedAt(Live, request.path)]
    BY <1>9, <2>1 DEF ReadSidecar, Kept, RequestInv, Idle
  <2>2. CASE request' = Idle
    BY <2>2 DEF Kept
  <2> QED
    BY <1>9, <2>1, <2>2 DEF ReadSidecar, Reply
<1>10. CASE RenderTemplate
  BY <1>10 DEF RenderTemplate, Reply, Kept
<1>11. CASE ReadFails
  BY <1>11 DEF ReadFails, ReplyEmpty, Reply, Kept
<1> QED
  BY <1>1, <1>2, <1>3, <1>4, <1>5, <1>6, <1>7, <1>8, <1>9, <1>10, <1>11 DEF HandleRequest

(* A server that listens has an accepted configuration.                    *)
LEMMA ListeningHasConfig ==
  ASSUME AcceptInv, Listening
  PROVE  config \in AcceptedConfigs /\ config # NoConfig
<1>1. config \in AcceptedConfigs
  BY DEF AcceptInv, AcceptanceInv, ConfigIsGood, Listening
<1> QED
  BY <1>1, AcceptedRules

(* Arrive is the only step that begins a request.                          *)
LEMMA ArriveInv ==
  ASSUME AcceptInv, NEW url \in Urls, Arrive(url)
  PROVE  RequestInv'
<1>1. config \in AcceptedConfigs /\ config # NoConfig
  BY ListeningHasConfig DEF Arrive
<1>2. request' = [Idle EXCEPT !.step = "edge", !.config = config, !.url = url, !.hook = 1]
  BY <1>1 DEF Arrive
<1>3. /\ DOMAIN request' = DOMAIN Idle
      /\ request'.config = config /\ request'.url = url
  BY <1>2 DEF Idle
<1>4. request'.config \in AcceptedConfigs
  BY <1>1, <1>3
<1> QED
  BY <1>3, <1>4 DEF RequestInv, AcceptedConfigs

LEMMA ServingNextInv == ServedInv /\ [ServingNext]_servingVars => ServedInv'
<1> SUFFICES ASSUME AcceptInv, RequestInv, [ServingNext]_servingVars
             PROVE  ServedInv'
  BY DEF ServedInv
<1>1. CASE UNCHANGED servingVars
  <2>1. UNCHANGED vars /\ UNCHANGED request
    BY <1>1 DEF servingVars, requestVars
  <2>2. AcceptInv'
    BY <2>1, NextAccepts
  <2> QED
    BY <2>1, <2>2 DEF ServedInv, RequestInv, AcceptedConfigs
<1>2. CASE RequestStep /\ UNCHANGED vars
  <2>1. AcceptInv'
    BY <1>2, NextAccepts
  <2>2. RequestInv'
    <3>1. CASE OtherMethod
      BY <3>1, KeptInv DEF OtherMethod, ReplyEmpty, Reply, Kept
    <3>2. CASE \E url \in Urls : Arrive(url)
      BY <3>2, ArriveInv
    <3>3. CASE HandleRequest
      BY <3>3, HandleRequestKeeps, KeptInv
    <3> QED
      BY <1>2, <3>1, <3>2, <3>3 DEF RequestStep
  <2> QED
    BY <2>1, <2>2 DEF ServedInv
<1>3. CASE OriginStep
  <2>1. AcceptInv'
    BY <1>3, NextAccepts DEF OriginStep
  <2>2. CASE UNCHANGED request
    BY <2>1, <2>2 DEF ServedInv, RequestInv, AcceptedConfigs
  <2>3. CASE request' = Idle
    BY <2>1, <2>3, KeptInv DEF Kept, ServedInv
  <2> QED
    BY <1>3, <2>2, <2>3 DEF OriginStep, requestVars
<1> QED
  BY <1>1, <1>2, <1>3 DEF ServingNext

------------------------------------------------------------------------------
(* What the table of decisions says of a configuration and a request.      *)
LEMMA DecisionIsOfTheRules ==
  ASSUME NEW c \in DOMAIN Rules, NEW url \in Urls
  PROVE  /\ Decision(c, url).target = RequestTarget(Rules[c], url.path)
         /\ Decision(c, url).redirect = FindRedirect(Rules[c], url.path, url.query)
<1> DEFINE d == [config |-> c, url |-> url, target |-> RequestTarget(Rules[c], url.path),
                 redirect |-> FindRedirect(Rules[c], url.path, url.query)]
<1>1. d \in Decisions /\ d.config = c /\ d.url = url
  BY DEF Decisions
<1>2. Decision(c, url) \in Decisions /\ Decision(c, url).config = c /\ Decision(c, url).url = url
  BY <1>1 DEF Decision
<1>3. PICK b \in DOMAIN Rules, u \in Urls :
        Decision(c, url) = [config |-> b, url |-> u, target |-> RequestTarget(Rules[b], u.path),
                            redirect |-> FindRedirect(Rules[b], u.path, u.query)]
  BY <1>2 DEF Decisions
<1> QED
  BY <1>2, <1>3

(* Reordering the rules of a configuration changes neither decision.       *)
LEMMA ReorderedDecision ==
  ASSUME NEW c \in DOMAIN Rules, NEW url \in Urls,
         NEW redirects \in Reordered(Rules[c].redirects),
         NEW rewrites \in Reordered(Rules[c].rewrites)
  PROVE  LET other == [Rules[c] EXCEPT !.redirects = redirects, !.rewrites = rewrites]
         IN  /\ RequestTarget(other, url.path) = RequestTarget(Rules[c], url.path)
             /\ FindRedirect(other, url.path, url.query)
                  = FindRedirect(Rules[c], url.path, url.query)
<1> DEFINE other == [Rules[c] EXCEPT !.redirects = redirects, !.rewrites = rewrites]
<1>1. Rules[c] \in EdgeConfigs
  BY ServingAssumption
<1>2. /\ other.redirects = redirects
      /\ other.rewrites = rewrites
      /\ other.root_object = Rules[c].root_object
  BY <1>1 DEF EdgeConfigs
<1>3. url.path \in Texts
  BY ServingAssumption
<1> HIDE DEF other
<1>4. ResolveRewrite(other, url.path) = ResolveRewrite(Rules[c], url.path)
  BY <1>1, <1>2, <1>3, RewriteOrderIsImmaterial
<1>5. FindRedirect(other, url.path, url.query) = FindRedirect(Rules[c], url.path, url.query)
  BY <1>1, <1>2, <1>3, RedirectOrderIsImmaterial
<1>6. RequestTarget(other, url.path) = RequestTarget(Rules[c], url.path)
  BY <1>2, <1>4 DEF RequestTarget, ResolveRootObject
<1> QED
  BY <1>5, <1>6 DEF other

(* find_redirect returns nothing or one decision.                          *)
LEMMA OneRedirect ==
  ASSUME NEW edgeConfig, NEW path, NEW query,
         NEW redirect \in FindRedirect(edgeConfig, path, query)
  PROVE  FindRedirect(edgeConfig, path, query)
           = {[status |-> redirect.status, location |-> redirect.location]}
<1> DEFINE i == BestRule(edgeConfig.redirects, path)
           location == Outcome(edgeConfig.redirects[i], path)
           asked == IF query = << >> \/ Question \in ToSet(location) THEN << >>
                    ELSE <<Question>> \o query
           decision == [status |-> edgeConfig.redirects[i].status, location |-> location \o asked]
<1>1. FindRedirect(edgeConfig, path, query) = IF i = 0 THEN {} ELSE {decision}
  BY DEF FindRedirect
<1>2. decision = [status |-> decision.status, location |-> decision.location]
  OBVIOUS
<1> HIDE DEF i, decision
<1>3. FindRedirect(edgeConfig, path, query) = {decision} /\ redirect = decision
  BY <1>1
<1> QED
  BY <1>2, <1>3

(* Where Route leads does not depend on the order of the rules.            *)
THEOREM RoutingIgnoresOrder == ServingSpec => OrderOfRulesIsImmaterial
<1> DEFINE A == Route => \A redirects \in Reordered(RulesOf(request.config).redirects),
                            rewrites \in Reordered(RulesOf(request.config).rewrites) :
       LET rules == [RulesOf(request.config) EXCEPT !.redirects = redirects,
                                                    !.rewrites = rewrites]
           found == FindRedirect(rules, request.url.path, request.url.query)
       IN  IF found = {}
             THEN plan'.path = RequestTarget(rules, request.url.path)
             ELSE found = {[status |-> answer'.status, location |-> answer'.path]}
<1>1. ASSUME ServedInv, Route
      PROVE  A
  <2> DEFINE c == request.config
             url == request.url
  <2>1. c \in DOMAIN Rules /\ url \in Urls
    BY <1>1, AcceptedRules DEF ServedInv, RequestInv, Route
  <2> SUFFICES ASSUME NEW redirects \in Reordered(Rules[c].redirects),
                      NEW rewrites \in Reordered(Rules[c].rewrites)
               PROVE  LET rules == [Rules[c] EXCEPT !.redirects = redirects,
                                                    !.rewrites = rewrites]
                          found == FindRedirect(rules, url.path, url.query)
                      IN  IF found = {}
                            THEN plan'.path = RequestTarget(rules, url.path)
                            ELSE found = {[status |-> answer'.status, location |-> answer'.path]}
    BY DEF RulesOf
  <2> DEFINE rules == [Rules[c] EXCEPT !.redirects = redirects, !.rewrites = rewrites]
             d == Decision(c, url)
  <2>2. /\ RequestTarget(rules, url.path) = d.target
        /\ FindRedirect(rules, url.path, url.query) = d.redirect
    <3>1. /\ RequestTarget(rules, url.path) = RequestTarget(Rules[c], url.path)
          /\ FindRedirect(rules, url.path, url.query) = FindRedirect(Rules[c], url.path, url.query)
      BY <2>1, ReorderedDecision
    <3>2. /\ d.target = RequestTarget(Rules[c], url.path)
          /\ d.redirect = FindRedirect(Rules[c], url.path, url.query)
      BY <2>1, DecisionIsOfTheRules
    <3> HIDE DEF d, rules, c, url
    <3> QED
      BY <3>1, <3>2
  <2>3. \/ d.redirect = {} /\ plan'.path = d.target
        \/ \E redirect \in d.redirect :
             answer'.status = redirect.status /\ answer'.path = redirect.location
    BY <1>1 DEF Route, ServeStatic, Target, Redirect, Reply
  <2>4. ASSUME NEW redirect \in d.redirect
        PROVE  d.redirect = {[status |-> redirect.status, location |-> redirect.location]}
    <3>1. d.redirect = FindRedirect(Rules[c], url.path, url.query)
      BY <2>1, DecisionIsOfTheRules
    <3> HIDE DEF d, c, url
    <3> QED
      BY <3>1, OneRedirect
  <2> HIDE DEF d, rules, c, url
  <2>5. IF d.redirect = {}
          THEN plan'.path = d.target
          ELSE d.redirect = {[status |-> answer'.status, location |-> answer'.path]}
    <3>1. CASE d.redirect = {}
      BY <2>3, <3>1
    <3>2. CASE d.redirect # {}
      <4>1. PICK redirect \in d.redirect :
              answer'.status = redirect.status /\ answer'.path = redirect.location
        BY <2>3, <3>2
      <4> QED
        BY <2>4, <3>2, <4>1
    <3> QED
      BY <3>1, <3>2
  <2> QED
    BY <2>2, <2>5 DEF rules, c, url
<1>2. ServedInv /\ [ServingNext]_servingVars => [A]_servingVars
  BY <1>1
<1> QED
  BY <1>2, ServingInitInv, ServingNextInv, PTL DEF ServingSpec, OrderOfRulesIsImmaterial

------------------------------------------------------------------------------
(* Server errors.                                                          *)

(* Where a rename may be under way, the request has noted it; and as long   *)
(* as it has not, what Stat found not to be a directory still is none.     *)
QuietInv ==
  /\ detached = {}
  /\ overlapped \in BOOLEAN
  /\ Activating => overlapped
  /\ request.step = "read" /\ ~overlapped => ~DirectoryAt(Live, request.path)

NoCancellation == "cancel" \notin Faults

(* The mirror changes between the ends of an activation only.              *)
LEMMA MirrorChangesInActivation ==
  ASSUME AcceptInv, detached = {}, NoCancellation, [Next]_vars
  PROVE  detached' = {} /\ (Live' = Live \/ Activating)
<1>1. CASE UNCHANGED vars \/ Restart
  BY <1>1 DEF vars, Restart, Live
<1>2. CASE \E t \in Tasks : TryAcquire(t) \/ AlreadyRunning(t) \/ Cancel(t)
  BY <1>2 DEF TryAcquire, AlreadyRunning, Cancel, NoCancellation, Live
<1>3. ASSUME NEW t \in Tasks, Advance(t)
      PROVE  detached' = {} /\ (Live' = Live \/ Activating)
  <2>1. lock = t /\ lock # NoTask
    BY <1>3, OthersRest, RefreshAssumption DEF AcceptInv, RefreshMutex, Tasks
  <2>2. detached' = detached
    BY <1>3 DEF Advance, PrepareStaging, ListObjects, DownloadObject, Prune,
       PrepareActivation, FailBeforeSwap, Fail, MoveOldAside, MoveStagingIn,
       MoveStagingInFails, RestoreOld, RestoreFails, RemoveBackup, RemoveBackupFails,
       SetValid, SetOriginRegistry, InsertIndex, SetSnapshot, PurgeCdn, PurgeFails
  <2>3. CASE pc[t] \in Swapping
    BY <2>1, <2>2, <2>3 DEF Activating, Between
  <2>4. CASE pc[t] \notin Swapping
    <3>1. mirror' = mirror
      BY <1>3, <2>4 DEF Swapping, Advance, PrepareStaging, ListObjects, DownloadObject, Prune,
         PrepareActivation, FailBeforeSwap, Fail, MoveOldAside, MoveStagingIn,
         MoveStagingInFails, RestoreOld, RestoreFails, RemoveBackup, RemoveBackupFails,
         SetValid, SetOriginRegistry, InsertIndex, SetSnapshot, PurgeCdn, PurgeFails
    <3> QED
      BY <2>2, <3>1 DEF Live
  <2> QED
    BY <2>3, <2>4
<1>4. ~RunDetached
  BY DEF RunDetached
<1> QED
  BY <1>1, <1>2, <1>3, <1>4 DEF Next, Crash, ExitAfterFailedStartup

(* Only Stat leads to the reading of a body.                               *)
LEMMA NotServedDoesNotRead ==
  ASSUME RequestInv, NotServed
  PROVE  request'.step # "read"
<1>1. Idle.step # "read"
  BY DEF Idle
<1>2. CASE request.retry
  <2>1. request' = [request EXCEPT !.step = "stat", !.path = AutoIndexCandidate(@), !.retry = FALSE]
    BY <1>2 DEF NotServed
  <2> QED
    BY <2>1 DEF RequestInv, Idle
<1>3. CASE ~request.retry
  <2>1. CASE request.missing \/ plan.miss = "not_found"
    BY <1>1, <1>3, <2>1 DEF NotServed, ReplyEmpty, Reply
  <2>2. CASE ~(request.missing \/ plan.miss = "not_found")
    <3>1. HandleMissing(RulesOf(request.config).missing)
      BY <1>3, <2>2 DEF NotServed
    <3>2. ASSUME NEW page, NEW status, ReadMissing(page, status) PROVE request'.step # "read"
      BY <3>2 DEF ReadMissing, RequestInv, Idle
    <3> QED
      BY <1>1, <3>1, <3>2 DEF HandleMissing, Redirect, ReplyEmpty, Reply
  <2> QED
    BY <2>1, <2>2
<1> QED
  BY <1>2, <1>3

LEMMA OnlyStatReads ==
  ASSUME RequestInv, RequestStep, request'.step = "read"
  PROVE  request'.path = request.path /\ ~DirectoryAt(Live, request.path)
<1>1. Idle.step # "read"
  BY DEF Idle
<1>2. ~OtherMethod /\ ~(\E url \in Urls : Arrive(url))
  <2>1. ~OtherMethod
    BY <1>1 DEF OtherMethod, ReplyEmpty, Reply
  <2>2. ASSUME NEW url \in Urls, Arrive(url)
        PROVE  FALSE
    <3>1. CASE config = NoConfig
      BY <1>1, <2>2, <3>1 DEF Arrive, ReplyEmpty, Reply
    <3>2. CASE config # NoConfig
      <4>1. request' = [Idle EXCEPT !.step = "edge", !.config = config, !.url = url, !.hook = 1]
        BY <2>2, <3>2 DEF Arrive
      <4>2. request'.step = "edge"
        BY <4>1 DEF Idle
      <4> QED
        BY <4>2
    <3> QED
      BY <3>1, <3>2
  <2> QED
    BY <2>1, <2>2
<1>3. ~EdgeFails /\ ~EdgeResponds /\ ~RenderTemplate /\ ~ReadFails
  BY <1>1 DEF EdgeFails, EdgeResponds, RenderTemplate, ReadFails, ReplyEmpty, Reply
<1>4. ~EdgeContinues
  BY DEF EdgeContinues, HookIsNext, RequestInv, Idle
<1>5. ASSUME NEW p, NEW access, NEW params, NEW miss, NEW status,
             ServeStatic(p, access, params, miss, status)
      PROVE  FALSE
  BY <1>5 DEF ServeStatic, RequestInv, Idle
<1>6. ~EdgeServesFile /\ ~EdgeRendersTarget /\ ~Route
  BY <1>1, <1>5 DEF EdgeServesFile, EdgeRendersTarget, Route, Redirect, Reply
<1>7. ~NotServed
  BY NotServedDoesNotRead
<1>8. ~ReadBody
  <2>1. ~ReplyEmpty(500)
    BY <1>1 DEF ReplyEmpty, Reply
  <2>2. ASSUME request' = [request EXCEPT !.step = "sidecar", !.body = FileAt(Live, request.path)]
        PROVE  FALSE
    <3>1. request'.step = "sidecar"
      BY <2>2 DEF RequestInv, Idle
    <3> QED
      BY <3>1
  <2> QED
    BY <1>7, <2>1, <2>2 DEF ReadBody
<1>9. ~ReadSidecar
  <2>1. ASSUME request' = [request EXCEPT !.step = "render", !.meta = NamedAt(Live, request.path)]
        PROVE  FALSE
    <3>1. request'.step = "render"
      BY <2>1 DEF RequestInv, Idle
    <3> QED
      BY <3>1
  <2> QED
    BY <1>1, <2>1 DEF ReadSidecar, Reply
<1>10. Stat
  BY <1>2, <1>3, <1>4, <1>6, <1>8, <1>9 DEF RequestStep, HandleRequest
<1>11. ~DirectoryAt(Live, request.path) /\ request' = [request EXCEPT !.step = "read"]
  BY <1>7, <1>10 DEF Stat
<1> QED
  BY <1>11 DEF RequestInv, Idle

LEMMA QuietNextInv ==
  ASSUME NoCancellation
  PROVE  ServedInv /\ QuietInv /\ [ServingNext]_servingVars => QuietInv'
<1> SUFFICES ASSUME ServedInv, QuietInv, [ServingNext]_servingVars
             PROVE  QuietInv'
  OBVIOUS
<1>1. CASE UNCHANGED servingVars
  BY <1>1 DEF servingVars, requestVars, vars, QuietInv, Activating, Between, DirectoryAt, Live
<1>2. CASE ServingNext
  <2>1. overlapped' = (Activating' \/ (request # Idle /\ overlapped))
    BY <1>2 DEF ServingNext, Observe
  <2>2. [Next]_vars
    BY <1>2 DEF ServingNext, OriginStep
  <2>3. detached' = {} /\ (Live' = Live \/ Activating)
    BY <2>2, MirrorChangesInActivation DEF ServedInv, QuietInv
  <2>4. ASSUME request'.step = "read", ~overlapped'
        PROVE  ~DirectoryAt(Live, request.path)'
    <3>1. CASE RequestStep /\ UNCHANGED vars
      <4>1. request'.path = request.path /\ ~DirectoryAt(Live, request.path)
        BY <2>4, <3>1, OnlyStatReads DEF ServedInv
      <4>2. Live' = Live
        BY <3>1 DEF vars, Live
      <4> QED
        BY <4>1, <4>2 DEF DirectoryAt
    <3>2. CASE OriginStep
      <4>1. request' = request /\ request # Idle
        BY <2>4, <3>2 DEF OriginStep, requestVars, Idle
      <4>2. ~overlapped /\ ~Activating
        BY <2>1, <2>4, <4>1 DEF QuietInv
      <4>3. Live' = Live /\ ~DirectoryAt(Live, request.path)
        BY <2>3, <2>4, <4>1, <4>2 DEF QuietInv
      <4> QED
        BY <4>1, <4>3 DEF DirectoryAt
    <3> QED
      BY <1>2, <3>1, <3>2 DEF ServingNext
  <2> QED
    BY <2>1, <2>3, <2>4 DEF QuietInv, Activating, Between
<1> QED
  BY <1>1, <1>2

(* A rule of an accepted configuration redirects with a redirect's status.  *)
LEMMA RedirectStatus ==
  ASSUME NEW c \in AcceptedConfigs, NEW url \in Urls,
         NEW redirect \in FindRedirect(Rules[c], url.path, url.query)
  PROVE  redirect.status \in RedirectStatuses
<1> DEFINE redirects == Rules[c].redirects
           b == BestRule(redirects, url.path)
<1>1. Rules[c] \in EdgeConfigs /\ url.path \in Texts
  BY AcceptedRules, ServingAssumption
<1>2. redirects \in Seq([from : Texts, to : Texts, status : Nat])
  BY <1>1 DEF EdgeConfigs
<1>3. \A r \in [from : Texts, to : Texts, status : Nat] : r.from \in Texts
  OBVIOUS
<1>4. b # 0 => b \in Matching(redirects, url.path)
  <2> HIDE DEF redirects
  <2> QED
    BY <1>1, <1>2, <1>3, BestRuleIsBest
<1>5. b # 0 => b \in DOMAIN redirects
  BY <1>4 DEF Matching
<1>6. b # 0 /\ redirect.status = redirects[b].status
  <2> DEFINE location == Outcome(redirects[b], url.path)
             asked == IF url.query = << >> \/ Question \in ToSet(location) THEN << >>
                      ELSE <<Question>> \o url.query
             decision == [status |-> redirects[b].status, location |-> location \o asked]
  <2>1. FindRedirect(Rules[c], url.path, url.query) = IF b = 0 THEN {} ELSE {decision}
    BY DEF FindRedirect
  <2>2. decision.status = redirects[b].status
    OBVIOUS
  <2> HIDE DEF b, decision
  <2> QED
    BY <2>1, <2>2
<1> QED
  BY <1>5, <1>6, AcceptedRules

(* What is answered to a path that is not there.                           *)
LEMMA NotServedIsNoError ==
  ASSUME RequestInv, request.step # "idle", NotServed
  PROVE  answer' = answer \/ answer'.status # 500
<1>1. \A status : ReplyEmpty(status) => answer'.status = status
  BY DEF ReplyEmpty, Reply
<1>2. \A status, to : Redirect(status, to) => answer'.status = status
  BY DEF Redirect, Reply
<1>3. CASE request.retry
  BY <1>3 DEF NotServed
<1>4. CASE ~request.retry /\ (request.missing \/ plan.miss = "not_found")
  BY <1>1, <1>4 DEF NotServed
<1>5. CASE ~request.retry /\ ~(request.missing \/ plan.miss = "not_found")
  <2> DEFINE missing == Rules[request.config].missing
  <2>1. HandleMissing(missing)
    BY <1>5 DEF NotServed, RulesOf
  <2>2. missing.status \subseteq RedirectStatuses
    BY AcceptedRules DEF RequestInv
  <2>3. \A page, status : ReadMissing(page, status) => answer' = answer
    BY DEF ReadMissing
  <2> HIDE DEF missing
  <2> QED
    BY <1>1, <1>2, <2>1, <2>2, <2>3 DEF HandleMissing, RedirectStatuses
<1> QED
  BY <1>3, <1>4, <1>5

(* Of what a path leads to, a directory and a file it goes on below are the *)
(* errors.                                                                 *)
LEMMA ReadBodyErrs ==
  ASSUME RequestInv, QuietInv, ReadBody
  PROVE  \/ answer' = answer \/ answer'.status # 500
         \/ overlapped \/ (request # Idle /\ BelowFile(Live, request.path))
<1>1. request # Idle /\ request.step # "idle"
  BY DEF ReadBody, Idle
<1>2. CASE FileAt(Live, request.path) # Absent
  BY <1>2 DEF ReadBody
<1>3. CASE /\ FileAt(Live, request.path) = Absent
           /\ DirectoryAt(Live, request.path) \/ BelowFile(Live, request.path)
  BY <1>1, <1>3 DEF ReadBody, QuietInv
<1>4. CASE /\ FileAt(Live, request.path) = Absent
           /\ ~(DirectoryAt(Live, request.path) \/ BelowFile(Live, request.path))
  BY <1>1, <1>4, NotServedIsNoError DEF ReadBody
<1> QED
  BY <1>2, <1>3, <1>4

LEMMA HandleRequestErrs ==
  ASSUME RequestInv, QuietInv, HandleRequest
  PROVE  \/ answer' = answer \/ answer'.status # 500
         \/ overlapped \/ ReadFails \/ HookSaysSo(500)
         \/ (request # Idle /\ BelowFile(Live, request.path))
<1>1. CASE EdgeFails \/ EdgeContinues \/ EdgeResponds
  BY <1>1 DEF EdgeFails, EdgeContinues, HookSaysSo, ReplyEmpty, Reply
<1>2. CASE EdgeServesFile \/ EdgeRendersTarget
  BY <1>2 DEF EdgeServesFile, EdgeRendersTarget, ServeStatic
<1>3. CASE Route
  <2>1. request.config \in AcceptedConfigs /\ request.url \in Urls
    BY <1>3 DEF Route, RequestInv
  <2>2. Decision(request.config, request.url).redirect
          = FindRedirect(Rules[request.config], request.url.path, request.url.query)
    BY <2>1, AcceptedRules, DecisionIsOfTheRules
  <2>3. \A redirect \in Decision(request.config, request.url).redirect :
          redirect.status \in RedirectStatuses
    BY <2>1, <2>2, RedirectStatus
  <2> QED
    BY <1>3, <2>3 DEF Route, ServeStatic, Redirect, Reply, RedirectStatuses
<1>4. CASE Stat
  <2>1. request.step # "idle"
    BY <1>4 DEF Stat
  <2> QED
    BY <1>4, <2>1, NotServedIsNoError DEF Stat
<1>5. CASE ReadBody
  BY <1>5, ReadBodyErrs
<1>6. CASE ReadSidecar \/ RenderTemplate
  <2>1. request # Idle
    BY <1>6 DEF ReadSidecar, RenderTemplate, Idle
  <2>2. \A status, path, body, meta :
          Reply(status, path, body, meta) => answer'.status = status
    BY DEF Reply
  <2> QED
    BY <1>6, <2>1, <2>2 DEF ReadSidecar, RenderTemplate, HookSaysSo
<1> QED
  BY <1>1, <1>2, <1>3, <1>4, <1>5, <1>6 DEF HandleRequest

(* However the origin is refreshed under it, a server answers 500 for want *)
(* of a configuration never, and because a directory is where Stat found   *)
(* none only during an activation, unless a client cancels.  Else a hook   *)
(* says so, the path goes on below a file, or the file system failed.      *)
THEOREM ErrorsHaveACause ==
  ASSUME NoCancellation
  PROVE  ServingSpec => ServerErrorsHaveACause
<1> DEFINE B == answer' # answer /\ answer'.status = 500 =>
                  \/ overlapped \/ ReadFails \/ HookSaysSo(500)
                  \/ (request # Idle /\ BelowFile(Live, request.path))
<1>1. ServingInit => ServedInv /\ QuietInv
  <2>1. ServingInit => QuietInv
    <3>1. Idle.step # "read"
      BY DEF Idle
    <3> QED
      BY <3>1 DEF ServingInit, QuietInv, Init, Activating, Between
  <2> QED
    BY <2>1, ServingInitInv
<1>2. ServedInv /\ QuietInv /\ [ServingNext]_servingVars => (ServedInv /\ QuietInv)'
  BY ServingNextInv, QuietNextInv
<1>3. ServedInv /\ QuietInv /\ [ServingNext]_servingVars => [B]_servingVars
  <2> SUFFICES ASSUME ServedInv, QuietInv, ServingNext
               PROVE  B
    OBVIOUS
  <2>1. CASE OtherMethod
    BY <2>1 DEF OtherMethod, ReplyEmpty, Reply
  <2>2. ASSUME NEW url \in Urls, Arrive(url)
        PROVE  B
    <3>1. config # NoConfig
      BY <2>2, ListeningHasConfig DEF Arrive, ServedInv
    <3> QED
      BY <2>2, <3>1 DEF Arrive, NoAnswer
  <2>3. CASE HandleRequest
    BY <2>3, HandleRequestErrs DEF ServedInv
  <2>4. CASE OriginStep
    BY <2>4 DEF OriginStep, requestVars, NoAnswer
  <2> QED
    BY <2>1, <2>2, <2>3, <2>4 DEF ServingNext, RequestStep
<1> QED
  BY <1>1, <1>2, <1>3, PTL DEF ServingSpec, ServerErrorsHaveACause

------------------------------------------------------------------------------
(* Answers while no activation is under way.                               *)

(* A process that serves has activated an index.                           *)
ServesAnIndex ==
  pc["startup"] \in {"set_snapshot", "purge", "activated"} => index # NoIndex

LEMMA ServesAnIndexNext ==
  ASSUME AcceptInv, ServesAnIndex, [Next]_vars
  PROVE  ServesAnIndex'
<1>1. CASE UNCHANGED vars
  BY <1>1 DEF vars, stores, ServesAnIndex
<1>2. CASE Restart
  BY <1>2 DEF Restart, ServesAnIndex, Tasks
<1>3. CASE RunDetached
  BY <1>3 DEF RunDetached, stores, ServesAnIndex
<1>4. ASSUME NEW t \in Tasks, TryAcquire(t) \/ AlreadyRunning(t) \/ Cancel(t)
      PROVE  ServesAnIndex'
  <2>1. index' = index
    BY <1>4 DEF TryAcquire, AlreadyRunning, Cancel, stores
  <2>2. \E step \in {"prepare_staging", "conflict", "idle"} : pc' = [pc EXCEPT ![t] = step]
    BY <1>4 DEF TryAcquire, AlreadyRunning, Cancel, End, Goto
  <2>3. pc'["startup"] \in {pc["startup"], "prepare_staging", "conflict", "idle"}
    BY <2>2 DEF AcceptInv, TypeOK, Tasks
  <2> QED
    BY <2>1, <2>3 DEF ServesAnIndex
<1>5. ASSUME NEW t \in Tasks, Advance(t)
      PROVE  ServesAnIndex'
  <2>1. pc["startup"] = pc'["startup"] \/ t = "startup"
    BY <1>5, StartedFacts
  <2>2. CASE InsertIndex(t)
    <3>1. job[t].next \in Index
      BY DEF AcceptInv, TypeOK, JobType
    <3>2. index' # NoIndex
      BY <2>2, <3>1, NoIndexAssumption DEF InsertIndex
    <3> QED
      BY <3>2 DEF ServesAnIndex
  <2>3. CASE ~InsertIndex(t)
    <3>1. index' = index
      BY <1>5, <2>3 DEF stores, Advance, PrepareStaging, ListObjects, DownloadObject, Prune,
         PrepareActivation, FailBeforeSwap, Fail, MoveOldAside, MoveStagingIn,
         MoveStagingInFails, RestoreOld, RestoreFails, RemoveBackup, RemoveBackupFails,
         SetValid, SetOriginRegistry, SetSnapshot, PurgeCdn, PurgeFails
    <3>2. pc'[t] \in {"set_snapshot", "purge", "activated"} =>
            pc[t] \in {"set_snapshot", "purge", "activated"}
      BY <1>5, <2>3 DEF Goto, End, Staging, AcceptInv, TypeOK,
         Advance, PrepareStaging, ListObjects, DownloadObject, Prune,
         PrepareActivation, FailBeforeSwap, Fail, MoveOldAside, MoveStagingIn,
         MoveStagingInFails, RestoreOld, RestoreFails, RemoveBackup, RemoveBackupFails,
         SetValid, SetOriginRegistry, SetSnapshot, PurgeCdn, PurgeFails
    <3> QED
      BY <2>1, <3>1, <3>2 DEF ServesAnIndex
  <2> QED
    BY <2>2, <2>3
<1> QED
  BY <1>1, <1>2, <1>3, <1>4, <1>5 DEF Next, Crash, ExitAfterFailedStartup

(* Where no activation is under way, a server that listens has one whole   *)
(* generation in its mirror and its stores.                                *)
LEMMA QuietGeneration ==
  ASSUME IInv, ServesAnIndex, Listening, ~Activating
  PROVE  /\ index # NoIndex /\ index \in Files
         /\ Live = index
         /\ config = EdgeConfig(index)
         /\ registry = Templates(index)
<1>1. index # NoIndex /\ index \in Files
  BY DEF ServesAnIndex, Listening, IInv, TypeOK, Files
<1>2. mirror = index => Live = index
  BY <1>1, RefreshAssumption DEF Live, FilesIn, Files
<1>3. \A t \in Tasks : pc[t] \notin Swapping \cup {"set_valid", "set_registry", "set_index"}
  <2> SUFFICES ASSUME NEW t \in Tasks,
                      pc[t] \in Swapping \cup {"set_valid", "set_registry", "set_index"}
               PROVE  FALSE
    OBVIOUS
  <2>1. Running(t)
    BY DEF Running, Ended, Swapping
  <2>2. lock = t /\ lock # NoTask
    BY <2>1, RefreshAssumption DEF IInv, RefreshMutex, Tasks
  <2> QED
    BY <2>2 DEF Activating, Between
<1>4. CASE \E t \in Tasks : pc[t] \in {"set_snapshot", "purge"}
  <2>1. PICK t \in Tasks : pc[t] \in {"set_snapshot", "purge"}
    BY <1>4
  <2>2. mirror = job[t].next /\ config = EdgeConfig(job[t].next)
        /\ registry = Templates(job[t].next) /\ index = job[t].next
    BY <2>1 DEF IInv, GenerationInv, JobInv, InstalledSoFar, AfterSwap, Installing
  <2> QED
    BY <1>1, <1>2, <2>2
<1>5. CASE \A t \in Tasks : pc[t] \notin {"set_snapshot", "purge"}
  <2>1. \A t \in Tasks : pc[t] \notin AfterSwap \cup Aside
    BY <1>3, <1>5 DEF AfterSwap, Aside, Installing, Swapping
  <2>2. StoresHoldIndex /\ MirrorHoldsIndex
    BY <2>1 DEF IInv, GenerationInv, StoresAreActive, MirrorIsActive
  <2> QED
    BY <1>1, <1>2, <2>2 DEF StoresHoldIndex, MirrorHoldsIndex
<1> QED
  BY <1>4, <1>5

------------------------------------------------------------------------------
FirstAsked == {d.target : d \in Decisions} \cup HookFiles
PagesOf(rules) == rules.missing.page \cup rules.missing.path

(* No path that is asked for names a directory and at the same time is a   *)
(* file or goes on below one: a file system holds nothing else.            *)
AreTree(files) ==
  \A path \in Asked :
    DirectoryAt(files, path) => FileAt(files, path) = Absent /\ ~BelowFile(files, path)
LiveIsTree == AreTree(Live)

LEMMA PlaceIs ==
  ASSUME NEW path \in Asked
  PROVE  /\ Place(path).valid = (ObjectKey(path) # << >>)
         /\ Place(path).reserved = IsReserved(path)
         /\ Place(path).named = {p \in Paths : KeyText[p] = ObjectKey(path)}
         /\ Place(path).keys = {p \in Paths : KeyText[p] = FilePath(ObjectKey(path))}
         /\ Place(path).above =
              {p \in Paths : IsPrefix(KeyText[p] \o <<Slash>>, FilePath(ObjectKey(path)))}
<1> DEFINE
      File(x) == FilePath(ObjectKey(x))
      Named(x) == {p \in Paths : KeyText[p] = ObjectKey(x)}
      Keys(x) == {p \in Paths : KeyText[p] = File(x)}
      Inside(x) == {p \in Paths : File(x) = << >>
                                    \/ IsPrefix(TrimEnd(File(x)) \o <<Slash>>, KeyText[p])}
      Above(x) == {p \in Paths : IsPrefix(KeyText[p] \o <<Slash>>, File(x))}
      At0(x) == [path |-> x, valid |-> ObjectKey(x) # << >>, reserved |-> IsReserved(x),
                named |-> Named(x), keys |-> Keys(x), inside |-> Inside(x), above |-> Above(x)]
<1>1. Places = {At0(x) : x \in Asked}
  BY DEF Places
<1>2. At0(path) \in Places /\ At0(path).path = path
  BY <1>1
<1>3. Place(path) \in Places /\ Place(path).path = path
  BY <1>2 DEF Place
<1>4. PICK x \in Asked : Place(path) = At0(x)
  BY <1>1, <1>3
<1>5. x = path
  BY <1>3, <1>4
<1> QED
  BY <1>4, <1>5

LEMMA NothingIsNoFile == FilePath(<< >>) = << >>
<1> DEFINE names == {i \in DOMAIN << >> : << >>[i] # Slash
                                            /\ ~(<< >>[i] = Dot /\ Segment(<< >>, i))}
           kept == names \cup {i \in DOMAIN << >> : << >>[i] = Slash /\ i - 1 \in names}
           parts == [i \in DOMAIN << >> |-> IF i \in kept THEN << << >>[i] >> ELSE << >>]
<1>1. FilePath(<< >>) = FlattenSeq(parts)
  BY DEF FilePath
<1>2. parts = << >>
  <2> HIDE DEF kept
  <2> QED
    OBVIOUS
<1> HIDE DEF parts
<1>3. FlattenSeq(<< >>) = << >>
  BY DEF FlattenSeq
<1> QED
  BY <1>1, <1>2, <1>3

(* An object is named by its key only; its file may be spelled otherwise.   *)
LEMMA NamedIsRead ==
  ASSUME NEW path \in Asked, Place(path).named # {}
  PROVE  Place(path).named = Place(path).keys
<1>1. PICK key \in Paths : KeyText[key] = ObjectKey(path)
  BY PlaceIs
<1>2. FilePath(ObjectKey(path)) = ObjectKey(path)
  BY <1>1, ServingAssumption
<1>3. Place(path).keys = {p \in Paths : KeyText[p] = ObjectKey(path)}
  BY <1>2, PlaceIs, Zenon
<1> QED
  BY <1>3, PlaceIs, Zenon

LEMMA NoObjectAtNothing ==
  ASSUME NEW path \in Asked, ObjectKey(path) = << >>
  PROVE  Place(path).keys = {} /\ Place(path).above = {}
<1>1. ASSUME NEW p \in Paths
      PROVE  KeyText[p] # << >> /\ ~IsPrefix(KeyText[p] \o <<Slash>>, << >>)
  <2>1. KeyText[p] \in Texts /\ Slash \in Pieces
    BY ServingAssumption, TextAssumption
  <2>2. Len(KeyText[p] \o <<Slash>>) = Len(KeyText[p]) + 1 /\ Len(KeyText[p]) \in Nat
    BY <2>1 DEF Texts
  <2>3. Len(<< >>) = 0
    OBVIOUS
  <2> QED
    BY <2>2, <2>3, ServingAssumption DEF IsPrefix
<1> QED
  BY <1>1, PlaceIs, NothingIsNoFile

(* What Stat refuses holds no file.                                        *)
LEMMA RefusedIsNothing ==
  ASSUME NEW files, AreTree(files), NEW path \in Asked, NEW access,
         \/ Place(path).reserved /\ access = "public"
         \/ ~Place(path).valid
         \/ DirectoryAt(files, path)
  PROVE  Reading(files, path, access) = "nothing"
<1>1. CASE Place(path).reserved /\ access = "public"
  BY <1>1 DEF Reading
<1>2. CASE ~Place(path).valid \/ DirectoryAt(files, path)
  <2>1. FileAt(files, path) = Absent /\ ~BelowFile(files, path)
    <3>1. CASE ~Place(path).valid
      <4>1. Place(path).keys = {} /\ Place(path).above = {}
        BY <3>1, NoObjectAtNothing, PlaceIs
      <4> QED
        BY <4>1 DEF FileAt, OneOf, BelowFile
    <3>2. CASE DirectoryAt(files, path)
      BY <3>2 DEF AreTree
    <3> QED
      BY <1>2, <3>1, <3>2
  <2> QED
    BY <2>1 DEF Reading
<1> QED
  BY <1>1, <1>2

LEMMA ReadPathIsSome ==
  ASSUME NEW path \in Asked, NEW files, NEW access, Reading(files, path, access) # "nothing"
  PROVE  path # NoPath
<1> SUFFICES ASSUME path = << >> PROVE FALSE
  BY DEF NoPath
<1>1. NotSlash(path) = {}
  BY DEF NotSlash
<1>2. ObjectKey(path) = << >>
  BY <1>1 DEF ObjectKey, TrimStart
<1>3. FileAt(files, path) = Absent /\ ~BelowFile(files, path)
  BY <1>2, NoObjectAtNothing DEF FileAt, OneOf, BelowFile
<1> QED
  BY <1>3 DEF Reading

(* The first of one or two texts that is there.                            *)
LEMMA FirstReadIs ==
  ASSUME NEW a, NEW b, NEW files, NEW access, NEW auto \in BOOLEAN
  PROVE  LET first == FirstRead(files, <<a>> \o IF auto THEN <<b>> ELSE << >>, access) IN
         /\ Reading(files, a, access) # "nothing" => first = a
         /\ Reading(files, a, access) = "nothing"
              /\ (auto => Reading(files, b, access) = "nothing") => first = NoPath
<1> DEFINE texts == <<a>> \o IF auto THEN <<b>> ELSE << >>
           ends == {i \in DOMAIN texts : Reading(files, texts[i], access) # "nothing"}
<1>1. /\ auto => DOMAIN texts = 1 .. 2 /\ texts[1] = a /\ texts[2] = b
      /\ ~auto => DOMAIN texts = 1 .. 1 /\ texts[1] = a
  <2>1. CASE auto
    BY <2>1
  <2>2. CASE ~auto
    BY <2>2
  <2> QED
    BY <2>1, <2>2
<1>2. FirstRead(files, texts, access) = IF ends = {} THEN NoPath ELSE texts[Min(ends)]
  BY DEF FirstRead
<1>3. ends \subseteq {1, 2} /\ (1 \in ends <=> Reading(files, a, access) # "nothing")
      /\ (2 \in ends <=> auto /\ Reading(files, b, access) # "nothing")
  <2> HIDE DEF texts
  <2>1. \A i \in 1 .. 2 : i \in {1, 2}
    OBVIOUS
  <2>2. 1 \in 1 .. 2 /\ 2 \in 1 .. 2 /\ 1 \in 1 .. 1 /\ 2 \notin 1 .. 1 /\ 1 .. 1 \subseteq 1 .. 2
    OBVIOUS
  <2> QED
    BY <1>1, <2>1, <2>2
<1> HIDE DEF texts, ends
<1>4. ASSUME 1 \in ends PROVE Min(ends) = 1
  <2>1. \A y \in ends : 1 <= y
    BY <1>3
  <2>2. Min(ends) \in ends /\ \A y \in ends : Min(ends) <= y
    BY <1>4, <2>1 DEF Min
  <2>3. Min(ends) \in {1, 2} /\ Min(ends) <= 1
    BY <1>3, <1>4, <2>2
  <2> QED
    BY <2>3
<1> QED
  BY <1>1, <1>2, <1>3, <1>4 DEF texts

LEMMA SecondRead ==
  ASSUME NEW a, NEW b, NEW files, NEW access,
         Reading(files, a, access) = "nothing", Reading(files, b, access) # "nothing"
  PROVE  FirstRead(files, <<a>> \o <<b>>, access) = b
<1> DEFINE texts == <<a>> \o <<b>>
           ends == {i \in DOMAIN texts : Reading(files, texts[i], access) # "nothing"}
<1>1. DOMAIN texts = 1 .. 2 /\ texts[1] = a /\ texts[2] = b
  OBVIOUS
<1>2. FirstRead(files, texts, access) = IF ends = {} THEN NoPath ELSE texts[Min(ends)]
  BY DEF FirstRead
<1>3. ends = {2}
  <2> HIDE DEF texts
  <2>1. \A i \in 1 .. 2 : i \in {1, 2}
    OBVIOUS
  <2>2. 1 \in 1 .. 2 /\ 2 \in 1 .. 2
    OBVIOUS
  <2> QED
    BY <1>1, <2>1, <2>2
<1> HIDE DEF texts, ends
<1>4. Min({2}) = 2
  BY DEF Min
<1> QED
  BY <1>1, <1>2, <1>3, <1>4 DEF texts

------------------------------------------------------------------------------
(* What Expected comes to, case by case.                                   *)
Hit(files, rules) ==
  FirstRead(files,
    <<plan.path>> \o IF rules.auto_rewrite_index
                       THEN <<AutoIndexCandidate(plan.path)>> ELSE << >>,
    plan.access)

Response(status, path, body, meta) ==
  [status |-> status, path |-> path, body |-> body, meta |-> meta]
Empty(status) == Response(status, NoPath, Absent, Absent)

LEMMA FileIsExpected ==
  ASSUME NEW files, NEW rules, Hit(files, rules) # NoPath,
         Reading(files, Hit(files, rules), plan.access) = "file"
  PROVE  LET hit == Hit(files, rules)
             file == FileAt(files, hit)
             meta == NamedAt(files, hit) IN
         IF ~plan.params THEN Response(plan.status, hit, file, meta) \in Expected(files, rules)
         ELSE IF NamedAt(Templates(files), hit) = Absent
           THEN Response(415, hit, Absent, meta) \in Expected(files, rules)
         ELSE /\ Response(plan.status, hit, file, meta) \in Expected(files, rules)
              /\ Response(502, hit, Absent, meta) \in Expected(files, rules)
<1>1. FileAt(files, Hit(files, rules)) # Absent
  BY DEF Reading
<1> QED
  BY <1>1 DEF Hit, Expected, Response

LEMMA ErrorIsExpected ==
  ASSUME NEW files, NEW rules, Hit(files, rules) # NoPath,
         Reading(files, Hit(files, rules), plan.access) = "error"
  PROVE  Empty(500) \in Expected(files, rules)
BY DEF Hit, Expected, Response, Empty

LEMMA NotFoundIsExpected ==
  ASSUME NEW files, NEW rules, Hit(files, rules) = NoPath,
         plan.miss = "not_found" \/
           (rules.missing.action # "redirect" /\ PagesOf(rules) = {})
  PROVE  Empty(404) \in Expected(files, rules)
BY DEF Hit, Expected, Response, Empty, PagesOf

LEMMA RedirectIsExpected ==
  ASSUME NEW files, NEW rules, Hit(files, rules) = NoPath,
         plan.miss # "not_found", rules.missing.action = "redirect",
         NEW to \in rules.missing.to, NEW status \in rules.missing.status
  PROVE  Response(status, to, Absent, Absent) \in Expected(files, rules)
BY DEF Hit, Expected, Response

LEMMA PageIsExpected ==
  ASSUME NEW files, NEW rules, Hit(files, rules) = NoPath,
         plan.miss # "not_found", rules.missing.action # "redirect",
         NEW page, PagesOf(rules) = {page}
  PROVE  LET reading == Reading(files, page, "public")
             file == FileAt(files, page)
             meta == NamedAt(files, page)
             status == IF rules.missing.action = "serve" THEN 200 ELSE 404 IN
         /\ reading = "nothing" => Empty(404) \in Expected(files, rules)
         /\ reading = "error" => Empty(500) \in Expected(files, rules)
         /\ reading = "file" => Response(status, page, file, meta) \in Expected(files, rules)
<1>1. (CHOOSE p \in PagesOf(rules) : TRUE) = page /\ PagesOf(rules) # {}
  OBVIOUS
<1> QED
  BY <1>1 DEF Hit, Expected, Response, Empty, PagesOf

(* An accepted configuration has at most one page for what is missing.      *)
LEMMA OnePage ==
  ASSUME NEW c \in AcceptedConfigs, NEW page \in PagesOf(Rules[c])
  PROVE  PagesOf(Rules[c]) = {page} /\ page \in Asked
<1>1. c \in Contents \cup {DefaultConfig} /\ c \notin BadConfigs
  BY ConfigExists DEF AcceptedConfigs
<1>2. c \in DOMAIN Rules
  BY <1>1, ServingAssumption
<1>3. Rules[c].missing.page = {} \/ Rules[c].missing.path = {}
  <2>1. CASE c = DefaultConfig
    BY <2>1, ServingAssumption DEF DefaultEdgeConfig
  <2>2. CASE c # DefaultConfig
    <3>1. ValidMissing(Rules[c].missing)
      BY <1>1, <2>2, ServingAssumption DEF ValidEdgeConfig
    <3>2. Rules[c].missing.page = Rules[c].missing["page"]
          /\ Rules[c].missing.path = Rules[c].missing["path"]
      OBVIOUS
    <3> QED
      BY <3>1, <3>2 DEF ValidMissing
  <2> QED
    BY <2>1, <2>2
<1>4. \A x, y \in PagesOf(Rules[c]) : x = y
  BY <1>2, <1>3, ServingAssumption DEF PagesOf
<1>5. page \in Asked
  BY <1>2 DEF Asked, PagesOf
<1> QED
  BY <1>4, <1>5

------------------------------------------------------------------------------
(* Where the search for an object has come to, when the files stay: at the  *)
(* path of the plan, at its candidate, or at the page for what is missing;  *)
(* what was looked at before holds nothing.                                *)
Access(r, pl) == IF r.missing THEN "public" ELSE pl.access

NothingPlanned(pl, rules, files) ==
  /\ Reading(files, pl.path, pl.access) = "nothing"
  /\ rules.auto_rewrite_index =>
       Reading(files, AutoIndexCandidate(pl.path), pl.access) = "nothing"

AtPath(r, pl, rules) ==
  ~r.missing /\ r.status = pl.status /\ r.path = pl.path /\ r.retry = rules.auto_rewrite_index

AtCandidate(r, pl, rules, files) ==
  /\ ~r.missing /\ r.status = pl.status
  /\ Reading(files, pl.path, pl.access) = "nothing"
  /\ rules.auto_rewrite_index /\ ~r.retry
  /\ r.path = AutoIndexCandidate(pl.path)

AtPage(r, pl, rules, files) ==
  /\ r.missing /\ ~r.retry
  /\ NothingPlanned(pl, rules, files)
  /\ pl.miss # "not_found"
  /\ rules.missing.action # "redirect"
  /\ r.path \in PagesOf(rules)
  /\ r.status = IF rules.missing.action = "serve" THEN 200 ELSE 404

Looking(r, pl, files) ==
  /\ pl.path \in FirstAsked
  /\ \/ AtPath(r, pl, Rules[r.config])
     \/ AtCandidate(r, pl, Rules[r.config], files)
     \/ AtPage(r, pl, Rules[r.config], files)

AnswerInv(r, pl, files) ==
  /\ r.step \in {"stat", "read", "sidecar", "render"} => Looking(r, pl, files)
  /\ r.step = "read" =>
       /\ ~(Place(r.path).reserved /\ Access(r, pl) = "public")
       /\ ~DirectoryAt(files, r.path)
  /\ r.step \in {"sidecar", "render"} =>
       Reading(files, r.path, Access(r, pl)) = "file" /\ r.body = FileAt(files, r.path)
  /\ r.step = "render" => pl.params /\ ~r.missing /\ r.meta = NamedAt(files, r.path)

LEMMA NothingPlannedNoHit ==
  ASSUME NEW files, NEW c \in AcceptedConfigs, NothingPlanned(plan, Rules[c], files)
  PROVE  Hit(files, Rules[c]) = NoPath
<1>1. Rules[c].auto_rewrite_index \in BOOLEAN
  BY AcceptedRules DEF EdgeConfigs
<1> DEFINE auto == Rules[c].auto_rewrite_index
<1>2. Reading(files, plan.path, plan.access) = "nothing"
      /\ (auto => Reading(files, AutoIndexCandidate(plan.path), plan.access) = "nothing")
  BY DEF NothingPlanned
<1> HIDE DEF auto
<1> QED
  BY <1>1, <1>2, FirstReadIs DEF auto, Hit

(* What is found is what is expected to be found first.                    *)
LEMMA FoundIsHit ==
  ASSUME NEW files, NEW c \in AcceptedConfigs, request.config = c,
         Looking(request, plan, files),
         Reading(files, request.path, Access(request, plan)) # "nothing"
  PROVE  /\ ~request.missing =>
              /\ Hit(files, Rules[c]) = request.path /\ request.path # NoPath
              /\ Access(request, plan) = plan.access /\ request.status = plan.status
         /\ request.missing =>
              /\ Hit(files, Rules[c]) = NoPath /\ plan.miss # "not_found"
              /\ Rules[c].missing.action # "redirect"
              /\ PagesOf(Rules[c]) = {request.path}
              /\ Access(request, plan) = "public"
              /\ request.status = IF Rules[c].missing.action = "serve" THEN 200 ELSE 404
<1> DEFINE auto == Rules[c].auto_rewrite_index
           candidate == AutoIndexCandidate(plan.path)
<1>1. auto \in BOOLEAN
  BY AcceptedRules DEF EdgeConfigs
<1>2. plan.path \in Asked /\ candidate \in Asked
  BY DEF Looking, FirstAsked, Asked
<1>3. Hit(files, Rules[c])
        = FirstRead(files, <<plan.path>> \o IF auto THEN <<candidate>> ELSE << >>, plan.access)
  BY DEF Hit
<1> HIDE DEF auto, candidate
<1>4. CASE AtPath(request, plan, Rules[c])
  <2>1. ~request.missing /\ request.path = plan.path /\ Access(request, plan) = plan.access
        /\ request.status = plan.status
    BY <1>4 DEF AtPath, Access
  <2>2. Hit(files, Rules[c]) = request.path
    <3> DEFINE hit == FirstRead(files, <<plan.path>> \o IF auto THEN <<candidate>> ELSE << >>,
                                plan.access)
    <3>1. Reading(files, plan.path, plan.access) # "nothing" => hit = plan.path
      BY <1>1, FirstReadIs
    <3> QED
      BY <1>3, <2>1, <3>1
  <2> QED
    BY <1>2, <2>1, <2>2, ReadPathIsSome
<1>5. CASE AtCandidate(request, plan, Rules[c], files)
  <2>1. ~request.missing /\ request.path = candidate /\ Access(request, plan) = plan.access
        /\ request.status = plan.status /\ auto /\ Reading(files, plan.path, plan.access) = "nothing"
    BY <1>5 DEF AtCandidate, Access, auto, candidate
  <2>2. Hit(files, Rules[c]) = request.path
    <3> DEFINE hit == FirstRead(files, <<plan.path>> \o IF auto THEN <<candidate>> ELSE << >>,
                                plan.access)
    <3>1. /\ Reading(files, plan.path, plan.access) = "nothing"
          /\ Reading(files, candidate, plan.access) # "nothing"
      BY <2>1
    <3>2. FirstRead(files, <<plan.path>> \o <<candidate>>, plan.access) = candidate
      BY <3>1, SecondRead
    <3>3. hit = candidate
      BY <2>1, <3>2
    <3> QED
      BY <1>3, <2>1, <3>3
  <2> QED
    BY <1>2, <2>1, <2>2, ReadPathIsSome
<1>6. CASE AtPage(request, plan, Rules[c], files)
  BY <1>6, NothingPlannedNoHit, OnePage DEF AtPage, Access
<1> QED
  BY <1>4, <1>5, <1>6 DEF Looking

LEMMA LookedAtAsked ==
  ASSUME NEW files, NEW c \in AcceptedConfigs, NEW r, r.config = c, NEW pl, Looking(r, pl, files)
  PROVE  r.path \in Asked
<1>1. pl.path \in Asked /\ AutoIndexCandidate(pl.path) \in Asked
  BY DEF Looking, FirstAsked, Asked
<1> QED
  BY <1>1, OnePage DEF Looking, AtPath, AtCandidate, AtPage

LEMMA NotServedGoesOn ==
  ASSUME RequestInv, request.step \in {"stat", "read"}, NEW files,
         AnswerInv(request, plan, files),
         Reading(files, request.path, Access(request, plan)) = "nothing",
         NotServed
  PROVE  /\ request'.step \in {"stat", "idle"}
         /\ AnswerInv(request', plan, files)
         /\ request'.step = "idle" => answer' \in Expected(files, Rules[request.config])
<1> DEFINE c == request.config
           rules == Rules[c]
<1>1. c \in AcceptedConfigs /\ Looking(request, plan, files)
  BY DEF RequestInv, AnswerInv
<1>2. rules.auto_rewrite_index \in BOOLEAN
  BY <1>1, AcceptedRules DEF EdgeConfigs
<1>3. ASSUME ~request.retry, ~request.missing
      PROVE  NothingPlanned(plan, rules, files)
  BY <1>1, <1>2, <1>3 DEF Looking, AtPath, AtCandidate, AtPage, NothingPlanned, Access
<1>4. ASSUME NEW step \in {"stat", "idle"}, request'.step = step,
             step = "stat" => Looking(request', plan, files)
      PROVE  request'.step \in {"stat", "idle"} /\ AnswerInv(request', plan, files)
  BY <1>4 DEF AnswerInv
<1>5. Idle.step = "idle"
  BY DEF Idle
<1>6. CASE request.retry
  <2>1. request' = [request EXCEPT !.step = "stat", !.path = AutoIndexCandidate(@), !.retry = FALSE]
    BY <1>6 DEF NotServed
  <2>2. AtPath(request, plan, rules)
    BY <1>1, <1>6 DEF Looking, AtCandidate, AtPage
  <2>3. /\ request'.step = "stat" /\ request'.config = c /\ ~request'.retry
        /\ request'.path = AutoIndexCandidate(plan.path)
        /\ request'.missing = request.missing /\ request'.status = request.status
    BY <2>1, <2>2 DEF RequestInv, Idle, AtPath
  <2>4. AtCandidate(request', plan, rules, files)
    BY <1>6, <2>2, <2>3 DEF AtPath, AtCandidate, Access
  <2>5. Looking(request', plan, files)
    BY <1>1, <2>3, <2>4 DEF Looking
  <2> QED
    BY <1>4, <2>3, <2>5
<1>7. CASE ~request.retry /\ request.missing
  <2>1. ReplyEmpty(404)
    BY <1>7 DEF NotServed
  <2>2. AtPage(request, plan, rules, files)
    BY <1>1, <1>7 DEF Looking, AtPath, AtCandidate
  <2>3. Empty(404) \in Expected(files, rules)
    BY <1>1, <2>2, OnePage, NothingPlannedNoHit, PageIsExpected DEF AtPage, Access
  <2> QED
    BY <1>4, <1>5, <2>1, <2>3 DEF ReplyEmpty, Reply, Empty, Response
<1>8. CASE ~request.retry /\ ~request.missing
  <2>1. NothingPlanned(plan, rules, files) /\ Hit(files, rules) = NoPath
    BY <1>1, <1>3, <1>8, NothingPlannedNoHit
  <2>2. CASE plan.miss = "not_found"
    <3>1. ReplyEmpty(404) /\ Empty(404) \in Expected(files, rules)
      BY <1>8, <2>1, <2>2, NotFoundIsExpected DEF NotServed
    <3> QED
      BY <1>4, <1>5, <3>1 DEF ReplyEmpty, Reply, Empty, Response
  <2>3. CASE plan.miss # "not_found"
    <3>1. HandleMissing(rules.missing)
      BY <1>8, <2>3 DEF NotServed, RulesOf
    <3>2. CASE rules.missing.action = "redirect"
      <4>1. PICK to \in rules.missing.to, status \in rules.missing.status : Redirect(status, to)
        BY <3>1, <3>2 DEF HandleMissing
      <4>2. Response(status, to, Absent, Absent) \in Expected(files, rules)
        BY <2>1, <2>3, <3>2, RedirectIsExpected
      <4> QED
        BY <1>4, <1>5, <4>1, <4>2 DEF Redirect, Reply, Response
    <3>3. CASE rules.missing.action # "redirect" /\ PagesOf(rules) = {}
      <4>1. ReplyEmpty(404) /\ Empty(404) \in Expected(files, rules)
        BY <2>1, <3>1, <3>3, NotFoundIsExpected DEF HandleMissing, PagesOf
      <4> QED
        BY <1>4, <1>5, <4>1 DEF ReplyEmpty, Reply, Empty, Response
    <3>4. CASE rules.missing.action # "redirect" /\ PagesOf(rules) # {}
      <4> DEFINE status == IF rules.missing.action = "serve" THEN 200 ELSE 404
      <4>1. PICK page \in PagesOf(rules) : ReadMissing(page, status)
        BY <3>1, <3>4 DEF HandleMissing, PagesOf
      <4>2. /\ request'.step = "stat" /\ request'.config = c /\ ~request'.retry
            /\ request'.path = page /\ request'.missing /\ request'.status = status
        BY <4>1 DEF ReadMissing, RequestInv, Idle
      <4>3. AtPage(request', plan, rules, files)
        BY <2>1, <2>3, <3>4, <4>2 DEF AtPage
      <4>4. Looking(request', plan, files)
        BY <1>1, <4>2, <4>3 DEF Looking
      <4> QED
        BY <1>4, <4>2, <4>4
    <3> QED
      BY <3>2, <3>3, <3>4
  <2> QED
    BY <2>2, <2>3
<1> QED
  BY <1>6, <1>7, <1>8

(* What a step of the search does with AnswerInv, by the step it leads to. *)
AtEdge(r, pl) == r.step = "edge" => pl = NoPlan /\ ~r.missing

Answered(r, pl, files) ==
  /\ AtEdge(request', plan')
  /\ AnswerInv(request', plan', files)
  /\ request' = Idle => pl = NoPlan \/ answer' \in Expected(files, Rules[r.config])

LEMMA RepliesEnd ==
  ASSUME NEW files, NEW status, NEW path, NEW body, NEW meta, Reply(status, path, body, meta),
         \/ plan = NoPlan
         \/ Response(status, path, body, meta) \in Expected(files, Rules[request.config])
  PROVE  Answered(request, plan, files)
BY DEF Reply, Response, Answered, AtEdge, AnswerInv, Idle

LEMMA ServeStaticAnswers ==
  ASSUME RequestInv, request.step = "edge", AtEdge(request, plan), NEW files,
         NEW p \in FirstAsked, NEW access, NEW params, NEW miss, NEW status,
         ServeStatic(p, access, params, miss, status)
  PROVE  Answered(request, plan, files)
<1>1. /\ request'.step = "stat" /\ request'.path = p /\ request'.config = request.config
      /\ request'.retry = Rules[request.config].auto_rewrite_index
      /\ request'.status = status /\ request'.missing = request.missing
  BY DEF ServeStatic, RulesOf, RequestInv, Idle
<1>2. plan'.path = p /\ plan'.status = status
  BY DEF ServeStatic
<1>3. AtPath(request', plan', Rules[request'.config])
  BY <1>1, <1>2 DEF AtPath, AtEdge
<1>4. Looking(request', plan', files)
  BY <1>2, <1>3 DEF Looking
<1> QED
  BY <1>1, <1>4 DEF Answered, AtEdge, AnswerInv

LEMMA TargetIsAsked ==
  ASSUME RequestInv, request.step = "edge"
  PROVE  Target \in FirstAsked
<1> DEFINE c == request.config
           url == request.url
           d == [config |-> c, url |-> url, target |-> RequestTarget(Rules[c], url.path),
                 redirect |-> FindRedirect(Rules[c], url.path, url.query)]
<1>1. c \in DOMAIN Rules /\ url \in Urls
  BY AcceptedRules DEF RequestInv
<1>2. d \in Decisions /\ d.config = c /\ d.url = url
  BY <1>1 DEF Decisions
<1>3. Decision(c, url) \in Decisions
  BY <1>2 DEF Decision
<1> QED
  BY <1>3 DEF Target, FirstAsked

LEMMA EdgeAnswers ==
  ASSUME RequestInv, AtEdge(request, plan), NEW files,
         EdgeFails \/ EdgeContinues \/ EdgeResponds \/ EdgeServesFile \/ EdgeRendersTarget \/ Route
  PROVE  Answered(request, plan, files)
<1>1. request.step = "edge" /\ plan = NoPlan /\ ~request.missing
  BY DEF EdgeFails, EdgeContinues, EdgeResponds, EdgeServesFile, EdgeRendersTarget, Route,
         HookIsNext, AtEdge
<1>2. \A status, path, body, meta :
        Reply(status, path, body, meta) => Answered(request, plan, files)
  BY <1>1, RepliesEnd
<1>3. \A p \in FirstAsked : \A access, params, miss, status :
        ServeStatic(p, access, params, miss, status) => Answered(request, plan, files)
  BY <1>1, ServeStaticAnswers
<1>4. Target \in FirstAsked /\ HookFiles \subseteq FirstAsked
  BY <1>1, TargetIsAsked DEF FirstAsked
<1>5. CASE EdgeFails \/ EdgeResponds
  BY <1>2, <1>5 DEF EdgeFails, EdgeResponds, ReplyEmpty
<1>6. CASE EdgeContinues
  <2>1. request'.step = "edge" /\ request'.missing = request.missing /\ plan' = plan
    BY <1>1, <1>6 DEF EdgeContinues, RequestInv, Idle
  <2>2. request' # Idle
    BY <2>1 DEF Idle
  <2> QED
    BY <1>1, <2>1, <2>2 DEF Answered, AtEdge, AnswerInv
<1>7. CASE EdgeServesFile \/ EdgeRendersTarget
  BY <1>3, <1>4, <1>7 DEF EdgeServesFile, EdgeRendersTarget
<1>8. CASE Route
  BY <1>2, <1>3, <1>4, <1>8 DEF Route, Redirect
<1> QED
  BY <1>5, <1>6, <1>7, <1>8

LEMMA NotServedAnswers ==
  ASSUME RequestInv, request.step \in {"stat", "read"}, NEW files,
         AnswerInv(request, plan, files),
         Reading(files, request.path, Access(request, plan)) = "nothing",
         NotServed, UNCHANGED plan
  PROVE  Answered(request, plan, files)
<1>1. /\ request'.step \in {"stat", "idle"}
      /\ AnswerInv(request', plan, files)
      /\ request'.step = "idle" => answer' \in Expected(files, Rules[request.config])
  BY NotServedGoesOn
<1> QED
  BY <1>1 DEF Answered, AtEdge, Idle

LEMMA StatAnswers ==
  ASSUME RequestInv, LiveIsTree, Stat, AnswerInv(request, plan, Live)
  PROVE  Answered(request, plan, Live)
<1> DEFINE access == Access(request, plan)
           refused == \/ Place(request.path).reserved /\ access = "public"
                      \/ ~Place(request.path).valid
                      \/ DirectoryAt(Live, request.path)
<1>1. request.step = "stat" /\ Looking(request, plan, Live)
      /\ request.config \in AcceptedConfigs /\ plan' = plan
  BY DEF Stat, AnswerInv, RequestInv
<1>2. request.path \in Asked
  BY <1>1, LookedAtAsked
<1>3. refused <=> (\/ Denied(request.path) \/ ~Place(request.path).valid
                   \/ DirectoryAt(Live, request.path))
  BY DEF Denied, Access
<1>4. CASE refused
  <2>1. Reading(Live, request.path, access) = "nothing"
    BY <1>2, <1>4, RefusedIsNothing DEF LiveIsTree
  <2>2. NotServed
    BY <1>3, <1>4 DEF Stat
  <2> QED
    BY <1>1, <2>1, <2>2, NotServedAnswers
<1>5. CASE ~refused
  <2>1. request' = [request EXCEPT !.step = "read"]
    BY <1>3, <1>5 DEF Stat
  <2>2. /\ request'.step = "read" /\ request'.path = request.path
        /\ request'.config = request.config /\ request'.missing = request.missing
        /\ request'.status = request.status /\ request'.retry = request.retry
    BY <2>1 DEF RequestInv, Idle
  <2>3. Looking(request', plan', Live) /\ Access(request', plan') = access
    BY <1>1, <2>2 DEF Looking, AtPath, AtCandidate, AtPage, Access
  <2>4. request' # Idle
    BY <2>2 DEF Idle
  <2> QED
    BY <1>5, <2>2, <2>3, <2>4 DEF Answered, AtEdge, AnswerInv
<1> QED
  BY <1>4, <1>5

LEMMA ReadBodyAnswers ==
  ASSUME RequestInv, ReadBody, AnswerInv(request, plan, Live)
  PROVE  Answered(request, plan, Live)
<1> DEFINE c == request.config
           file == FileAt(Live, request.path)
           reading == Reading(Live, request.path, Access(request, plan))
<1>1. /\ request.step = "read" /\ Looking(request, plan, Live)
      /\ c \in AcceptedConfigs /\ plan' = plan
      /\ ~(Access(request, plan) = "public" /\ Place(request.path).reserved)
      /\ ~DirectoryAt(Live, request.path)
  BY DEF ReadBody, AnswerInv, RequestInv
<1>2. reading = IF file # Absent THEN "file"
                ELSE IF BelowFile(Live, request.path) THEN "error" ELSE "nothing"
  BY <1>1 DEF Reading
<1>3. CASE file # Absent
  <2>1. request' = [request EXCEPT !.step = "sidecar", !.body = file]
    BY <1>3 DEF ReadBody
  <2>2. /\ request'.step = "sidecar" /\ request'.path = request.path /\ request'.body = file
        /\ request'.config = request.config /\ request'.missing = request.missing
        /\ request'.status = request.status /\ request'.retry = request.retry
    BY <2>1 DEF RequestInv, Idle
  <2>3. Looking(request', plan', Live) /\ Access(request', plan') = Access(request, plan)
    BY <1>1, <2>2 DEF Looking, AtPath, AtCandidate, AtPage, Access
  <2>4. request' # Idle
    BY <2>2 DEF Idle
  <2> QED
    BY <1>2, <1>3, <2>2, <2>3, <2>4 DEF Answered, AtEdge, AnswerInv
<1>4. CASE file = Absent /\ BelowFile(Live, request.path)
  <2>1. ReplyEmpty(500)
    BY <1>4 DEF ReadBody
  <2>2. reading = "error"
    BY <1>2, <1>4
  <2>3. Empty(500) \in Expected(Live, Rules[c])
    BY <1>1, <2>2, FoundIsHit, ErrorIsExpected, PageIsExpected
  <2> QED
    BY <2>1, <2>3, RepliesEnd DEF ReplyEmpty, Empty
<1>5. CASE file = Absent /\ ~BelowFile(Live, request.path)
  <2>1. NotServed
    BY <1>1, <1>5 DEF ReadBody
  <2> QED
    BY <1>1, <1>2, <1>5, <2>1, NotServedAnswers
<1> QED
  BY <1>3, <1>4, <1>5

LEMMA ReadSidecarAnswers ==
  ASSUME RequestInv, ReadSidecar, AnswerInv(request, plan, Live)
  PROVE  Answered(request, plan, Live)
<1> DEFINE c == request.config
           file == FileAt(Live, request.path)
           meta == NamedAt(Live, request.path)
<1>1. /\ request.step = "sidecar" /\ Looking(request, plan, Live)
      /\ c \in AcceptedConfigs /\ plan' = plan /\ request.body = file
      /\ Reading(Live, request.path, Access(request, plan)) = "file"
  BY DEF ReadSidecar, AnswerInv, RequestInv
<1>2. CASE plan.params /\ ~request.missing
  <2>1. request' = [request EXCEPT !.step = "render", !.meta = meta]
    BY <1>2 DEF ReadSidecar
  <2>2. /\ request'.step = "render" /\ request'.path = request.path
        /\ request'.body = request.body /\ request'.meta = meta
        /\ request'.config = request.config /\ request'.missing = request.missing
        /\ request'.status = request.status /\ request'.retry = request.retry
    BY <2>1 DEF RequestInv, Idle
  <2>3. Looking(request', plan', Live) /\ Access(request', plan') = Access(request, plan)
    BY <1>1, <2>2 DEF Looking, AtPath, AtCandidate, AtPage, Access
  <2>4. request' # Idle
    BY <2>2 DEF Idle
  <2> QED
    BY <1>1, <1>2, <2>2, <2>3, <2>4 DEF Answered, AtEdge, AnswerInv
<1>3. CASE ~(plan.params /\ ~request.missing)
  <2>1. Reply(request.status, request.path, request.body, meta)
    BY <1>3 DEF ReadSidecar
  <2>2. Response(request.status, request.path, file, meta) \in Expected(Live, Rules[c])
    <3>1. CASE request.missing
      <4>1. /\ Hit(Live, Rules[c]) = NoPath /\ plan.miss # "not_found"
            /\ Rules[c].missing.action # "redirect" /\ PagesOf(Rules[c]) = {request.path}
            /\ Reading(Live, request.path, "public") = "file"
            /\ request.status = IF Rules[c].missing.action = "serve" THEN 200 ELSE 404
        BY <1>1, <3>1, FoundIsHit
      <4> QED
        BY <4>1, PageIsExpected
    <3>2. CASE ~request.missing
      <4>1. /\ Hit(Live, Rules[c]) = request.path /\ request.path # NoPath
            /\ Reading(Live, request.path, plan.access) = "file" /\ request.status = plan.status
        BY <1>1, <3>2, FoundIsHit
      <4> QED
        BY <1>3, <3>2, <4>1, FileIsExpected
    <3> QED
      BY <3>1, <3>2
  <2> QED
    BY <1>1, <2>1, <2>2, RepliesEnd
<1> QED
  BY <1>2, <1>3

(* A template is the file it was compiled from.                            *)
LEMMA TemplateIsFile ==
  ASSUME NEW files \in Files, NEW path \in Asked
  PROVE  NamedAt(Templates(files), path) \in {Absent, FileAt(files, path)}
<1>1. CASE Place(path).named = {}
  BY <1>1 DEF NamedAt, OneOf
<1>2. CASE Place(path).named # {}
  <2> DEFINE p == CHOOSE p \in Place(path).keys : TRUE
  <2>1. p \in Paths /\ Place(path).keys # {} /\ Place(path).named = Place(path).keys
    BY <1>2, PlaceIs, NamedIsRead
  <2>2. NamedAt(Templates(files), path) = TemplateOf(files, p) /\ FileAt(files, path) = files[p]
    BY <2>1 DEF NamedAt, FileAt, OneOf, Templates
  <2> QED
    BY <2>2 DEF TemplateOf
<1> QED
  BY <1>1, <1>2

LEMMA RenderAnswers ==
  ASSUME RequestInv, RenderTemplate, Live \in Files, registry = Templates(Live),
         AnswerInv(request, plan, Live)
  PROVE  Answered(request, plan, Live)
<1> DEFINE c == request.config
           file == FileAt(Live, request.path)
           meta == NamedAt(Live, request.path)
           template == NamedAt(Templates(Live), request.path)
<1>1. /\ request.step = "render" /\ Looking(request, plan, Live)
      /\ c \in AcceptedConfigs /\ request.body = file /\ request.meta = meta
      /\ plan.params /\ ~request.missing
      /\ Reading(Live, request.path, Access(request, plan)) = "file"
  BY DEF RenderTemplate, AnswerInv, RequestInv
<1>2. /\ Hit(Live, Rules[c]) = request.path /\ request.path # NoPath
      /\ Reading(Live, request.path, plan.access) = "file" /\ request.status = plan.status
  BY <1>1, FoundIsHit
<1>3. IF template = Absent
        THEN Response(415, request.path, Absent, meta) \in Expected(Live, Rules[c])
        ELSE /\ Response(plan.status, request.path, file, meta) \in Expected(Live, Rules[c])
             /\ Response(502, request.path, Absent, meta) \in Expected(Live, Rules[c])
  BY <1>1, <1>2, FileIsExpected
<1>4. request.path \in Asked
  BY <1>1, LookedAtAsked
<1>5. template = Absent \/ template = file
  BY <1>4, TemplateIsFile
<1>6. IF template = Absent
        THEN Reply(415, request.path, Absent, meta)
        ELSE \/ Reply(plan.status, request.path, template, meta)
             \/ Reply(502, request.path, Absent, meta)
  BY <1>1, <1>2 DEF RenderTemplate
<1> HIDE DEF template, file, meta
<1> QED
  BY <1>3, <1>5, <1>6, RepliesEnd

------------------------------------------------------------------------------
(* A request that no activation has overlapped holds the configuration of  *)
(* the files that are live and has searched these files.                   *)
SearchInv ==
  request.step # "idle" =>
    /\ Listening
    /\ AtEdge(request, plan)
    /\ ~overlapped =>
         request.config = EdgeConfig(Live) /\ AnswerInv(request, plan, Live)

AnswersInv == IInv /\ ServesAnIndex /\ ServedInv /\ QuietInv /\ SearchInv

LEMMA BenignIsNotCancelled == ASSUME BenignFaults PROVE NoCancellation
BY DEF BenignFaults, NoCancellation

(* What the live files are to a request that was not overlapped.            *)
LEMMA HandledIsAnswered ==
  ASSUME AnswersInv, LiveIsTree, HandleRequest, ~ReadFails, ~overlapped, request.step # "idle"
  PROVE  Answered(request, plan, Live)
<1>1. RequestInv /\ AtEdge(request, plan) /\ AnswerInv(request, plan, Live)
  BY DEF AnswersInv, ServedInv, SearchInv
<1>2. registry = Templates(Live) /\ Live \in Files
  BY QuietGeneration DEF AnswersInv, QuietInv, SearchInv
<1> QED
  BY <1>1, <1>2, EdgeAnswers, StatAnswers, ReadBodyAnswers, ReadSidecarAnswers, RenderAnswers
  DEF HandleRequest

LEMMA HandleRequestAtEdge ==
  ASSUME RequestInv, HandleRequest, AtEdge(request, plan)
  PROVE  AtEdge(request', plan')
<1>1. \A status, path, body, meta :
        Reply(status, path, body, meta) => request'.step # "edge"
  BY DEF Reply, Idle
<1>2. \A p, access, params, miss, status :
        ServeStatic(p, access, params, miss, status) => request'.step # "edge"
  BY DEF ServeStatic, RequestInv, Idle
<1>3. \A page, status : ReadMissing(page, status) => request'.step # "edge"
  BY DEF ReadMissing, RequestInv, Idle
<1>4. CASE EdgeContinues
  BY <1>4 DEF EdgeContinues, HookIsNext, AtEdge, RequestInv, Idle
<1>5. CASE EdgeFails \/ EdgeResponds \/ EdgeServesFile \/ EdgeRendersTarget \/ Route
  <2>1. CASE EdgeFails \/ EdgeResponds
    <3>1. \E status : ReplyEmpty(status)
      BY <2>1 DEF EdgeFails, EdgeResponds
    <3> QED
      BY <1>1, <3>1 DEF ReplyEmpty, AtEdge
  <2>2. CASE EdgeServesFile \/ EdgeRendersTarget
    <3>1. \E p, access, params, miss, status : ServeStatic(p, access, params, miss, status)
      BY <2>2 DEF EdgeServesFile, EdgeRendersTarget
    <3>2. request'.step # "edge"
      BY <1>2, <3>1
    <3> QED
      BY <3>2 DEF AtEdge
  <2>3. CASE Route
    BY <1>1, <1>2, <2>3 DEF Route, Redirect, AtEdge
  <2> QED
    BY <1>5, <2>1, <2>2, <2>3
<1>6. ASSUME NotServed PROVE request'.step # "edge"
  <2>1. CASE request.retry
    <3>1. request' = [request EXCEPT !.step = "stat", !.path = AutoIndexCandidate(@),
                                     !.retry = FALSE]
      BY <1>6, <2>1 DEF NotServed
    <3> QED
      BY <3>1 DEF RequestInv, Idle
  <2>2. CASE ~request.retry
    BY <1>1, <1>3, <1>6, <2>2 DEF NotServed, HandleMissing, ReplyEmpty, Redirect
  <2> QED
    BY <2>1, <2>2
<1>7. CASE Stat
  BY <1>6, <1>7 DEF Stat, AtEdge, RequestInv, Idle
<1>8. CASE ReadBody
  <2>1. ASSUME request' = [request EXCEPT !.step = "sidecar", !.body = FileAt(Live, request.path)]
        PROVE  request'.step # "edge"
    BY <2>1 DEF RequestInv, Idle
  <2>2. request'.step # "edge"
    BY <1>1, <1>6, <1>8, <2>1 DEF ReadBody, ReplyEmpty
  <2> QED
    BY <2>2 DEF AtEdge
<1>9. CASE ReadSidecar \/ RenderTemplate
  <2>1. ASSUME request' = [request EXCEPT !.step = "render", !.meta = NamedAt(Live, request.path)]
        PROVE  request'.step # "edge"
    BY <2>1 DEF RequestInv, Idle
  <2>2. CASE ReadSidecar
    BY <1>1, <2>1, <2>2 DEF ReadSidecar, AtEdge
  <2>3. CASE RenderTemplate
    BY <1>1, <2>3 DEF RenderTemplate, AtEdge
  <2> QED
    BY <1>9, <2>2, <2>3
<1>10. CASE ReadFails
  BY <1>1, <1>10 DEF ReadFails, ReplyEmpty, AtEdge
<1> QED
  BY <1>4, <1>5, <1>7, <1>8, <1>9, <1>10 DEF HandleRequest

LEMMA HandledNext ==
  ASSUME AnswersInv, LiveIsTree, HandleRequest, UNCHANGED vars, Observe
  PROVE  SearchInv'
<1>1. request.step # "idle" /\ request # Idle
  <2>1. request.step # "idle"
    BY DEF HandleRequest, EdgeFails, EdgeContinues, EdgeResponds, EdgeServesFile,
       EdgeRendersTarget, Route, Stat, ReadBody, ReadFails, ReadSidecar, RenderTemplate, HookIsNext
  <2>2. Idle.step = "idle"
    BY DEF Idle
  <2> QED
    BY <2>1, <2>2
<1>2. RequestInv /\ Kept /\ AtEdge(request, plan) /\ Listening
  BY <1>1, HandleRequestKeeps DEF AnswersInv, ServedInv, SearchInv
<1>3. Listening' /\ AtEdge(request', plan') /\ Live' = Live
  BY <1>2, HandleRequestAtEdge DEF vars, Listening, Live
<1>4. ASSUME ~overlapped', request'.step # "idle"
      PROVE  request'.config = EdgeConfig(Live) /\ AnswerInv(request', plan', Live)
  <2>1. ~overlapped
    BY <1>1, <1>4 DEF Observe
  <2>2. Answered(request, plan, Live) /\ request.config = EdgeConfig(Live)
    <3>1. ~ReadFails
      BY <1>4 DEF ReadFails, ReplyEmpty, Reply, Idle
    <3> QED
      BY <1>1, <2>1, <3>1, HandledIsAnswered DEF AnswersInv, SearchInv
  <2>3. request'.config = request.config
    BY <1>2, <1>4 DEF Kept, Idle
  <2> QED
    BY <2>2, <2>3 DEF Answered
<1>5. /\ AtEdge(request, plan)'
      /\ AnswerInv(request', plan', Live) => AnswerInv(request, plan, Live)'
  BY <1>3 DEF AtEdge, AnswerInv, Looking, AtPath, AtCandidate, AtPage, NothingPlanned,
     Reading, FileAt, NamedAt, OneOf, DirectoryAt, BelowFile, Access
<1> QED
  BY <1>3, <1>4, <1>5 DEF SearchInv

LEMMA AnswersNext ==
  ASSUME BenignFaults
  PROVE  AnswersInv /\ LiveIsTree /\ [ServingNext]_servingVars => AnswersInv'
<1> SUFFICES ASSUME AnswersInv, LiveIsTree, [ServingNext]_servingVars
             PROVE  AnswersInv'
  OBVIOUS
<1>1. [Next]_vars
  BY DEF ServingNext, OriginStep, servingVars, requestVars
<1>2. IInv'
  BY <1>1, NextIInv DEF AnswersInv
<1>3. ServesAnIndex' /\ ServedInv' /\ QuietInv'
  BY <1>1, ServesAnIndexNext, ServingNextInv, QuietNextInv, BenignIsNotCancelled
  DEF AnswersInv, ServedInv
<1>4. SearchInv'
  <2>1. CASE UNCHANGED servingVars
    BY <2>1 DEF servingVars, requestVars, vars, AnswersInv, SearchInv, Listening, Live, AtEdge,
       AnswerInv, Looking, AtPath, AtCandidate, AtPage, NothingPlanned, Reading, FileAt,
       NamedAt, OneOf, DirectoryAt, BelowFile, Access
  <2>2. CASE OtherMethod
    <3>1. request' = Idle
      BY <2>2 DEF OtherMethod, ReplyEmpty, Reply
    <3> QED
      BY <3>1 DEF SearchInv, Idle
  <2>3. ASSUME NEW url \in Urls, Arrive(url), UNCHANGED vars, Observe
        PROVE  SearchInv'
    <3>1. config # NoConfig /\ Listening
      BY <2>3, ListeningHasConfig DEF Arrive, AnswersInv, ServedInv
    <3>2. /\ request' = [Idle EXCEPT !.step = "edge", !.config = config, !.url = url, !.hook = 1]
          /\ plan' = NoPlan
      BY <2>3, <3>1 DEF Arrive
    <3>3. /\ request'.step = "edge" /\ ~request'.missing
          /\ request'.config = config
      BY <3>2 DEF Idle
    <3>4. Listening' /\ Live' = Live /\ Activating' = Activating
      BY <2>3, <3>1 DEF vars, Listening, Live, Activating, Between
    <3>5. ~overlapped' => config = EdgeConfig(Live)
      <4>1. ~overlapped' => ~Activating
        BY <2>3, <3>4 DEF Observe
      <4> QED
        BY <3>1, <4>1, QuietGeneration DEF AnswersInv
    <3> QED
      BY <3>2, <3>3, <3>4, <3>5 DEF SearchInv, AtEdge, AnswerInv
  <2>4. CASE HandleRequest /\ UNCHANGED vars /\ Observe
    BY <2>4, HandledNext
  <2>5. CASE OriginStep /\ Observe
    <3>1. CASE ~Listening'
      BY <2>5, <3>1 DEF OriginStep, SearchInv, Idle
    <3>2. CASE Listening'
      <4>1. request' = request /\ plan' = plan
        BY <2>5, <3>2 DEF OriginStep, requestVars
      <4> SUFFICES ASSUME request.step # "idle"
                   PROVE  SearchInv'
        BY <4>1 DEF SearchInv
      <4>2. AtEdge(request, plan)
        BY DEF AnswersInv, SearchInv
      <4>3. ASSUME ~overlapped'
            PROVE  /\ request.config = EdgeConfig(Live) /\ AnswerInv(request, plan, Live)
                   /\ Live' = Live
        <5>1. request # Idle /\ ~overlapped
          <6>1. request # Idle
            BY DEF Idle
          <6>2. overlapped' = (Activating' \/ (request # Idle /\ overlapped))
            BY <2>5 DEF Observe
          <6> QED
            BY <4>3, <6>1, <6>2
        <5>2. ~Activating
          BY <5>1 DEF AnswersInv, QuietInv
        <5> QED
          BY <1>1, <5>1, <5>2, MirrorChangesInActivation, BenignIsNotCancelled
          DEF AnswersInv, ServedInv, QuietInv, SearchInv
      <4> QED
        BY <3>2, <4>1, <4>2, <4>3 DEF SearchInv, AtEdge,
           AnswerInv, Looking, AtPath, AtCandidate, AtPage, NothingPlanned, Reading, FileAt,
           NamedAt, OneOf, DirectoryAt, BelowFile, Access
    <3> QED
      BY <3>1, <3>2
  <2> QED
    BY <2>1, <2>2, <2>3, <2>4, <2>5 DEF ServingNext, RequestStep
<1> QED
  BY <1>2, <1>3, <1>4 DEF AnswersInv

LEMMA AnswersInit == ServingInit => AnswersInv
<1> SUFFICES ASSUME ServingInit PROVE AnswersInv
  OBVIOUS
<1>1. IInv /\ ServedInv
  BY InitIInv, ServingInitInv DEF ServingInit
<1>2. ServesAnIndex /\ QuietInv /\ SearchInv
  BY DEF ServingInit, ServesAnIndex, QuietInv, SearchInv, Init, Activating, Between, Idle, Tasks
<1> QED
  BY <1>1, <1>2 DEF AnswersInv

(* What ends a request is a step of its handler.                           *)
LEMMA QuietReplies ==
  ASSUME AnswersInv, LiveIsTree, ServingNext, Replies, plan # NoPlan, ~overlapped, ~ReadFails
  PROVE  /\ request.step \in {"stat", "read", "sidecar", "render"}
         /\ answer' \in Expected(Live, Rules[request.config])
         /\ Live = index /\ request.config = EdgeConfig(Live)
<1>1. request # Idle /\ request' = Idle /\ Listening'
  BY DEF Replies
<1>2. ~OriginStep
  BY <1>1 DEF OriginStep, requestVars
<1>3. HandleRequest
  BY <1>1, <1>2 DEF ServingNext, RequestStep, OtherMethod, Arrive
<1>4. request.step \in {"edge", "stat", "read", "sidecar", "render"}
  BY <1>3 DEF HandleRequest, EdgeFails, EdgeContinues, EdgeResponds, EdgeServesFile,
     EdgeRendersTarget, Route, Stat, ReadBody, ReadFails, ReadSidecar, RenderTemplate, HookIsNext
<1>5. answer' \in Expected(Live, Rules[request.config])
  BY <1>1, <1>3, <1>4, HandledIsAnswered DEF Answered
<1>6. Live = index /\ request.config = EdgeConfig(Live)
  BY <1>4, QuietGeneration DEF AnswersInv, SearchInv, QuietInv
<1>7. request.step # "edge"
  BY <1>4 DEF AnswersInv, SearchInv, AtEdge
<1> QED
  BY <1>4, <1>5, <1>6, <1>7

(* As long as the live files are a tree, as those of a file system are, a  *)
(* request that no activation overlaps is answered from the active         *)
(* generation, unless an I/O error ends it: its rules and its body, and    *)
(* where the path is spelled as the key its metadata and its template, are *)
(* of one generation, for any rules, paths and refreshes around it.  What  *)
(* is a file in one generation may be a directory in the next.             *)
THEOREM QuietAnswers ==
  ASSUME BenignFaults
  PROVE  ServingSpec /\ []LiveIsTree => QuietAnswersAreOfTheGeneration
<1> DEFINE B == Replies /\ plan # NoPlan /\ ~overlapped /\ ~ReadFails =>
                  answer' \in Expected(index, RulesOf(EdgeConfig(index)))
<1>1. ServingInit => AnswersInv
  BY AnswersInit
<1>2. AnswersInv /\ LiveIsTree /\ [ServingNext]_servingVars => AnswersInv'
  BY AnswersNext
<1>3. AnswersInv /\ LiveIsTree /\ [ServingNext]_servingVars => [B]_servingVars
  BY QuietReplies DEF RulesOf
<1> QED
  BY <1>1, <1>2, <1>3, PTL DEF ServingSpec, QuietAnswersAreOfTheGeneration

(* Joining the sequences of a sequence from the first on.                  *)
Joins(f, seqs, n) ==
  f = [i \in 1 .. n |-> IF i = 1 THEN seqs[i] ELSE f[i - 1] \o seqs[i]]

LEMMA JoinsExist ==
  ASSUME NEW n \in Nat, NEW seqs
  PROVE  \E f : Joins(f, seqs, n)
<1> DEFINE bad == {k \in Nat : ~ \E f : Joins(f, seqs, k)}
<1>1. bad = {}
  <2> SUFFICES ASSUME bad # {} PROVE FALSE
    OBVIOUS
  <2>1. bad \in SUBSET Nat
    OBVIOUS
  <2>2. PICK k \in bad : \A j \in bad : k <= j
    <3> HIDE DEF bad
    <3> QED
      BY <2>1, LeastElement
  <2>3. k # 0
    <3>1. Joins([i \in 1 .. 0 |-> << >>], seqs, 0)
      BY DEF Joins
    <3> QED
      BY <2>2, <3>1
  <2>4. k - 1 \in Nat /\ k \in 1 .. k /\ ~(k <= k - 1)
    BY <2>1, <2>2, <2>3
  <2>5. PICK f : Joins(f, seqs, k - 1)
    BY <2>2, <2>4
  <2> DEFINE g == [i \in 1 .. k |-> IF i # k THEN f[i]
                                    ELSE IF i = 1 THEN seqs[i] ELSE f[i - 1] \o seqs[i]]
  <2>6. \A i \in 1 .. k : i # 1 => i - 1 \in 1 .. k /\ i - 1 # k /\ g[i - 1] = f[i - 1]
    BY <2>4
  <2>7. \A i \in 1 .. k : i # k => f[i] = IF i = 1 THEN seqs[i] ELSE f[i - 1] \o seqs[i]
    <3> TAKE i \in 1 .. k
    <3> HAVE i # k
    <3>1. i \in 1 .. (k - 1)
      BY <2>4
    <3> QED
      BY <2>5, <3>1 DEF Joins
  <2>8. \A i \in 1 .. k : g[i] = IF i = 1 THEN seqs[i] ELSE g[i - 1] \o seqs[i]
    BY <2>6, <2>7
  <2>9. Joins(g, seqs, k)
    <3> DEFINE h == [i \in 1 .. k |-> IF i = 1 THEN seqs[i] ELSE g[i - 1] \o seqs[i]]
    <3>1. g = h
      BY <2>8
    <3> QED
      BY <3>1 DEF Joins
  <2> QED
    BY <2>2, <2>9
<1> QED
  BY <1>1

LEMMA JoinsType ==
  ASSUME NEW S, NEW seqs \in Seq(Seq(S)), NEW f, Joins(f, seqs, Len(seqs))
  PROVE  \A i \in 1 .. Len(seqs) : f[i] \in Seq(S)
<1> DEFINE bad == {i \in 1 .. Len(seqs) : f[i] \notin Seq(S)}
<1> SUFFICES ASSUME bad # {} PROVE FALSE
  OBVIOUS
<1>1. Len(seqs) \in Nat /\ bad \in SUBSET Nat
  OBVIOUS
<1>2. PICK i \in bad : \A j \in bad : i <= j
  <2> HIDE DEF bad
  <2> QED
    BY <1>1, LeastElement
<1>3. seqs[i] \in Seq(S)
  BY <1>2, ElementOfSeq
<1>4. f[i] = IF i = 1 THEN seqs[i] ELSE f[i - 1] \o seqs[i]
  BY <1>2 DEF Joins
<1>5. i # 1 => f[i - 1] \in Seq(S)
  BY <1>1, <1>2
<1>6. f[i] \in Seq(S)
  BY <1>3, <1>4, <1>5, ConcatProperties
<1> QED
  BY <1>2, <1>6

LEMMA FlattenType ==
  ASSUME NEW S, NEW seqs \in Seq(Seq(S))
  PROVE  FlattenSeq(seqs) \in Seq(S)
<1>1. CASE Len(seqs) = 0
  <2>1. seqs = << >>
    BY <1>1, EmptySeq
  <2> QED
    BY <1>1, <2>1 DEF FlattenSeq
<1>2. CASE Len(seqs) # 0
  <2> DEFINE f == CHOOSE f : Joins(f, seqs, Len(seqs))
  <2>1. FlattenSeq(seqs) = f[Len(seqs)]
    BY <1>2 DEF FlattenSeq, Joins
  <2>2. Len(seqs) \in 1 .. Len(seqs)
    BY <1>2, LenProperties
  <2>3. Joins(f, seqs, Len(seqs))
    <3>1. Len(seqs) \in Nat
      OBVIOUS
    <3>2. \E g : Joins(g, seqs, Len(seqs))
      BY <3>1, JoinsExist
    <3> QED
      BY <3>2, Zenon
  <2> HIDE DEF f
  <2> QED
    BY <2>1, <2>2, <2>3, JoinsType
<1> QED
  BY <1>1, <1>2

LEMMA TrimmedText == ASSUME NEW text \in Texts PROVE TrimEnd(text) \in Texts
<1>1. CASE NotSlash(text) = {}
  BY <1>1 DEF TrimEnd, Texts
<1>2. CASE NotSlash(text) # {}
  <2>1. NotSlash(text) \in SUBSET (0 .. Len(text)) /\ Len(text) \in Nat
    BY LenProperties DEF NotSlash, Texts
  <2>2. \E m \in NotSlash(text) : \A k \in NotSlash(text) : k <= m
    BY <1>2, <2>1, GreatestElement
  <2>3. \E m \in NotSlash(text) : \A k \in NotSlash(text) : m >= k
    BY <2>1, <2>2
  <2>4. Max(NotSlash(text)) \in NotSlash(text)
    BY <2>3, Zenon DEF Max
  <2>5. Max(NotSlash(text)) \in 1 .. Len(text)
    BY <2>4, LenProperties DEF NotSlash, Texts
  <2>6. SubSeq(text, 1, Max(NotSlash(text))) \in Seq(Pieces)
    BY <2>5, SubSeqProperties DEF Texts
  <2> QED
    BY <1>2, <2>6 DEF TrimEnd, Texts
<1> QED
  BY <1>1, <1>2

LEMMA CandidateText ==
  ASSUME NEW text \in Texts
  PROVE  AutoIndexCandidate(text) \in Texts
<1>1. TrimEnd(text) \in Seq(Pieces) /\ <<Slash, IndexHtml>> \in Seq(Pieces)
  BY TrimmedText, TextAssumption DEF Texts
<1> QED
  BY <1>1, ConcatProperties DEF AutoIndexCandidate, Texts

(* What :splat stands for, and a target with it in place.                  *)
LEMMA SplatText ==
  ASSUME NEW pattern \in Texts, NEW path \in Texts, Matches(pattern, path)
  PROVE  SplatOf(pattern, path) \in Texts
<1>1. CASE pattern = path
  BY <1>1 DEF SplatOf, Texts
<1>2. CASE pattern # path
  <2>1. pattern # << >>
    BY <1>2 DEF Matches
  <2>2. Len(pattern) \in Nat \ {0} /\ Len(path) \in Nat
    BY <2>1, EmptySeq, LenProperties DEF Texts
  <2>3. SubSeq(path, Len(pattern), Len(path)) \in Seq(Pieces)
    BY <2>2, SubSeqProperties DEF Texts
  <2> QED
    BY <1>2, <2>3 DEF SplatOf, Texts
<1> QED
  BY <1>1, <1>2

LEMMA AppliedText ==
  ASSUME NEW target \in Texts, NEW splat \in Texts
  PROVE  ApplySplat(target, splat) \in Texts
<1> DEFINE pieces == [i \in DOMAIN target |-> IF target[i] = Splat THEN splat ELSE <<target[i]>>]
<1>1. DOMAIN target = 1 .. Len(target) /\ Len(target) \in Nat
  BY LenProperties DEF Texts
<1>2. ASSUME NEW i \in DOMAIN target
      PROVE  (IF target[i] = Splat THEN splat ELSE <<target[i]>>) \in Seq(Pieces)
  <2>1. target[i] \in Pieces
    BY <1>1, ElementOfSeq DEF Texts
  <2> QED
    BY <2>1 DEF Texts
<1>3. pieces \in [1 .. Len(target) -> Seq(Pieces)]
  BY <1>1, <1>2
<1>4. pieces \in Seq(Seq(Pieces))
  BY <1>1, <1>3
<1> QED
  BY <1>4, FlattenType DEF ApplySplat, Texts

LEMMA BestOutcomeText ==
  ASSUME NEW R, \A r \in R : r.from \in Texts /\ r.to \in Texts,
         NEW rules \in Seq(R), NEW path \in Texts, BestRule(rules, path) # 0
  PROVE  /\ BestRule(rules, path) \in DOMAIN rules
         /\ Outcome(rules[BestRule(rules, path)], path) \in Texts
<1> DEFINE b == BestRule(rules, path)
<1>1. b \in Matching(rules, path)
  BY BestRuleIsBest
<1>2. b \in DOMAIN rules /\ Matches(rules[b].from, path)
  BY <1>1 DEF Matching
<1>3. rules[b] \in R
  BY <1>2, ElementOfSeq
<1>4. SplatOf(rules[b].from, path) \in Texts
  BY <1>2, <1>3, SplatText
<1> QED
  BY <1>2, <1>3, <1>4, AppliedText DEF Outcome

(* What the rules make of a path is a path again.                          *)
LEMMA TargetText ==
  ASSUME NEW rules \in EdgeConfigs, NEW path \in Texts
  PROVE  RequestTarget(rules, path) \in Texts
<1>1. rules.rewrites \in Seq([from : Texts, to : Texts]) /\ rules.root_object \in Texts
  BY DEF EdgeConfigs
<1>2. ResolveRewrite(rules, path) \in Texts
  BY <1>1, BestOutcomeText DEF ResolveRewrite
<1>3. TrimEnd(ResolveRewrite(rules, path)) \o rules.root_object \in Texts
  BY <1>1, <1>2, TrimmedText, ConcatProperties DEF Texts
<1> QED
  BY <1>2, <1>3 DEF RequestTarget, ResolveRootObject

LEMMA LocationText ==
  ASSUME NEW rules \in EdgeConfigs, NEW path \in Texts, NEW query \in Texts,
         NEW redirect \in FindRedirect(rules, path, query)
  PROVE  redirect.location \in Texts
<1> DEFINE b == BestRule(rules.redirects, path)
           location == Outcome(rules.redirects[b], path)
           asked == IF query = << >> \/ Question \in ToSet(location) THEN << >>
                    ELSE <<Question>> \o query
           decision == [status |-> rules.redirects[b].status, location |-> location \o asked]
<1>1. FindRedirect(rules, path, query) = IF b = 0 THEN {} ELSE {decision}
  BY DEF FindRedirect
<1>2. b # 0 /\ redirect.location = location \o asked
  <2>1. decision.location = location \o asked
    OBVIOUS
  <2> HIDE DEF b, decision
  <2> QED
    BY <1>1, <2>1
<1>3. rules.redirects \in Seq([from : Texts, to : Texts, status : Nat])
  BY DEF EdgeConfigs
<1>4. location \in Texts
  BY <1>2, <1>3, BestOutcomeText
<1>5. asked \in Texts
  <2>1. <<Question>> \in Seq(Pieces) /\ << >> \in Seq(Pieces)
    BY TextAssumption
  <2>2. <<Question>> \o query \in Texts
    BY <2>1, ConcatProperties DEF Texts
  <2> QED
    BY <2>1, <2>2 DEF Texts
<1> QED
  BY <1>2, <1>4, <1>5, ConcatProperties DEF Texts

LEMMA AskedText == Asked \subseteq Texts /\ FirstAsked \subseteq Texts
<1>1. ASSUME NEW d \in Decisions PROVE d.target \in Texts
  <2>1. PICK c \in DOMAIN Rules, url \in Urls : d.target = RequestTarget(Rules[c], url.path)
    BY DEF Decisions
  <2>2. Rules[c] \in EdgeConfigs /\ url.path \in Texts
    BY <2>1, ServingAssumption
  <2> QED
    BY <2>1, <2>2, TargetText
<1>2. FirstAsked \subseteq Texts
  BY <1>1, ServingAssumption DEF FirstAsked
<1>3. ASSUME NEW c \in DOMAIN Rules
      PROVE  Rules[c].missing.page \cup Rules[c].missing.path \subseteq Texts
  <2>1. Rules[c].missing \in MissingRules
    BY ServingAssumption DEF EdgeConfigs
  <2> QED
    BY <2>1 DEF MissingRules
<1>4. \A path \in FirstAsked : AutoIndexCandidate(path) \in Texts
  BY <1>2, CandidateText
<1> QED
  BY <1>2, <1>3, <1>4 DEF Asked, FirstAsked

------------------------------------------------------------------------------
(* Type correctness.  A file is looked up at paths of the tables only, and  *)
(* a candidate only of a path that was asked for first.                    *)
PathInv ==
  /\ request.step \in {"stat", "read", "sidecar", "render"} => request.path \in Asked
  /\ request.step \in {"stat", "read"} /\ request.retry => request.path \in FirstAsked

RequestType ==
  [step : {"idle", "edge", "stat", "read", "sidecar", "render"},
   config : Configs, url : Urls \cup {NoUrl}, hook : Nat, path : Texts,
   retry : BOOLEAN, status : {200, 404} \cup HookStatuses, missing : BOOLEAN,
   body : FileState, meta : FileState]
PlanType ==
  [path : Texts, access : {"public", "internal"}, params : BOOLEAN,
   miss : {"missing", "not_found"}, status : {200} \cup HookStatuses]
Statuses == {0, 200, 204, 404, 405, 415, 500, 502, 504} \cup RedirectStatuses \cup HookStatuses
AnswerType == [status : Statuses, path : Texts, body : FileState, meta : FileState]

BodyInv == request.body # Absent <=> request.step \in {"sidecar", "render"}

(* What the request, its plan and its answer are to be.                    *)
ServiceInv ==
  /\ request \in RequestType
  /\ BodyInv
  /\ plan \in PlanType
  /\ answer \in AnswerType
  /\ PathInv

LEMMA ServingTypeIs ==
  ServingTypeOK <=>
    /\ request \in RequestType /\ BodyInv /\ plan \in PlanType /\ answer \in AnswerType
    /\ overlapped \in BOOLEAN /\ steady \subseteq Paths
BY DEF ServingTypeOK, RequestType, PlanType, AnswerType, Statuses, BodyInv

LEMMA FileAtType ==
  ASSUME NEW files \in Files, NEW path \in Asked
  PROVE  FileAt(files, path) \in FileState /\ NamedAt(files, path) \in FileState
<1>1. Place(path).keys \subseteq Paths /\ Place(path).named \subseteq Paths
  BY PlaceIs
<1>2. ASSUME NEW keys \in SUBSET Paths PROVE OneOf(files, keys) \in FileState
  <2>1. CASE keys = {}
    BY <2>1 DEF OneOf, FileState
  <2>2. CASE keys # {}
    <3> DEFINE p == CHOOSE p \in keys : TRUE
    <3>1. p \in Paths
      BY <2>2
    <3>2. OneOf(files, keys) = files[p]
      BY <2>2 DEF OneOf
    <3> HIDE DEF p
    <3> QED
      BY <3>1, <3>2 DEF Files, Index
  <2> QED
    BY <2>1, <2>2
<1> QED
  BY <1>1, <1>2 DEF FileAt, NamedAt

LEMMA IdleType ==
  /\ Idle \in RequestType /\ Idle.step = "idle" /\ Idle.body = Absent
  /\ NoPlan \in PlanType /\ NoAnswer \in AnswerType
  /\ NoPath \in Texts /\ Absent \in FileState
<1>1. NoPath \in Texts /\ Absent \in FileState /\ NoConfig \in Configs
  BY DEF NoPath, Texts, FileState, Configs
<1> QED
  BY <1>1 DEF Idle, RequestType, NoPlan, PlanType, NoAnswer, AnswerType, Statuses

(* Every end of a request.                                                 *)
LEMMA ReplyTypes ==
  ASSUME NEW status \in Statuses, NEW path \in Texts, NEW body \in FileState,
         NEW meta \in FileState, Reply(status, path, body, meta), plan' \in PlanType
  PROVE  ServiceInv'
<1>1. answer' \in AnswerType
  BY DEF Reply, AnswerType
<1>2. request' = Idle
  BY DEF Reply
<1> QED
  BY <1>1, <1>2, IdleType DEF ServiceInv, BodyInv, PathInv

LEMMA EmptyTypes ==
  ASSUME NEW status \in Statuses, ReplyEmpty(status), plan' \in PlanType
  PROVE  ServiceInv'
BY ReplyTypes, IdleType DEF ReplyEmpty

LEMMA RedirectTypes ==
  ASSUME NEW status \in RedirectStatuses, NEW to \in Texts, Redirect(status, to), plan' \in PlanType
  PROVE  ServiceInv'
<1>1. Reply(status, to, Absent, Absent) /\ status \in Statuses
  BY DEF Redirect, Statuses
<1> QED
  BY <1>1, ReplyTypes, IdleType

(* Every step that looks at a path next.                                   *)
LooksAt(path, retry, status, missing) ==
  /\ request' = [request EXCEPT !.step = "stat", !.path = path, !.retry = retry,
                                !.status = status, !.missing = missing]
  /\ UNCHANGED answer

LEMMA LookTypes ==
  ASSUME RequestInv, ServiceInv, NEW path \in Asked, NEW retry \in BOOLEAN,
         NEW status \in {200, 404} \cup HookStatuses, NEW missing \in BOOLEAN,
         request.step \in {"edge", "stat", "read"}, retry => path \in FirstAsked,
         LooksAt(path, retry, status, missing), plan' \in PlanType
  PROVE  ServiceInv'
<1>1. path \in Texts
  BY AskedText
<1> DEFINE r1 == [request EXCEPT !.step = "stat"]
           r2 == [r1 EXCEPT !.path = path]
           r3 == [r2 EXCEPT !.retry = retry]
           r4 == [r3 EXCEPT !.status = status]
           r5 == [r4 EXCEPT !.missing = missing]
<1>2. request' \in RequestType
  <2>1. r1 \in RequestType
    BY DEF ServiceInv, RequestType
  <2>2. r2 \in RequestType
    BY <1>1, <2>1 DEF RequestType
  <2>3. r3 \in RequestType
    BY <2>2 DEF RequestType
  <2>4. r4 \in RequestType
    <3> HIDE DEF r3
    <3> QED
      BY <2>3 DEF RequestType
  <2>5. r5 \in RequestType
    <3> HIDE DEF r4
    <3> QED
      BY <2>4 DEF RequestType
  <2>6. request' = r5
    BY DEF LooksAt
  <2> QED
    BY <2>5, <2>6
<1>3. /\ request'.step = "stat" /\ request'.path = path /\ request'.retry = retry
      /\ request'.body = request.body
  BY DEF LooksAt, RequestInv, Idle
<1>4. answer' \in AnswerType
  BY DEF LooksAt, ServiceInv
<1> QED
  BY <1>2, <1>3, <1>4 DEF ServiceInv, BodyInv, PathInv

LEMMA ServeStaticTypes ==
  ASSUME RequestInv, ServiceInv, request.step = "edge", NEW p \in FirstAsked,
         NEW access \in {"public", "internal"}, NEW params \in BOOLEAN,
         NEW miss \in {"missing", "not_found"}, NEW status \in {200} \cup HookStatuses,
         ServeStatic(p, access, params, miss, status)
  PROVE  ServiceInv'
<1> DEFINE retry == RulesOf(request.config).auto_rewrite_index
<1>1. p \in Asked /\ p \in Texts
  BY AskedText DEF Asked, FirstAsked
<1>2. retry \in BOOLEAN
  BY AcceptedRules DEF RequestInv, RulesOf, EdgeConfigs
<1>3. plan' \in PlanType
  BY <1>1 DEF ServeStatic, PlanType
<1>4. status \in {200, 404} \cup HookStatuses /\ request.missing \in BOOLEAN
  BY DEF ServiceInv, RequestType
<1>5. LooksAt(p, retry, status, request.missing)
  <2>1. request' = [request EXCEPT !.step = "stat", !.path = p, !.status = status,
                                   !.retry = retry]
        /\ UNCHANGED answer
    BY DEF ServeStatic
  <2> HIDE DEF retry
  <2> QED
    BY <2>1 DEF ServiceInv, RequestType, LooksAt
<1> HIDE DEF retry
<1> QED
  BY <1>1, <1>2, <1>3, <1>4, <1>5, LookTypes

LEMMA NotServedTypes ==
  ASSUME RequestInv, ServiceInv, request.step \in {"stat", "read"}, NotServed, UNCHANGED plan
  PROVE  ServiceInv'
<1> DEFINE c == request.config
<1>1. plan' \in PlanType
  BY DEF ServiceInv
<1>2. c \in AcceptedConfigs /\ c \in DOMAIN Rules /\ Rules[c].missing \in MissingRules
      /\ Rules[c].missing.status \subseteq RedirectStatuses
  BY AcceptedRules DEF RequestInv, EdgeConfigs
<1>3. CASE request.retry
  <2> DEFINE candidate == AutoIndexCandidate(request.path)
  <2>1. candidate \in Asked
    BY <1>3 DEF ServiceInv, PathInv, Asked, FirstAsked
  <2>2. request.status \in {200, 404} \cup HookStatuses /\ request.missing \in BOOLEAN
    BY DEF ServiceInv, RequestType
  <2>3. LooksAt(candidate, FALSE, request.status, request.missing)
    <3>1. request' = [request EXCEPT !.step = "stat", !.path = candidate, !.retry = FALSE]
          /\ UNCHANGED answer
      BY <1>3 DEF NotServed
    <3> HIDE DEF candidate
    <3> QED
      BY <3>1 DEF ServiceInv, RequestType, LooksAt
  <2>4. request.step \in {"edge", "stat", "read"} /\ (FALSE => candidate \in FirstAsked)
    OBVIOUS
  <2> HIDE DEF candidate
  <2>5. ASSUME NEW retry \in BOOLEAN, ~retry,
               LooksAt(candidate, retry, request.status, request.missing)
        PROVE  ServiceInv'
    BY <1>1, <2>1, <2>2, <2>4, <2>5, LookTypes
  <2> QED
    BY <2>3, <2>5
<1>4. CASE ~request.retry /\ (request.missing \/ plan.miss = "not_found")
  BY <1>1, <1>4, EmptyTypes DEF NotServed, Statuses
<1>5. CASE ~request.retry /\ ~(request.missing \/ plan.miss = "not_found")
  <2>1. HandleMissing(Rules[c].missing)
    BY <1>5 DEF NotServed, RulesOf
  <2>2. ASSUME NEW to \in Rules[c].missing.to, NEW status \in Rules[c].missing.status,
               Redirect(status, to)
        PROVE  ServiceInv'
    <3>1. to \in Texts
      BY <1>2 DEF MissingRules
    <3> QED
      BY <1>1, <1>2, <2>2, <3>1, RedirectTypes
  <2>3. ReplyEmpty(404) => ServiceInv'
    BY <1>1, EmptyTypes DEF Statuses
  <2>4. ASSUME NEW page \in PagesOf(Rules[c]), NEW status \in {200, 404},
               ReadMissing(page, status)
        PROVE  ServiceInv'
    <3>1. page \in Asked
      BY <1>2, OnePage
    <3>2. LooksAt(page, FALSE, status, TRUE)
      BY <2>4 DEF ReadMissing, LooksAt
    <3> QED
      BY <1>1, <3>1, <3>2, LookTypes
  <2> QED
    BY <2>1, <2>2, <2>3, <2>4 DEF HandleMissing, PagesOf
<1> QED
  BY <1>3, <1>4, <1>5

LEMMA HandleRequestTypes ==
  ASSUME AcceptInv, RequestInv, ServiceInv, HandleRequest, UNCHANGED vars
  PROVE  ServiceInv'
<1>1. plan \in PlanType /\ answer \in AnswerType /\ request \in RequestType
  BY DEF ServiceInv
<1>2. Live \in Files /\ registry \in Files
  BY FilesInType DEF AcceptInv, TypeOK, Live
<1>3. CASE EdgeFails
  BY <1>1, <1>3, EmptyTypes DEF EdgeFails, Statuses
<1>4. CASE EdgeResponds
  <2>1. PICK status \in HookStatuses : ReplyEmpty(status)
    BY <1>4 DEF EdgeResponds
  <2>2. status \in Statuses /\ plan' \in PlanType
    BY <1>1, <1>4 DEF EdgeResponds, Statuses
  <2> QED
    BY <2>1, <2>2, EmptyTypes
<1>5. CASE EdgeContinues
  <2>1. request.step = "edge" /\ request.hook + 1 \in Nat
    BY <1>1, <1>5 DEF EdgeContinues, HookIsNext, RequestType
  <2>2. request' = [request EXCEPT !.hook = request.hook + 1]
    BY <1>5 DEF EdgeContinues
  <2>3. request' \in RequestType
    BY <1>1, <2>1, <2>2 DEF RequestType
  <2>4. request'.step = request.step /\ request'.body = request.body
    BY <2>2 DEF RequestInv, Idle
  <2> QED
    BY <1>1, <1>5, <2>1, <2>3, <2>4 DEF EdgeContinues, ServiceInv, BodyInv, PathInv
<1>6. CASE EdgeServesFile
  <2>1. request.step = "edge" /\ HookFiles \subseteq FirstAsked
    BY <1>6 DEF EdgeServesFile, HookIsNext, FirstAsked
  <2>2. PICK p \in HookFiles, params \in BOOLEAN, status \in HookStatuses :
          ServeStatic(p, "internal", params, "missing", status)
    BY <1>6 DEF EdgeServesFile
  <2> QED
    BY <2>1, <2>2, ServeStaticTypes
<1>7. CASE EdgeRendersTarget
  <2>1. request.step = "edge"
        /\ \E status \in HookStatuses : ServeStatic(Target, "public", TRUE, "not_found", status)
    BY <1>7 DEF EdgeRendersTarget, HookIsNext
  <2> QED
    BY <2>1, TargetIsAsked, ServeStaticTypes
<1>8. CASE Route
  <2> DEFINE found == Decision(request.config, request.url).redirect
  <2>1. request.step = "edge"
    BY <1>8 DEF Route
  <2>2. CASE found = {}
    <3>1. ServeStatic(Target, "public", FALSE, "missing", 200)
      BY <1>8, <2>2 DEF Route
    <3> QED
      BY <2>1, <3>1, TargetIsAsked, ServeStaticTypes
  <2>3. CASE found # {}
    <3>1. PICK redirect \in found : Redirect(redirect.status, redirect.location)
      BY <1>8, <2>3 DEF Route
    <3>2. UNCHANGED plan
      BY <1>8, <2>3 DEF Route
    <3>3. /\ request.config \in AcceptedConfigs /\ request.url \in Urls
          /\ request.config \in DOMAIN Rules /\ Rules[request.config] \in EdgeConfigs
          /\ request.url.path \in Texts /\ request.url.query \in Texts
      BY <2>1, AcceptedRules, ServingAssumption DEF RequestInv
    <3>4. redirect \in FindRedirect(Rules[request.config], request.url.path, request.url.query)
      BY <3>1, <3>3, DecisionIsOfTheRules
    <3>5. redirect.status \in RedirectStatuses /\ redirect.location \in Texts
      BY <3>3, <3>4, RedirectStatus, LocationText
    <3> QED
      BY <1>1, <3>1, <3>2, <3>5, RedirectTypes
  <2> QED
    BY <2>2, <2>3
<1>9. CASE Stat
  <2>1. CASE NotServed
    BY <1>9, <2>1, NotServedTypes DEF Stat
  <2>2. CASE request' = [request EXCEPT !.step = "read"] /\ UNCHANGED answer
    <3>1. request' \in RequestType
      BY <1>1, <2>2 DEF RequestType
    <3>2. /\ request'.step = "read" /\ request'.body = request.body
          /\ request'.path = request.path /\ request'.retry = request.retry
      BY <2>2 DEF RequestInv, Idle
    <3> QED
      BY <1>1, <1>9, <2>2, <3>1, <3>2 DEF Stat, ServiceInv, BodyInv, PathInv
  <2> QED
    BY <1>9, <2>1, <2>2 DEF Stat
<1>10. CASE ReadBody
  <2> DEFINE file == FileAt(Live, request.path)
  <2>1. request.step = "read" /\ UNCHANGED plan /\ request.path \in Asked
    BY <1>10 DEF ReadBody, ServiceInv, PathInv
  <2>2. CASE file # Absent
    <3>1. file \in FileState
      BY <1>2, <2>1, FileAtType
    <3>2. request' = [request EXCEPT !.step = "sidecar", !.body = file] /\ UNCHANGED answer
      BY <1>10, <2>2 DEF ReadBody
    <3> HIDE DEF file
    <3> DEFINE r1 == [request EXCEPT !.step = "sidecar"]
    <3>3. r1 \in RequestType
      BY <1>1 DEF RequestType
    <3>4. request' \in RequestType
      <4>1. request' = [r1 EXCEPT !.body = file]
        BY <3>2
      <4> HIDE DEF r1
      <4> QED
        BY <3>1, <3>3, <4>1 DEF RequestType
    <3>5. /\ request'.step = "sidecar" /\ request'.body = file
          /\ request'.path = request.path /\ request'.retry = request.retry
      BY <3>2 DEF RequestInv, Idle
    <3> QED
      BY <1>1, <2>1, <2>2, <3>2, <3>4, <3>5 DEF ServiceInv, BodyInv, PathInv
  <2>3. CASE file = Absent
    <3>1. ReplyEmpty(500) \/ NotServed
      BY <1>10, <2>3 DEF ReadBody
    <3>2. 500 \in Statuses
      BY DEF Statuses
    <3> QED
      BY <1>1, <2>1, <3>1, <3>2, EmptyTypes, NotServedTypes
  <2> QED
    BY <2>2, <2>3
<1>11. CASE ReadSidecar
  <2> DEFINE file == NamedAt(Live, request.path)
  <2>1. request.step = "sidecar" /\ UNCHANGED plan /\ request.path \in Asked
    BY <1>11 DEF ReadSidecar, ServiceInv, PathInv
  <2>2. file \in FileState
    BY <1>2, <2>1, FileAtType
  <2>3. CASE plan.params /\ ~request.missing
    <3>1. request' = [request EXCEPT !.step = "render", !.meta = file] /\ UNCHANGED answer
      BY <1>11, <2>3 DEF ReadSidecar
    <3> HIDE DEF file
    <3> DEFINE r1 == [request EXCEPT !.step = "render"]
    <3>2. r1 \in RequestType
      BY <1>1 DEF RequestType
    <3>3. request' \in RequestType
      <4>1. request' = [r1 EXCEPT !.meta = file]
        BY <3>1
      <4> HIDE DEF r1
      <4> QED
        BY <2>2, <3>2, <4>1 DEF RequestType
    <3>4. /\ request'.step = "render" /\ request'.body = request.body
          /\ request'.path = request.path /\ request'.retry = request.retry
      BY <3>1 DEF RequestInv, Idle
    <3> QED
      BY <1>1, <2>1, <3>1, <3>3, <3>4 DEF ServiceInv, BodyInv, PathInv
  <2>4. CASE ~(plan.params /\ ~request.missing)
    <3>1. Reply(request.status, request.path, request.body, file)
      BY <1>11, <2>4 DEF ReadSidecar
    <3>2. request.status \in Statuses /\ request.path \in Texts /\ request.body \in FileState
      BY <1>1 DEF RequestType, Statuses
    <3> HIDE DEF file
    <3> QED
      BY <1>1, <2>1, <2>2, <3>1, <3>2, ReplyTypes
  <2> QED
    BY <2>3, <2>4
<1>12. CASE RenderTemplate
  <2> DEFINE template == NamedAt(registry, request.path)
  <2>1. request.step = "render" /\ UNCHANGED plan /\ request.path \in Asked
    BY <1>12 DEF RenderTemplate, ServiceInv, PathInv
  <2>2. template \in FileState /\ Absent \in FileState
    BY <1>2, <2>1, FileAtType DEF FileState
  <2>3. /\ request.status \in Statuses /\ request.path \in Texts /\ request.meta \in FileState
        /\ 415 \in Statuses /\ 502 \in Statuses
    BY <1>1 DEF RequestType, Statuses
  <2>4. \/ Reply(415, request.path, Absent, request.meta)
        \/ Reply(request.status, request.path, template, request.meta)
        \/ Reply(502, request.path, Absent, request.meta)
    BY <1>12 DEF RenderTemplate
  <2> HIDE DEF template
  <2> QED
    BY <1>1, <2>1, <2>2, <2>3, <2>4, ReplyTypes
<1>13. CASE ReadFails
  BY <1>1, <1>13, EmptyTypes DEF ReadFails, Statuses
<1> QED
  BY <1>3, <1>4, <1>5, <1>6, <1>7, <1>8, <1>9, <1>10, <1>11, <1>12, <1>13 DEF HandleRequest

LEMMA ServiceNextInv ==
  ASSUME ServedInv, ServiceInv, [ServingNext]_servingVars
  PROVE  ServiceInv'
<1>1. CASE UNCHANGED servingVars
  BY <1>1 DEF servingVars, requestVars, ServiceInv, BodyInv, PathInv
<1>2. CASE OtherMethod
  <2>1. PICK status \in {204, 405} : ReplyEmpty(status)
    BY <1>2 DEF OtherMethod
  <2>2. status \in Statuses /\ plan' \in PlanType
    BY <1>2, IdleType DEF OtherMethod, Statuses
  <2> QED
    BY <2>1, <2>2, EmptyTypes
<1>3. ASSUME NEW url \in Urls, Arrive(url) PROVE ServiceInv'
  <2>1. plan' \in PlanType
    BY <1>3, IdleType DEF Arrive
  <2>2. config # NoConfig /\ config \in Configs
    BY <1>3, ListeningHasConfig DEF Arrive, ServedInv, AcceptInv, TypeOK
  <2>3. request' = [Idle EXCEPT !.step = "edge", !.config = config, !.url = url, !.hook = 1]
        /\ answer' = NoAnswer
    BY <1>3, <2>2 DEF Arrive
  <2>4. request'.step = "edge" /\ request'.body = Absent
    BY <2>3 DEF Idle
  <2>5. request' \in RequestType
    <3> DEFINE r1 == [Idle EXCEPT !.step = "edge"]
               r2 == [r1 EXCEPT !.config = config]
               r3 == [r2 EXCEPT !.url = url]
    <3>1. r1 \in RequestType
      BY IdleType DEF RequestType
    <3>2. r2 \in RequestType
      BY <2>2, <3>1 DEF RequestType
    <3>3. r3 \in RequestType
      BY <3>2 DEF RequestType
    <3>4. request' = [r3 EXCEPT !.hook = 1]
      BY <2>3
    <3> HIDE DEF r3
    <3> QED
      BY <3>3, <3>4 DEF RequestType
  <2> QED
    BY <2>1, <2>3, <2>4, <2>5, IdleType DEF ServiceInv, BodyInv, PathInv
<1>4. CASE HandleRequest /\ UNCHANGED vars
  BY <1>4, HandleRequestTypes DEF ServedInv
<1>5. CASE OriginStep
  <2>1. CASE UNCHANGED requestVars
    BY <2>1 DEF requestVars, ServiceInv, BodyInv, PathInv
  <2>2. CASE request' = Idle /\ plan' = NoPlan /\ answer' = NoAnswer
    BY <2>2, IdleType DEF ServiceInv, BodyInv, PathInv
  <2> QED
    BY <1>5, <2>1, <2>2 DEF OriginStep
<1> QED
  BY <1>1, <1>2, <1>3, <1>4, <1>5 DEF ServingNext, RequestStep

(* Whatever hooks, rules, refreshes and faults do: request, plan and answer *)
(* keep the shape of what they stand for, a body is held exactly while a    *)
(* response is being made of it, and every path, rewritten, with a splat in *)
(* its place or a candidate, is a path.                                    *)
THEOREM ServingTypes == ServingSpec => []ServingTypeOK
<1> DEFINE Inv == ServedInv /\ ServiceInv /\ overlapped \in BOOLEAN /\ steady \subseteq Paths
<1>1. ServingInit => Inv
  BY ServingInitInv, IdleType DEF ServingInit, ServiceInv, BodyInv, PathInv
<1>2. Inv /\ [ServingNext]_servingVars => Inv'
  <2> SUFFICES ASSUME Inv, [ServingNext]_servingVars PROVE Inv'
    OBVIOUS
  <2>1. overlapped' \in BOOLEAN /\ steady' \subseteq Paths
    BY DEF ServingNext, Observe, servingVars, Known
  <2> QED
    BY <2>1, ServingNextInv, ServiceNextInv
<1>3. Inv => ServingTypeOK
  BY ServingTypeIs DEF ServiceInv
<1> QED
  BY <1>1, <1>2, <1>3, PTL DEF ServingSpec
------------------------------------------------------------------------------
(* Files that every generation active during a request holds.              *)
SteadyInv == request # Idle => steady \subseteq Known(FilesIn(activeFiles))

LEMMA SteadyNext ==
  ASSUME SteadyInv, [ServingNext]_servingVars
  PROVE  SteadyInv'
<1>1. CASE ServingNext
  BY <1>1 DEF ServingNext, Observe, SteadyInv
<1>2. CASE UNCHANGED servingVars
  BY <1>2 DEF servingVars, requestVars, vars, stores, SteadyInv, activeFiles, Between
<1> QED
  BY <1>1, <1>2

(* Object keys are texts of their own, so a path names one of them at most. *)
LEMMA KeyIsRead ==
  ASSUME NEW path \in Asked, NEW files, NEW p \in Place(path).keys, files[p] # Absent
  PROVE  FileAt(files, path) # Absent
<1>1. \A q \in Place(path).keys : q = p
  BY PlaceIs, ServingAssumption
<1>2. (CHOOSE q \in Place(path).keys : TRUE) = p
  BY <1>1
<1> QED
  BY <1>2 DEF FileAt, OneOf

LEMMA HitIsAnswered ==
  ASSUME NEW files, NEW rules, NEW response \in Expected(files, rules),
         Hit(files, rules) # NoPath,
         Reading(files, Hit(files, rules), plan.access) = "file"
  PROVE  response.path = Hit(files, rules)
BY DEF Hit, Expected

(* A request that no activation overlaps finds a file that every generation *)
(* active during it holds: SteadyFilesAreFound fails in the window of the   *)
(* two renames only (sync.rs, activate; render_gateway.rs, read_object).    *)
QuietSteadyFilesAreFound ==
  [][Replies /\ plan # NoPlan /\ ~overlapped /\ ~ReadFails
        /\ Place(plan.path).keys \cap steady # {}
        /\ ~(plan.access = "public" /\ Place(plan.path).reserved)
       => answer'.path = plan.path]_servingVars

THEOREM QuietRequestsFindSteadyFiles ==
  ASSUME BenignFaults
  PROVE  ServingSpec /\ []LiveIsTree => QuietSteadyFilesAreFound
<1> DEFINE B == Replies /\ plan # NoPlan /\ ~overlapped /\ ~ReadFails
                  /\ Place(plan.path).keys \cap steady # {}
                  /\ ~(plan.access = "public" /\ Place(plan.path).reserved)
                    => answer'.path = plan.path
<1>1. ServingInit => AnswersInv /\ SteadyInv
  BY AnswersInit DEF ServingInit, SteadyInv
<1>2. AnswersInv /\ LiveIsTree /\ [ServingNext]_servingVars => AnswersInv'
  BY AnswersNext
<1>3. SteadyInv /\ [ServingNext]_servingVars => SteadyInv'
  BY SteadyNext
<1>4. AnswersInv /\ SteadyInv /\ LiveIsTree /\ [ServingNext]_servingVars => [B]_servingVars
  <2> SUFFICES ASSUME AnswersInv, SteadyInv, LiveIsTree, ServingNext,
                      Replies, plan # NoPlan, ~overlapped, ~ReadFails,
                      NEW p \in Place(plan.path).keys, p \in steady,
                      ~(plan.access = "public" /\ Place(plan.path).reserved)
               PROVE  answer'.path = plan.path
    OBVIOUS
  <2>1. /\ request # Idle /\ request.step \in {"stat", "read", "sidecar", "render"}
        /\ answer' \in Expected(Live, Rules[request.config])
    BY QuietReplies DEF Replies
  <2>2. ~Activating
    BY DEF AnswersInv, QuietInv
  <2>3. p \in Known(Live)
    BY <2>1, <2>2 DEF SteadyInv, Activating, Between, activeFiles, Swapping, Live
  <2>4. Live[p] # Absent
    BY <2>3 DEF Known
  <2>5. plan.path \in Asked /\ request.config \in AcceptedConfigs
    <3>1. Looking(request, plan, Live)
      BY <2>1 DEF AnswersInv, SearchInv, AnswerInv
    <3> QED
      BY <2>1, <3>1 DEF Looking, FirstAsked, Asked, AnswersInv, ServedInv, RequestInv
  <2>6. FileAt(Live, plan.path) # Absent
    BY <2>4, <2>5, KeyIsRead
  <2>7. Reading(Live, plan.path, plan.access) = "file"
    BY <2>6 DEF Reading
  <2>8. Rules[request.config].auto_rewrite_index \in BOOLEAN
    BY <2>5, AcceptedRules DEF EdgeConfigs
  <2>9. Hit(Live, Rules[request.config]) = plan.path
    BY <2>7, <2>8, FirstReadIs DEF Hit
  <2>10. plan.path # NoPath
    BY <2>5, <2>7, ReadPathIsSome
  <2> QED
    BY <2>1, <2>7, <2>9, <2>10, HitIsAnswered
<1> QED
  BY <1>1, <1>2, <1>3, <1>4, PTL DEF ServingSpec, QuietSteadyFilesAreFound

------------------------------------------------------------------------------
(* Serving and refreshing.                                                 *)

(* Requests read the mirror and the stores and never disturb a refresh:    *)
(* what is proved of OriginRefresh holds while the gateway serves.         *)
THEOREM RequestsOnlyRead == ServingSpec => Spec
<1>1. ServingInit => Init
  BY DEF ServingInit
<1>2. [ServingNext]_servingVars => [Next]_vars
  BY DEF ServingNext, OriginStep, servingVars
<1> QED
  BY <1>1, <1>2, PTL DEF ServingSpec, Spec
------------------------------------------------------------------------------
(* What was rejected is not served.  The mirror a running server reads     *)
(* holds accepted files only, under every fault; so does what was read     *)
(* from it, however long ago, and what was compiled.                       *)

Prepares == Swapping \cup Installing

RegistryCompiles(templates) == \A p \in Paths : templates[p] \notin BadTemplates

CompiledInv ==
  /\ RegistryCompiles(registry)
  /\ \A t \in Tasks : pc[t] \in Prepares => RegistryCompiles(job[t].registry)

LEMMA EmptyCompiles == RegistryCompiles(NoFiles)
BY ConstantsAssumption DEF RegistryCompiles, NoFiles

LEMMA PreparedCompiles ==
  ASSUME TypeOK, CompiledInv, NEW t \in Tasks, PrepareActivation(t)
  PROVE  RegistryCompiles(job'[t].registry)
<1> DEFINE update == TemplateUpdate(registry, DiffOf(t), job[t].staging)
<1>1. job[t] \in JobType
  BY DEF TypeOK
<1>2. job'[t].registry = update
  <2>1. job'[t] = [job[t] EXCEPT !.config = EdgeConfig(job[t].staging), !.registry = update,
                                 !.generation = NextGeneration]
    BY DEF PrepareActivation, TypeOK
  <2> HIDE DEF update
  <2> QED
    BY <1>1, <2>1 DEF JobType
<1>3. ASSUME NEW p \in Paths PROVE update[p] \notin BadTemplates
  <2>1. p \in ChangedPaths(DiffOf(t)) => TemplateOf(job[t].staging, p) \notin BadTemplates
    BY DEF PrepareActivation, Accepts, TemplatesCompile
  <2>2. registry[p] \notin BadTemplates /\ Absent \notin BadTemplates
    BY ConstantsAssumption DEF CompiledInv, RegistryCompiles
  <2> QED
    BY <2>1, <2>2 DEF TemplateUpdate
<1> HIDE DEF update
<1> QED
  BY <1>2, <1>3 DEF RegistryCompiles

(* A step of t that prepares nothing new.                                  *)
LEMMA StepKeepsCompiled ==
  ASSUME TypeOK, CompiledInv, NEW t \in Tasks,
         \A u \in Tasks : u # t => pc'[u] = pc[u] /\ job'[u] = job[u],
         pc'[t] \in Prepares => RegistryCompiles(job'[t].registry),
         RegistryCompiles(registry')
  PROVE  CompiledInv'
BY DEF CompiledInv, RegistryCompiles

LEMMA AdvanceKeepsCompiled ==
  ASSUME TypeOK, CompiledInv, NEW t \in Tasks, Advance(t)
  PROVE  CompiledInv'
<1>1. /\ pc \in [Tasks -> Steps] /\ job \in [Tasks -> JobType] /\ job[t] \in JobType
  BY DEF TypeOK
<1>2. CASE PrepareActivation(t)
  <2>1. \A u \in Tasks : u # t => pc'[u] = pc[u] /\ job'[u] = job[u]
    BY <1>1, <1>2 DEF PrepareActivation, Goto
  <2>2. RegistryCompiles(registry')
    BY <1>2 DEF PrepareActivation, stores, CompiledInv, RegistryCompiles
  <2>3. RegistryCompiles(job'[t].registry)
    BY <1>2, PreparedCompiles
  <2> QED
    BY <2>1, <2>2, <2>3, StepKeepsCompiled
<1>3. CASE \/ PrepareStaging(t) \/ ListObjects(t) \/ DownloadObject(t) \/ Prune(t)
  <2>1. pc'[t] \in Staging /\ UNCHANGED registry
    BY <1>1, <1>3
    DEF PrepareStaging, ListObjects, DownloadObject, Prune, Goto, Staging, stores
  <2>2. \A u \in Tasks : u # t => pc'[u] = pc[u] /\ job'[u] = job[u]
    BY <1>1, <1>3
    DEF PrepareStaging, ListObjects, DownloadObject, Prune, Goto
  <2> QED
    BY <2>1, <2>2, StepKeepsCompiled
    DEF Staging, Prepares, Swapping, Installing, CompiledInv, RegistryCompiles
<1>4. CASE \E outcome \in Ended : End(t, outcome) /\ UNCHANGED registry
  <2>1. pc'[t] \in Ended /\ UNCHANGED registry
    BY <1>1, <1>4 DEF End, Goto
  <2>2. \A u \in Tasks : u # t => pc'[u] = pc[u] /\ job'[u] = job[u]
    BY <1>1, <1>4 DEF End, Goto
  <2> QED
    BY <2>1, <2>2, StepKeepsCompiled
    DEF Ended, Prepares, Swapping, Installing, CompiledInv, RegistryCompiles
<1>5. CASE /\ pc[t] \in Prepares
           /\ job'[t].registry = job[t].registry
           /\ registry' \in {registry, job[t].registry}
           /\ \A u \in Tasks : u # t => pc'[u] = pc[u] /\ job'[u] = job[u]
  BY <1>5, StepKeepsCompiled DEF CompiledInv
<1>6. CASE pc'[t] = "purge" /\ UNCHANGED registry
           /\ \A u \in Tasks : u # t => pc'[u] = pc[u] /\ job'[u] = job[u]
  BY <1>6, StepKeepsCompiled
  DEF Prepares, Swapping, Installing, CompiledInv, RegistryCompiles
<1>7. CASE MoveOldAside(t) \/ RemoveBackup(t)
  <2>1. pc[t] \in Prepares /\ UNCHANGED registry
        /\ \A u \in Tasks : u # t => pc'[u] = pc[u] /\ job'[u] = job[u]
    BY <1>1, <1>7
    DEF MoveOldAside, RemoveBackup, Goto, Prepares, Swapping, stores
  <2>2. job'[t].registry = job[t].registry
    BY <1>1, <1>7 DEF MoveOldAside, RemoveBackup, JobType
  <2> QED
    BY <1>5, <2>1, <2>2
<1>8. CASE MoveStagingIn(t) \/ SetValid(t) \/ SetOriginRegistry(t) \/ InsertIndex(t)
  <2>1. pc[t] \in Prepares /\ registry' \in {registry, job[t].registry} /\ UNCHANGED job
        /\ \A u \in Tasks : u # t => pc'[u] = pc[u]
    BY <1>1, <1>8
    DEF MoveStagingIn, SetValid, SetOriginRegistry, InsertIndex, Goto, Prepares, Swapping,
        Installing, stores
  <2> QED
    BY <1>5, <2>1
<1>9. CASE MoveStagingInFails(t)
  <2>1. CASE Fail(t)
    BY <1>4, <2>1 DEF Fail, Ended, stores
  <2>2. CASE Goto(t, "restore") /\ UNCHANGED <<job, registry>>
    <3>1. pc[t] \in Prepares /\ \A u \in Tasks : u # t => pc'[u] = pc[u]
      BY <1>1, <1>9, <2>2 DEF MoveStagingInFails, Goto, Prepares, Swapping
    <3> QED
      BY <1>5, <2>2, <3>1
  <2> QED
    BY <1>9, <2>1, <2>2 DEF MoveStagingInFails, stores
<1>10. CASE SetSnapshot(t)
  <2>1. CASE End(t, "activated")
    BY <1>4, <1>10, <2>1 DEF SetSnapshot, Ended, stores
  <2>2. CASE Goto(t, "purge") /\ UNCHANGED job
    BY <1>1, <1>6, <1>10, <2>2 DEF SetSnapshot, Goto, stores
  <2> QED
    BY <1>10, <2>1, <2>2 DEF SetSnapshot
<1>11. CASE \/ FailBeforeSwap(t) \/ RestoreOld(t) \/ RestoreFails(t) \/ RemoveBackupFails(t)
            \/ PurgeCdn(t) \/ PurgeFails(t)
  BY <1>4, <1>11
  DEF FailBeforeSwap, RestoreOld, RestoreFails, RemoveBackupFails, PurgeCdn, PurgeFails,
      Fail, Ended, stores
<1> QED
  BY <1>2, <1>3, <1>7, <1>8, <1>9, <1>10, <1>11 DEF Advance

LEMMA CompiledNext ==
  ASSUME TypeOK, CompiledInv, [Next]_vars
  PROVE  CompiledInv'
<1>1. pc \in [Tasks -> Steps] /\ job \in [Tasks -> JobType]
  BY DEF TypeOK
<1>2. ASSUME NEW t \in Tasks, TryAcquire(t) \/ AlreadyRunning(t) \/ Cancel(t)
      PROVE  CompiledInv'
  <2>1. pc'[t] \in {"prepare_staging", "conflict", "idle"} /\ UNCHANGED registry
    BY <1>1, <1>2 DEF TryAcquire, AlreadyRunning, Cancel, End, Goto, stores
  <2>2. \A u \in Tasks : u # t => pc'[u] = pc[u] /\ job'[u] = job[u]
    BY <1>1, <1>2 DEF TryAcquire, AlreadyRunning, Cancel, End, Goto
  <2> QED
    BY <2>1, <2>2, StepKeepsCompiled
    DEF Prepares, Swapping, Installing, CompiledInv, RegistryCompiles
<1>3. CASE RunDetached \/ UNCHANGED vars
  BY <1>3 DEF RunDetached, vars, stores, CompiledInv, RegistryCompiles
<1>4. CASE Restart
  BY <1>4, EmptyCompiles
  DEF Restart, CompiledInv, Prepares, Swapping, Installing, RegistryCompiles
<1> QED
  BY <1>2, <1>3, <1>4, AdvanceKeepsCompiled DEF Next, Crash, ExitAfterFailedStartup

------------------------------------------------------------------------------
Compiles(p, file) == <<p, file>> \in Html => file \notin BadTemplates

(* What is read or answered is at a key of its path, and HTML there is not  *)
(* a template that was rejected.                                           *)
BodyIsAccepted(path, body) ==
  body # Absent => \E p \in Place(path).keys : Compiles(p, body)

BodiesWereAccepted ==
  /\ BodyIsAccepted(request.path, request.body)
  /\ BodyIsAccepted(answer.path, answer.body)

LEMMA FileIsAtItsKey ==
  ASSUME NEW path \in Asked, NEW files, FileAt(files, path) # Absent
  PROVE  \E p \in Place(path).keys : p \in Paths /\ FileAt(files, path) = files[p]
<1>1. Place(path).keys # {}
  BY DEF FileAt, OneOf
<1> DEFINE p == CHOOSE p \in Place(path).keys : TRUE
<1>2. p \in Place(path).keys /\ FileAt(files, path) = files[p]
  BY <1>1 DEF FileAt, OneOf
<1>3. p \in Paths
  BY <1>2, PlaceIs
<1> HIDE DEF p
<1> QED
  BY <1>2, <1>3

(* Reads of a server that listens.                                         *)
LEMMA LiveIsAccepted ==
  ASSUME AcceptInv, Listening, NEW path \in Asked
  PROVE  BodyIsAccepted(path, FileAt(Live, path))
<1>1. AllCompileIn(Live)
  BY DEF AcceptInv, AcceptanceInv, MirrorIsGood, Listening, Acceptable, Live
<1>2. ASSUME NEW p \in Paths PROVE Compiles(p, Live[p])
  BY <1>1 DEF AllCompileIn, TemplateOf, Compiles
<1> QED
  BY <1>2, FileIsAtItsKey DEF BodyIsAccepted

LEMMA TemplateIsAccepted ==
  ASSUME CompiledInv, NEW path \in Asked
  PROVE  BodyIsAccepted(path, NamedAt(registry, path))
<1>1. CASE Place(path).named = {}
  BY <1>1 DEF NamedAt, OneOf, BodyIsAccepted
<1>2. CASE Place(path).named # {}
  <2>1. NamedAt(registry, path) = FileAt(registry, path)
    BY <1>2, NamedIsRead DEF NamedAt, FileAt
  <2> QED
    BY <2>1, FileIsAtItsKey DEF CompiledInv, RegistryCompiles, Compiles, BodyIsAccepted
<1> QED
  BY <1>1, <1>2

LEMMA NoBodyIsAccepted == \A path : BodyIsAccepted(path, Absent)
BY DEF BodyIsAccepted

LEMMA ReplyIsAccepted ==
  ASSUME NEW status, NEW path, NEW body, NEW meta, Reply(status, path, body, meta),
         BodyIsAccepted(path, body)
  PROVE  BodiesWereAccepted'
<1>1. request'.body = Absent /\ answer'.path = path /\ answer'.body = body
  BY DEF Reply, Idle
<1> QED
  BY <1>1 DEF BodiesWereAccepted, BodyIsAccepted

LEMMA EmptyIsAccepted ==
  ASSUME NEW status, NEW path, ReplyEmpty(status) \/ Redirect(status, path)
  PROVE  BodiesWereAccepted'
BY NoBodyIsAccepted, ReplyIsAccepted DEF ReplyEmpty, Redirect

(* As long as no body was read there is none.                              *)
LEMMA UnreadIsAccepted ==
  ASSUME BodiesWereAccepted, UNCHANGED answer, request'.body = Absent
  PROVE  BodiesWereAccepted'
BY DEF BodiesWereAccepted, BodyIsAccepted

LEMMA NotServedIsAccepted ==
  ASSUME RequestInv, ServiceInv, BodiesWereAccepted, request.step \in {"stat", "read"},
         NotServed
  PROVE  BodiesWereAccepted'
<1>1. request.body = Absent /\ DOMAIN request = DOMAIN Idle
  BY DEF ServiceInv, BodyInv, RequestInv
<1>2. ASSUME NEW path, NEW retry, NEW status, NEW missing,
             \/ request' = [request EXCEPT !.step = "stat", !.path = path, !.retry = retry]
             \/ request' = [request EXCEPT !.step = "stat", !.path = path, !.retry = retry,
                                           !.status = status, !.missing = missing],
             UNCHANGED answer
      PROVE  BodiesWereAccepted'
  <2>1. request'.body = Absent
    BY <1>1, <1>2 DEF Idle
  <2> QED
    BY <1>2, <2>1, UnreadIsAccepted
<1>3. CASE request.retry
  BY <1>2, <1>3 DEF NotServed
<1>4. ASSUME NEW missing, HandleMissing(missing) PROVE BodiesWereAccepted'
  <2>1. \/ \E status, to : Redirect(status, to)
        \/ ReplyEmpty(404)
        \/ \E page, status : ReadMissing(page, status)
    BY <1>4 DEF HandleMissing
  <2>2. ASSUME NEW page, NEW status, ReadMissing(page, status) PROVE BodiesWereAccepted'
    BY <1>2, <2>2 DEF ReadMissing
  <2> QED
    BY <2>1, <2>2, EmptyIsAccepted
<1> QED
  BY <1>3, <1>4, EmptyIsAccepted DEF NotServed

LEMMA HandlingIsAccepted ==
  ASSUME ServedInv, ServiceInv, CompiledInv, BodiesWereAccepted, Listening, HandleRequest
  PROVE  BodiesWereAccepted'
<1>1. RequestInv /\ AcceptInv /\ DOMAIN request = DOMAIN Idle
  BY DEF ServedInv, RequestInv
<1>2. CASE EdgeFails \/ EdgeResponds
  BY <1>2, EmptyIsAccepted DEF EdgeFails, EdgeResponds
<1>3. CASE EdgeContinues
  <2>1. request'.body = request.body /\ request.body = Absent
    BY <1>1, <1>3 DEF EdgeContinues, HookIsNext, Idle, ServiceInv, BodyInv
  <2> QED
    BY <1>3, <2>1, UnreadIsAccepted DEF EdgeContinues
<1>4. ASSUME NEW p, NEW access, NEW params, NEW miss, NEW status,
             ServeStatic(p, access, params, miss, status), request.step = "edge"
      PROVE  BodiesWereAccepted'
  <2>1. request'.body = request.body /\ request.body = Absent
    BY <1>1, <1>4 DEF ServeStatic, Idle, ServiceInv, BodyInv
  <2> QED
    BY <1>4, <2>1, UnreadIsAccepted DEF ServeStatic
<1>5. CASE EdgeServesFile \/ EdgeRendersTarget
  BY <1>4, <1>5 DEF EdgeServesFile, EdgeRendersTarget, HookIsNext
<1>6. CASE Route
  BY <1>4, <1>6, EmptyIsAccepted DEF Route
<1>7. CASE Stat
  <2>1. CASE request' = [request EXCEPT !.step = "read"] /\ UNCHANGED answer
    <3>1. request'.body = request.body /\ request.body = Absent
      BY <1>1, <1>7, <2>1 DEF Stat, Idle, ServiceInv, BodyInv
    <3> QED
      BY <2>1, <3>1, UnreadIsAccepted
  <2> QED
    BY <1>1, <1>7, <2>1, NotServedIsAccepted DEF Stat
<1>8. CASE ReadBody
  <2> DEFINE file == FileAt(Live, request.path)
  <2>1. CASE request' = [request EXCEPT !.step = "sidecar", !.body = file] /\ UNCHANGED answer
    <3>1. BodyIsAccepted(request.path, file)
      BY <1>1, <1>8, LiveIsAccepted DEF ReadBody, ServiceInv, PathInv
    <3> HIDE DEF file
    <3>2. request'.body = file /\ request'.path = request.path
      BY <1>1, <2>1 DEF Idle
    <3> QED
      BY <2>1, <3>1, <3>2 DEF BodiesWereAccepted, BodyIsAccepted
  <2>2. CASE ReplyEmpty(500)
    BY <2>2, EmptyIsAccepted
  <2>3. CASE NotServed
    BY <1>1, <1>8, <2>3, NotServedIsAccepted DEF ReadBody
  <2> QED
    BY <1>8, <2>1, <2>2, <2>3 DEF ReadBody
<1>9. CASE ReadSidecar
  <2> DEFINE file == NamedAt(Live, request.path)
  <2>1. CASE request' = [request EXCEPT !.step = "render", !.meta = file] /\ UNCHANGED answer
    <3> HIDE DEF file
    <3>1. request'.body = request.body /\ request'.path = request.path
      BY <1>1, <2>1 DEF Idle
    <3> QED
      BY <2>1, <3>1 DEF BodiesWereAccepted, BodyIsAccepted
  <2>2. CASE Reply(request.status, request.path, request.body, file)
    BY <2>2, ReplyIsAccepted DEF BodiesWereAccepted
  <2> QED
    BY <1>9, <2>1, <2>2 DEF ReadSidecar
<1>10. CASE RenderTemplate
  <2> DEFINE template == NamedAt(registry, request.path)
  <2>1. BodyIsAccepted(request.path, template)
    BY <1>10, TemplateIsAccepted DEF RenderTemplate, ServiceInv, PathInv
  <2>2. \/ Reply(415, request.path, Absent, request.meta)
        \/ Reply(request.status, request.path, template, request.meta)
        \/ Reply(502, request.path, Absent, request.meta)
    BY <1>10 DEF RenderTemplate
  <2> HIDE DEF template
  <2> QED
    BY <2>1, <2>2, NoBodyIsAccepted, ReplyIsAccepted
<1>11. CASE ReadFails
  BY <1>11, EmptyIsAccepted DEF ReadFails
<1> QED
  BY <1>2, <1>3, <1>5, <1>6, <1>7, <1>8, <1>9, <1>10, <1>11 DEF HandleRequest

(* Requests are under way in a server that listens.                        *)
ListensInv == request.step # "idle" => Listening

LEMMA ListensNext ==
  ASSUME TypeOK, ListensInv, [ServingNext]_servingVars
  PROVE  ListensInv'
<1>1. CASE UNCHANGED servingVars
  BY <1>1 DEF servingVars, requestVars, vars, ListensInv, Listening
<1>2. CASE RequestStep /\ UNCHANGED vars
  <2>1. UNCHANGED pc
    BY <1>2 DEF vars
  <2>2. Listening
    BY <1>2
    DEF RequestStep, OtherMethod, Arrive, HandleRequest, EdgeFails, EdgeContinues,
        EdgeResponds, EdgeServesFile, EdgeRendersTarget, HookIsNext, Route, Stat,
        ReadBody, ReadFails, ReadSidecar, RenderTemplate, ListensInv
  <2> QED
    BY <2>1, <2>2 DEF ListensInv, Listening
<1>3. CASE OriginStep
  <2>1. CASE Listening'
    BY <2>1 DEF ListensInv
  <2>2. CASE request' = Idle
    BY <2>2 DEF ListensInv, Idle
  <2> QED
    BY <1>3, <2>1, <2>2 DEF OriginStep
<1> QED
  BY <1>1, <1>2, <1>3 DEF ServingNext

(* HTML that refresh_origin_snapshot must reject never reaches a visitor,  *)
(* as a file, as a rendered page or as the page for a missing one: under   *)
(* every fault, cancelled syncs and dropped renames included, and also     *)
(* when the file was read before the refresh that replaced it.             *)
THEOREM RejectedHtmlIsNeverServed == ServingSpec => []BodiesWereAccepted
<1> DEFINE Inv == ServedInv /\ ServiceInv /\ CompiledInv /\ ListensInv /\ BodiesWereAccepted
<1>1. ServingInit => Inv
  <2> SUFFICES ASSUME ServingInit PROVE Inv
    OBVIOUS
  <2>1. CompiledInv
    BY EmptyCompiles
    DEF ServingInit, Init, CompiledInv, Prepares, Swapping, Installing, RegistryCompiles
  <2>2. ListensInv /\ BodiesWereAccepted
    BY DEF ServingInit, ListensInv, BodiesWereAccepted, BodyIsAccepted, Idle, NoAnswer
  <2> QED
    BY <2>1, <2>2, ServingInitInv, IdleType DEF ServingInit, ServiceInv, BodyInv, PathInv
<1>2. Inv /\ [ServingNext]_servingVars => Inv'
  <2> SUFFICES ASSUME Inv, [ServingNext]_servingVars PROVE Inv'
    OBVIOUS
  <2>1. TypeOK /\ [Next]_vars
    BY DEF ServedInv, AcceptInv, ServingNext, OriginStep, servingVars
  <2>2. ServedInv' /\ ServiceInv' /\ CompiledInv' /\ ListensInv'
    BY <2>1, ServingNextInv, ServiceNextInv, CompiledNext, ListensNext
  <2>3. BodiesWereAccepted'
    <3>1. CASE UNCHANGED requestVars
      BY <3>1 DEF requestVars, BodiesWereAccepted, BodyIsAccepted
    <3>2. CASE request' = Idle /\ answer' = NoAnswer
      BY <3>2 DEF BodiesWereAccepted, BodyIsAccepted, Idle, NoAnswer
    <3>3. CASE OtherMethod
      BY <3>3, EmptyIsAccepted DEF OtherMethod
    <3>4. ASSUME NEW url \in Urls, Arrive(url) PROVE BodiesWereAccepted'
      <4>1. CASE config = NoConfig
        BY <3>4, <4>1, EmptyIsAccepted DEF Arrive
      <4>2. CASE config # NoConfig
        <5>1. request'.body = Absent /\ answer' = NoAnswer
          BY <3>4, <4>2 DEF Arrive, Idle
        <5> QED
          BY <5>1 DEF BodiesWereAccepted, BodyIsAccepted, NoAnswer
      <4> QED
        BY <4>1, <4>2
    <3>5. CASE HandleRequest
      <4>1. Listening
        BY <3>5
        DEF HandleRequest, EdgeFails, EdgeContinues, EdgeResponds, EdgeServesFile,
            EdgeRendersTarget, HookIsNext, Route, Stat, ReadBody, ReadFails,
            ReadSidecar, RenderTemplate, ListensInv
      <4> QED
        BY <3>5, <4>1, HandlingIsAccepted
    <3> QED
      BY <3>1, <3>2, <3>3, <3>4, <3>5
      DEF ServingNext, OriginStep, RequestStep, servingVars
  <2> QED
    BY <2>2, <2>3
<1> QED
  BY <1>1, <1>2, PTL DEF ServingSpec
=============================================================================
