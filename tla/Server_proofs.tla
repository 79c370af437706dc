----------------------------- MODULE Server_proofs -----------------------------
(***************************************************************************)
(* Theorems about the whole program, for any manifests, visitors, storages *)
(* and numbers of releases, failures and crashes.                          *)
(***************************************************************************)
EXTENDS Server, SequenceTheorems, WellFoundedInduction, TLAPS

------------------------------------------------------------------------------
(* What the resolver returns.                                              *)

LEMMA HasLeast ==
  ASSUME NEW S \in SUBSET Nat, S # {}
  PROVE  Min(S) \in S
<1> DEFINE R == OpToRel(<, Nat)
<1>1. PICK m \in S : \A k \in S : <<k, m>> \notin R
  BY WFMin, NatLessThanWellFounded, Zenon
<1>2. \A k \in S : ~(k < m)
  BY <1>1, Zenon DEF OpToRel
<1>3. \A k \in S : m <= k
  <2> HIDE DEF R
  <2> QED
    BY <1>2
<1> QED
  BY <1>3 DEF Min

LEMMA HasGreatest ==
  ASSUME NEW n \in Nat, NEW S \in SUBSET (1 .. n), S # {}
  PROVE  \E m \in S : \A k \in S : m >= k
<1> DEFINE D == {n - k : k \in S}
<1>1. D \in SUBSET Nat /\ D # {}
  <2>1. \A k \in S : k \in Nat /\ n - k \in Nat
    OBVIOUS
  <2> QED
    BY <2>1
<1>2. \E d \in D : \A e \in D : d <= e
  <2> DEFINE R == OpToRel(<, Nat)
  <2>1. PICK d \in D : \A e \in D : <<e, d>> \notin R
    <3> HIDE DEF D
    <3> QED
      BY <1>1, WFMin, NatLessThanWellFounded, Zenon
  <2>2. \A e \in D : ~(e < d)
    BY <1>1, <2>1, Zenon DEF OpToRel
  <2> HIDE DEF R, D
  <2> QED
    BY <1>1, <2>2
<1>3. PICK m \in S : \A e \in D : n - m <= e
  BY <1>2
<1>4. ASSUME NEW k \in S
      PROVE  m >= k
  <2>1. n - m <= n - k
    BY <1>3
  <2> QED
    BY <2>1
<1> QED
  BY <1>4

LEMMA NameType ==
  ASSUME NEW host \in WrittenHost
  PROVE  NormalizeHost(host) \in Seq(Labels)
<1>1. host.labels \in Seq(Labels)
  BY DEF WrittenHost
<1>2. [i \in DOMAIN host.labels |-> Lower[host.labels[i]]] \in Seq(Labels)
  <2>1. DOMAIN host.labels = 1 .. Len(host.labels) /\ Len(host.labels) \in Nat
    BY <1>1
  <2>2. \A i \in DOMAIN host.labels : Lower[host.labels[i]] \in Labels
    BY <1>1, HostAssumption
  <2> QED
    BY <2>1, <2>2, IsASeq
<1> QED
  BY <1>2 DEF NormalizeHost, NoName

LEMMA SuffixType ==
  ASSUME NEW key \in WrittenHost
  PROVE  WildcardSuffix(key) \in Seq(Labels)
<1>1. CASE IsWildcard(key) /\ key.port = "none"
  <2>1. key.labels \in Seq(Labels) /\ key.labels # << >>
    BY <1>1 DEF WrittenHost, IsWildcard
  <2>2. Tail(key.labels) \in Seq(Labels)
    BY <2>1
  <2>3. BelowStar(key) \in WrittenHost
    BY <2>2 DEF BelowStar, WrittenHost
  <2> QED
    BY <1>1, <2>3, NameType DEF WildcardSuffix
<1>2. CASE ~(IsWildcard(key) /\ key.port = "none")
  BY <1>2 DEF WildcardSuffix, NoName
<1> QED
  BY <1>1, <1>2

LEMMA ReverseLength ==
  ASSUME NEW S, NEW s \in Seq(S)
  PROVE  Len(Reverse(s)) = Len(s)
<1>1. Len(s) \in Nat /\ \A i \in 1 .. Len(s) : s[(Len(s) - i) + 1] \in S
  OBVIOUS
<1>2. Reverse(s) \in Seq(S)
  BY <1>1, IsASeq DEF Reverse
<1>3. DOMAIN Reverse(s) = 1 .. Len(s) /\ DOMAIN Reverse(s) = 1 .. Len(Reverse(s))
  BY <1>2 DEF Reverse
<1> QED
  BY <1>1, <1>2, <1>3, LenProperties

HostsTables == Seq([key : WrittenHost, origin : OriginNames])

(* Of the wildcards that cover a name, one has the longest suffix.         *)
LEMMA LongestExists ==
  ASSUME NEW hosts \in HostsTables, NEW name \in Seq(Labels), WildcardRules(hosts, name) # {}
  PROVE  Longest(hosts, WildcardRules(hosts, name)) # {}
<1> DEFINE W == WildcardRules(hosts, name)
           length(i) == Len(WildcardSuffix(hosts[i].key))
<1>1. \A i \in W : length(i) \in Nat /\ length(i) + 1 \in 1 .. Len(name) + 1
  <2> TAKE i \in W
  <2>1. hosts[i].key \in WrittenHost
    <3>1. i \in 1 .. Len(hosts)
      BY DEF WildcardRules, HostsTables
    <3>2. hosts[i] \in [key : WrittenHost, origin : OriginNames]
      BY <3>1, ElementOfSeq DEF HostsTables
    <3> QED
      BY <3>2
  <2>2. WildcardSuffix(hosts[i].key) \in Seq(Labels)
    BY <2>1, SuffixType
  <2>3. IsSuffix(WildcardSuffix(hosts[i].key), name)
    <3>1. Covers(hosts[i].key, name)
      BY DEF WildcardRules
    <3> QED
      BY <3>1 DEF Covers, IsStrictSuffix
  <2>4. Len(WildcardSuffix(hosts[i].key)) <= Len(name)
    <3>1. Len(Reverse(WildcardSuffix(hosts[i].key))) <= Len(Reverse(name))
      BY <2>3 DEF IsSuffix, IsPrefix
    <3> QED
      BY <2>2, <3>1, ReverseLength
  <2> QED
    BY <2>2, <2>4
<1> DEFINE S == {length(i) + 1 : i \in W}
<1>2. S \in SUBSET (1 .. Len(name) + 1) /\ S # {}
  BY <1>1
<1>3. \E m \in S : \A k \in S : m >= k
  <2>1. Len(name) + 1 \in Nat
    OBVIOUS
  <2> HIDE DEF S
  <2> QED
    BY <1>2, <2>1, HasGreatest
<1>4. PICK i \in W : \A j \in W : length(i) + 1 >= length(j) + 1
  BY <1>3
<1>5. \A j \in W : length(j) <= length(i)
  BY <1>1, <1>4
<1> QED
  BY <1>4, <1>5 DEF Longest

(* A request is misdirected or led to a rule of the table.                 *)
LEMMA ResolveType ==
  ASSUME NEW hosts \in HostsTables, NEW header \in WrittenHost
  PROVE  Resolve(hosts, header) \in {0} \cup DOMAIN hosts
<1> DEFINE n == Len(hosts)
           name == NormalizeHost(header)
           exact == ExactRules(hosts, name)
           wildcards == WildcardRules(hosts, name)
           longest == Longest(hosts, wildcards)
           globals == Globals(hosts)
<1>1. n \in Nat /\ DOMAIN hosts = 1 .. n /\ name \in Seq(Labels)
  BY NameType DEF HostsTables
<1>2. /\ exact \subseteq DOMAIN hosts
      /\ globals \subseteq DOMAIN hosts
      /\ longest \subseteq DOMAIN hosts
  BY DEF ExactRules, WildcardRules, Longest, Globals
<1> HIDE DEF n
<1>3. ASSUME NEW S \in SUBSET (1 .. n), S # {}
      PROVE  Max(S) \in 1 .. n
  BY <1>1, <1>3, HasGreatest DEF Max
<1>4. ASSUME wildcards # {}
      PROVE  Min(longest) \in 1 .. n
  <2>1. longest # {}
    BY <1>1, <1>4, LongestExists
  <2>2. longest \in SUBSET Nat
    BY <1>1, <1>2
  <2> HIDE DEF longest
  <2> QED
    BY <1>1, <1>2, <2>1, <2>2, HasLeast
<1>5. Resolve(hosts, header) =
        IF name = NoName THEN 0
        ELSE IF exact # {} THEN Max(exact)
        ELSE IF wildcards # {} THEN Min(longest)
        ELSE IF globals # {} THEN Max(globals)
        ELSE 0
  BY DEF Resolve
<1> HIDE DEF name, exact, wildcards, longest, globals
<1> QED
  BY <1>1, <1>2, <1>3, <1>4, <1>5

------------------------------------------------------------------------------
(* What startup has done and what refreshes may still do.                  *)

Up == phase \notin {"off", "down"}

Snapshots == [release : Nat, error : BOOLEAN, domains : Outcomes, known : BOOLEAN]

Refreshes == [origin : OriginNames, trigger : Triggers,
              read : [release : Nat, good : BOOLEAN], swapped : BOOLEAN]

Shapes ==
  /\ phase \in {"off", "down", "sync", "reconcile", "compile", "listening"}
  /\ at \in Nat \ {0}
  /\ source \in [OriginNames -> [release : Nat \ {0}, good : BOOLEAN]]
  /\ live \in [OriginNames -> Nat]
  /\ torn \subseteq OriginNames
  /\ status \in [OriginNames -> Snapshots]
  /\ refreshes \subseteq Refreshes

(* Startup takes the origins in turn and leaves none behind without an     *)
(* active release.                                                         *)
StartInv ==
  /\ Up => site \in Sites /\ ValidManifest(site)
  /\ ~Up => at = 1 /\ refreshes = {} /\ torn = {}
  /\ phase = "reconcile" => at \in DOMAIN site.origins
  /\ phase \in {"compile", "listening"} => at > Len(site.origins)
  /\ Up => \A i \in DOMAIN site.origins :
             i < at \/ (i = at /\ phase = "reconcile") =>
               LET o == site.origins[i].id IN
               status[o].known /\ (o \in torn \/ live[o] # 0)

(* One refresh of an origin at a time, so that what one has read is not    *)
(* older than what is active, unless the origin is torn.                   *)
RefreshesInv ==
  /\ \A o \in OriginNames : live[o] <= source[o].release
  /\ \A r, s \in refreshes : r.origin = s.origin => r = s
  /\ \A r \in refreshes :
       /\ r.trigger = "startup" =>
            phase = "sync" /\ at \in DOMAIN site.origins /\ r.origin = site.origins[at].id
       /\ phase \in {"sync", "reconcile"} => r.trigger = "startup"
       /\ r.trigger # "startup" => status[r.origin].known
       /\ r.read # Unread =>
            /\ r.read.release # 0
            /\ r.read.release <= source[r.origin].release
            /\ r.origin \in torn \/ live[r.origin] <= r.read.release
       /\ r.swapped =>
            /\ r.read # Unread /\ r.read.good
            /\ r.origin \in torn \/ live[r.origin] = r.read.release

(* What operators are shown, of an origin that no refresh has torn.        *)
StatusInv ==
  /\ \A o \in OriginNames :
       /\ status[o].release = live[o] \/ Activating(o) \/ o \in torn
       /\ live[o] # 0 => status[o].known \/ Activating(o)
       /\ o \in torn => status[o].known
  /\ Up => \A i \in DOMAIN site.origins :
             i < at /\ ManagesDomains(site.origins[i].cdn)
               => status[site.origins[i].id].domains # "none"

(* A refresh that a process starts with meets no torn origin.              *)
TornInv == phase \in {"sync", "reconcile"} => torn = {}

ServerInv == Shapes /\ StartInv /\ RefreshesInv /\ StatusInv /\ TornInv

LEMMA SiteShape ==
  ASSUME NEW m \in Sites
  PROVE  /\ Len(m.origins) \in Nat
         /\ DOMAIN m.origins = 1 .. Len(m.origins)
         /\ \A i \in DOMAIN m.origins : m.origins[i].id \in OriginNames
         /\ m.hosts \in HostsTables
<1> DEFINE O == [id : OriginNames, blank : SUBSET STRING, env : BOOLEAN,
                 cdn : [provider : {"none", "cloudfront", "cloudflare", "cloudfront_saas"},
                        domains : BOOLEAN, include_wildcards : BOOLEAN, blank : SUBSET STRING]]
<1>1. m.origins \in Seq(O) /\ m.hosts \in HostsTables
  BY ServerAssumption DEF HostsTables
<1>2. \A origin \in O : origin.id \in OriginNames
  OBVIOUS
<1> HIDE DEF O
<1>3. Len(m.origins) \in Nat /\ DOMAIN m.origins = 1 .. Len(m.origins)
  BY <1>1
<1>4. \A i \in DOMAIN m.origins : m.origins[i] \in O
  BY <1>1, <1>3, ElementOfSeq
<1> QED
  BY <1>1, <1>2, <1>3, <1>4

LEMMA ServerInitInv == ServerInit => ServerInv
<1> SUFFICES ASSUME ServerInit PROVE ServerInv
  OBVIOUS
<1>1. NoStatus \in Snapshots /\ NoStatus.release = 0
  BY DEF NoStatus, Snapshots, Outcomes
<1>2. Shapes
  BY <1>1 DEF Shapes, ServerInit
<1>3. \A o \in OriginNames : live[o] = 0 /\ status[o] = NoStatus /\ source[o].release = 1
  BY DEF ServerInit
<1>4. StartInv /\ RefreshesInv /\ StatusInv /\ TornInv
  BY <1>1, <1>3 DEF StartInv, RefreshesInv, StatusInv, TornInv, ServerInit, Up
<1> QED
  BY <1>2, <1>4 DEF ServerInv

(* A process that ends leaves the storages only.                           *)
LEMMA ExitInv ==
  ASSUME ServerInv, Exit, UNCHANGED source
  PROVE  ServerInv'
<1>1. NoStatus \in Snapshots /\ NoStatus.release = 0
  BY DEF NoStatus, Snapshots, Outcomes
<1>2. \A o \in OriginNames : live'[o] = 0 /\ status'[o] = NoStatus /\ source'[o].release >= 0
  BY DEF Exit, ServerInv, Shapes
<1>3. Shapes'
  BY <1>1 DEF ServerInv, Shapes, Exit
<1>4. StartInv' /\ RefreshesInv' /\ TornInv'
  BY <1>2 DEF StartInv, RefreshesInv, TornInv, Exit, Up
<1>5. StatusInv'
  BY <1>1, <1>2 DEF StatusInv, Exit, Up
<1> QED
  BY <1>3, <1>4, <1>5 DEF ServerInv

LEMMA BootInv ==
  ASSUME ServerInv, NEW m \in Sites, Boot(m)
  PROVE  ServerInv'
<1>1. /\ at = 1 /\ refreshes = {} /\ torn = {}
      /\ Len(m.origins) \in Nat /\ DOMAIN m.origins = 1 .. Len(m.origins)
  BY SiteShape DEF Boot, ServerInv, StartInv, Up
<1>2. Shapes'
  BY DEF ServerInv, Shapes, Boot
<1>3. StartInv' /\ TornInv'
  BY <1>1 DEF ServerInv, StartInv, TornInv, Boot, Up
<1>4. RefreshesInv'
  BY <1>1 DEF ServerInv, RefreshesInv, Boot
<1>5. StatusInv'
  BY <1>1 DEF ServerInv, StatusInv, Activating, Boot, Up
<1> QED
  BY <1>2, <1>3, <1>4, <1>5 DEF ServerInv

------------------------------------------------------------------------------
(* Refreshes.                                                              *)

(* While startup reconciles an origin nothing else runs.                   *)
LEMMA NothingElseRuns ==
  ASSUME ServerInv, phase = "reconcile"
  PROVE  refreshes = {}
BY DEF ServerInv, RefreshesInv

LEMMA BeginInv ==
  ASSUME ServerInv, Up, NEW o \in OriginNames, NEW trigger \in Triggers, Begin(o, trigger),
         \/ /\ trigger = "startup" /\ phase = "sync"
            /\ at \in DOMAIN site.origins /\ o = site.origins[at].id
         \/ trigger # "startup" /\ phase \in {"compile", "listening"} /\ status[o].known
  PROVE  ServerInv'
<1> DEFINE new == Started(o, trigger)
<1>1. /\ refreshes' = refreshes \cup {new}
      /\ \A r \in refreshes : r.origin # o
      /\ UNCHANGED <<site, phase, at, source, live, torn, status>>
  BY DEF Begin, Running
<1>2. /\ new.origin = o /\ new.trigger = trigger /\ new.read = Unread /\ ~new.swapped
      /\ new \in Refreshes
  BY DEF Started, Unread, Refreshes
<1> HIDE DEF new
<1>3. Shapes'
  BY <1>1, <1>2 DEF ServerInv, Shapes
<1>4. StartInv' /\ TornInv'
  BY <1>1 DEF ServerInv, StartInv, TornInv, Up
<1>5. RefreshesInv'
  BY <1>1, <1>2 DEF ServerInv, RefreshesInv
<1>6. \A x : Activating(x)' <=> Activating(x)
  BY <1>1, <1>2 DEF Activating
<1>7. StatusInv'
  BY <1>1, <1>6 DEF ServerInv, StatusInv, Up
<1> QED
  BY <1>3, <1>4, <1>5, <1>7 DEF ServerInv

(* What a background or manual refresh may start on.                       *)
LEMMA ListedIsKnown ==
  ASSUME ServerInv, phase \in {"compile", "listening"}, NEW o \in OriginIds(site)
  PROVE  status[o].known
<1>1. Up /\ site \in Sites /\ at > Len(site.origins) /\ at \in Nat
  BY DEF ServerInv, StartInv, Shapes, Up
<1>2. PICK i \in DOMAIN site.origins : site.origins[i].id = o
  BY DEF OriginIds
<1>3. i < at
  BY <1>1, <1>2, SiteShape
<1> QED
  BY <1>1, <1>2, <1>3 DEF ServerInv, StartInv

LEMMA ReadStorageInv ==
  ASSUME ServerInv, NEW r \in refreshes, ReadStorage(r)
  PROVE  ServerInv'
<1> DEFINE new == [r EXCEPT !.read = source[r.origin]]
<1>1. /\ refreshes' = (refreshes \ {r}) \cup {new}
      /\ UNCHANGED <<site, phase, at, source, live, torn, status>>
  BY DEF ReadStorage
<1>2. /\ r \in Refreshes
      /\ source[r.origin] \in [release : Nat \ {0}, good : BOOLEAN]
  BY DEF ServerInv, Shapes, Refreshes
<1>3. /\ new.origin = r.origin /\ new.trigger = r.trigger /\ new.read = source[r.origin]
      /\ new.swapped = r.swapped /\ new \in Refreshes
  BY <1>2 DEF Refreshes
<1>4. ~r.swapped
  BY DEF ReadStorage, ServerInv, RefreshesInv
<1> HIDE DEF new
<1>5. Shapes'
  BY <1>1, <1>3 DEF ServerInv, Shapes
<1>6. StartInv' /\ TornInv'
  BY <1>1 DEF ServerInv, StartInv, TornInv, Up
<1>7. /\ new.read.release # 0
      /\ live[new.origin] <= new.read.release
      /\ new.read.release <= source[new.origin].release
  BY <1>2, <1>3 DEF ServerInv, RefreshesInv, Refreshes
<1>8. RefreshesInv'
  BY <1>1, <1>3, <1>4, <1>7 DEF ServerInv, RefreshesInv
<1>9. \A x : Activating(x)' <=> Activating(x)
  BY <1>1, <1>3 DEF Activating
<1>10. StatusInv'
  BY <1>1, <1>9 DEF ServerInv, StatusInv, Up
<1> QED
  BY <1>5, <1>6, <1>8, <1>10 DEF ServerInv

(* set_snapshot and set_error.                                             *)
LEMMA SnapshotSet ==
  ASSUME Shapes, NEW o \in OriginNames, NEW release \in Nat, SetSnapshot(o, release)
  PROVE  /\ status' \in [OriginNames -> Snapshots]
         /\ status'[o].release = release /\ status'[o].known
         /\ status'[o].domains = status[o].domains
         /\ \A x \in OriginNames \ {o} : status'[x] = status[x]
<1> DEFINE new == [status[o] EXCEPT !.release = release, !.error = FALSE, !.known = TRUE]
<1>1. status \in [OriginNames -> Snapshots] /\ status[o] \in Snapshots
  BY DEF Shapes
<1>2. /\ new \in Snapshots /\ new.release = release /\ new.known
      /\ new.domains = status[o].domains
  BY <1>1 DEF Snapshots
<1>3. status' = [status EXCEPT ![o] = new]
  BY DEF SetSnapshot
<1> HIDE DEF new
<1> QED
  BY <1>1, <1>2, <1>3

LEMMA ErrorSet ==
  ASSUME Shapes, NEW o \in OriginNames, SetError(o)
  PROVE  /\ status' \in [OriginNames -> Snapshots]
         /\ status'[o].release = status[o].release /\ status'[o].known
         /\ status'[o].domains = status[o].domains
         /\ \A x \in OriginNames \ {o} : status'[x] = status[x]
<1> DEFINE new == [status[o] EXCEPT !.error = TRUE, !.known = TRUE]
<1>1. status \in [OriginNames -> Snapshots] /\ status[o] \in Snapshots
  BY DEF Shapes
<1>2. /\ new \in Snapshots /\ new.release = status[o].release /\ new.known
      /\ new.domains = status[o].domains
  BY <1>1 DEF Snapshots
<1>3. status' = [status EXCEPT ![o] = new]
  BY DEF SetError
<1> HIDE DEF new
<1> QED
  BY <1>1, <1>2, <1>3

(* A refresh that ends is not activating any more, and the others are.     *)
LEMMA EndOfRefresh ==
  ASSUME ServerInv, NEW r \in refreshes, refreshes' = refreshes \ {r}
  PROVE  /\ ~Activating(r.origin)'
         /\ \A x : x # r.origin => (Activating(x)' <=> Activating(x))
         /\ ~r.swapped => ~Activating(r.origin)
         /\ \A s \in refreshes' : s \in refreshes /\ s.origin # r.origin
<1>1. \A s \in refreshes : s.origin = r.origin => s = r
  BY DEF ServerInv, RefreshesInv
<1> QED
  BY <1>1 DEF Activating

LEMMA SwapInv ==
  ASSUME ServerInv, NEW r \in refreshes, Swap(r)
  PROVE  ServerInv'
<1> DEFINE new == [r EXCEPT !.swapped = TRUE]
           o == r.origin
<1>1. /\ refreshes' = (refreshes \ {r}) \cup {new}
      /\ UNCHANGED <<site, phase, at, source, torn, status>>
      /\ r.read # Unread /\ r.read.good /\ ~r.swapped
  BY DEF Swap, Unread
<1>2. r \in Refreshes /\ o \in OriginNames /\ r.read.release \in Nat /\ source[o].release \in Nat
  BY DEF ServerInv, Shapes, Refreshes
<1>3. /\ new.origin = o /\ new.trigger = r.trigger /\ new.read = r.read /\ new.swapped
      /\ new \in Refreshes
  BY <1>2 DEF Refreshes
<1>4. PICK release \in 0 .. r.read.release :
        /\ o \notin torn => release = r.read.release
        /\ live' = [live EXCEPT ![o] = release]
  BY DEF Swap
<1>5. /\ live' \in [OriginNames -> Nat] /\ live'[o] = release
      /\ \A x \in OriginNames \ {o} : live'[x] = live[x]
  BY <1>2, <1>4 DEF ServerInv, Shapes
<1>6. r.read.release # 0 /\ r.read.release <= source[o].release
  BY <1>1 DEF ServerInv, RefreshesInv
<1>7. \A s \in refreshes : s # r => s.origin # o /\ s.origin \in OriginNames
  BY DEF ServerInv, Shapes, RefreshesInv, Refreshes
<1>8. /\ Activating(o)'
      /\ \A x : x # o => (Activating(x)' <=> Activating(x))
  BY <1>1, <1>3 DEF Activating
<1> HIDE DEF new, o
<1>9. Shapes'
  BY <1>1, <1>3, <1>5 DEF ServerInv, Shapes
<1>10. StartInv'
  <2>1. \A x \in OriginNames : x \in torn \/ live[x] # 0 => x \in torn \/ live'[x] # 0
    BY <1>4, <1>5, <1>6
  <2> QED
    BY <2>1, <1>1, SiteShape DEF ServerInv, StartInv, Up
<1>11. RefreshesInv' /\ TornInv'
  <2>1. \A x \in OriginNames : live'[x] <= source'[x].release
    BY <1>1, <1>2, <1>4, <1>5, <1>6 DEF ServerInv, RefreshesInv
  <2>2. \A s, t \in refreshes' : s.origin = t.origin => s = t
    BY <1>1, <1>3, <1>7 DEF ServerInv, RefreshesInv
  <2>3. o \notin torn => live'[o] = r.read.release
    BY <1>4, <1>5
  <2>4. /\ r.trigger = "startup" =>
            phase = "sync" /\ at \in DOMAIN site.origins /\ o = site.origins[at].id
        /\ phase \in {"sync", "reconcile"} => r.trigger = "startup"
        /\ r.trigger # "startup" => status[o].known
    BY DEF ServerInv, RefreshesInv, o
  <2>5. ASSUME NEW s \in refreshes'
        PROVE  /\ s.trigger = "startup" =>
                    phase = "sync" /\ at \in DOMAIN site.origins /\ s.origin = site.origins[at].id
               /\ phase \in {"sync", "reconcile"} => s.trigger = "startup"
               /\ s.trigger # "startup" => status[s.origin].known
               /\ s.read # Unread =>
                    /\ s.read.release # 0
                    /\ s.read.release <= source[s.origin].release
                    /\ s.origin \in torn \/ live'[s.origin] <= s.read.release
               /\ s.swapped =>
                    /\ s.read # Unread /\ s.read.good
                    /\ s.origin \in torn \/ live'[s.origin] = s.read.release
    <3>1. CASE s = new
      BY <1>1, <1>2, <1>3, <1>6, <2>3, <2>4, <3>1
    <3>2. CASE s # new
      <4>1. s \in refreshes /\ s # r
        BY <1>1, <3>2
      <4>2. live'[s.origin] = live[s.origin]
        BY <1>5, <1>7, <4>1
      <4> QED
        BY <4>1, <4>2 DEF ServerInv, RefreshesInv
    <3> QED
      BY <3>1, <3>2
  <2> QED
    BY <2>1, <2>2, <2>5, <1>1 DEF ServerInv, RefreshesInv, TornInv
<1>12. StatusInv'
  BY <1>1, <1>5, <1>8 DEF ServerInv, StatusInv, Up
<1> QED
  BY <1>9, <1>10, <1>11, <1>12 DEF ServerInv

LEMMA ActivatedInv ==
  ASSUME ServerInv, NEW r \in refreshes, Activated(r)
  PROVE  ServerInv'
<1> DEFINE o == r.origin
           release == r.read.release
<1>1. o \in OriginNames /\ release \in Nat /\ r.trigger \in Triggers
  BY DEF ServerInv, Shapes, Refreshes
<1>2. /\ release # 0
      /\ o \in torn \/ live[o] = release
  BY DEF Activated, ServerInv, RefreshesInv
<1>3. SetSnapshot(o, release)
  BY DEF Activated
<1>4. /\ status' \in [OriginNames -> Snapshots]
      /\ status'[o].release = release /\ status'[o].known
      /\ status'[o].domains = status[o].domains
      /\ \A x \in OriginNames \ {o} : status'[x] = status[x]
  BY <1>1, <1>3, SnapshotSet DEF ServerInv
<1>5. /\ refreshes' = refreshes \ {r}
      /\ UNCHANGED <<site, at, source, live, torn>>
      /\ phase' = IF r.trigger = "startup" THEN "reconcile" ELSE phase
  BY DEF Activated
<1>6. r.trigger = "startup" =>
        /\ phase = "sync" /\ at \in DOMAIN site.origins /\ o = site.origins[at].id /\ torn = {}
  BY DEF ServerInv, RefreshesInv, TornInv
<1>7. /\ ~Activating(o)' /\ \A x : x # o => (Activating(x)' <=> Activating(x))
      /\ \A s \in refreshes' : s \in refreshes /\ s.origin # o
  BY <1>5, EndOfRefresh
<1>8. r.trigger = "startup" => refreshes' = {}
  BY <1>5, <1>6, <1>7 DEF ServerInv, RefreshesInv
<1>9. Up' <=> Up
  BY <1>5, <1>6 DEF Up
<1> HIDE DEF o, release
<1>10. Shapes'
  BY <1>4, <1>5 DEF ServerInv, Shapes
<1>11. \A x \in OriginNames : status[x].known => status'[x].known
  BY <1>4
<1>12. StartInv'
  <2>1. CASE r.trigger = "startup"
    BY <2>1, <1>2, <1>4, <1>5, <1>6, <1>8, <1>9, <1>11, SiteShape DEF ServerInv, StartInv, Up
  <2>2. CASE r.trigger # "startup"
    BY <2>2, <1>5, <1>9, <1>11, SiteShape DEF ServerInv, StartInv, Up
  <2> QED
    BY <2>1, <2>2
<1>13. RefreshesInv' /\ TornInv'
  <2>1. ASSUME NEW s \in refreshes'
        PROVE  /\ r.trigger # "startup" /\ phase' = phase
               /\ s \in refreshes /\ s.origin \in OriginNames
               /\ status'[s.origin] = status[s.origin]
    BY <1>4, <1>5, <1>7, <1>8 DEF ServerInv, Shapes, Refreshes
  <2>2. TornInv'
    BY <1>5, <1>6 DEF ServerInv, TornInv
  <2> QED
    BY <2>1, <2>2, <1>5 DEF ServerInv, RefreshesInv
<1>14. StatusInv'
  <2>1. \A x \in OriginNames :
          /\ status'[x].release = live'[x] \/ Activating(x)' \/ x \in torn'
          /\ live'[x] # 0 => status'[x].known \/ Activating(x)'
          /\ x \in torn' => status'[x].known
    BY <1>2, <1>4, <1>5, <1>7 DEF ServerInv, StatusInv
  <2>2. \A x \in OriginNames : status'[x].domains = status[x].domains
    BY <1>4
  <2> QED
    BY <2>1, <2>2, <1>5, <1>9, SiteShape DEF ServerInv, StartInv, StatusInv
<1> QED
  BY <1>10, <1>12, <1>13, <1>14 DEF ServerInv

(* A refresh that a loop or an operator started ends, with or without an   *)
(* error, and may tear its origin.                                         *)
LEMMA EndInv ==
  ASSUME ServerInv, NEW r \in refreshes, r.trigger # "startup", refreshes' = refreshes \ {r},
         UNCHANGED <<site, phase, at, live, source>>, NEW when \in BOOLEAN, Tear(r.origin, when),
         r.swapped => when, SetError(r.origin) \/ status' = status
  PROVE  ServerInv'
<1> DEFINE o == r.origin
<1>1. o \in OriginNames /\ status[o].known /\ phase \notin {"sync", "reconcile"}
  BY DEF ServerInv, Shapes, RefreshesInv, Refreshes
<1>2. /\ status' \in [OriginNames -> Snapshots]
      /\ status'[o].release = status[o].release /\ status'[o].known
      /\ status'[o].domains = status[o].domains
      /\ \A x \in OriginNames \ {o} : status'[x] = status[x]
  BY <1>1, ErrorSet DEF ServerInv, Shapes
<1>3. /\ torn \subseteq torn' /\ torn' \subseteq torn \cup {o}
      /\ r.swapped => o \in torn'
  BY DEF Tear
<1>4. /\ \A x : x # o => (Activating(x)' <=> Activating(x))
      /\ ~r.swapped => ~Activating(o)
      /\ \A s \in refreshes' : s \in refreshes /\ s.origin # o
  BY EndOfRefresh
<1>5. Up
  BY DEF ServerInv, StartInv
<1> HIDE DEF o
<1>6. Shapes'
  BY <1>1, <1>2, <1>3 DEF ServerInv, Shapes
<1>7. \A x \in OriginNames : status[x].known => status'[x].known
  BY <1>2
<1>8. StartInv'
  BY <1>3, <1>5, <1>7, SiteShape DEF ServerInv, StartInv, Up
<1>9. RefreshesInv' /\ TornInv'
  <2>1. \A s \in refreshes' : s \in refreshes /\ s.origin \in OriginNames
    BY <1>4 DEF ServerInv, Shapes, Refreshes
  <2>2. TornInv'
    BY <1>1 DEF TornInv
  <2> QED
    BY <2>1, <2>2, <1>3, <1>7 DEF ServerInv, RefreshesInv
<1>10. StatusInv'
  <2>1. \A x \in OriginNames :
          /\ status'[x].release = live'[x] \/ Activating(x)' \/ x \in torn'
          /\ live'[x] # 0 => status'[x].known \/ Activating(x)'
          /\ x \in torn' => status'[x].known
    BY <1>2, <1>3, <1>4 DEF ServerInv, StatusInv
  <2>2. \A x \in OriginNames : status'[x].domains = status[x].domains
    BY <1>2
  <2> QED
    BY <2>1, <2>2, <1>5, SiteShape DEF ServerInv, StartInv, StatusInv, Up
<1> QED
  BY <1>6, <1>8, <1>9, <1>10 DEF ServerInv

LEMMA SwappedIsBoolean ==
  ASSUME ServerInv, NEW r \in refreshes
  PROVE  r.swapped \in BOOLEAN /\ r.read.good \in BOOLEAN
BY DEF ServerInv, Shapes, Refreshes

LEMMA FailedInv ==
  ASSUME ServerInv, NEW r \in refreshes, Failed(r)
  PROVE  ServerInv'
<1>1. CASE r.trigger = "startup"
  BY <1>1, ExitInv DEF Failed
<1>2. CASE r.trigger # "startup"
  BY <1>2, EndInv, SwappedIsBoolean DEF Failed
<1> QED
  BY <1>1, <1>2

LEMMA CancelledInv ==
  ASSUME ServerInv, NEW r \in refreshes, Cancelled(r)
  PROVE  ServerInv'
<1>1. PICK renaming \in {r.swapped, r.read.good} : Tear(r.origin, renaming)
  BY DEF Cancelled
<1>2. r.swapped => r.read.good
  BY DEF ServerInv, RefreshesInv
<1>3. r.trigger # "startup"
  BY DEF Cancelled
<1> QED
  BY <1>1, <1>2, <1>3, EndInv, SwappedIsBoolean DEF Cancelled

LEMMA LooseRenameInv ==
  ASSUME ServerInv, NEW o \in OriginNames, LooseRename(o)
  PROVE  ServerInv'
<1>1. /\ o \in torn /\ UNCHANGED <<site, phase, at, source, refreshes, torn, status>>
      /\ source[o].release \in Nat
  BY DEF LooseRename, ServerInv, Shapes
<1>2. PICK release \in 0 .. source[o].release : live' = [live EXCEPT ![o] = release]
  BY DEF LooseRename
<1>3. /\ live' \in [OriginNames -> Nat] /\ live'[o] <= source[o].release
      /\ \A x \in OriginNames \ {o} : live'[x] = live[x]
  BY <1>1, <1>2 DEF ServerInv, Shapes
<1>4. Shapes'
  BY <1>1, <1>3 DEF ServerInv, Shapes
<1>5. StartInv' /\ TornInv'
  <2>1. \A x \in OriginNames : x \in torn \/ live[x] # 0 => x \in torn \/ live'[x] # 0
    BY <1>1, <1>3
  <2> QED
    BY <2>1, <1>1, SiteShape DEF ServerInv, StartInv, TornInv, Up
<1>6. RefreshesInv'
  <2>1. \A s \in refreshes : s.origin \in OriginNames
    BY DEF ServerInv, Shapes, Refreshes
  <2> QED
    BY <2>1, <1>1, <1>3 DEF ServerInv, RefreshesInv
<1>7. StatusInv'
  BY <1>1, <1>3 DEF ServerInv, StatusInv, Activating, Up
<1> QED
  BY <1>4, <1>5, <1>6, <1>7 DEF ServerInv

------------------------------------------------------------------------------
(* Startup.                                                                *)

LEMMA ReconcileInv ==
  ASSUME ServerInv, Reconcile
  PROVE  ServerInv'
<1> DEFINE origin == site.origins[at]
           o == origin.id
<1>1. /\ phase = "reconcile" /\ phase' = "sync" /\ at' = at + 1
      /\ UNCHANGED <<site, source, refreshes, live, torn>>
  BY DEF Reconcile
<1>2. /\ Up /\ site \in Sites /\ at \in DOMAIN site.origins /\ o \in OriginNames
      /\ refreshes = {} /\ torn = {} /\ at \in Nat /\ live[o] # 0 /\ status[o].known
  BY <1>1, SiteShape, NothingElseRuns DEF ServerInv, Shapes, StartInv, TornInv, Up
<1>3. status[o] \in Snapshots /\ status[o].known /\ status \in [OriginNames -> Snapshots]
  BY <1>2 DEF ServerInv, StatusInv, Shapes
<1>4. /\ status' \in [OriginNames -> Snapshots]
      /\ \A x \in OriginNames \ {o} : status'[x] = status[x]
      /\ status'[o].release = status[o].release /\ status'[o].known
      /\ status'[o].domains = "none" =>
           ~ManagesDomains(origin.cdn) /\ status[o].domains = "none"
  <2>1. CASE ManagesDomains(origin.cdn)
    <3>1. PICK outcome \in {"submitted", "error"} : SetDomains(o, outcome)
      BY <2>1 DEF Reconcile
    <3> DEFINE new == [status[o] EXCEPT !.domains = outcome]
    <3>2. status' = [status EXCEPT ![o] = new]
      BY <1>3, <3>1 DEF SetDomains
    <3>3. /\ new \in Snapshots /\ new.release = status[o].release /\ new.known
          /\ new.domains # "none"
      BY <1>3 DEF Snapshots, Outcomes
    <3> HIDE DEF new, o
    <3> QED
      BY <1>2, <1>3, <3>2, <3>3
  <2>2. CASE ~ManagesDomains(origin.cdn)
    BY <1>3, <2>2 DEF Reconcile
  <2> QED
    BY <2>1, <2>2
<1>5. Shapes'
  BY <1>1, <1>2, <1>4 DEF ServerInv, Shapes
<1>6. StartInv'
  <2>1. \A x \in OriginNames : status[x].known => status'[x].known
    BY <1>4
  <2> QED
    BY <2>1, <1>1, <1>2, SiteShape DEF ServerInv, StartInv, Up
<1>7. RefreshesInv' /\ TornInv'
  BY <1>1, <1>2 DEF ServerInv, RefreshesInv, TornInv
<1>8. StatusInv'
  <2>1. \A x \in OriginNames :
          /\ status'[x].release = live'[x] \/ Activating(x)' \/ x \in torn'
          /\ live'[x] # 0 => status'[x].known \/ Activating(x)'
          /\ x \in torn' => status'[x].known
    BY <1>1, <1>2, <1>3, <1>4 DEF ServerInv, StatusInv, Activating
  <2>2. \A x \in OriginNames : status'[x].domains = "none" => status[x].domains = "none"
    BY <1>4
  <2>3. ASSUME NEW i \in DOMAIN site.origins, i < at + 1, ManagesDomains(site.origins[i].cdn)
        PROVE  status'[site.origins[i].id].domains # "none"
    <3>1. CASE i = at
      BY <1>4, <2>3, <3>1
    <3>2. CASE i # at
      <4>1. i < at /\ site.origins[i].id \in OriginNames
        BY <1>2, <2>3, <3>2, SiteShape
      <4>2. status[site.origins[i].id].domains # "none"
        BY <1>2, <2>3, <4>1 DEF ServerInv, StatusInv
      <4> QED
        BY <2>2, <4>1, <4>2
    <3> QED
      BY <3>1, <3>2
  <2> QED
    BY <1>1, <2>1, <2>3 DEF StatusInv
<1> QED
  BY <1>5, <1>6, <1>7, <1>8 DEF ServerInv

LEMMA SpawnLoopsInv ==
  ASSUME ServerInv, SpawnLoops
  PROVE  ServerInv'
<1>1. refreshes = {}
  BY SiteShape DEF SpawnLoops, ServerInv, RefreshesInv, StartInv, Up
<1>2. Shapes'
  BY DEF SpawnLoops, ServerInv, Shapes
<1>3. StartInv'
  BY DEF SpawnLoops, ServerInv, StartInv, Up
<1>4. RefreshesInv' /\ TornInv'
  BY <1>1 DEF SpawnLoops, ServerInv, RefreshesInv, TornInv
<1>5. StatusInv'
  BY DEF SpawnLoops, ServerInv, StatusInv, Activating, Up
<1> QED
  BY <1>2, <1>3, <1>4, <1>5 DEF ServerInv

LEMMA ListenInv ==
  ASSUME ServerInv, Listen
  PROVE  ServerInv'
<1>1. CASE Compiles(site.hosts)
  <2>1. /\ phase = "compile" /\ phase' = "listening"
        /\ UNCHANGED <<site, at, source, refreshes, live, torn, status>>
    BY <1>1 DEF Listen
  <2>2. Shapes'
    BY <2>1 DEF ServerInv, Shapes
  <2>3. StartInv' /\ StatusInv' /\ TornInv'
    BY <2>1 DEF ServerInv, StartInv, StatusInv, TornInv, Activating, Up
  <2>4. RefreshesInv'
    BY <2>1 DEF ServerInv, RefreshesInv
  <2> QED
    BY <2>2, <2>3, <2>4 DEF ServerInv
<1>2. CASE ~Compiles(site.hosts)
  BY <1>2, ExitInv DEF Listen
<1> QED
  BY <1>1, <1>2

LEMMA PublishInv ==
  ASSUME ServerInv, NEW o \in OriginNames, Publish(o)
  PROVE  ServerInv'
<1>1. UNCHANGED <<site, phase, at, refreshes, live, torn, status>>
  BY DEF Publish
<1>2. /\ source' \in [OriginNames -> [release : Nat \ {0}, good : BOOLEAN]]
      /\ \A x \in OriginNames : source[x].release <= source'[x].release
  <2>1. PICK good \in BOOLEAN :
          source' = [source EXCEPT ![o] = [release |-> source[o].release + 1, good |-> good]]
    BY DEF Publish
  <2>2. \A x \in OriginNames : source[x].release \in Nat
    BY DEF ServerInv, Shapes
  <2> QED
    BY <2>1, <2>2 DEF ServerInv, Shapes
<1>3. Shapes'
  BY <1>1, <1>2 DEF ServerInv, Shapes
<1>4. StartInv' /\ StatusInv' /\ TornInv'
  BY <1>1 DEF ServerInv, StartInv, StatusInv, TornInv, Activating, Up
<1>5. RefreshesInv'
  <2>1. \A x \in OriginNames : source[x].release \in Nat /\ source'[x].release \in Nat /\ live[x] \in Nat
    BY <1>2 DEF ServerInv, Shapes
  <2>2. \A r \in refreshes : r.origin \in OriginNames /\ r.read.release \in Nat
    BY DEF ServerInv, Shapes, Refreshes
  <2> QED
    BY <1>1, <1>2, <2>1, <2>2 DEF ServerInv, RefreshesInv
<1> QED
  BY <1>3, <1>4, <1>5 DEF ServerInv

LEMMA ServerNextInv == ServerInv /\ [ServerNext]_serverVars => ServerInv'
<1> SUFFICES ASSUME ServerInv, [ServerNext]_serverVars
             PROVE  ServerInv'
  OBVIOUS
<1>1. CASE UNCHANGED serverVars
  BY <1>1
  DEF serverVars, ServerInv, Shapes, StartInv, RefreshesInv, StatusInv, TornInv, Activating, Up
<1>2. CASE \E m \in Sites : Boot(m)
  BY <1>2, BootInv
<1>3. CASE \E m \in Sites : BootFails(m)
  BY <1>3
  DEF BootFails, ServerInv, Shapes, StartInv, RefreshesInv, StatusInv, TornInv, Activating, Up
<1>4. CASE Crash
  BY <1>4, ExitInv DEF Crash
<1>5. CASE StartupSync
  <2>1. Up /\ at \in DOMAIN site.origins /\ site.origins[at].id \in OriginNames
    BY <1>5, SiteShape DEF StartupSync, ServerInv, Shapes, StartInv, Up
  <2> QED
    BY <1>5, <2>1, BeginInv DEF StartupSync, Triggers
<1>6. CASE Reconcile \/ SpawnLoops \/ Listen
  BY <1>6, ReconcileInv, SpawnLoopsInv, ListenInv
<1>7. ASSUME NEW o \in OriginNames, BackgroundSync(o) \/ ManualSync(o)
      PROVE  ServerInv'
  <2>1. phase \in {"compile", "listening"} /\ o \in OriginIds(site)
    BY <1>7 DEF BackgroundSync, ManualSync
  <2>2. status[o].known
    BY <2>1, ListedIsKnown
  <2> QED
    BY <1>7, <2>1, <2>2, BeginInv DEF BackgroundSync, ManualSync, Triggers, Up
<1>8. CASE \E o \in OriginNames : Publish(o) \/ LooseRename(o)
  BY <1>8, PublishInv, LooseRenameInv
<1>9. CASE \E r \in refreshes : Refresh(r) \/ Cancelled(r)
  BY <1>9, ReadStorageInv, SwapInv, ActivatedInv, FailedInv, CancelledInv DEF Refresh
<1> QED
  BY <1>1, <1>2, <1>3, <1>4, <1>5, <1>6, <1>7, <1>8, <1>9 DEF ServerNext

LEMMA ServerAlways == ServerSpec => []ServerInv
BY ServerInitInv, ServerNextInv, PTL DEF ServerSpec

------------------------------------------------------------------------------
(* Theorems.                                                               *)

(* Where a rule of a listening server leads there is something to serve.   *)
LEMMA RuleIsServed ==
  ASSUME ServerInv, Listening, NEW rule \in DOMAIN site.hosts,
         site.hosts[rule].origin \notin torn
  PROVE  live[site.hosts[rule].origin] \in Nat \ {0}
<1>1. Up /\ site \in Sites /\ ValidManifest(site)
  BY DEF Listening, Up, ServerInv, StartInv
<1>2. PICK i \in DOMAIN site.origins : site.hosts[rule].origin = site.origins[i].id
  BY <1>1 DEF ValidManifest, OriginIds
<1>3. i < at /\ site.origins[i].id \in OriginNames
  BY <1>1, SiteShape DEF Listening, ServerInv, Shapes, StartInv
<1>4. live[site.origins[i].id] # 0
  BY <1>1, <1>2, <1>3 DEF ServerInv, StartInv
<1> QED
  BY <1>2, <1>3, <1>4 DEF ServerInv, Shapes

LEMMA RoutingType ==
  ASSUME ServerInv, Listening, NEW v \in Visitors
  PROVE  Routing[site][v] \in {0} \cup DOMAIN site.hosts
<1>1. site \in Sites /\ site.hosts \in HostsTables
  BY SiteShape DEF Listening, Up, ServerInv, StartInv
<1>2. HostHeader[v] \in WrittenHost
  BY ServerAssumption
<1>3. Routing[site][v] = Resolve(site.hosts, HostHeader[v])
  BY <1>1 DEF Routing
<1> QED
  BY <1>1, <1>2, <1>3, ResolveType

(* Whatever failed before, a server that listens has something to serve for*)
(* every host that leads to an origin no refresh has torn.                 *)
THEOREM EveryRouteIsServed == ServerSpec => []RoutedHostsAreServed
<1>1. ServerInv => RoutedHostsAreServed
  <2> SUFFICES ASSUME ServerInv, Listening, NEW v \in Visitors, Unharmed(v)
               PROVE  Answer(v).status # 500
    BY DEF RoutedHostsAreServed
  <2> DEFINE rule == Routing[site][v]
  <2>1. CASE rule = 0
    BY <2>1 DEF Answer
  <2>2. CASE rule # 0
    <3>1. live[site.hosts[rule].origin] # 0
      BY <2>2, RoutingType, RuleIsServed DEF Unharmed
    <3> QED
      BY <2>2, <3>1 DEF Answer
  <2> QED
    BY <2>1, <2>2
<1> QED
  BY <1>1, ServerAlways, PTL

(* The status route lists every origin, as visitors meet it unless its     *)
(* snapshot is about to be written or a refresh has torn it.               *)
THEOREM StatusIsComplete == ServerSpec => []OperatorsSeeEveryOrigin
<1>1. ServerInv => OperatorsSeeEveryOrigin
  <2> SUFFICES ASSUME ServerInv, Listening, NEW i \in DOMAIN site.origins
               PROVE  LET o == site.origins[i].id IN
                      /\ status[o].known
                      /\ status[o].release = live[o] \/ Activating(o) \/ o \in torn
                      /\ ManagesDomains(site.origins[i].cdn) => status[o].domains # "none"
    BY DEF OperatorsSeeEveryOrigin
  <2>1. Up /\ site \in Sites
    BY DEF Listening, Up, ServerInv, StartInv
  <2>2. i < at /\ site.origins[i].id \in OriginNames
    BY <2>1, SiteShape DEF Listening, ServerInv, Shapes, StartInv
  <2>3. status[site.origins[i].id].known
    BY <2>1, <2>2 DEF ServerInv, StartInv
  <2> QED
    BY <2>1, <2>2, <2>3 DEF ServerInv, StatusInv
<1> QED
  BY <1>1, ServerAlways, PTL

(* No refresh puts an older release in the place of a newer one.           *)
LEMMA LiveMovesForward ==
  ASSUME ServerInv, ServerNext, Listening, Listening'
  PROVE  site' = site /\ \A o \in OriginNames : o \notin torn' => live[o] <= live'[o]
<1>1. \A o \in OriginNames : live[o] \in Nat
  BY DEF ServerInv, Shapes
<1>2. ~Exit
  BY DEF Exit, Listening
<1>3. CASE \E r \in refreshes : Swap(r)
  <2>1. PICK r \in refreshes : Swap(r)
    BY <1>3
  <2>2. /\ r.origin \in OriginNames
        /\ r.origin \notin torn => live[r.origin] <= r.read.release
    BY <2>1 DEF ServerInv, Shapes, Refreshes, RefreshesInv, Swap, Unread
  <2> QED
    BY <1>1, <2>1, <2>2 DEF Swap, ServerInv, Shapes
<1>4. CASE \E r \in refreshes : ReadStorage(r) \/ Activated(r) \/ Failed(r) \/ Cancelled(r)
  BY <1>1, <1>2, <1>4 DEF ReadStorage, Activated, Failed, Cancelled
<1>5. CASE \E m \in Sites : Boot(m) \/ BootFails(m)
  BY <1>5 DEF Boot, BootFails, Listening
<1>6. CASE Crash \/ StartupSync \/ Reconcile \/ SpawnLoops \/ Listen
  BY <1>2, <1>6 DEF Crash, StartupSync, Reconcile, SpawnLoops, Listen, Listening
<1>7. CASE \E o \in OriginNames : BackgroundSync(o) \/ ManualSync(o) \/ Publish(o)
  BY <1>1, <1>7 DEF BackgroundSync, ManualSync, Publish, Begin
<1>8. CASE \E o \in OriginNames : LooseRename(o)
  BY <1>1, <1>8 DEF LooseRename, ServerInv, Shapes
<1> QED
  BY <1>3, <1>4, <1>5, <1>6, <1>7, <1>8 DEF ServerNext, Refresh

(* A visitor never sees an older release than before, in an origin that is *)
(* not torn.                                                               *)
THEOREM VisitorsMoveForward == ServerSpec => ReleasesOnlyMoveForward
<1> DEFINE A == Listening /\ Listening' =>
                  \A v \in Visitors : Unharmed(v)' => Answer(v).release <= Answer(v)'.release
<1>1. ServerInv /\ [ServerNext]_serverVars => [A]_serverVars
  <2> SUFFICES ASSUME ServerInv, ServerNext, Listening, Listening', NEW v \in Visitors, Unharmed(v)'
               PROVE  Answer(v).release <= Answer(v)'.release
    OBVIOUS
  <2> DEFINE rule == Routing[site][v]
  <2>1. site' = site /\ \A o \in OriginNames : o \notin torn' => live[o] <= live'[o]
    BY LiveMovesForward
  <2>2. rule \in {0} \cup DOMAIN site.hosts
    BY RoutingType
  <2>3. CASE rule = 0
    BY <2>1, <2>3 DEF Answer
  <2>4. CASE rule # 0
    <3>1. site.hosts[rule].origin \in OriginNames
      <4>1. site.hosts \in HostsTables
        BY SiteShape DEF Listening, Up, ServerInv, StartInv
      <4>2. site.hosts[rule].origin \in OriginNames
        <5>1. rule \in 1 .. Len(site.hosts)
          BY <2>2, <2>4, <4>1 DEF HostsTables
        <5> HIDE DEF rule
        <5>2. site.hosts[rule] \in [key : WrittenHost, origin : OriginNames]
          BY <4>1, <5>1, ElementOfSeq DEF HostsTables
        <5> QED
          BY <5>2
      <4> QED
        BY <4>2
    <3>2. /\ Answer(v).release = live[site.hosts[rule].origin]
          /\ Answer(v)'.release = live'[site.hosts[rule].origin]
      BY <2>1, <2>4 DEF Answer, Routing
    <3>3. site.hosts[rule].origin \notin torn'
      BY <2>1, <2>4 DEF Unharmed, Routing
    <3> QED
      BY <2>1, <3>1, <3>2, <3>3
  <2> QED
    BY <2>3, <2>4
<1> QED
  BY <1>1, ServerAlways, PTL DEF ServerSpec, ReleasesOnlyMoveForward

------------------------------------------------------------------------------
(* The hosts table: what each of its readers makes of it.                  *)

(* A name ends in a suffix and is longer.                                  *)
EndsWith(name, s) ==
  /\ Len(s) < Len(name)
  /\ \A i \in 1 .. Len(s) : s[i] = name[Len(name) - Len(s) + i]

LEMMA EndsBySubSeq ==
  ASSUME NEW name \in Seq(Labels), NEW s \in Seq(Labels), s # << >>
  PROVE  (\E k \in 1 .. Len(name) - 1 : SubSeq(name, k + 1, Len(name)) = s) <=> EndsWith(name, s)
<1>1. Len(name) \in Nat /\ Len(s) \in Nat /\ Len(s) >= 1
  BY EmptySeq, LenProperties
<1>2. ASSUME NEW k \in 1 .. Len(name) - 1
      PROVE  /\ SubSeq(name, k + 1, Len(name)) \in Seq(Labels)
             /\ Len(SubSeq(name, k + 1, Len(name))) = Len(name) - k
             /\ \A i \in 1 .. Len(name) - k : SubSeq(name, k + 1, Len(name))[i] = name[k + i]
  <2>1. \A i \in k + 1 .. Len(name) : name[i] \in Labels
    BY <1>1, ElementOfSeq
  <2>2. k + 1 \in Nat /\ k + 1 <= Len(name)
    BY <1>1
  <2>3. /\ SubSeq(name, k + 1, Len(name)) \in Seq(Labels)
        /\ Len(SubSeq(name, k + 1, Len(name))) = Len(name) - (k + 1) + 1
        /\ \A i \in 1 .. Len(name) - (k + 1) + 1 :
             SubSeq(name, k + 1, Len(name))[i] = name[(k + 1) + i - 1]
    BY <1>1, <2>1, <2>2, SubSeqProperties
  <2>4. Len(name) - (k + 1) + 1 = Len(name) - k
    BY <1>1
  <2>5. ASSUME NEW i \in 1 .. Len(name) - k
        PROVE  SubSeq(name, k + 1, Len(name))[i] = name[k + i]
    <3>1. (k + 1) + i - 1 = k + i
      OBVIOUS
    <3>2. SubSeq(name, k + 1, Len(name))[i] = name[(k + 1) + i - 1]
      BY <2>3, <2>4
    <3> QED
      BY <3>1, <3>2
  <2> QED
    BY <2>3, <2>4, <2>5
<1>3. ASSUME NEW k \in 1 .. Len(name) - 1, SubSeq(name, k + 1, Len(name)) = s
      PROVE  EndsWith(name, s)
  <2>1. Len(s) = Len(name) - k /\ \A i \in 1 .. Len(s) : s[i] = name[k + i]
    BY <1>2, <1>3
  <2>2. Len(name) - Len(s) = k /\ Len(s) < Len(name)
    BY <1>1, <2>1
  <2> QED
    BY <2>1, <2>2 DEF EndsWith
<1>4. ASSUME EndsWith(name, s)
      PROVE  \E k \in 1 .. Len(name) - 1 : SubSeq(name, k + 1, Len(name)) = s
  <2> DEFINE k == Len(name) - Len(s)
             t == SubSeq(name, k + 1, Len(name))
  <2>1. k \in 1 .. Len(name) - 1 /\ Len(name) - k = Len(s)
    BY <1>1, <1>4 DEF EndsWith
  <2>2. t \in Seq(Labels) /\ Len(t) = Len(s) /\ \A i \in 1 .. Len(s) : t[i] = name[k + i]
    BY <1>2, <2>1
  <2>3. \A i \in 1 .. Len(s) : s[i] = name[k + i]
    BY <1>4 DEF EndsWith
  <2> HIDE DEF k, t
  <2>4. t = s
    BY <2>2, <2>3, SeqEqual
  <2> QED
    BY <2>1, <2>4 DEF t
<1> QED
  BY <1>3, <1>4

LEMMA EndsByReverse ==
  ASSUME NEW name \in Seq(Labels), NEW s \in Seq(Labels)
  PROVE  IsStrictSuffix(s, name) <=> EndsWith(name, s)
<1> DEFINE n == Len(name)
           l == Len(s)
           r == Reverse(s)
           q == Reverse(name)
<1>1. n \in Nat /\ l \in Nat
  OBVIOUS
<1>2. /\ r \in Seq(Labels) /\ Len(r) = l /\ \A i \in 1 .. l : r[i] = s[(l - i) + 1]
      /\ q \in Seq(Labels) /\ Len(q) = n /\ \A i \in 1 .. n : q[i] = name[(n - i) + 1]
  <2>1. \A w \in Seq(Labels) : Reverse(w) \in Seq(Labels)
    <3> TAKE w \in Seq(Labels)
    <3>1. Len(w) \in Nat /\ \A i \in 1 .. Len(w) : w[(Len(w) - i) + 1] \in Labels
      OBVIOUS
    <3> QED
      BY <3>1, IsASeq DEF Reverse
  <2> QED
    BY <2>1, ReverseLength DEF Reverse
<1> HIDE DEF r, q
<1>3. ASSUME l <= n
      PROVE  SubSeq(r, 1, l) = SubSeq(q, 1, l) <=> \A i \in 1 .. l : r[i] = q[i]
  <2>1. /\ SubSeq(r, 1, l) \in Seq(Labels) /\ Len(SubSeq(r, 1, l)) = l
        /\ \A i \in 1 .. l : SubSeq(r, 1, l)[i] = r[i]
    BY <1>1, <1>2
  <2>2. /\ SubSeq(q, 1, l) \in Seq(Labels) /\ Len(SubSeq(q, 1, l)) = l
        /\ \A i \in 1 .. l : SubSeq(q, 1, l)[i] = q[i]
    BY <1>1, <1>2, <1>3
  <2>3. ASSUME \A i \in 1 .. l : r[i] = q[i]
        PROVE  SubSeq(r, 1, l) = SubSeq(q, 1, l)
    <3>1. \A i \in 1 .. l : SubSeq(r, 1, l)[i] = SubSeq(q, 1, l)[i]
      BY <2>1, <2>2, <2>3
    <3> DEFINE a == SubSeq(r, 1, l)
               b == SubSeq(q, 1, l)
    <3>2. a \in Seq(Labels) /\ b \in Seq(Labels) /\ Len(a) = Len(b)
          /\ \A i \in 1 .. Len(a) : a[i] = b[i]
      BY <2>1, <2>2, <3>1
    <3> HIDE DEF a, b
    <3>3. a = b
      BY <3>2, SeqEqual
    <3> QED
      BY <3>3 DEF a, b
  <2>4. ASSUME SubSeq(r, 1, l) = SubSeq(q, 1, l), NEW i \in 1 .. l
        PROVE  r[i] = q[i]
    BY <2>1, <2>2, <2>4
  <2> QED
    BY <2>3, <2>4
<1>4. IsSuffix(s, name) <=> l <= n /\ \A i \in 1 .. l : r[i] = q[i]
  BY <1>2, <1>3 DEF IsSuffix, IsPrefix, r, q
<1> HIDE DEF n, l
<1>5. ASSUME l <= n
      PROVE  (\A i \in 1 .. l : r[i] = q[i]) <=> \A i \in 1 .. l : s[i] = name[n - l + i]
  <2>1. ASSUME \A i \in 1 .. l : r[i] = q[i], NEW i \in 1 .. l
        PROVE  s[i] = name[n - l + i]
    <3> DEFINE j == (l - i) + 1
    <3>1. j \in 1 .. l /\ j \in 1 .. n /\ (l - j) + 1 = i /\ (n - j) + 1 = n - l + i
      BY <1>1, <1>5
    <3>2. r[j] = s[(l - j) + 1] /\ q[j] = name[(n - j) + 1] /\ r[j] = q[j]
      BY <1>2, <2>1, <3>1
    <3> QED
      BY <3>1, <3>2
  <2>2. ASSUME \A i \in 1 .. l : s[i] = name[n - l + i], NEW i \in 1 .. l
        PROVE  r[i] = q[i]
    <3> DEFINE j == (l - i) + 1
    <3>1. j \in 1 .. l /\ i \in 1 .. n /\ n - l + j = (n - i) + 1
      BY <1>1, <1>5
    <3>2. s[j] = name[n - l + j]
      BY <2>2, <3>1
    <3> QED
      BY <1>2, <3>1, <3>2
  <2> QED
    BY <2>1, <2>2
<1>6. ASSUME l = n, \A i \in 1 .. l : s[i] = name[n - l + i]
      PROVE  s = name
  <2>1. \A i \in 1 .. l : n - l + i = i
    BY <1>1, <1>6
  <2> QED
    BY <1>6, <2>1, SeqEqual DEF l, n
<1>7. s = name => l = n
  BY DEF l, n
<1>8. l < n <=> l <= n /\ l # n
  BY <1>1
<1> QED
  BY <1>4, <1>5, <1>6, <1>7, <1>8 DEF IsStrictSuffix, EndsWith, l, n

LEMMA ShorterSuffix ==
  ASSUME NEW name \in Seq(Labels), NEW other \in Seq(Labels),
         NEW s \in Seq(Labels), NEW t \in Seq(Labels), Len(t) <= Len(s),
         EndsWith(name, s), EndsWith(name, t), EndsWith(other, s)
  PROVE  EndsWith(other, t)
<1> DEFINE n == Len(name)
           o == Len(other)
           l == Len(s)
           m == Len(t)
<1>1. n \in Nat /\ o \in Nat /\ l \in Nat /\ m \in Nat /\ l < n /\ l < o /\ m <= l
  BY DEF EndsWith
<1> HIDE DEF n, o, l, m
<1>2. ASSUME NEW i \in 1 .. m
      PROVE  t[i] = other[o - m + i]
  <2> DEFINE j == l - m + i
  <2>1. j \in 1 .. l /\ n - l + j = n - m + i /\ o - l + j = o - m + i
    BY <1>1
  <2> HIDE DEF j
  <2>2. t[i] = name[n - m + i] /\ s[j] = name[n - l + j] /\ s[j] = other[o - l + j]
    BY <2>1 DEF EndsWith, n, o, l, m
  <2> QED
    BY <2>1, <2>2
<1>3. m < o
  BY <1>1
<1> QED
  BY <1>2, <1>3 DEF EndsWith, o, m

LEMMA NamesType ==
  ASSUME NEW name \in Names
  PROVE  name \in Seq(Labels) /\ name # NoName
BY NameType, ServerAssumption DEF Names

(* A key with a star is no exact host.                                     *)
LEMMA ExactKeys ==
  ASSUME NEW key \in WrittenHost, NormalizeHost(key) # NoName
  PROVE  ~IsGlobal(key) /\ ~IsWildcard(key)
<1>1. key.labels \in Seq(Labels) /\ ToSet(key.labels) \subseteq ValidLabels
  BY DEF WrittenHost, NormalizeHost
<1>2. ASSUME key.labels # << >>, Head(key.labels) = Star
      PROVE  FALSE
  <2>1. 1 \in DOMAIN key.labels /\ key.labels[1] = Star
    BY <1>1, <1>2
  <2>2. Star \in ToSet(key.labels)
    BY <2>1 DEF ToSet
  <2> QED
    BY <1>1, <2>2, HostAssumption
<1> QED
  BY <1>1, <1>2 DEF IsGlobal, IsWildcard

LEMMA OneStar ==
  ASSUME NEW key, IsGlobal(key)
  PROVE  ~IsWildcard(key)
<1>1. key.labels = <<Star>>
  BY DEF IsGlobal
<1>2. Len(<<Star>>) = 1
  OBVIOUS
<1>3. Len(key.labels) = 1
  BY <1>1, <1>2, Zenon
<1> QED
  BY <1>3 DEF IsWildcard

LEMMA WildcardDenotes ==
  ASSUME NEW key \in WrittenHost, IsWildcard(key), NEW name \in Names
  PROVE  /\ name \in Denoted(key) <=> Covers(key, name)
         /\ Covers(key, name) <=> WildcardSuffix(key) # NoName /\ EndsWith(name, WildcardSuffix(key))
         /\ Denoted(key) \subseteq Names
<1> DEFINE s == WildcardSuffix(key)
<1>1. s \in Seq(Labels) /\ name \in Seq(Labels)
  BY SuffixType, NamesType
<1>2. ~IsGlobal(key)
  BY OneStar
<1>3. /\ name \in Denoted(key)
           <=> \E k \in 1 .. Len(name) - 1 : SubSeq(name, k + 1, Len(name)) = s
      /\ Denoted(key) \subseteq Names
  BY <1>2 DEF Denoted
<1>4. Covers(key, name) <=> s # NoName /\ IsStrictSuffix(s, name)
  BY DEF Covers
<1>5. IsStrictSuffix(s, name) <=> EndsWith(name, s)
  BY <1>1, EndsByReverse
<1> HIDE DEF s
<1>6. CASE s # NoName
  BY <1>1, <1>3, <1>4, <1>5, <1>6, EndsBySubSeq DEF NoName, s
<1>7. CASE s = NoName
  <2>1. ASSUME NEW k \in 1 .. Len(name) - 1
        PROVE  SubSeq(name, k + 1, Len(name)) # << >>
    <3>1. Len(SubSeq(name, k + 1, Len(name))) = Len(name) - k
      BY <1>1
    <3>2. Len(name) - k # 0
      BY <1>1
    <3> QED
      BY <3>1, <3>2
  <2> QED
    BY <1>3, <1>4, <1>7, <2>1 DEF NoName, s
<1> QED
  BY <1>6, <1>7

(* The rules for a name that are not global: those the resolver finds in   *)
(* its map of exact hosts or in its list of wildcards.                     *)
LEMMA RulesForName ==
  ASSUME NEW hosts \in HostsTables, NEW i \in DOMAIN hosts, NEW name \in Names
  PROVE  /\ hosts[i].key \in WrittenHost
         /\ i \in ExactRules(hosts, name) => Denoted(hosts[i].key) = {name}
         /\ i \in WildcardRules(hosts, name) => IsWildcard(hosts[i].key)
         /\ ~IsGlobal(hosts[i].key) /\ name \in Denoted(hosts[i].key)
              <=> i \in ExactRules(hosts, name) \cup WildcardRules(hosts, name)
<1> DEFINE key == hosts[i].key
<1>1. key \in WrittenHost
  <2>1. hosts[i] \in [key : WrittenHost, origin : OriginNames]
    <3>1. i \in 1 .. Len(hosts)
      BY DEF HostsTables
    <3> QED
      BY <3>1, ElementOfSeq DEF HostsTables
  <2> QED
    BY <2>1
<1>2. /\ i \in ExactRules(hosts, name) <=> NormalizeHost(key) = name
      /\ i \in WildcardRules(hosts, name) <=> Covers(key, name)
  BY DEF ExactRules, WildcardRules
<1>3. name # NoName
  BY NamesType
<1> HIDE DEF key
<1>4. NormalizeHost(key) = name => ~IsGlobal(key) /\ ~IsWildcard(key)
  BY <1>1, <1>3, ExactKeys
<1>5. Covers(key, name) => IsWildcard(key)
  BY DEF Covers, WildcardSuffix
<1>6. IsWildcard(key) => ~IsGlobal(key)
  BY OneStar
<1>7. ~IsGlobal(key) /\ ~IsWildcard(key) => Denoted(key) = {NormalizeHost(key)}
  BY DEF Denoted
<1>8. IsWildcard(key) => (name \in Denoted(key) <=> Covers(key, name))
  BY <1>1, WildcardDenotes
<1> QED
  BY <1>1, <1>2, <1>4, <1>5, <1>6, <1>7, <1>8 DEF key

LEMMA ResolveChooses ==
  ASSUME NEW hosts \in HostsTables, NEW header \in WrittenHost, NormalizeHost(header) # NoName
  PROVE  LET name == NormalizeHost(header)
             exact == ExactRules(hosts, name)
             wildcards == WildcardRules(hosts, name)
             rule == Resolve(hosts, header)
         IN  /\ exact # {} => rule \in exact
             /\ exact = {} /\ wildcards # {} => rule \in Longest(hosts, wildcards)
             /\ exact = {} /\ wildcards = {} /\ Globals(hosts) # {} => rule \in Globals(hosts)
             /\ exact = {} /\ wildcards = {} /\ Globals(hosts) = {} => rule = 0
<1> DEFINE n == Len(hosts)
           name == NormalizeHost(header)
           exact == ExactRules(hosts, name)
           wildcards == WildcardRules(hosts, name)
           longest == Longest(hosts, wildcards)
           globals == Globals(hosts)
<1>1. n \in Nat /\ DOMAIN hosts = 1 .. n /\ name \in Seq(Labels)
  BY NameType DEF HostsTables
<1>2. /\ exact \subseteq DOMAIN hosts
      /\ globals \subseteq DOMAIN hosts
      /\ longest \subseteq DOMAIN hosts
  BY DEF ExactRules, WildcardRules, Longest, Globals
<1> HIDE DEF n
<1>3. ASSUME NEW S \in SUBSET (1 .. n), S # {}
      PROVE  Max(S) \in S
  BY <1>1, <1>3, HasGreatest DEF Max
<1>4. ASSUME wildcards # {}
      PROVE  Min(longest) \in longest
  <2>1. longest # {}
    BY <1>1, <1>4, LongestExists
  <2>2. longest \in SUBSET Nat
    BY <1>1, <1>2
  <2> HIDE DEF longest
  <2> QED
    BY <2>1, <2>2, HasLeast
<1>5. Resolve(hosts, header) =
        IF name = NoName THEN 0
        ELSE IF exact # {} THEN Max(exact)
        ELSE IF wildcards # {} THEN Min(longest)
        ELSE IF globals # {} THEN Max(globals)
        ELSE 0
  BY DEF Resolve
<1>6. name # NoName
  OBVIOUS
<1> HIDE DEF name, exact, wildcards, longest, globals
<1>7. /\ exact # {} => Resolve(hosts, header) \in exact
      /\ exact = {} /\ wildcards # {} => Resolve(hosts, header) \in longest
      /\ exact = {} /\ wildcards = {} /\ globals # {} => Resolve(hosts, header) \in globals
      /\ exact = {} /\ wildcards = {} /\ globals = {} => Resolve(hosts, header) = 0
  BY <1>1, <1>2, <1>3, <1>4, <1>5, <1>6
<1> QED
  BY <1>7 DEF name, exact, wildcards, longest, globals

(* The longest wildcard for a name stands for no name that another one for *)
(* that name does not stand for.                                           *)
LEMMA LongestIsNarrowest ==
  ASSUME NEW hosts \in HostsTables, NEW name \in Names,
         NEW rule \in Longest(hosts, WildcardRules(hosts, name)),
         NEW i \in WildcardRules(hosts, name)
  PROVE  Denoted(hosts[rule].key) \subseteq Denoted(hosts[i].key)
<1> DEFINE p == hosts[rule].key
           q == hosts[i].key
<1>1. rule \in WildcardRules(hosts, name) /\ Len(WildcardSuffix(q)) <= Len(WildcardSuffix(p))
  BY DEF Longest
<1>2. rule \in DOMAIN hosts /\ i \in DOMAIN hosts /\ Covers(p, name) /\ Covers(q, name)
  BY <1>1 DEF WildcardRules
<1>3. p \in WrittenHost /\ q \in WrittenHost /\ IsWildcard(p) /\ IsWildcard(q)
  BY <1>1, <1>2, RulesForName
<1> HIDE DEF p, q
<1>4. /\ EndsWith(name, WildcardSuffix(p)) /\ EndsWith(name, WildcardSuffix(q))
      /\ WildcardSuffix(q) # NoName
      /\ Denoted(p) \subseteq Names
  BY <1>2, <1>3, WildcardDenotes
<1>5. WildcardSuffix(p) \in Seq(Labels) /\ WildcardSuffix(q) \in Seq(Labels)
  BY <1>3, SuffixType
<1>6. ASSUME NEW other \in Denoted(p)
      PROVE  other \in Denoted(q)
  <2>1. other \in Names
    BY <1>4
  <2>2. EndsWith(other, WildcardSuffix(p))
    BY <1>3, <2>1, WildcardDenotes
  <2>3. EndsWith(other, WildcardSuffix(q))
    BY <1>1, <1>4, <1>5, <2>1, <2>2, NamesType, ShorterSuffix
  <2> QED
    BY <1>3, <1>4, <2>1, <2>3, WildcardDenotes
<1> QED
  BY <1>6 DEF p, q

(* The rule that decides stands for the name and for no more names than    *)
(* any other rule for it.                                                  *)
LEMMA ResolvesToNarrowest ==
  ASSUME NEW hosts \in HostsTables, NEW header \in WrittenHost,
         NormalizeHost(header) \in Names
  PROVE  LET name == NormalizeHost(header)
             rules == {i \in DOMAIN hosts : name \in Denoted(hosts[i].key)}
             rule == Resolve(hosts, header)
         IN  /\ rules = {} => rule = 0
             /\ rules # {} =>
                  /\ rule \in rules
                  /\ \A i \in rules : Denoted(hosts[rule].key) \subseteq Denoted(hosts[i].key)
<1> DEFINE name == NormalizeHost(header)
           rules == {i \in DOMAIN hosts : name \in Denoted(hosts[i].key)}
           rule == Resolve(hosts, header)
           exact == ExactRules(hosts, name)
           wildcards == WildcardRules(hosts, name)
           globals == Globals(hosts)
<1>1. name \in Names /\ name # NoName
  BY NamesType
<1>2. \A i \in DOMAIN hosts : IsGlobal(hosts[i].key) => Denoted(hosts[i].key) = Names
  BY DEF Denoted
<1>3. exact \subseteq DOMAIN hosts /\ wildcards \subseteq DOMAIN hosts
      /\ globals = {i \in DOMAIN hosts : IsGlobal(hosts[i].key)}
  BY DEF ExactRules, WildcardRules, Globals
<1>4. /\ exact # {} => rule \in exact
      /\ exact = {} /\ wildcards # {} => rule \in Longest(hosts, wildcards)
      /\ exact = {} /\ wildcards = {} /\ globals # {} => rule \in globals
      /\ exact = {} /\ wildcards = {} /\ globals = {} => rule = 0
  BY <1>1, ResolveChooses
<1>5. /\ \A i \in DOMAIN hosts :
           /\ hosts[i].key \in WrittenHost
           /\ i \in exact => Denoted(hosts[i].key) = {name}
           /\ i \in wildcards => IsWildcard(hosts[i].key)
           /\ ~IsGlobal(hosts[i].key) /\ name \in Denoted(hosts[i].key)
                <=> i \in exact \cup wildcards
  BY <1>1, RulesForName
<1>6. \A j \in Longest(hosts, wildcards) :
        /\ j \in wildcards
        /\ \A i \in wildcards : Denoted(hosts[j].key) \subseteq Denoted(hosts[i].key)
  BY <1>1, LongestIsNarrowest DEF Longest
<1>7. \A i \in wildcards : Denoted(hosts[i].key) \subseteq Names
  BY <1>1, <1>3, <1>5, WildcardDenotes
<1> HIDE DEF name, rule, exact, wildcards, globals
<1>8. rules = exact \cup wildcards \cup globals
  BY <1>1, <1>2, <1>3, <1>5
<1>9. \A i \in rules : i \in DOMAIN hosts /\ name \in Denoted(hosts[i].key)
  OBVIOUS
<1> DEFINE Narrowest == /\ rules = {} => rule = 0
                        /\ rules # {} =>
                             /\ rule \in rules
                             /\ \A i \in rules : Denoted(hosts[rule].key) \subseteq Denoted(hosts[i].key)
<1> SUFFICES Narrowest
  BY DEF name, rule
<1> HIDE DEF rules
<1>10. CASE exact # {}
  <2>1. rule \in rules /\ Denoted(hosts[rule].key) = {name}
    BY <1>3, <1>4, <1>5, <1>8, <1>10
  <2>2. \A i \in rules : Denoted(hosts[rule].key) \subseteq Denoted(hosts[i].key)
    BY <1>9, <2>1
  <2> QED
    BY <2>1, <2>2
<1>11. CASE exact = {} /\ wildcards # {}
  <2>1. /\ rule \in rules
        /\ \A i \in wildcards : Denoted(hosts[rule].key) \subseteq Denoted(hosts[i].key)
        /\ Denoted(hosts[rule].key) \subseteq Names
    BY <1>4, <1>6, <1>7, <1>8, <1>11
  <2>2. \A i \in globals : Denoted(hosts[rule].key) \subseteq Denoted(hosts[i].key)
    BY <1>2, <1>3, <2>1
  <2>3. \A i \in rules : Denoted(hosts[rule].key) \subseteq Denoted(hosts[i].key)
    BY <1>8, <1>11, <2>1, <2>2
  <2> QED
    BY <2>1, <2>3
<1>12. CASE exact = {} /\ wildcards = {} /\ globals # {}
  <2>1. rule \in globals /\ rules = globals
    BY <1>4, <1>8, <1>12
  <2>2. \A i \in rules : Denoted(hosts[i].key) = Names
    BY <1>2, <1>3, <2>1
  <2>3. \A i \in rules : Denoted(hosts[rule].key) \subseteq Denoted(hosts[i].key)
    BY <2>1, <2>2
  <2> QED
    BY <2>1, <2>3
<1>13. CASE exact = {} /\ wildcards = {} /\ globals = {}
  BY <1>4, <1>8, <1>13
<1> QED
  BY <1>10, <1>11, <1>12, <1>13

(* A listening process has a manifest.                                     *)
LEMMA ListeningHasSite ==
  ASSUME ServerInv, Listening
  PROVE  site \in Sites /\ site.hosts \in HostsTables
BY SiteShape DEF Listening, Up, ServerInv, StartInv

(* Whatever exact, wildcard and global hosts a manifest has, in any order,  *)
(* a request goes to a rule for its host, and to one for the fewest names.  *)
THEOREM MostSpecificRuleDecides == ServerSpec => []HostsGoToTheMostSpecificRule
<1>1. ASSUME NEW m \in Sites
      PROVE  MostSpecificRules(m)
  <2> SUFFICES ASSUME NEW v \in Visitors
               PROVE  LET name == NormalizeHost(HostHeader[v])
                          rules == {i \in DOMAIN m.hosts : name \in Denoted(m.hosts[i].key)}
                          rule == Routing[m][v]
                      IN  IF name = NoName \/ rules = {} THEN rule = 0
                          ELSE /\ rule \in rules
                               /\ \A i \in rules :
                                    Denoted(m.hosts[rule].key) \subseteq Denoted(m.hosts[i].key)
    BY DEF MostSpecificRules
  <2> DEFINE name == NormalizeHost(HostHeader[v])
             rules == {i \in DOMAIN m.hosts : name \in Denoted(m.hosts[i].key)}
             rule == Routing[m][v]
  <2>1. m.hosts \in HostsTables /\ HostHeader[v] \in WrittenHost
    BY SiteShape, ServerAssumption
  <2>2. rule = Resolve(m.hosts, HostHeader[v])
    BY DEF Routing
  <2>3. name = NoName => rule = 0
    BY <2>2 DEF Resolve
  <2>4. name # NoName => name \in Names
    BY DEF Names
  <2>5. ASSUME name # NoName
        PROVE  /\ rules = {} => rule = 0
               /\ rules # {} =>
                    /\ rule \in rules
                    /\ \A i \in rules :
                         Denoted(m.hosts[rule].key) \subseteq Denoted(m.hosts[i].key)
    BY <2>1, <2>2, <2>4, <2>5, ResolvesToNarrowest
  <2> HIDE DEF name, rules, rule
  <2>6. IF name = NoName \/ rules = {} THEN rule = 0
        ELSE /\ rule \in rules
             /\ \A i \in rules : Denoted(m.hosts[rule].key) \subseteq Denoted(m.hosts[i].key)
    BY <2>3, <2>5
  <2> QED
    BY <2>6 DEF name, rules, rule
<1>2. ServerInv => HostsGoToTheMostSpecificRule
  BY <1>1, ListeningHasSite DEF HostsGoToTheMostSpecificRule, RoutedAsMeant
<1> QED
  BY <1>2, ServerAlways, PTL

(* Whatever hosts a manifest has, the policy of CORS admits a page on a     *)
(* host to its own origin, unless the global host led there, and admits to  *)
(* an origin only pages on a host of it.                                   *)
THEOREM PagesMayReadTheirOrigin == ServerSpec => []CorsFollowsHosts
<1>1. ASSUME NEW m \in Sites
      PROVE  PagesReadTheirOrigin(m)
  <2> SUFFICES ASSUME NEW v \in Visitors, NormalizeHost(HostHeader[v]) # NoName
               PROVE  LET page == [https |-> TRUE, bare |-> TRUE, default_port |-> TRUE,
                                   host |-> HostHeader[v]]
                          Stands(i) == /\ ~IsGlobal(m.hosts[i].key)
                                       /\ NormalizeHost(HostHeader[v]) \in Denoted(m.hosts[i].key)
                          rule == Routing[m][v]
                      IN  /\ rule # 0 /\ Stands(rule) => Allows(m.hosts, m.hosts[rule].origin, page)
                          /\ \A o \in OriginNames : Allows(m.hosts, o, page) =>
                               \E i \in DOMAIN m.hosts : m.hosts[i].origin = o /\ Stands(i)
    BY DEF PagesReadTheirOrigin
  <2> DEFINE name == NormalizeHost(HostHeader[v])
             page == [https |-> TRUE, bare |-> TRUE, default_port |-> TRUE, host |-> HostHeader[v]]
             rule == Routing[m][v]
             found == ExactRules(m.hosts, name) \cup WildcardRules(m.hosts, name)
  <2>1. m.hosts \in HostsTables /\ HostHeader[v] \in WrittenHost
    BY SiteShape, ServerAssumption
  <2>2. name \in Names /\ name # NoName
    BY DEF Names
  <2>3. HttpsHost(page) = name
    <3>1. /\ HostHeader[v].port # "malformed"
          /\ ToSet(HostHeader[v].labels) \subseteq ValidLabels
          /\ name = [i \in DOMAIN HostHeader[v].labels |-> Lower[HostHeader[v].labels[i]]]
      BY <2>2 DEF NormalizeHost
    <3> DEFINE plain == [HostHeader[v] EXCEPT !.port = "none"]
    <3>2. plain.labels = HostHeader[v].labels /\ plain.port = "none"
      BY <2>1 DEF WrittenHost
    <3> HIDE DEF plain, name
    <3>3. NormalizeHost(plain) = name
      BY <3>1, <3>2 DEF NormalizeHost
    <3>4. HttpsHost(page) = NormalizeHost(plain)
      BY DEF HttpsHost, plain
    <3> QED
      BY <3>3, <3>4
  <2>4. \A o : Allows(m.hosts, o, page) <=> \E i \in found : m.hosts[i].origin = o
    BY <2>2, <2>3 DEF Allows
  <2>5. \A i \in DOMAIN m.hosts :
          ~IsGlobal(m.hosts[i].key) /\ name \in Denoted(m.hosts[i].key) <=> i \in found
    BY <2>1, <2>2, RulesForName
  <2>6. rule \in {0} \cup DOMAIN m.hosts
    BY <2>1, ResolveType DEF Routing
  <2>7. found \subseteq DOMAIN m.hosts
    BY DEF ExactRules, WildcardRules
  <2> HIDE DEF name, page, rule, found
  <2>8. /\ rule # 0 /\ ~IsGlobal(m.hosts[rule].key) /\ name \in Denoted(m.hosts[rule].key)
             => Allows(m.hosts, m.hosts[rule].origin, page)
        /\ \A o \in OriginNames : Allows(m.hosts, o, page) =>
             \E i \in DOMAIN m.hosts :
               m.hosts[i].origin = o /\ ~IsGlobal(m.hosts[i].key) /\ name \in Denoted(m.hosts[i].key)
    BY <2>4, <2>5, <2>6, <2>7
  <2> QED
    BY <2>8 DEF name, page, rule
<1>2. ServerInv => CorsFollowsHosts
  BY <1>1, ListeningHasSite DEF CorsFollowsHosts, ReadAsMeant
<1> QED
  BY <1>2, ServerAlways, PTL

(* A server listens with a table that it has compiled.                     *)
CompiledInv == phase = "listening" => Compiles(site.hosts)

LEMMA CompiledNext ==
  ASSUME CompiledInv, [ServerNext]_serverVars
  PROVE  CompiledInv'
<1>1. phase' # "listening" \/ (phase' = phase /\ site' = site) \/ Listen
  <2>1. CASE UNCHANGED serverVars
    BY <2>1 DEF serverVars
  <2>2. CASE \E m \in Sites : Boot(m) \/ BootFails(m)
    BY <2>2 DEF Boot, BootFails
  <2>3. CASE Crash
    BY <2>3 DEF Crash, Exit
  <2>4. CASE StartupSync \/ Reconcile \/ SpawnLoops
    BY <2>4 DEF StartupSync, Begin, Reconcile, SpawnLoops
  <2>5. CASE \E o \in OriginNames :
               BackgroundSync(o) \/ ManualSync(o) \/ Publish(o) \/ LooseRename(o)
    BY <2>5 DEF BackgroundSync, ManualSync, Publish, LooseRename, Begin
  <2>6. CASE \E r \in refreshes : Refresh(r) \/ Cancelled(r)
    BY <2>6 DEF Refresh, ReadStorage, Swap, Activated, Cancelled, Failed, Exit
  <2> QED
    BY <2>1, <2>2, <2>3, <2>4, <2>5, <2>6 DEF ServerNext
<1>2. CASE Listen
  BY <1>2 DEF Listen, Exit, CompiledInv
<1>3. CASE phase' = phase /\ site' = site
  BY <1>3 DEF CompiledInv
<1>4. CASE phase' # "listening"
  BY <1>4 DEF CompiledInv
<1> QED
  BY <1>1, <1>2, <1>3, <1>4

Plain(name) == [labels |-> name, port |-> "none"]

(* Normalising a host a second time changes nothing, and a normalised host *)
(* does not begin with a star.                                             *)
LEMMA NormalForm ==
  ASSUME NEW host \in WrittenHost, NormalizeHost(host) # NoName
  PROVE  LET name == NormalizeHost(host) IN
         /\ Plain(name) \in WrittenHost
         /\ NormalizeHost(Plain(name)) = name
         /\ Head(name) # Star
<1> DEFINE labels == host.labels
           name == [i \in DOMAIN labels |-> Lower[labels[i]]]
<1>1. NormalizeHost(host) = name /\ ToSet(labels) \subseteq ValidLabels /\ labels \in Seq(Labels)
  BY DEF NormalizeHost, WrittenHost
<1>2. \A i \in DOMAIN labels : labels[i] \in Labels /\ labels[i] \in ValidLabels
  BY <1>1, HostAssumption DEF ToSet
<1>3. \A i \in DOMAIN labels : name[i] \in ValidLabels /\ Lower[name[i]] = name[i]
  BY <1>2, HostAssumption
<1>4. name \in Seq(Labels) /\ name # << >>
  BY <1>1, NameType DEF NoName
<1>5. DOMAIN name = DOMAIN labels
  OBVIOUS
<1> HIDE DEF name
<1>6. Plain(name) \in WrittenHost
  BY <1>4 DEF Plain, WrittenHost
<1>7. ToSet(name) \subseteq ValidLabels
  BY <1>3, <1>5 DEF ToSet
<1>8. [i \in DOMAIN name |-> Lower[name[i]]] = name
  <2> DEFINE again == [i \in DOMAIN name |-> Lower[name[i]]]
  <2>1. \A i \in DOMAIN name : again[i] = name[i]
    BY <1>3, <1>5
  <2>2. DOMAIN name = 1 .. Len(name) /\ Len(name) \in Nat /\ \A i \in 1 .. Len(name) : name[i] \in Labels
    BY <1>4
  <2>3. again \in Seq(Labels)
    <3>1. \A i \in 1 .. Len(name) : Lower[name[i]] \in Labels
      BY <2>1, <2>2
    <3> QED
      BY <2>2, <3>1, IsASeq
  <2>4. Len(again) = Len(name)
    BY <2>2, <2>3, LenProperties
  <2> HIDE DEF again
  <2> QED
    BY <1>4, <2>1, <2>2, <2>3, <2>4, SeqEqual DEF again
<1>9. NormalizeHost(Plain(name)) = name
  BY <1>7, <1>8 DEF NormalizeHost, Plain
<1>10. Head(name) # Star
  <2>1. 1 \in DOMAIN name /\ Head(name) = name[1]
    BY <1>4
  <2> QED
    BY <1>3, <1>5, <2>1, HostAssumption
<1> QED
  BY <1>1, <1>6, <1>9, <1>10

(* What stands in a list for a CDN comes from a key of the origin.          *)
LEMMA CdnHostKeys ==
  ASSUME NEW m, NEW origin, NEW host \in CdnHosts(m, origin)
  PROVE  \E i \in DOMAIN m.hosts :
           /\ m.hosts[i].origin = origin.id
           /\ \/ host = NormalizeHost(m.hosts[i].key) /\ host # NoName
              \/ /\ IsWildcard(m.hosts[i].key)
                 /\ NormalizeHost(BelowStar(m.hosts[i].key)) # NoName
                 /\ host = <<Star>> \o NormalizeHost(BelowStar(m.hosts[i].key))
<1>1. CASE host \in ExactHosts(m.hosts, origin.id)
  BY <1>1 DEF ExactHosts
<1>2. CASE host \in DesiredDomains(m.hosts, origin.id, origin.cdn.include_wildcards)
  <2>1. PICK i \in DOMAIN m.hosts :
          m.hosts[i].origin = origin.id /\ host = CdnHost(m.hosts[i].key) /\ host # NoName
    BY <1>2 DEF DesiredDomains
  <2> QED
    BY <2>1 DEF CdnHost
<1> QED
  BY <1>1, <1>2 DEF CdnHosts

LEMMA ExactHostsComeBack ==
  ASSUME NEW hosts \in HostsTables, NEW i \in DOMAIN hosts, NEW name,
         name = NormalizeHost(hosts[i].key), name # NoName
  PROVE  LET rule == Resolve(hosts, Plain(name)) IN
         /\ NamesAt(name) = {name}
         /\ rule # 0 /\ Denoted(hosts[i].key) = Denoted(hosts[rule].key)
<1> DEFINE rule == Resolve(hosts, Plain(name))
<1>1. DOMAIN hosts = 1 .. Len(hosts) /\ \A j \in DOMAIN hosts : hosts[j].key \in WrittenHost
  <2>1. \A j \in DOMAIN hosts : j \in 1 .. Len(hosts)
    BY DEF HostsTables
  <2>2. \A j \in DOMAIN hosts : hosts[j] \in [key : WrittenHost, origin : OriginNames]
    BY <2>1, ElementOfSeq DEF HostsTables
  <2> QED
    BY <2>2 DEF HostsTables
<1>2. /\ Plain(name) \in WrittenHost /\ NormalizeHost(Plain(name)) = name
      /\ Head(name) # Star
  BY <1>1, NormalForm
<1>3. i \in ExactRules(hosts, name)
  BY DEF ExactRules
<1>4. rule \in ExactRules(hosts, name)
  BY <1>2, <1>3, ResolveChooses
<1>5. rule \in DOMAIN hosts /\ NormalizeHost(hosts[rule].key) = name
  BY <1>4 DEF ExactRules
<1>6. \A j \in DOMAIN hosts : NormalizeHost(hosts[j].key) = name => Denoted(hosts[j].key) = {name}
  BY <1>1, ExactKeys DEF Denoted
<1>7. rule # 0
  BY <1>1, <1>5
<1> QED
  BY <1>2, <1>5, <1>6, <1>7 DEF NamesAt

LEMMA WildcardHostsComeBack ==
  ASSUME NEW hosts \in HostsTables, Compiles(hosts), NEW i \in DOMAIN hosts,
         IsWildcard(hosts[i].key), NormalizeHost(BelowStar(hosts[i].key)) # NoName,
         NEW host, host = <<Star>> \o NormalizeHost(BelowStar(hosts[i].key)),
         NEW name \in NamesAt(host)
  PROVE  LET rule == Resolve(hosts, Plain(name)) IN
         /\ rule # 0
         /\ \/ NamesAt(host) \ Denoted(hosts[rule].key) # {}
            \/ Denoted(hosts[i].key) = Denoted(hosts[rule].key)
<1> DEFINE rule == Resolve(hosts, Plain(name))
           key == hosts[i].key
           s == NormalizeHost(BelowStar(key))
<1>1. DOMAIN hosts = 1 .. Len(hosts) /\ key \in WrittenHost
  <2>1. i \in 1 .. Len(hosts)
    BY DEF HostsTables
  <2>2. hosts[i] \in [key : WrittenHost, origin : OriginNames]
    BY <2>1, ElementOfSeq DEF HostsTables
  <2> QED
    BY <2>2 DEF HostsTables
<1>2. ~IsGlobal(key) /\ NormalizeHost(key) = NoName
  BY <1>1, OneStar, ExactKeys
<1>3. WildcardSuffix(key) # NoName
  BY <1>2 DEF Compiles
<1>4. WildcardSuffix(key) = s /\ s \in Seq(Labels)
  BY <1>1, <1>3, SuffixType DEF WildcardSuffix
<1>5. Head(host) = Star /\ Tail(host) = s
  <2>1. host = <<Star>> \o s
    OBVIOUS
  <2>2. Star \in Labels
    BY HostAssumption
  <2> HIDE DEF s
  <2> QED
    BY <1>4, <2>1, <2>2
<1>6. NamesAt(host) = Denoted(key)
  <2>1. NamesAt(host) = {n \in Names : \E k \in 1 .. Len(n) - 1 : SubSeq(n, k + 1, Len(n)) = s}
    BY <1>5 DEF NamesAt
  <2>2. Denoted(key) = {n \in Names : \E k \in 1 .. Len(n) - 1 : SubSeq(n, k + 1, Len(n)) = s}
    BY <1>2, <1>4 DEF Denoted
  <2> QED
    BY <2>1, <2>2
<1>7. name \in Names /\ name \in Denoted(key)
  BY <1>6, <1>5 DEF NamesAt
<1>8. Plain(name) \in WrittenHost /\ NormalizeHost(Plain(name)) = name
  <2>1. PICK v \in Visitors : name = NormalizeHost(HostHeader[v])
    BY <1>7 DEF Names
  <2>2. HostHeader[v] \in WrittenHost /\ NormalizeHost(HostHeader[v]) # NoName
    BY <1>7, <2>1, NamesType, ServerAssumption
  <2> QED
    BY <2>1, <2>2, NormalForm
<1>9. /\ rule \in DOMAIN hosts
      /\ Denoted(hosts[rule].key) \subseteq Denoted(key)
  <2> DEFINE rules == {j \in DOMAIN hosts : name \in Denoted(hosts[j].key)}
  <2>1. i \in rules
    BY <1>7
  <2>2. rules # {} => /\ rule \in rules
                      /\ \A j \in rules : Denoted(hosts[rule].key) \subseteq Denoted(hosts[j].key)
    BY <1>7, <1>8, ResolvesToNarrowest
  <2>3. rules \subseteq DOMAIN hosts
    OBVIOUS
  <2> HIDE DEF rules, rule
  <2> QED
    BY <2>1, <2>2, <2>3
<1>10. rule # 0
  BY <1>1, <1>9
<1> HIDE DEF rule
<1>11. NamesAt(host) \ Denoted(hosts[rule].key) # {} \/ Denoted(key) = Denoted(hosts[rule].key)
  BY <1>6, <1>9
<1> QED
  BY <1>10, <1>11 DEF rule

(* A process that listens has compiled its table, and every host that a CDN *)
(* was told to send on for an origin is routed to that origin, or left to a *)
(* rule for fewer names.                                                   *)
THEOREM CdnHostsAreRouted == ServerSpec => []CdnHostsComeBack
<1>1. ASSUME NEW m \in Sites, Compiles(m.hosts)
      PROVE  CdnListsAreRouted(m)
  <2> SUFFICES ASSUME NEW k \in DOMAIN m.origins, NEW host \in CdnHosts(m, m.origins[k]),
                      NEW name \in NamesAt(host)
               PROVE  LET rule == Resolve(m.hosts, Plain(name)) IN
                      /\ rule # 0
                      /\ \/ m.hosts[rule].origin = m.origins[k].id
                         \/ NamesAt(host) \ Denoted(m.hosts[rule].key) # {}
                         \/ \E i \in DOMAIN m.hosts :
                              /\ m.hosts[i].origin = m.origins[k].id
                              /\ Denoted(m.hosts[i].key) = Denoted(m.hosts[rule].key)
    BY DEF CdnListsAreRouted, Plain
  <2>1. m.hosts \in HostsTables
    BY SiteShape
  <2>2. PICK i \in DOMAIN m.hosts :
          /\ m.hosts[i].origin = m.origins[k].id
          /\ \/ host = NormalizeHost(m.hosts[i].key) /\ host # NoName
             \/ /\ IsWildcard(m.hosts[i].key)
                /\ NormalizeHost(BelowStar(m.hosts[i].key)) # NoName
                /\ host = <<Star>> \o NormalizeHost(BelowStar(m.hosts[i].key))
    BY CdnHostKeys
  <2>3. CASE host = NormalizeHost(m.hosts[i].key) /\ host # NoName
    <3>1. NamesAt(host) = {host}
      BY <2>1, <2>3, ExactHostsComeBack
    <3>2. name = host
      BY <3>1
    <3>3. /\ Resolve(m.hosts, Plain(name)) # 0
          /\ Denoted(m.hosts[i].key) = Denoted(m.hosts[Resolve(m.hosts, Plain(name))].key)
      BY <2>1, <2>3, <3>2, ExactHostsComeBack
    <3> QED
      BY <2>2, <3>3
  <2>4. CASE /\ IsWildcard(m.hosts[i].key)
             /\ NormalizeHost(BelowStar(m.hosts[i].key)) # NoName
             /\ host = <<Star>> \o NormalizeHost(BelowStar(m.hosts[i].key))
    <3>1. /\ Resolve(m.hosts, Plain(name)) # 0
          /\ \/ NamesAt(host) \ Denoted(m.hosts[Resolve(m.hosts, Plain(name))].key) # {}
             \/ Denoted(m.hosts[i].key) = Denoted(m.hosts[Resolve(m.hosts, Plain(name))].key)
      BY <1>1, <2>1, <2>4, WildcardHostsComeBack
    <3> QED
      BY <2>2, <3>1
  <2> QED
    BY <2>2, <2>3, <2>4
<1>2. ServerInv /\ CompiledInv => CdnHostsComeBack
  BY <1>1, ListeningHasSite DEF CdnHostsComeBack, ListedAsMeant, CompiledInv, Listening
<1>3. ServerInit => CompiledInv
  BY DEF ServerInit, CompiledInv
<1>4. CompiledInv /\ [ServerNext]_serverVars => CompiledInv'
  BY CompiledNext
<1> QED
  BY <1>2, <1>3, <1>4, ServerAlways, PTL DEF ServerSpec

------------------------------------------------------------------------------
(* Types.                                                                  *)

(* A process that does not run has no manifest.                            *)
NoManifestInv ==
  /\ ~Up => site = NoSite
  /\ faults \in Nat /\ crashes \in Nat

LEMMA NoManifestNext ==
  ASSUME ServerInv, NoManifestInv, [ServerNext]_serverVars
  PROVE  NoManifestInv'
<1>1. (Up' = Up /\ site' = site) \/ site' = NoSite \/ Up'
  <2>1. CASE UNCHANGED serverVars
    BY <2>1 DEF serverVars, Up
  <2>2. CASE \E m \in Sites : Boot(m) \/ BootFails(m)
    BY <2>2 DEF Boot, BootFails, Up
  <2>3. CASE Crash
    BY <2>3 DEF Crash, Exit
  <2>4. CASE StartupSync \/ Reconcile \/ SpawnLoops \/ Listen
    BY <2>4 DEF StartupSync, Begin, Reconcile, SpawnLoops, Listen, Exit, Up
  <2>5. CASE \E o \in OriginNames :
               BackgroundSync(o) \/ ManualSync(o) \/ Publish(o) \/ LooseRename(o)
    BY <2>5 DEF BackgroundSync, ManualSync, Publish, LooseRename, Begin, Up
  <2>6. CASE \E r \in refreshes : Refresh(r) \/ Cancelled(r)
    BY <2>6 DEF Refresh, ReadStorage, Swap, Activated, Cancelled, Failed, Exit, Up
  <2> QED
    BY <2>1, <2>2, <2>3, <2>4, <2>5, <2>6 DEF ServerNext
<1>2. faults' \in {faults, faults + 1} /\ crashes' \in {crashes, crashes + 1}
  <2>1. CASE UNCHANGED serverVars
    BY <2>1 DEF serverVars
  <2>2. CASE \E m \in Sites : Boot(m) \/ BootFails(m)
    BY <2>2 DEF Boot, BootFails
  <2>3. CASE Crash
    BY <2>3 DEF Crash
  <2>4. CASE StartupSync \/ Reconcile \/ SpawnLoops \/ Listen
    BY <2>4 DEF StartupSync, Begin, Reconcile, SpawnLoops, Listen
  <2>5. CASE \E o \in OriginNames :
               BackgroundSync(o) \/ ManualSync(o) \/ Publish(o) \/ LooseRename(o)
    BY <2>5 DEF BackgroundSync, ManualSync, Publish, LooseRename, Begin
  <2>6. CASE \E r \in refreshes : Refresh(r) \/ Cancelled(r)
    BY <2>6 DEF Refresh, ReadStorage, Swap, Activated, Cancelled, Failed, MayFail
  <2> QED
    BY <2>1, <2>2, <2>3, <2>4, <2>5, <2>6 DEF ServerNext
<1> QED
  BY <1>1, <1>2 DEF NoManifestInv

(* Every variable of the program keeps the shape of what it stands for, and *)
(* an origin with an active release is one the status knows.               *)
THEOREM ServerTypes == ServerSpec => []ServerTypeOK
<1>1. ServerInit => NoManifestInv
  BY DEF ServerInit, NoManifestInv
<1>2. ServerInv /\ NoManifestInv /\ [ServerNext]_serverVars => NoManifestInv'
  BY NoManifestNext
<1>3. ServerInv /\ NoManifestInv => ServerTypeOK
  BY ServerAssumption
  DEF ServerInv, NoManifestInv, Shapes, Refreshes, Snapshots, StartInv, StatusInv, Up, ServerTypeOK
<1> QED
  BY <1>1, <1>2, <1>3, ServerAlways, PTL DEF ServerSpec
------------------------------------------------------------------------------
(* Refinement: each origin that is not torn takes whole releases, one      *)
(* refresh at a time.  The swap activates; the snapshot changes nothing.   *)

originVars(o) == <<source[o].release, releasesRead(o), live[o]>>

LEMMA SameOrigin ==
  ASSUME NEW o \in OriginNames, UNCHANGED originVars(o)
  PROVE  [Origin(o)!Next]_(Origin(o)!vars)
BY DEF originVars, Origin!vars

(* A refresh that has read nothing adds nothing to what was read.          *)
LEMMA BeginReadsNothing ==
  ASSUME NEW o \in OriginNames, NEW x, NEW trigger, Begin(x, trigger)
  PROVE  UNCHANGED originVars(o)
<1> DEFINE new == Started(x, trigger)
<1>1. refreshes' = refreshes \cup {new} /\ source' = source /\ live' = live /\ new.read = Unread
  BY DEF Begin, Started
<1> HIDE DEF new
<1>2. releasesRead(o)' = releasesRead(o)
  BY <1>1 DEF releasesRead
<1> QED
  BY <1>1, <1>2 DEF originVars

LEMMA ExitForgets ==
  ASSUME NEW o \in OriginNames, Exit, source' = source
  PROVE  Origin(o)!Restart
<1>1. releasesRead(o)' = {} /\ live'[o] = 0
  BY DEF Exit, releasesRead
<1> QED
  BY <1>1 DEF Origin!Restart

(* Only one refresh of an origin is under way.                             *)
LEMMA OnlyRead ==
  ASSUME ServerInv, NEW r \in refreshes
  PROVE  releasesRead(r.origin) =
           IF r.read = Unread \/ r.swapped THEN {} ELSE {r.read.release}
<1>1. \A s \in refreshes : s.origin = r.origin => s = r
  BY DEF ServerInv, RefreshesInv
<1> QED
  BY <1>1 DEF releasesRead

LEMMA ReadIsWhole ==
  ASSUME ServerInv, NEW r \in refreshes, ReadStorage(r), NEW o \in OriginNames
  PROVE  [Origin(o)!Next]_(Origin(o)!vars)
<1> DEFINE new == [r EXCEPT !.read = source[r.origin]]
<1>1. /\ r \in Refreshes
      /\ source[r.origin] \in [release : Nat \ {0}, good : BOOLEAN]
  BY DEF ServerInv, Shapes, Refreshes
<1>2. r.read = Unread /\ ~r.swapped
  BY DEF ReadStorage, ServerInv, RefreshesInv
<1>3. /\ new.origin = r.origin /\ new.read = source[r.origin] /\ new.read # Unread
      /\ ~new.swapped
      /\ refreshes' = (refreshes \ {r}) \cup {new} /\ source' = source /\ live' = live
  BY <1>1, <1>2 DEF ReadStorage, Unread, Refreshes
<1> HIDE DEF new
<1>4. CASE o # r.origin
  <2>1. releasesRead(o)' = releasesRead(o)
    BY <1>3, <1>4 DEF releasesRead
  <2> QED
    BY <1>3, <2>1, SameOrigin DEF originVars
<1>5. CASE o = r.origin
  <2>1. releasesRead(o) = {}
    BY <1>2, <1>5, OnlyRead
  <2>2. \A s \in refreshes : s.origin = o => s = r
    BY <1>5 DEF ServerInv, RefreshesInv
  <2>3. releasesRead(o)' = {source[o].release}
    BY <1>3, <1>5, <2>2 DEF releasesRead
  <2>4. Origin(o)!Read
    BY <1>3, <2>1, <2>3 DEF Origin!Read
  <2> QED
    BY <2>4 DEF Origin!Next
<1> QED
  BY <1>4, <1>5

LEMMA EndForgetsRead ==
  ASSUME ServerInv, NEW r \in refreshes, refreshes' = refreshes \ {r}, NEW o \in OriginNames
  PROVE  releasesRead(o)' = IF o = r.origin THEN {} ELSE releasesRead(o)
<1>1. \A s \in refreshes : s.origin = r.origin => s = r
  BY DEF ServerInv, RefreshesInv
<1> QED
  BY <1>1 DEF releasesRead

LEMMA SwapIsWhole ==
  ASSUME ServerInv, NEW r \in refreshes, Swap(r), NEW o \in OriginNames \ torn
  PROVE  [Origin(o)!Next]_(Origin(o)!vars)
<1> DEFINE new == [r EXCEPT !.swapped = TRUE]
<1>1. /\ r \in Refreshes /\ r.read # Unread /\ ~r.swapped
      /\ live \in [OriginNames -> Nat] /\ r.read.release # 0
  BY DEF ServerInv, Shapes, Refreshes, RefreshesInv, Swap, Unread
<1>2. /\ new.origin = r.origin /\ new.swapped
      /\ source' = source /\ refreshes' = (refreshes \ {r}) \cup {new}
  BY <1>1 DEF Swap, Refreshes
<1>3. live'[o] = IF o = r.origin THEN r.read.release ELSE live[o]
  BY <1>1 DEF Swap, Refreshes
<1> HIDE DEF new
<1>4. CASE o # r.origin
  <2>1. releasesRead(o)' = releasesRead(o)
    BY <1>2, <1>4 DEF releasesRead
  <2> QED
    BY <1>2, <1>3, <1>4, <2>1, SameOrigin DEF originVars
<1>5. CASE o = r.origin
  <2>1. releasesRead(o) = {r.read.release}
    BY <1>1, <1>5, OnlyRead
  <2>2. \A s \in refreshes : s.origin = o => s = r
    BY <1>5 DEF ServerInv, RefreshesInv
  <2>3. releasesRead(o)' = {}
    BY <1>2, <1>5, <2>2 DEF releasesRead
  <2>4. Origin(o)!Activate
    BY <1>1, <1>2, <1>3, <1>5, <2>1, <2>3 DEF Origin!Activate
  <2> QED
    BY <2>4 DEF Origin!Next
<1> QED
  BY <1>4, <1>5

LEMMA SnapshotIsWhole ==
  ASSUME ServerInv, NEW r \in refreshes, Activated(r), NEW o \in OriginNames
  PROVE  [Origin(o)!Next]_(Origin(o)!vars)
<1>1. source' = source /\ refreshes' = refreshes \ {r} /\ live' = live /\ r.swapped
  BY DEF Activated
<1>2. releasesRead(o)' = releasesRead(o)
  BY <1>1, EndForgetsRead, OnlyRead
<1> QED
  BY <1>1, <1>2, SameOrigin DEF originVars

LEMMA EndIsWhole ==
  ASSUME ServerInv, NEW r \in refreshes, Failed(r) \/ Cancelled(r), NEW o \in OriginNames
  PROVE  [Origin(o)!Next]_(Origin(o)!vars)
<1>1. CASE Failed(r) /\ r.trigger = "startup"
  BY <1>1, ExitForgets DEF Failed, Origin!Next
<1>2. CASE Cancelled(r) \/ r.trigger # "startup"
  <2>1. source' = source /\ live' = live /\ refreshes' = refreshes \ {r}
    BY <1>2 DEF Failed, Cancelled
  <2>2. CASE o # r.origin
    BY <2>1, <2>2, EndForgetsRead, SameOrigin DEF originVars
  <2>3. CASE o = r.origin
    <3>1. Origin(o)!GiveUp
      BY <2>1, <2>3, EndForgetsRead DEF Origin!GiveUp
    <3> QED
      BY <3>1 DEF Origin!Next
  <2> QED
    BY <2>2, <2>3
<1> QED
  BY <1>1, <1>2

LEMMA LooseRenameIsWhole ==
  ASSUME ServerInv, NEW x \in OriginNames, LooseRename(x), NEW o \in OriginNames \ torn
  PROVE  [Origin(o)!Next]_(Origin(o)!vars)
<1>1. source' = source /\ refreshes' = refreshes /\ live'[o] = live[o]
  BY DEF LooseRename, ServerInv, Shapes
<1> QED
  BY <1>1, SameOrigin DEF originVars, releasesRead

LEMMA PublishIsWhole ==
  ASSUME ServerInv, NEW x \in OriginNames, Publish(x), NEW o \in OriginNames
  PROVE  [Origin(o)!Next]_(Origin(o)!vars)
<1>1. /\ source \in [OriginNames -> [release : Nat \ {0}, good : BOOLEAN]]
      /\ refreshes' = refreshes /\ live' = live
  BY DEF Publish, ServerInv, Shapes
<1>2. releasesRead(o)' = releasesRead(o)
  BY <1>1 DEF releasesRead
<1>3. CASE o # x
  BY <1>1, <1>2, <1>3, SameOrigin DEF Publish, originVars
<1>4. CASE o = x
  <2>1. source'[o].release = source[o].release + 1
    BY <1>1, <1>4 DEF Publish
  <2>2. Origin(o)!Publish
    BY <1>1, <1>2, <2>1 DEF Origin!Publish
  <2> QED
    BY <2>2 DEF Origin!Next
<1> QED
  BY <1>3, <1>4

LEMMA ServerStepIsWhole ==
  ASSUME ServerInv, [ServerNext]_serverVars, NEW o \in OriginNames \ torn
  PROVE  [Origin(o)!Next]_(Origin(o)!vars)
<1>1. CASE \/ UNCHANGED serverVars
           \/ \E m \in Sites : Boot(m) \/ BootFails(m)
           \/ Reconcile \/ SpawnLoops
           \/ Listen /\ Compiles(site.hosts)
  <2>1. UNCHANGED <<source, refreshes, live>>
    BY <1>1 DEF serverVars, Boot, BootFails, Reconcile, SpawnLoops, Listen
  <2> QED
    BY <2>1, SameOrigin DEF originVars, releasesRead
<1>2. CASE Crash \/ (Listen /\ ~Compiles(site.hosts))
  BY <1>2, ExitForgets DEF Crash, Listen, Origin!Next
<1>3. CASE StartupSync \/ \E x \in OriginNames : BackgroundSync(x) \/ ManualSync(x)
  BY <1>3, BeginReadsNothing, SameOrigin DEF StartupSync, BackgroundSync, ManualSync
<1>4. CASE \E x \in OriginNames : Publish(x) \/ LooseRename(x)
  BY <1>4, PublishIsWhole, LooseRenameIsWhole
<1>5. CASE \E r \in refreshes : Refresh(r) \/ Cancelled(r)
  BY <1>5, ReadIsWhole, SwapIsWhole, SnapshotIsWhole, EndIsWhole DEF Refresh
<1> QED
  BY <1>1, <1>2, <1>3, <1>4, <1>5 DEF ServerNext

(* Whatever startup, loops, operators, crashes and other origins do, what a *)
(* refresh of an origin activates is the release its storage held at one    *)
(* moment of the refresh, until a refresh tears the origin                  *)
(* (OriginRefreshLocks, refresh_origin).                                    *)
THEOREM OriginsImplementWholeReleases == ServerSpec => OriginsTakeWholeReleases
<1>1. ServerInit => \A o \in OriginNames : Origin(o)!Init
  <2> SUFFICES ASSUME ServerInit, NEW o \in OriginNames PROVE Origin(o)!Init
    OBVIOUS
  <2>1. source[o].release \in Nat /\ live[o] = 0 /\ releasesRead(o) = {}
    BY DEF ServerInit, releasesRead
  <2> QED
    BY <2>1 DEF Origin!Init
<1> DEFINE Step == \A o \in OriginNames \ torn : [Origin(o)!Next]_(Origin(o)!vars)
<1>2. ServerInv /\ [ServerNext]_serverVars => [Step]_serverVars
  BY ServerStepIsWhole
<1> HIDE DEF Step
<1>3. ServerSpec => [][Step]_serverVars
  BY <1>2, ServerAlways, PTL DEF ServerSpec
<1>4. ServerSpec => \A o \in OriginNames : Origin(o)!Init
  BY <1>1, PTL DEF ServerSpec
<1> QED
  BY <1>3, <1>4 DEF Step, OriginsTakeWholeReleases

------------------------------------------------------------------------------
(* Nothing older than release d of an origin is left to be activated, as   *)
(* long as the origin is not torn.                                         *)
NothingOlderThan(o, d) ==
  /\ d <= source[o].release
  /\ o \notin torn => /\ \A r \in releasesRead(o) : d <= r
                      /\ live[o] # 0 => d <= live[o]

LEMMA NumbersAreNatural ==
  ASSUME ServerInv, NEW o \in OriginNames
  PROVE  /\ source[o].release \in Nat /\ live[o] \in Nat /\ live[o] <= source[o].release
         /\ releasesRead(o) \subseteq Nat
         /\ o \notin torn => \A r \in releasesRead(o) : live[o] <= r
BY DEF ServerInv, Shapes, Refreshes, RefreshesInv, releasesRead

(* Only the end of the process mends a torn origin, and nothing takes a    *)
(* release back from a storage.                                            *)
LEMMA TornStaysTorn ==
  ASSUME ServerInv, [ServerNext]_serverVars, NEW o \in OriginNames, o \in torn
  PROVE  /\ o \in torn' \/ Exit
         /\ source[o].release <= source'[o].release
<1>1. CASE \/ UNCHANGED serverVars
           \/ \E m \in Sites : Boot(m) \/ BootFails(m)
           \/ Crash \/ StartupSync \/ Reconcile \/ SpawnLoops \/ Listen
           \/ \E x \in OriginNames : BackgroundSync(x) \/ ManualSync(x) \/ LooseRename(x)
  <2>1. (torn' = torn \/ Exit) /\ source' = source
    BY <1>1 DEF serverVars, Boot, BootFails, Crash, StartupSync, Reconcile, SpawnLoops, Listen,
                BackgroundSync, ManualSync, LooseRename, Begin
  <2> QED
    BY <2>1, NumbersAreNatural
<1>2. CASE \E r \in refreshes : Refresh(r) \/ Cancelled(r)
  <2>1. (torn \subseteq torn' \/ Exit) /\ source' = source
    BY <1>2 DEF Refresh, ReadStorage, Swap, Activated, Failed, Cancelled, Tear
  <2> QED
    BY <2>1, NumbersAreNatural
<1>3. CASE \E x \in OriginNames : Publish(x)
  BY <1>3, NumbersAreNatural DEF Publish, ServerInv, Shapes
<1> QED
  BY <1>1, <1>2, <1>3 DEF ServerNext

LEMMA NextNothingOlder ==
  ASSUME ServerInv, [ServerNext]_serverVars, NEW o \in OriginNames, NEW d \in Nat \ {0},
         NothingOlderThan(o, d), ServerInv'
  PROVE  NothingOlderThan(o, d)'
<1>1. /\ source[o].release \in Nat /\ live[o] \in Nat /\ releasesRead(o) \subseteq Nat
      /\ source'[o].release \in Nat
  BY NumbersAreNatural DEF ServerInv, Shapes
<1>2. CASE o \in torn
  <2>1. CASE o \in torn'
    BY <1>1, <1>2, <2>1, TornStaysTorn DEF NothingOlderThan
  <2>2. CASE o \notin torn'
    <3>1. Exit
      BY <1>2, <2>2, TornStaysTorn
    <3>2. live'[o] = 0 /\ releasesRead(o)' = {}
      BY <3>1 DEF Exit, releasesRead
    <3> QED
      BY <1>1, <1>2, <3>2, TornStaysTorn DEF NothingOlderThan
  <2> QED
    BY <2>1, <2>2
<1>3. CASE o \notin torn
  <2>1. [Origin(o)!Next]_(Origin(o)!vars)
    BY <1>3, ServerStepIsWhole
  <2>2. CASE Origin(o)!Publish
    <3>1. /\ source'[o].release = source[o].release + 1
          /\ releasesRead(o)' = releasesRead(o) /\ {live'[o]} \ {0} = {live[o]} \ {0}
      BY <2>2 DEF Origin!Publish
    <3>2. d <= source'[o].release /\ (live'[o] # 0 => live'[o] = live[o] /\ live[o] # 0)
      BY <1>1, <3>1 DEF NothingOlderThan
    <3> QED
      BY <1>3, <3>1, <3>2 DEF NothingOlderThan
  <2>3. CASE Origin(o)!Read
    <3>1. /\ source'[o].release = source[o].release
          /\ releasesRead(o)' = {source[o].release} /\ {live'[o]} \ {0} = {live[o]} \ {0}
      BY <2>3 DEF Origin!Read
    <3> QED
      BY <1>1, <1>3, <3>1 DEF NothingOlderThan
  <2>4. CASE Origin(o)!Activate
    <3>1. /\ source'[o].release = source[o].release
          /\ releasesRead(o)' = {} /\ {live'[o]} \ {0} = releasesRead(o)
      BY <2>4 DEF Origin!Activate
    <3> QED
      BY <1>1, <1>3, <3>1 DEF NothingOlderThan
  <2>5. CASE Origin(o)!Complete \/ Origin(o)!GiveUp \/ Origin(o)!Restart \/ UNCHANGED Origin(o)!vars
    <3>1. /\ source'[o].release = source[o].release
          /\ releasesRead(o)' \in {{}, releasesRead(o)}
          /\ {live'[o]} \ {0} \in {{}, {live[o]} \ {0}}
      BY <2>5 DEF Origin!Complete, Origin!GiveUp, Origin!Restart, Origin!vars
    <3> QED
      BY <1>1, <1>3, <3>1 DEF NothingOlderThan
  <2> QED
    BY <2>1, <2>2, <2>3, <2>4, <2>5 DEF Origin!Next
<1> QED
  BY <1>2, <1>3

(* Not even a new process serves an older release of an origin than one     *)
(* that has been live before, whatever crashed, failed or ran side by side: *)
(* only in a torn origin, and there until the process ends.                 *)
THEOREM OriginsNeverGoBack ==
  ASSUME NEW o \in OriginNames, NEW d \in Nat \ {0}
  PROVE  ServerSpec =>
           [](o \notin torn /\ live[o] = d
                => [](o \notin torn /\ live[o] # 0 => d <= live[o]))
<1>1. ServerInv /\ o \notin torn /\ live[o] = d => NothingOlderThan(o, d)
  BY NumbersAreNatural DEF NothingOlderThan
<1>2. ServerInv /\ ServerInv' /\ NothingOlderThan(o, d) /\ [ServerNext]_serverVars
        => NothingOlderThan(o, d)'
  BY NextNothingOlder
<1>3. NothingOlderThan(o, d) => (o \notin torn /\ live[o] # 0 => d <= live[o])
  BY DEF NothingOlderThan
<1> QED
  BY <1>1, <1>2, <1>3, ServerAlways, PTL DEF ServerSpec
=============================================================================
