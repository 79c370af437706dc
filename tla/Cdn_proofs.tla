------------------------------ MODULE Cdn_proofs ------------------------------
(***************************************************************************)
(* Theorems about the reconciliations at the CDNs: domains at CloudFront   *)
(* and Cloudflare, tenants of CloudFront SaaS, and purges of tenants.      *)
(*                                                                         *)
(* All rest on one argument: a process writes what it read a step ago, so  *)
(* its locals have to be tied to the CDN as it is now.  The ETag does it   *)
(* for whole records (SeenInv, AtZone); for what is only read, the writes  *)
(* of the others are shown not to undo it (Improves, WritesAreMeant).      *)
(***************************************************************************)
EXTENDS CdnReconciliation, SequenceTheorems, FiniteSetTheorems, WellFoundedInduction, TLAPS

------------------------------------------------------------------------------
(* Sequences, and the least and the greatest of a set of numbers.           *)
LEMMA TailFacts ==
  ASSUME NEW S, NEW s \in Seq(S), s # << >>
  PROVE  /\ Head(s) \in S
         /\ Head(s) \in ToSet(s)
         /\ Tail(s) \in Seq(S)
         /\ ToSet(Tail(s)) \subseteq ToSet(s)
         /\ ToSet(s) \ ToSet(Tail(s)) \subseteq {Head(s)}
         /\ Len(s) = 1 => Tail(s) = << >>
         /\ Len(s) # 1 => Tail(s) # << >>
<1>1. /\ Len(s) \in Nat \ {0} /\ DOMAIN s = 1 .. Len(s) /\ Head(s) = s[1] /\ s[1] \in S
  BY EmptySeq
<1>2. /\ Tail(s) \in Seq(S) /\ Len(Tail(s)) = Len(s) - 1
      /\ DOMAIN Tail(s) = 1 .. Len(s) - 1
      /\ \A i \in 1 .. Len(s) - 1 : Tail(s)[i] = s[i + 1]
  BY <1>1
<1>3. \A i \in 1 .. Len(s) : i = 1 \/ (i - 1 \in 1 .. Len(s) - 1 /\ Tail(s)[i - 1] = s[i])
  BY <1>1, <1>2
<1>4. Len(s) = 1 => Tail(s) = << >>
  BY <1>1, <1>2, EmptySeq
<1>5. Len(s) # 1 => Tail(s) # << >>
  <2>1. Len(s) # 1 => Len(Tail(s)) # 0
    BY <1>1, <1>2
  <2> QED BY <1>2, <2>1, EmptySeq
<1>6. Head(s) \in ToSet(s)
  BY <1>1 DEF ToSet
<1>7. ToSet(Tail(s)) \subseteq ToSet(s)
  BY <1>1, <1>2 DEF ToSet
<1>8. ToSet(s) \ ToSet(Tail(s)) \subseteq {Head(s)}
  <2>1. ASSUME NEW x \in ToSet(s), x \notin ToSet(Tail(s)) PROVE x = Head(s)
    <3>1. PICK i \in 1 .. Len(s) : x = s[i]
      BY <1>1 DEF ToSet
    <3>2. ~(i - 1 \in 1 .. Len(s) - 1 /\ Tail(s)[i - 1] = s[i])
      BY <1>2, <2>1, <3>1 DEF ToSet
    <3> QED BY <1>1, <1>3, <3>1, <3>2
  <2> QED BY <2>1
<1> QED BY <1>1, <1>2, <1>4, <1>5, <1>6, <1>7, <1>8

LEMMA TailIsInjective ==
  ASSUME NEW S, NEW s \in Seq(S), s # << >>, IsInjective(s)
  PROVE  IsInjective(Tail(s)) /\ Head(s) \notin ToSet(Tail(s))
<1>1. /\ Len(s) \in Nat \ {0} /\ DOMAIN s = 1 .. Len(s) /\ Head(s) = s[1]
      /\ DOMAIN Tail(s) = 1 .. Len(s) - 1
      /\ \A i \in 1 .. Len(s) - 1 : Tail(s)[i] = s[i + 1]
  BY EmptySeq
<1>2. ASSUME NEW i \in 1 .. Len(s) - 1, NEW j \in 1 .. Len(s) - 1, Tail(s)[i] = Tail(s)[j]
      PROVE  i = j
  <2>1. s[i + 1] = s[j + 1] /\ i + 1 \in 1 .. Len(s) /\ j + 1 \in 1 .. Len(s)
    BY <1>1, <1>2
  <2> QED BY <1>1, <2>1 DEF IsInjective
<1>3. ASSUME NEW i \in 1 .. Len(s) - 1, Tail(s)[i] = Head(s) PROVE FALSE
  <2>1. s[i + 1] = s[1] /\ i + 1 \in 1 .. Len(s) /\ 1 \in 1 .. Len(s)
    BY <1>1, <1>3
  <2> QED BY <1>1, <2>1 DEF IsInjective
<1> QED BY <1>1, <1>2, <1>3 DEF IsInjective, ToSet

LEMMA EmptyToSet == ToSet(<< >>) = {}
BY DEF ToSet

LEMMA LeastOf ==
  ASSUME NEW T, T \subseteq Nat, T # {}
  PROVE  \E m \in T : \A k \in T : m <= k
<1>1. PICK m \in T : \A k \in T : ~(<<k, m>> \in OpToRel(<, Nat))
  BY NatLessThanWellFounded, WFMin
<1>2. ASSUME NEW k \in T PROVE m <= k
  <2>1. k \in Nat /\ m \in Nat
    OBVIOUS
  <2>2. ~(k < m)
    BY <1>1, <2>1 DEF OpToRel
  <2> QED BY <2>1, <2>2
<1> QED BY <1>2

LEMMA MinIsThere ==
  ASSUME NEW T, T \subseteq Nat, T # {}
  PROVE  Min(T) \in T /\ \A k \in T : Min(T) <= k
<1>1. \E m \in T : \A k \in T : m <= k
  BY LeastOf
<1> QED BY <1>1 DEF Min

LEMMA MaxIsThere ==
  ASSUME NEW T, T \subseteq Nat, T # {}, IsFiniteSet(T)
  PROVE  Max(T) \in T /\ \A k \in T : k <= Max(T)
<1> DEFINE above(n) == {k \in T : k > n}
           C == {Cardinality(above(n)) : n \in T}
<1>1. \A n \in T : IsFiniteSet(above(n)) /\ Cardinality(above(n)) \in Nat
  BY FS_Subset, FS_CardinalityType
<1>2. C \subseteq Nat /\ C # {}
  BY <1>1
<1>3. PICK m \in T : \A n \in T : Cardinality(above(m)) <= Cardinality(above(n))
  <2>1. PICK c \in C : \A d \in C : c <= d
    BY <1>2, LeastOf
  <2>2. PICK m \in T : c = Cardinality(above(m))
    OBVIOUS
  <2> QED BY <2>1, <2>2
<1>4. ASSUME NEW k \in T, k > m PROVE FALSE
  <2>1. k \in Nat /\ m \in Nat /\ T \subseteq Int
    OBVIOUS
  <2>2. above(k) \subseteq above(m)
    <3>1. ASSUME NEW x \in T, x > k PROVE x > m
      <4>1. x \in Int
        BY <2>1
      <4> QED BY <1>4, <2>1, <3>1, <4>1
    <3> QED BY <3>1
  <2>3. k \in above(m) /\ k \notin above(k)
    BY <1>4, <2>1
  <2>4. /\ Cardinality(above(k)) <= Cardinality(above(m))
        /\ Cardinality(above(k)) # Cardinality(above(m))
    <3> DEFINE A == above(m)
               B == above(k)
    <3>1. IsFiniteSet(A) /\ B \in SUBSET A /\ B # A
      BY <1>1, <2>2, <2>3
    <3> HIDE DEF A, B, above
    <3>2. Cardinality(B) <= Cardinality(A) /\ (Cardinality(A) = Cardinality(B) => A = B)
      BY <3>1, FS_Subset
    <3>3. Cardinality(B) <= Cardinality(A) /\ Cardinality(B) # Cardinality(A)
      BY <3>1, <3>2
    <3> QED BY <3>3 DEF A, B
  <2>5. Cardinality(above(m)) <= Cardinality(above(k))
    BY <1>3
  <2>6. Cardinality(above(k)) \in Nat /\ Cardinality(above(m)) \in Nat
    BY <1>1
  <2> HIDE DEF above
  <2> QED BY <2>4, <2>5, <2>6
<1>5. \A k \in T : k <= m
  BY <1>4
<1> QED BY <1>5 DEF Max

------------------------------------------------------------------------------
(* Domains.                                                                 *)

Worker == [step : {"down", "list", "apply", "put", "ready"}, order : Seq(Origins),
           listed : ZoneRecords, config : Config, read : Nat, todo : SUBSET Names,
           result : [Origins -> {"none", "submitted", "error"}]]

Site(w) == manifest.domains[Head(w.order)]

(* A worker at a zone has an origin of the manifest before it.  Records it  *)
(* has listed are no younger than the listing.  What it is about to write   *)
(* back is what it read, as long as the ETag is.                            *)
AtZone(w, given, conf, last) ==
  /\ w.step \in {"list", "apply", "put"} => w.order # << >>
  /\ w.step = "apply" => /\ manifest.provider[Site(w).zone] = "cloudflare"
                         /\ w.todo \subseteq DesiredDomains(Site(w))
                         /\ \A n \in Names : w.listed[n] # NoRecord => w.listed[n].id <= w.read
  /\ w.step = "put" =>
       /\ manifest.provider[Site(w).zone] = "cloudfront"
       /\ w.read <= last[Site(w).zone]
       /\ w.read = last[Site(w).zone] =>
            w.listed = given[Site(w).zone] /\ w.config = conf[Site(w).zone]

(* What is no longer to be done has a result, and what is to be has none.   *)
Recorded(w) ==
  w.step # "down" => /\ ToSet(w.order) \subseteq ToSet(manifest.order)
                     /\ IsInjective(w.order)
                     /\ \A o \in ToSet(w.order) : w.result[o] = "none"
                     /\ w.step = "ready" => w.order = << >>
                     /\ \A o \in ToSet(manifest.order) \ ToSet(w.order) : w.result[o] # "none"

WorkerInv(w, given, conf, last) == w \in Worker /\ AtZone(w, given, conf, last) /\ Recorded(w)

(* Ids are given out in order.                                              *)
Numbered(given, last) ==
  \A z \in Zones, n \in Names : given[z][n] # NoRecord => given[z][n].id <= last[z]

DomainInv ==
  /\ manifest \in Manifests
  /\ zones \in [Zones -> ZoneRecords]
  /\ configs \in [Zones -> Config]
  /\ stamp \in [Zones -> Nat]
  /\ Numbered(zones, stamp)
  /\ worker \in [Processes -> Worker]
  /\ domainStarts \in 0 .. MaxStarts
  /\ domainEdits \in 0 .. MaxDomainEdits
  /\ touched \in [Processes -> SUBSET Origins]
  /\ \A p \in Processes : AtZone(worker[p], zones, configs, stamp) /\ Recorded(worker[p])

(* Facts about an origin that is being reconciled.                          *)
LEMMA SiteFacts ==
  ASSUME DomainInv, NEW p \in Processes, worker[p].order # << >>
  PROVE  /\ OriginOf(p) \in Origins
         /\ Plan(p) = Site(worker[p])
         /\ Plan(p).zone \in Zones
         /\ Plan(p).remove \in BOOLEAN
         /\ ZoneOf(p) \in ZoneRecords
         /\ Desired(p) \subseteq Names
<1>1. worker[p] \in Worker /\ worker[p].order \in Seq(Origins)
  BY DEF DomainInv, Worker
<1>2. OriginOf(p) \in Origins
  BY <1>1, TailFacts DEF OriginOf
<1>3. /\ Plan(p).zone \in Zones
      /\ Plan(p).hosts \subseteq Names
      /\ Plan(p).remove \in BOOLEAN
  BY <1>2, DomainAssumption DEF DomainInv, Plan
<1>4. Plan(p) = Site(worker[p])
  BY DEF Plan, Site, OriginOf
<1>5. ZoneOf(p) \in ZoneRecords
  BY <1>3 DEF DomainInv, ZoneOf
<1>6. Desired(p) \subseteq Names
  BY <1>3 DEF Desired, DesiredDomains
<1> QED BY <1>2, <1>3, <1>4, <1>5, <1>6

LEMMA StoppedType == Stopped \in Worker
<1>1. << >> \in Seq(Origins) /\ {} \in SUBSET Names
      /\ [origin |-> "other", certificate |-> "other"] \in Config
  BY DEF Config
<1>2. [n \in Names |-> NoRecord] \in ZoneRecords
  BY DEF ZoneRecords
<1>3. [o \in Origins |-> "none"] \in [Origins -> {"none", "submitted", "error"}]
  OBVIOUS
<1> QED BY <1>1, <1>2, <1>3 DEF Stopped, Worker

LEMMA OriginDoneInv ==
  ASSUME DomainInv, NEW p \in Processes, NEW outcome \in {"submitted", "error"},
         worker[p].step \in {"list", "apply", "put"}, NEW given, NEW conf, NEW last
  PROVE  WorkerInv(OriginDone(p, outcome), given, conf, last)
<1> DEFINE w == worker[p]
           done == OriginDone(p, outcome)
<1>1. /\ w \in Worker /\ w.order \in Seq(Origins) /\ w.order # << >>
      /\ w.result \in [Origins -> {"none", "submitted", "error"}]
      /\ ToSet(w.order) \subseteq ToSet(manifest.order)
      /\ \A o \in ToSet(manifest.order) \ ToSet(w.order) : w.result[o] # "none"
      /\ IsInjective(w.order) /\ \A o \in ToSet(w.order) : w.result[o] = "none"
  BY DEF DomainInv, Worker, AtZone, Recorded
<1>2. OriginOf(p) = Head(w.order) /\ OriginOf(p) \in Origins
  BY <1>1, TailFacts DEF OriginOf
<1>3. /\ done.step = (IF Len(w.order) = 1 THEN "ready" ELSE "list")
      /\ done.order = Tail(w.order)
      /\ done.result = [w.result EXCEPT ![Head(w.order)] = outcome]
  BY <1>2 DEF OriginDone, Stopped
<1>4. done \in Worker
  <2>1. [w.result EXCEPT ![OriginOf(p)] = outcome] \in [Origins -> {"none", "submitted", "error"}]
    BY <1>1
  <2>2. Tail(w.order) \in Seq(Origins)
    BY <1>1, TailFacts
  <2> QED BY <2>1, <2>2, StoppedType DEF OriginDone, Worker
<1>5. AtZone(done, given, conf, last)
  BY <1>1, <1>3, TailFacts DEF AtZone
<1>6. Recorded(done)
  <2>1. ASSUME NEW o \in ToSet(manifest.order) \ ToSet(Tail(w.order))
        PROVE  done.result[o] # "none"
    <3>1. o = Head(w.order) \/ o \notin ToSet(w.order)
      BY <1>1, TailFacts
    <3>2. CASE o = Head(w.order)
      BY <3>2, <1>1, <1>2, <1>3
    <3>3. CASE o # Head(w.order) /\ o \notin ToSet(w.order)
      BY <3>3, <1>1, <1>3
    <3> QED BY <3>1, <3>2, <3>3
  <2>2. ToSet(Tail(w.order)) \subseteq ToSet(manifest.order)
    BY <1>1, TailFacts
  <2>3. IsInjective(Tail(w.order)) /\ Head(w.order) \notin ToSet(Tail(w.order))
    BY <1>1, TailIsInjective
  <2>4. ASSUME NEW o \in ToSet(Tail(w.order)) PROVE done.result[o] = "none"
    <3>1. o \in ToSet(w.order) /\ o # Head(w.order)
      BY <1>1, <2>3, TailFacts
    <3> QED BY <1>1, <1>3, <3>1
  <2> HIDE DEF done
  <2> QED BY <1>1, <1>3, <2>1, <2>2, <2>3, <2>4, TailFacts DEF Recorded
<1> QED BY <1>4, <1>5, <1>6 DEF WorkerInv

(* Other processes: their locals stand while the zones change.              *)
Stamped ==
  /\ zones' \in [Zones -> ZoneRecords]
  /\ configs' \in [Zones -> Config]
  /\ stamp' \in [Zones -> Nat]
  /\ Numbered(zones', stamp')
  /\ \A z \in Zones :
       \/ zones'[z] = zones[z] /\ configs'[z] = configs[z] /\ stamp'[z] = stamp[z]
       \/ stamp'[z] = stamp[z] + 1
       \/ manifest.provider[z] = "cloudflare" /\ stamp'[z] = stamp[z]

LEMMA OthersStand ==
  ASSUME DomainInv, Stamped, NEW p \in Processes
  PROVE  WorkerInv(worker[p], zones', configs', stamp')
<1> DEFINE w == worker[p]
           z == Site(w).zone
<1>1. w \in Worker /\ AtZone(w, zones, configs, stamp) /\ Recorded(w)
  BY DEF DomainInv
<1>2. CASE w.step = "put"
  <2>1. w.order # << >> /\ manifest.provider[z] # "cloudflare"
    BY <1>1, <1>2 DEF AtZone
  <2>2. z \in Zones
    BY <2>1, SiteFacts
  <2>3. w.read \in Nat /\ stamp[z] \in Nat /\ stamp'[z] \in Nat
    BY <1>1, <2>2 DEF Worker, DomainInv, Stamped
  <2>4. w.read <= stamp[z] /\ (w.read = stamp[z] => w.listed = zones[z] /\ w.config = configs[z])
    BY <1>1, <1>2 DEF AtZone
  <2>5. w.read <= stamp'[z] /\ (w.read = stamp'[z] => w.listed = zones'[z] /\ w.config = configs'[z])
    BY <2>1, <2>2, <2>3, <2>4 DEF Stamped
  <2> QED BY <1>1, <1>2, <2>5 DEF AtZone, WorkerInv
<1>3. CASE w.step # "put"
  BY <1>1, <1>3 DEF AtZone, WorkerInv
<1> QED BY <1>2, <1>3

(* A step of a process: zones change as they may, and its locals are right. *)
StepInv(p) ==
  /\ Stamped
  /\ \E w : worker' = [worker EXCEPT ![p] = w] /\ WorkerInv(w, zones', configs', stamp')

LEMMA UnchangedIsStamped ==
  ASSUME DomainInv, UNCHANGED <<zones, configs, stamp>>
  PROVE  Stamped
BY DEF DomainInv, Stamped, Numbered

LEMMA RefusedStep ==
  ASSUME DomainInv, NEW p \in Processes, worker[p].step \in {"list", "apply", "put"}, Refused(p)
  PROVE  StepInv(p)
<1>1. Stamped
  BY UnchangedIsStamped DEF Refused
<1>2. WorkerInv(OriginDone(p, "error"), zones', configs', stamp')
  BY OriginDoneInv
<1>3. worker' = [worker EXCEPT ![p] = OriginDone(p, "error")]
  BY DEF Refused, Keep
<1> QED BY <1>1, <1>2, <1>3 DEF StepInv

LEMMA ListRecordsStep ==
  ASSUME DomainInv, NEW p \in Processes, ListRecords(p)
  PROVE  StepInv(p)
<1> DEFINE z == Plan(p).zone
           seen(page) == [n \in Names |-> IF n \in page THEN ZoneOf(p)[n] ELSE NoRecord]
           w(page) == [worker[p] EXCEPT !.step = "apply", !.todo = Desired(p),
                                        !.read = stamp[z], !.listed = seen(page)]
<1>1. PICK page : worker' = [worker EXCEPT ![p] = w(page)]
  BY DEF ListRecords, Keep
<1>2. /\ worker[p] \in Worker /\ worker[p].step = "list" /\ worker[p].order # << >>
      /\ manifest.provider[z] = "cloudflare"
      /\ Recorded(worker[p])
  BY DEF DomainInv, AtZone, ListRecords
<1>3. /\ Plan(p) = Site(worker[p]) /\ z \in Zones
      /\ ZoneOf(p) \in ZoneRecords /\ ZoneOf(p) = zones[z]
      /\ Desired(p) \subseteq Names
  BY <1>2, SiteFacts DEF ZoneOf
<1>4. seen(page) \in ZoneRecords /\ stamp[z] \in Nat
  BY <1>3 DEF ZoneRecords, DomainInv
<1>5. \A n \in Names : seen(page)[n] # NoRecord => seen(page)[n].id <= stamp[z]
  BY <1>3 DEF DomainInv, Numbered
<1> HIDE DEF seen
<1>6. /\ w(page) \in Worker /\ w(page).step = "apply" /\ w(page).order = worker[p].order
      /\ w(page).result = worker[p].result /\ w(page).todo = Desired(p)
      /\ w(page).listed = seen(page) /\ w(page).read = stamp[z]
  BY <1>2, <1>3, <1>4 DEF Worker
<1>7. Site(w(page)) = Site(worker[p])
  BY <1>6 DEF Site
<1>8. Stamped
  BY UnchangedIsStamped DEF ListRecords
<1> HIDE DEF w
<1>9. WorkerInv(w(page), zones', configs', stamp')
  <2>1. AtZone(w(page), zones', configs', stamp')
    BY <1>2, <1>3, <1>5, <1>6, <1>7 DEF AtZone, Desired
  <2>2. Recorded(w(page))
    BY <1>2, <1>6 DEF Recorded
  <2> QED BY <1>6, <2>1, <2>2 DEF WorkerInv
<1> QED BY <1>1, <1>8, <1>9 DEF StepInv

LEMMA AppliedInv ==
  ASSUME DomainInv, NEW p \in Processes, worker[p].step = "apply", NEW name,
         NEW given, NEW conf, NEW last
  PROVE  WorkerInv(Applied(p, name), given, conf, last)
<1> DEFINE w == Applied(p, name)
<1>1. worker[p] \in Worker /\ AtZone(worker[p], zones, configs, stamp) /\ Recorded(worker[p])
  BY DEF DomainInv
<1>2. /\ w \in Worker /\ w.step = "apply" /\ w.order = worker[p].order
      /\ w.result = worker[p].result /\ w.todo = worker[p].todo \ {name}
      /\ w.listed = worker[p].listed /\ w.read = worker[p].read
  BY <1>1 DEF Worker, Applied
<1>3. Site(w) = Site(worker[p])
  BY <1>2 DEF Site
<1> HIDE DEF w
<1>4. AtZone(w, given, conf, last)
  BY <1>1, <1>2, <1>3 DEF AtZone
<1>5. Recorded(w)
  BY <1>1, <1>2 DEF Recorded
<1> QED BY <1>2, <1>4, <1>5 DEF WorkerInv, w

(* A write of one record, in the zone of the origin.                        *)
LEMMA WriteStamped ==
  ASSUME DomainInv, NEW p \in Processes, worker[p].step = "apply",
         NEW name \in Names, NEW record \in Record \cup {NoRecord}, Write(p, name, record),
         UNCHANGED stamp \/ NewStamp(Plan(p).zone), UNCHANGED configs,
         record # NoRecord => record.id <= stamp'[Plan(p).zone]
  PROVE  Stamped
<1> DEFINE z == Plan(p).zone
<1>1. worker[p].order # << >> /\ manifest.provider[z] = "cloudflare" /\ z \in Zones
  BY SiteFacts DEF DomainInv, AtZone
<1>2. zones' = [zones EXCEPT ![z] = [zones[z] EXCEPT ![name] = record]]
  BY DEF Write
<1>3. zones \in [Zones -> ZoneRecords] /\ stamp \in [Zones -> Nat]
      /\ configs \in [Zones -> Config] /\ Numbered(zones, stamp)
  BY DEF DomainInv
<1>4. [zones[z] EXCEPT ![name] = record] \in ZoneRecords
  BY <1>1, <1>3 DEF ZoneRecords
<1>5. zones' \in [Zones -> ZoneRecords] /\ \A y \in Zones : y # z => zones'[y] = zones[y]
  BY <1>1, <1>2, <1>3, <1>4
<1>6. /\ stamp' \in [Zones -> Nat]
      /\ \A y \in Zones : y # z => stamp'[y] = stamp[y]
      /\ stamp'[z] \in {stamp[z], stamp[z] + 1}
  <2>1. CASE UNCHANGED stamp
    BY <2>1, <1>1, <1>3
  <2>2. CASE stamp' = [stamp EXCEPT ![z] = stamp[z] + 1]
    BY <2>2, <1>1, <1>3
  <2> QED BY <2>1, <2>2 DEF NewStamp
<1>7. Numbered(zones', stamp')
  <2>1. ASSUME NEW y \in Zones, NEW n \in Names, zones'[y][n] # NoRecord
        PROVE  zones'[y][n].id <= stamp'[y]
    <3>1. CASE y = z /\ n = name
      <4>1. zones'[z][name] = record
        BY <1>1, <1>2, <1>3 DEF ZoneRecords
      <4> QED BY <2>1, <3>1, <4>1
    <3>2. CASE y # z \/ n # name
      <4>1. zones'[y][n] = zones[y][n] /\ stamp[y] \in Nat
        BY <1>1, <1>2, <1>3, <3>2 DEF ZoneRecords
      <4>2. zones[y][n] \in Record /\ zones[y][n].id <= stamp[y]
        BY <1>3, <2>1, <4>1 DEF Numbered, ZoneRecords
      <4>3. stamp'[y] \in {stamp[y], stamp[y] + 1} /\ zones[y][n].id \in Nat
        BY <1>6, <4>2 DEF Record
      <4> QED BY <4>1, <4>2, <4>3
    <3> QED BY <3>1, <3>2
  <2> QED BY <2>1 DEF Numbered
<1> HIDE DEF z
<1> QED BY <1>1, <1>3, <1>5, <1>6, <1>7 DEF Stamped

(* What ApplyDomain does to the record of the domain in turn: nothing; the  *)
(* listed one is updated; or one is created where there is none.            *)
Applies(p, name, record) ==
  /\ Write(p, name, record)
  /\ record.content = "ours"
  /\ \/ /\ worker[p].listed[name] # NoRecord /\ Same(p, name)
        /\ record.id = ZoneOf(p)[name].id
        /\ UNCHANGED stamp
     \/ /\ ZoneOf(p)[name] = NoRecord
        /\ record.id = stamp[Plan(p).zone] + 1
        /\ NewStamp(Plan(p).zone)
  /\ AppliedOrLost(p, name)

LEMMA ApplyDomainWrites ==
  ASSUME DomainInv, NEW p \in Processes, ApplyDomain(p)
  PROVE  /\ worker[p].step = "apply" /\ UNCHANGED <<configs, touched>>
         /\ \E name \in worker[p].todo :
              /\ name \in Names
              /\ \/ /\ UNCHANGED <<zones, stamp>>
                    /\ \/ PointsHere(worker[p].listed[name]) /\ Keep(p, Applied(p, name))
                       \/ Refused(p)
                 \/ \E record \in Record : Applies(p, name, record)
<1> DEFINE z == Plan(p).zone
<1>1. worker[p].step = "apply" /\ worker[p].order # << >> /\ UNCHANGED <<configs, touched>>
  BY DEF ApplyDomain, DomainInv, AtZone
<1>2. worker[p].todo \subseteq Names
  BY DEF DomainInv, Worker
<1>3. ZoneOf(p) \in ZoneRecords /\ z \in Zones /\ stamp[z] \in Nat
  BY <1>1, SiteFacts DEF DomainInv
<1>4. PICK name \in worker[p].todo :
        \/ PointsHere(worker[p].listed[name]) /\ Keep(p, Applied(p, name)) /\ UNCHANGED <<zones, stamp>>
        \/ /\ worker[p].listed[name] # NoRecord
           /\ Same(p, name)
           /\ Write(p, name, [ZoneOf(p)[name] EXCEPT !.content = "ours"])
           /\ AppliedOrLost(p, name)
           /\ UNCHANGED stamp
        \/ /\ ZoneOf(p)[name] = NoRecord
           /\ Write(p, name, [content |-> "ours", id |-> stamp[z] + 1])
           /\ NewStamp(z)
           /\ AppliedOrLost(p, name)
        \/ Refused(p)
  BY DEF ApplyDomain
<1>5. CASE /\ worker[p].listed[name] # NoRecord
           /\ Same(p, name)
           /\ Write(p, name, [ZoneOf(p)[name] EXCEPT !.content = "ours"])
           /\ AppliedOrLost(p, name)
           /\ UNCHANGED stamp
  <2> DEFINE record == [ZoneOf(p)[name] EXCEPT !.content = "ours"]
  <2>1. ZoneOf(p)[name] \in Record
    BY <1>2, <1>3, <1>5 DEF Same, ZoneRecords
  <2>2. record \in Record /\ record.content = "ours" /\ record.id = ZoneOf(p)[name].id
    BY <2>1 DEF Record, Contents
  <2>3. Write(p, name, record)
    BY <1>5
  <2> HIDE DEF record
  <2>4. Applies(p, name, record)
    BY <1>5, <2>2, <2>3 DEF Applies
  <2> QED BY <1>1, <1>2, <2>2, <2>4
<1>6. CASE /\ ZoneOf(p)[name] = NoRecord
           /\ Write(p, name, [content |-> "ours", id |-> stamp[z] + 1])
           /\ NewStamp(z)
           /\ AppliedOrLost(p, name)
  <2> DEFINE record == [content |-> "ours", id |-> stamp[z] + 1]
  <2>1. record \in Record
    BY <1>3 DEF Record, Contents
  <2>2. Applies(p, name, record)
    BY <1>6 DEF Applies
  <2> QED BY <1>1, <1>2, <2>1, <2>2
<1>7. CASE PointsHere(worker[p].listed[name]) /\ Keep(p, Applied(p, name)) /\ UNCHANGED <<zones, stamp>>
  BY <1>1, <1>2, <1>7
<1>8. CASE Refused(p)
  BY <1>1, <1>2, <1>8 DEF Refused
<1> QED BY <1>4, <1>5, <1>6, <1>7, <1>8

LEMMA ApplyDomainStep ==
  ASSUME DomainInv, NEW p \in Processes, ApplyDomain(p)
  PROVE  StepInv(p)
<1>1. worker[p].step = "apply" /\ UNCHANGED configs
  BY ApplyDomainWrites
<1>2. PICK name \in worker[p].todo :
        /\ name \in Names
        /\ \/ /\ UNCHANGED <<zones, stamp>>
              /\ Keep(p, Applied(p, name)) \/ Refused(p)
           \/ \E record \in Record : Applies(p, name, record)
  BY ApplyDomainWrites
<1>3. Stamped
  <2>1. CASE UNCHANGED <<zones, stamp>>
    BY <1>1, <2>1, UnchangedIsStamped
  <2>2. ASSUME NEW record \in Record, Applies(p, name, record)
        PROVE  Stamped
    <3> DEFINE z == Plan(p).zone
    <3>1. worker[p].order # << >>
      BY <1>1 DEF DomainInv, AtZone
    <3>2. z \in Zones /\ ZoneOf(p) = zones[z] /\ stamp \in [Zones -> Nat]
      BY <3>1, SiteFacts DEF ZoneOf, DomainInv
    <3>3. record.id <= stamp'[z]
      <4>1. CASE Same(p, name) /\ record.id = ZoneOf(p)[name].id /\ UNCHANGED stamp
        BY <1>2, <3>2, <4>1 DEF DomainInv, Numbered, Same
      <4>2. CASE record.id = stamp[z] + 1 /\ NewStamp(z)
        BY <3>2, <4>2 DEF NewStamp
      <4> QED BY <2>2, <4>1, <4>2 DEF Applies
    <3>4. Write(p, name, record) /\ (UNCHANGED stamp \/ NewStamp(z))
      BY <2>2 DEF Applies
    <3> QED BY <1>1, <1>2, <3>3, <3>4, WriteStamped
  <2> QED BY <1>2, <2>1, <2>2
<1>4. \/ worker' = [worker EXCEPT ![p] = Applied(p, name)]
      \/ worker' = [worker EXCEPT ![p] = OriginDone(p, "error")]
  BY <1>2 DEF Applies, AppliedOrLost, Keep, Refused
<1>5. /\ WorkerInv(Applied(p, name), zones', configs', stamp')
      /\ WorkerInv(OriginDone(p, "error"), zones', configs', stamp')
  BY <1>1, AppliedInv, OriginDoneInv
<1> QED BY <1>3, <1>4, <1>5 DEF StepInv

LEMMA DeleteExtraStep ==
  ASSUME DomainInv, NEW p \in Processes, DeleteExtra(p)
  PROVE  StepInv(p)
<1>1. worker[p].step = "apply" /\ UNCHANGED configs
  BY DEF DeleteExtra
<1>2. PICK name \in Extras(p) :
        \/ /\ Write(p, name, NoRecord)
           /\ \E answered \in BOOLEAN :
                Keep(p, IF answered
                          THEN [worker[p] EXCEPT !.listed[name] = NoRecord]
                          ELSE OriginDone(p, "error"))
           /\ UNCHANGED stamp
        \/ Refused(p)
  BY DEF DeleteExtra
<1>3. CASE Refused(p)
  BY <1>1, <1>3, RefusedStep
<1>4. CASE /\ Write(p, name, NoRecord)
           /\ \E answered \in BOOLEAN :
                Keep(p, IF answered
                          THEN [worker[p] EXCEPT !.listed[name] = NoRecord]
                          ELSE OriginDone(p, "error"))
           /\ UNCHANGED stamp
  <2> DEFINE w == [worker[p] EXCEPT !.listed[name] = NoRecord]
  <2>1. name \in Names
    BY <1>2 DEF Extras
  <2>2. Stamped
    BY <1>1, <1>4, <2>1, WriteStamped
  <2>3. worker[p] \in Worker /\ AtZone(worker[p], zones, configs, stamp) /\ Recorded(worker[p])
    BY DEF DomainInv
  <2>4. [worker[p].listed EXCEPT ![name] = NoRecord] \in ZoneRecords
    BY <2>1, <2>3 DEF Worker, ZoneRecords
  <2>5. /\ w \in Worker /\ w.step = "apply" /\ w.order = worker[p].order
        /\ w.result = worker[p].result /\ w.todo = worker[p].todo /\ w.read = worker[p].read
        /\ \A n \in Names : w.listed[n] \in {worker[p].listed[n], NoRecord}
    BY <1>1, <2>1, <2>3, <2>4 DEF Worker, ZoneRecords
  <2>6. Site(w) = Site(worker[p])
    BY <2>5 DEF Site
  <2>7. \/ worker' = [worker EXCEPT ![p] = w]
        \/ worker' = [worker EXCEPT ![p] = OriginDone(p, "error")]
    BY <1>4 DEF Keep
  <2> HIDE DEF w
  <2>8. AtZone(w, zones', configs', stamp')
    BY <1>1, <2>3, <2>5, <2>6 DEF AtZone
  <2>9. Recorded(w)
    BY <1>1, <2>3, <2>5 DEF Recorded
  <2>10. WorkerInv(OriginDone(p, "error"), zones', configs', stamp')
    BY <1>1, OriginDoneInv
  <2> QED BY <2>2, <2>5, <2>7, <2>8, <2>9, <2>10 DEF StepInv, WorkerInv
<1> QED BY <1>2, <1>3, <1>4

LEMMA ZoneDoneStep ==
  ASSUME DomainInv, NEW p \in Processes, ZoneDone(p)
  PROVE  StepInv(p)
<1>1. WorkerInv(OriginDone(p, "submitted"), zones', configs', stamp')
  BY OriginDoneInv DEF ZoneDone
<1> QED BY <1>1, UnchangedIsStamped DEF ZoneDone, Keep, StepInv

LEMMA GetDistributionStep ==
  ASSUME DomainInv, NEW p \in Processes, GetDistribution(p)
  PROVE  StepInv(p)
<1> DEFINE z == Plan(p).zone
           w == [worker[p] EXCEPT !.step = "put", !.listed = zones[z],
                                  !.config = configs[z], !.read = stamp[z]]
<1>1. /\ worker[p] \in Worker /\ worker[p].step = "list" /\ worker[p].order # << >>
      /\ manifest.provider[z] = "cloudfront"
      /\ Recorded(worker[p])
  BY DEF DomainInv, AtZone, GetDistribution
<1>2. Plan(p) = Site(worker[p]) /\ z \in Zones
  BY <1>1, SiteFacts
<1>3. stamp[z] \in Nat /\ zones[z] \in ZoneRecords /\ configs[z] \in Config
  BY <1>2 DEF DomainInv
<1>4. /\ w \in Worker /\ w.step = "put" /\ w.order = worker[p].order
      /\ w.result = worker[p].result
      /\ w.read = stamp[z] /\ w.listed = zones[z] /\ w.config = configs[z]
  BY <1>1, <1>2, <1>3 DEF Worker
<1>5. Site(w) = Site(worker[p])
  BY <1>4 DEF Site
<1>6. worker' = [worker EXCEPT ![p] = w] /\ UNCHANGED <<zones, configs, stamp>>
  BY DEF GetDistribution, Keep
<1> HIDE DEF w
<1>7. Site(w).zone = z
  BY <1>2, <1>5
<1> HIDE DEF z
<1>8. AtZone(w, zones', configs', stamp')
  <2>1. w.read <= stamp'[z] /\ w.listed = zones'[z] /\ w.config = configs'[z]
    BY <1>3, <1>4, <1>6
  <2> QED BY <1>1, <1>4, <1>7, <2>1 DEF AtZone
<1>9. Recorded(w)
  BY <1>1, <1>4 DEF Recorded
<1> QED BY <1>4, <1>6, <1>8, <1>9, UnchangedIsStamped DEF StepInv, WorkerInv

LEMMA PutDistributionStep ==
  ASSUME DomainInv, NEW p \in Processes, PutDistribution(p)
  PROVE  StepInv(p)
<1> DEFINE z == Plan(p).zone
<1>1. worker[p].step = "put" /\ worker[p].order # << >> /\ worker[p] \in Worker
  BY DEF DomainInv, AtZone, PutDistribution
<1>2. CASE Refused(p)
  BY <1>1, <1>2, RefusedStep
<1>3. CASE /\ zones' = [zones EXCEPT ![z] = FinalAliases(p)]
           /\ configs' = [configs EXCEPT ![z] = FinalConfig(worker[p].config)]
           /\ NewStamp(z) /\ ETagMatches(p)
           /\ \E outcome \in {"submitted", "error"} : Keep(p, OriginDone(p, outcome))
  <2>1. /\ z \in Zones /\ zones \in [Zones -> ZoneRecords] /\ stamp \in [Zones -> Nat]
        /\ configs \in [Zones -> Config] /\ Numbered(zones, stamp)
    BY <1>1, SiteFacts DEF DomainInv
  <2>2. Alias \in Record /\ Alias.id = 0
    BY DEF Alias, Record, Contents
  <2>3. FinalAliases(p) \in ZoneRecords
    BY <1>1, <2>2 DEF FinalAliases, ZoneRecords, Worker
  <2>4. FinalConfig(worker[p].config) \in Config
    BY DEF FinalConfig, Config
  <2>5. Stamped
    <3>1. zones' \in [Zones -> ZoneRecords] /\ \A y \in Zones : y # z => zones'[y] = zones[y]
      BY <1>3, <2>1, <2>3
    <3>2. /\ stamp' \in [Zones -> Nat] /\ stamp'[z] = stamp[z] + 1
          /\ \A y \in Zones : y # z => stamp'[y] = stamp[y]
      BY <1>3, <2>1 DEF NewStamp
    <3>3. configs' \in [Zones -> Config] /\ \A y \in Zones : y # z => configs'[y] = configs[y]
      BY <1>3, <2>1, <2>4
    <3>4. \A n \in Names : FinalAliases(p)[n] # NoRecord => FinalAliases(p)[n].id <= stamp'[z]
      <4>1. worker[p].listed = zones[z]
        <5>1. worker[p].read = stamp[z] /\ z = Site(worker[p]).zone
          BY <1>1, <1>3, SiteFacts DEF ETagMatches
        <5> QED BY <1>1, <5>1 DEF DomainInv, AtZone
      <4>2. \A n \in Names : zones[z][n] # NoRecord =>
              zones[z][n].id \in Nat /\ zones[z][n].id <= stamp[z]
        BY <2>1 DEF Numbered, ZoneRecords, Record
      <4>3. stamp[z] \in Nat
        BY <2>1
      <4>4. ASSUME NEW n \in Names, FinalAliases(p)[n] # NoRecord
            PROVE  FinalAliases(p)[n].id <= stamp'[z]
        <5>1. FinalAliases(p)[n] = Alias \/ FinalAliases(p)[n] = zones[z][n]
          BY <4>1, <4>4 DEF FinalAliases
        <5> HIDE DEF z
        <5> QED BY <2>2, <3>2, <4>2, <4>3, <4>4, <5>1
      <4> QED BY <4>4
    <3>5. Numbered(zones', stamp')
      <4>1. zones'[z] = FinalAliases(p)
        BY <1>3, <2>1
      <4> HIDE DEF z
      <4> QED BY <2>1, <3>1, <3>2, <3>4, <4>1 DEF Numbered
    <3> HIDE DEF z
    <3> QED BY <3>1, <3>2, <3>3, <3>5 DEF Stamped
  <2>6. PICK outcome \in {"submitted", "error"} :
          worker' = [worker EXCEPT ![p] = OriginDone(p, outcome)]
    BY <1>3 DEF Keep
  <2>7. WorkerInv(OriginDone(p, outcome), zones', configs', stamp')
    BY <1>1, OriginDoneInv
  <2> QED BY <2>5, <2>6, <2>7 DEF StepInv
<1> QED BY <1>2, <1>3 DEF PutDistribution

LEMMA ReconcileStep ==
  ASSUME DomainInv, NEW p \in Processes, Reconcile(p)
  PROVE  StepInv(p)
<1>1. CASE DomainCallFails(p)
  BY <1>1, RefusedStep DEF DomainCallFails
<1> QED BY <1>1, ListRecordsStep, ApplyDomainStep, DeleteExtraStep, ZoneDoneStep,
           GetDistributionStep, PutDistributionStep DEF Reconcile

LEMMA StoppedInv ==
  ASSUME NEW given, NEW conf, NEW last
  PROVE  WorkerInv(Stopped, given, conf, last)
<1>1. Stopped.step = "down"
  BY DEF Stopped
<1> QED BY <1>1, StoppedType DEF WorkerInv, AtZone, Recorded

LEMMA DomainStartStep ==
  ASSUME DomainInv, NEW p \in Processes, DomainStart(p)
  PROVE  StepInv(p)
<1> DEFINE w == [Stopped EXCEPT !.step = "list", !.order = manifest.order]
<1>1. manifest.order \in Seq(Origins) /\ manifest.order # << >> /\ IsInjective(manifest.order)
      /\ ToSet(manifest.order) \subseteq Origins
  BY DomainAssumption DEF DomainInv, DomainStart, ToSet
<1>2. /\ w \in Worker /\ w.step = "list" /\ w.order = manifest.order
      /\ \A o \in Origins : w.result[o] = "none"
  BY <1>1, StoppedType DEF Worker, Stopped
<1>3. worker' = [worker EXCEPT ![p] = w] /\ UNCHANGED <<zones, configs, stamp>>
  BY DEF DomainStart, Keep
<1> HIDE DEF w
<1>4. WorkerInv(w, zones', configs', stamp')
  BY <1>1, <1>2 DEF WorkerInv, AtZone, Recorded
<1> QED BY <1>3, <1>4, UnchangedIsStamped DEF StepInv

LEMMA DomainCrashStep ==
  ASSUME DomainInv, NEW p \in Processes, DomainCrash(p)
  PROVE  StepInv(p)
BY StoppedInv, UnchangedIsStamped DEF DomainCrash, Keep, StepInv

LEMMA OperatorIsStamped ==
  ASSUME DomainInv, OperatorSetsDomain
  PROVE  Stamped
<1>1. PICK z \in Zones : OperatorSets(z) /\ NewStamp(z)
  BY DEF OperatorSetsDomain
<1>2. /\ zones \in [Zones -> ZoneRecords] /\ stamp \in [Zones -> Nat] /\ stamp[z] \in Nat
      /\ configs \in [Zones -> Config] /\ Numbered(zones, stamp)
      /\ zones[z] \in [Names -> Record \cup {NoRecord}]
  BY DEF DomainInv, ZoneRecords
<1>3. /\ stamp' \in [Zones -> Nat] /\ stamp'[z] = stamp[z] + 1
      /\ \A y \in Zones : y # z => stamp'[y] = stamp[y]
  BY <1>1, <1>2 DEF NewStamp
<1>4. /\ configs' \in [Zones -> Config]
      /\ \A y \in Zones : y # z => configs'[y] = configs[y]
  BY <1>1, <1>2 DEF OperatorSets
<1> DEFINE changed == \E n \in Names, record \in Record \cup {NoRecord} :
                        /\ record # NoRecord => record.id <= stamp[z] + 1
                        /\ zones' = [zones EXCEPT ![z][n] = record]
<1>5. UNCHANGED zones \/ changed
  <2>1. ASSUME NEW n \in Names, zones' = [zones EXCEPT ![z][n] = NoRecord] PROVE changed
    BY <2>1
  <2>2. ASSUME NEW n \in Names, zones' = [zones EXCEPT ![z][n] = Alias] PROVE changed
    <3>1. Alias \in Record /\ Alias.id = 0 /\ 0 <= stamp[z] + 1
      BY <1>2 DEF Alias, Record, Contents
    <3> QED BY <2>2, <3>1
  <2>3. ASSUME NEW n \in Names, NEW c \in {"ours", "other"}, NEW new \in BOOLEAN,
               zones' = [zones EXCEPT ![z][n] =
                 IF @ = NoRecord \/ new THEN [content |-> c, id |-> stamp[z] + 1]
                                        ELSE [@ EXCEPT !.content = c]]
        PROVE  changed
    <3> DEFINE record == IF zones[z][n] = NoRecord \/ new
                         THEN [content |-> c, id |-> stamp[z] + 1]
                         ELSE [zones[z][n] EXCEPT !.content = c]
    <3>1. zones' = [zones EXCEPT ![z][n] = record]
      BY <2>3
    <3>2. zones[z][n] \in Record \cup {NoRecord}
      BY <1>2
    <3>3. zones[z][n] # NoRecord => zones[z][n].id \in Nat /\ zones[z][n].id <= stamp[z]
      BY <1>2, <3>2 DEF Numbered, Record
    <3>4. record \in Record
      BY <1>2, <3>2 DEF Record, Contents
    <3>5. record.id = stamp[z] + 1 \/ (zones[z][n] # NoRecord /\ record.id = zones[z][n].id)
      BY <3>2 DEF Record
    <3> HIDE DEF record
    <3>6. record.id <= stamp[z] + 1
      BY <1>2, <3>3, <3>5
    <3> QED BY <3>1, <3>4, <3>6
  <2> QED BY <1>1, <2>1, <2>2, <2>3 DEF OperatorSets
<1>6. CASE UNCHANGED zones
  <2>1. Numbered(zones', stamp')
    <3>1. ASSUME NEW y \in Zones, NEW n \in Names, zones[y][n] # NoRecord
          PROVE  zones[y][n].id <= stamp'[y]
      <4>1. zones[y][n] \in Record /\ zones[y][n].id <= stamp[y] /\ stamp[y] \in Nat
        BY <1>2, <3>1 DEF Numbered, ZoneRecords
      <4>2. stamp'[y] \in {stamp[y], stamp[y] + 1} /\ zones[y][n].id \in Nat
        BY <1>3, <4>1 DEF Record
      <4> QED BY <4>1, <4>2
    <3> QED BY <1>6, <3>1 DEF Numbered
  <2> QED BY <1>2, <1>3, <1>4, <1>6, <2>1 DEF Stamped
<1>7. ASSUME NEW n \in Names, NEW record \in Record \cup {NoRecord},
             record # NoRecord => record.id <= stamp[z] + 1,
             zones' = [zones EXCEPT ![z][n] = record]
      PROVE  Stamped
  <2>1. zones' \in [Zones -> ZoneRecords] /\ \A y \in Zones : y # z => zones'[y] = zones[y]
    <3>1. [zones[z] EXCEPT ![n] = record] \in ZoneRecords
      BY <1>2 DEF ZoneRecords
    <3> QED BY <1>2, <1>7, <3>1
  <2>2. Numbered(zones', stamp')
    <3>1. ASSUME NEW y \in Zones, NEW m \in Names, zones'[y][m] # NoRecord
          PROVE  zones'[y][m].id <= stamp'[y]
      <4>1. CASE y = z /\ m = n
        <5>1. zones'[z][n] = record
          BY <1>2, <1>7
        <5> QED BY <1>3, <1>7, <3>1, <4>1, <5>1
      <4>2. CASE y # z \/ m # n
        <5>1. zones'[y][m] = zones[y][m] /\ stamp[y] \in Nat
          BY <1>2, <1>7, <4>2
        <5>2. zones[y][m] \in Record /\ zones[y][m].id <= stamp[y]
          BY <1>2, <3>1, <5>1 DEF Numbered, ZoneRecords
        <5>3. stamp'[y] \in {stamp[y], stamp[y] + 1} /\ zones[y][m].id \in Nat
          BY <1>3, <5>1, <5>2 DEF Record
        <5> QED BY <5>1, <5>2, <5>3
      <4> QED BY <4>1, <4>2
    <3> QED BY <3>1 DEF Numbered
  <2> QED BY <1>3, <1>4, <2>1, <2>2 DEF Stamped
<1> QED BY <1>5, <1>6, <1>7

(* An origin is touched by edits in its zone, and untouched again when it   *)
(* is read or updated.                                                      *)
LEMMA TouchedOrigins ==
  ASSUME DomainInv, NEW p \in Processes, Reconcile(p)
  PROVE  /\ touched' \in [Processes -> SUBSET Origins]
         /\ \A q \in Processes : q # p => touched'[q] = touched[q]
         /\ \/ touched'[p] = touched[p]
            \/ /\ touched'[p] = touched[p] \ {OriginOf(p)}
               /\ ListRecords(p) \/ PutDistribution(p)
<1>1. UNCHANGED touched \/ (Untouched(p) /\ (ListRecords(p) \/ PutDistribution(p)))
  BY DEF Reconcile, ListRecords, ApplyDomain, DeleteExtra, ZoneDone, GetDistribution,
         PutDistribution, DomainCallFails, Refused
<1>2. touched \in [Processes -> SUBSET Origins]
  BY DEF DomainInv
<1>3. CASE UNCHANGED touched
  BY <1>2, <1>3
<1>4. CASE Untouched(p) /\ (ListRecords(p) \/ PutDistribution(p))
  BY <1>2, <1>4 DEF Untouched
<1> QED BY <1>1, <1>3, <1>4

LEMMA DomainInvInit == DomainInit => DomainInv
<1> SUFFICES ASSUME DomainInit PROVE DomainInv
  OBVIOUS
<1>1. /\ manifest \in Manifests /\ zones \in [Zones -> ZoneRecords]
      /\ configs \in [Zones -> Config] /\ Numbered(zones, stamp)
  BY DomainAssumption DEF DomainInit, Numbered
<1>2. stamp \in [Zones -> Nat] /\ worker \in [Processes -> Worker]
      /\ touched \in [Processes -> SUBSET Origins]
  BY StoppedType DEF DomainInit
<1>3. domainStarts \in 0 .. MaxStarts /\ domainEdits \in 0 .. MaxDomainEdits
  BY DomainAssumption DEF DomainInit
<1>4. \A p \in Processes : AtZone(worker[p], zones, configs, stamp) /\ Recorded(worker[p])
  BY StoppedInv DEF DomainInit, WorkerInv
<1> QED BY <1>1, <1>2, <1>3, <1>4 DEF DomainInv

(* Whoever moves, the zones change as they may and every process has its    *)
(* locals right.                                                            *)
LEMMA StepKeepsWorkers ==
  ASSUME DomainInv, NEW p \in Processes, StepInv(p), UNCHANGED manifest
  PROVE  /\ Stamped
         /\ worker' \in [Processes -> Worker]
         /\ \A q \in Processes : AtZone(worker[q], zones, configs, stamp)' /\ Recorded(worker[q])'
<1>1. PICK w : worker' = [worker EXCEPT ![p] = w] /\ WorkerInv(w, zones', configs', stamp')
  BY DEF StepInv
<1>2. Stamped /\ worker \in [Processes -> Worker] /\ w \in Worker
  BY <1>1 DEF StepInv, DomainInv, WorkerInv
<1>3. ASSUME NEW q \in Processes
      PROVE  WorkerInv(worker'[q], zones', configs', stamp')
  <2>1. CASE q = p
    BY <1>1, <1>2, <2>1
  <2>2. CASE q # p
    <3>1. worker'[q] = worker[q]
      BY <1>1, <1>2, <2>2
    <3> QED BY <1>2, <3>1, OthersStand
  <2> QED BY <2>1, <2>2
<1>4. ASSUME NEW q \in Processes
      PROVE  AtZone(worker[q], zones, configs, stamp)' /\ Recorded(worker[q])'
  BY <1>3 DEF WorkerInv, AtZone, Recorded, Site
<1> QED BY <1>1, <1>2, <1>4

LEMMA DomainInvStep ==
  ASSUME DomainInv, [DomainNext]_domainVars
  PROVE  DomainInv'
<1>1. ASSUME NEW p \in Processes, Reconcile(p) \/ DomainCrash(p),
             UNCHANGED <<manifest, domainStarts, domainEdits>>
      PROVE  DomainInv'
  <2>1. StepInv(p)
    BY <1>1, ReconcileStep, DomainCrashStep
  <2>2. touched' \in [Processes -> SUBSET Origins]
    BY <1>1, TouchedOrigins DEF DomainCrash, DomainInv
  <2> QED BY <1>1, <2>1, <2>2, StepKeepsWorkers DEF DomainInv, Stamped
<1>2. ASSUME NEW p \in Processes, DomainStart(p), UNCHANGED <<manifest, domainEdits>>
      PROVE  DomainInv'
  <2>1. StepInv(p)
    BY <1>2, DomainStartStep
  <2>2. domainStarts' \in 0 .. MaxStarts /\ touched' \in [Processes -> SUBSET Origins]
    BY <1>2, DomainAssumption DEF DomainStart, DomainInv
  <2> QED BY <1>2, <2>1, <2>2, StepKeepsWorkers DEF DomainInv, Stamped
<1>3. CASE OperatorSetsDomain
  <2>1. Stamped /\ UNCHANGED <<manifest, worker, domainStarts>>
    BY <1>3, OperatorIsStamped DEF OperatorSetsDomain
  <2>2. domainEdits' \in 0 .. MaxDomainEdits /\ touched' \in [Processes -> SUBSET Origins]
    <3>1. ASSUME NEW z \in Zones PROVE OriginsOf(z) \subseteq Origins
      <4>1. manifest.order \in Seq(Origins)
        BY DomainAssumption DEF DomainInv
      <4> QED BY <4>1 DEF OriginsOf, ToSet
    <3> QED BY <1>3, <3>1, DomainAssumption DEF OperatorSetsDomain, DomainInv
  <2>3. ASSUME NEW q \in Processes
        PROVE  AtZone(worker[q], zones, configs, stamp)' /\ Recorded(worker[q])'
    BY <2>1, OthersStand DEF WorkerInv, AtZone, Recorded, Site
  <2> QED BY <2>1, <2>2, <2>3 DEF DomainInv, Stamped
<1>4. CASE UNCHANGED domainVars
  BY <1>4 DEF domainVars, DomainInv, AtZone, Recorded, Site, Numbered
<1> QED BY <1>1, <1>2, <1>3, <1>4 DEF DomainNext

(* What a step of a process may do to a record: nothing; make or change that*)
(* of a desired domain; or remove an extra one, where the origin removes    *)
(* them.  At Cloudflare only the listed record is changed or removed.       *)
Listed(p, n) == worker[p].listed[n] # NoRecord /\ Same(p, n)

Meant(p, z, n) ==
  \/ zones'[z][n] = zones[z][n]
  \/ /\ OriginOf(p) \in OriginsOf(z) /\ n \in Desired(p)
     /\ zones'[z][n] # NoRecord
     /\ \/ /\ manifest.provider[z] = "cloudflare"
           /\ zones'[z][n].content = "ours"
           /\ zones[z][n] = NoRecord \/ Listed(p, n)
        \/ worker[p].step = "put" /\ manifest.provider[z] = "cloudfront"
  \/ /\ OriginOf(p) \in OriginsOf(z) /\ n \notin Desired(p)
     /\ Plan(p).remove /\ zones'[z][n] = NoRecord
     /\ worker[p].step = "apply" => Listed(p, n)

LEMMA WritesAreMeant ==
  ASSUME DomainInv, NEW p \in Processes, Reconcile(p), NEW z \in Zones, NEW n \in Names
  PROVE  Meant(p, z, n)
<1> DEFINE o == OriginOf(p)
<1> SUFFICES ASSUME zones'[z][n] # zones[z][n] PROVE Meant(p, z, n)
  BY DEF Meant
<1>1. zones[z] \in ZoneRecords /\ zones \in [Zones -> ZoneRecords]
  BY DEF DomainInv
<1>2. zones' # zones
  OBVIOUS
<1>3. worker[p].step \in {"apply", "put"} /\ worker[p].order # << >>
  BY <1>2 DEF Reconcile, ListRecords, ApplyDomain, DeleteExtra, ZoneDone, GetDistribution,
              PutDistribution, DomainCallFails, Refused, DomainInv, AtZone
<1>4. /\ Plan(p).zone \in Zones /\ Plan(p).remove \in BOOLEAN
      /\ ZoneOf(p) \in ZoneRecords /\ Desired(p) \subseteq Names
      /\ Plan(p) = Site(worker[p]) /\ ZoneOf(p) = zones[Plan(p).zone]
  BY <1>3, SiteFacts DEF ZoneOf
<1>5. o \in OriginsOf(Plan(p).zone)
  <2>1. worker[p].order \in Seq(Origins) /\ ToSet(worker[p].order) \subseteq ToSet(manifest.order)
    BY <1>3 DEF DomainInv, Worker, Recorded
  <2>2. o \in ToSet(manifest.order)
    BY <1>3, <2>1, TailFacts DEF OriginOf
  <2> QED BY <2>2 DEF OriginsOf, Plan
<1>6. ASSUME NEW name \in Names, NEW record \in Record \cup {NoRecord}, Write(p, name, record)
      PROVE  z = Plan(p).zone /\ n = name /\ zones'[z][n] = record
  BY <1>1, <1>4, <1>6 DEF Write, ZoneRecords
<1>7. CASE ApplyDomain(p)
  <2>1. PICK name \in worker[p].todo :
          name \in Names /\ \E record \in Record : Applies(p, name, record)
    BY <1>2, <1>7, ApplyDomainWrites
  <2>2. PICK record \in Record : Applies(p, name, record)
    BY <2>1
  <2>3. z = Plan(p).zone /\ n = name /\ zones'[z][n] = record
    BY <1>6, <2>1, <2>2 DEF Applies
  <2>4. worker[p].step = "apply" /\ AtZone(worker[p], zones, configs, stamp)
    BY <1>7 DEF ApplyDomain, DomainInv
  <2>5. name \in Desired(p) /\ manifest.provider[z] = "cloudflare"
    BY <1>4, <2>1, <2>3, <2>4 DEF AtZone, Desired
  <2>6. zones[z][n] = NoRecord \/ Listed(p, n)
    BY <1>4, <2>2, <2>3 DEF Applies, Listed
  <2>7. record.content = "ours" /\ record # NoRecord
    BY <2>2, DomainAssumption DEF Applies
  <2> QED BY <1>5, <2>3, <2>5, <2>6, <2>7 DEF Meant
<1>8. CASE DeleteExtra(p)
  <2>1. PICK name \in Extras(p) : Write(p, name, NoRecord) /\ Same(p, name)
    BY <1>2, <1>8 DEF DeleteExtra, Refused
  <2>2. name \in Names /\ Extra(p, name)
    BY <2>1 DEF Extras
  <2>3. z = Plan(p).zone /\ n = name /\ zones'[z][n] = NoRecord
    BY <1>6, <2>1, <2>2
  <2> QED BY <1>5, <2>1, <2>2, <2>3 DEF Meant, Extra, Listed
<1>9. CASE PutDistribution(p)
  <2>1. /\ zones' = [zones EXCEPT ![Plan(p).zone] = FinalAliases(p)]
        /\ ETagMatches(p)
        /\ worker[p].step = "put"
    BY <1>2, <1>9 DEF PutDistribution, Refused
  <2>2. z = Plan(p).zone /\ zones'[z] = FinalAliases(p)
    BY <1>1, <1>4, <2>1
  <2>3. worker[p].listed = zones[z] /\ manifest.provider[z] = "cloudfront"
    BY <1>3, <1>4, <2>1, <2>2 DEF DomainInv, AtZone, ETagMatches
  <2>4. zones'[z][n] = IF n \in Desired(p) THEN Alias
                       ELSE IF Plan(p).remove THEN NoRecord ELSE zones[z][n]
    BY <2>2, <2>3 DEF FinalAliases
  <2>5. Alias # NoRecord
    BY DomainAssumption DEF Alias, Record, Contents
  <2> QED BY <1>4, <1>5, <2>1, <2>2, <2>3, <2>4, <2>5 DEF Meant
<1> QED BY <1>2, <1>7, <1>8, <1>9 DEF Reconcile, ListRecords, ZoneDone, GetDistribution,
           DomainCallFails, Refused

(* A step of a process leaves a distribution as it is, or as configured,    *)
(* but for a group of origins.                                              *)
LEMMA ConfigsAreMeant ==
  ASSUME DomainInv, NEW p \in Processes, Reconcile(p), NEW z \in Zones
  PROVE  configs'[z] = configs[z] \/ configs'[z] = FinalConfig(configs[z])
<1>1. CASE UNCHANGED configs
  BY <1>1
<1>2. CASE /\ worker[p].step = "put" /\ ETagMatches(p)
           /\ configs' = [configs EXCEPT ![Plan(p).zone] = FinalConfig(worker[p].config)]
  <2>1. AtZone(worker[p], zones, configs, stamp) /\ configs \in [Zones -> Config]
    BY DEF DomainInv
  <2>2. Plan(p) = Site(worker[p]) /\ Plan(p).zone \in Zones
    BY <1>2, <2>1, SiteFacts DEF AtZone
  <2>3. worker[p].config = configs[Plan(p).zone]
    BY <1>2, <2>1, <2>2 DEF AtZone, ETagMatches
  <2> QED BY <1>2, <2>1, <2>2, <2>3
<1> QED BY <1>1, <1>2 DEF Reconcile, ListRecords, ApplyDomain, DeleteExtra, ZoneDone,
           GetDistribution, PutDistribution, DomainCallFails, Refused

(* A program step that changes a record is a step of one process.           *)
LEMMA SomeoneReconciles ==
  ASSUME DomainInv, [DomainNext]_domainVars, ByProgram, zones' # zones \/ configs' # configs
  PROVE  UNCHANGED manifest /\ \E p \in Processes :
           /\ Reconcile(p)
           /\ \A q \in Processes : worker'[q] # worker[q] => q = p
<1>1. domainEdits \in Nat
  BY DomainAssumption DEF DomainInv
<1>2. PICK p \in Processes : Reconcile(p) /\ UNCHANGED manifest
  BY <1>1 DEF DomainNext, domainVars, DomainStart, DomainCrash, OperatorSetsDomain, ByProgram
<1>3. PICK w : worker' = [worker EXCEPT ![p] = w]
  BY <1>2, ReconcileStep DEF StepInv
<1> QED BY <1>2, <1>3 DEF DomainInv

(* A start of the program at its CDN is, of the domains, a behaviour of     *)
(* DomainSpec.                                                              *)
LEMMA StartsReconcileDomains == CdnSpec => DomainSpec
<1>1. CdnInit => DomainInit
  BY DEF CdnInit
<1>2. [CdnNext]_<<tenantVars, domainVars>> => [DomainNext]_domainVars
  BY DEF CdnNext
<1> QED BY <1>1, <1>2, PTL DEF CdnSpec, DomainSpec

LEMMA DomainInvariant == CdnSpec => []DomainInv
<1>1. DomainInv /\ [DomainNext]_domainVars => DomainInv'
  BY DomainInvStep
<1> QED BY <1>1, DomainInvInit, StartsReconcileDomains, PTL DEF DomainSpec

(* Every variable of the domains has its type: what processes, and operators*)
(* between their calls, leave at the zones and in the workers.              *)
THEOREM DomainTypes == CdnSpec => []DomainTypeOK
<1>1. DomainInv => DomainTypeOK
  <2> SUFFICES ASSUME DomainInv PROVE DomainTypeOK
    OBVIOUS
  <2>1. ASSUME NEW p \in Processes
        PROVE  /\ worker[p].step \in {"down", "list", "apply", "put", "ready"}
               /\ worker[p].listed \in ZoneRecords
               /\ worker[p].result \in [Origins -> {"none", "submitted", "error"}]
               /\ worker[p].step = "ready" =>
                    \A o \in ToSet(manifest.order) : worker[p].result[o] # "none"
    <3>1. worker[p] \in Worker /\ Recorded(worker[p])
      BY DEF DomainInv
    <3> QED BY <3>1, EmptyToSet DEF Worker, Recorded
  <2> QED BY <2>1 DEF DomainInv, DomainTypeOK
<1> QED BY <1>1, DomainInvariant, PTL

(* Where remove_extra_domains is not set no record of another domain is     *)
(* removed, whatever is listed, lost or edited.                             *)
THEOREM NothingExtraIsRemoved == CdnSpec => ExtraDomainsStay
<1> DEFINE Stays == ByProgram =>
       \A z \in Zones : (\A o \in OriginsOf(z) : ~manifest.domains[o].remove) =>
         \A n \in Names : ~Removed(z, n)
<1>1. ASSUME DomainInv, [DomainNext]_domainVars PROVE [Stays]_domainVars
  <2> SUFFICES ASSUME ByProgram, NEW z \in Zones, NEW n \in Names, Removed(z, n),
                      \A o \in OriginsOf(z) : ~manifest.domains[o].remove
               PROVE  FALSE
    OBVIOUS
  <2>1. zones' # zones
    BY DEF Removed
  <2>2. PICK p \in Processes : Reconcile(p)
    BY <1>1, <2>1, SomeoneReconciles
  <2>3. OriginOf(p) \in OriginsOf(z) /\ Plan(p).remove
    <3>1. Meant(p, z, n)
      BY <1>1, <2>2, WritesAreMeant
    <3> QED BY <3>1 DEF Meant, Removed
  <2> QED BY <2>3 DEF Plan
<1>2. CdnSpec => [][Stays]_domainVars
  BY <1>1, DomainInvariant, StartsReconcileDomains, PTL DEF DomainSpec
<1> QED BY <1>2 DEF ExtraDomainsStay

(* A zone in which an origin removes extra domains is its own, but for      *)
(* origins that have no further hosts.                                      *)
OwnZones ==
  \A m \in Manifests : \A o1, o2 \in ToSet(m.order) :
    m.domains[o1].remove /\ m.domains[o1].zone = m.domains[o2].zone =>
      DesiredDomains(m.domains[o2]) \subseteq DesiredDomains(m.domains[o1])

LEMMA DesiredNames ==
  ASSUME DomainInv, NEW z
  PROVE  DesiredIn(z) \subseteq Names
<1>1. manifest.order \in Seq(Origins)
  BY DomainAssumption DEF DomainInv
<1>2. ASSUME NEW o \in OriginsOf(z) PROVE DesiredDomains(manifest.domains[o]) \subseteq Names
  <2>1. o \in Origins
    BY <1>1 DEF OriginsOf, ToSet
  <2> QED BY <2>1, DomainAssumption DEF DomainInv, DesiredDomains
<1> QED BY <1>2 DEF DesiredIn

LEMMA DesiredAreKept ==
  ASSUME OwnZones, DomainInv, NEW p \in Processes, Reconcile(p), UNCHANGED manifest,
         NEW z \in Zones, NEW n \in DesiredIn(z)
  PROVE  /\ ~Removed(z, n)
         /\ LeadsHere(z, n) => LeadsHere(z, n)'
         /\ ToGroup(z) => ToGroup(z)'
<1>1. Meant(p, z, n)
  BY WritesAreMeant, DesiredNames
<1>2. ASSUME OriginOf(p) \in OriginsOf(z), Plan(p).remove
      PROVE  n \in Desired(p)
  <2>1. PICK o \in OriginsOf(z) : n \in DesiredDomains(manifest.domains[o])
    BY DEF DesiredIn
  <2>2. manifest \in Manifests
    BY DEF DomainInv
  <2> QED BY <1>2, <2>1, <2>2 DEF OwnZones, OriginsOf, Desired, Plan
<1>3. ~Removed(z, n)
  BY <1>1, <1>2 DEF Meant, Removed
<1>4. configs'[z] = configs[z] \/ configs'[z] = FinalConfig(configs[z])
  BY ConfigsAreMeant
<1>5. LeadsHere(z, n) => LeadsHere(z, n)'
  <2>1. CASE manifest.provider[z] = "cloudflare"
    BY <1>1, <1>2, <2>1 DEF Meant, LeadsHere
  <2>2. CASE manifest.provider[z] # "cloudflare"
    BY <1>3, <1>4, <2>2 DEF Removed, LeadsHere, FinalConfig
  <2> QED BY <2>1, <2>2
<1>6. ToGroup(z) => ToGroup(z)'
  BY <1>4 DEF ToGroup, FinalConfig
<1> QED BY <1>3, <1>5, <1>6

(* No process removes the record of a domain that an origin of the manifest *)
(* desires, with remove_extra_domains too, nor makes one lead elsewhere, if *)
(* a zone in which an origin removes extra domains is its own.              *)
THEOREM DesiredAreNeverLost ==
  ASSUME OwnZones
  PROVE  CdnSpec => DesiredDomainsStay
<1> DEFINE Kept == ByProgram => \A z \in Zones : \A n \in DesiredIn(z) :
                     ~Removed(z, n) /\ (LeadsHere(z, n) => LeadsHere(z, n)')
<1>1. ASSUME DomainInv, [DomainNext]_domainVars PROVE [Kept]_domainVars
  <2> SUFFICES ASSUME ByProgram, NEW z \in Zones, NEW n \in DesiredIn(z)
               PROVE  ~Removed(z, n) /\ (LeadsHere(z, n) => LeadsHere(z, n)')
    OBVIOUS
  <2>1. CASE UNCHANGED <<zones, configs>>
    <3>1. UNCHANGED manifest
      BY <1>1 DEF DomainNext, domainVars, DomainStart, OperatorSetsDomain
    <3> QED BY <2>1, <3>1 DEF Removed, LeadsHere
  <2>2. CASE zones' # zones \/ configs' # configs
    <3>1. UNCHANGED manifest /\ \E p \in Processes : Reconcile(p)
      BY <1>1, <2>2, SomeoneReconciles
    <3> QED BY <1>1, <3>1, DesiredAreKept
  <2> QED BY <2>1, <2>2
<1>2. CdnSpec => [][Kept]_domainVars
  BY <1>1, DomainInvariant, StartsReconcileDomains, PTL DEF DomainSpec
<1> QED BY <1>2 DEF DesiredDomainsStay

(* A record of a zone that was made after a process listed the zone is left *)
(* alone by its updates and deletions, for any edits between its calls.     *)
THEOREM NewRecordsAreLeftAlone == CdnSpec => RecordsMadeSinceStay
<1> DEFINE Stay(p) == worker[p].step = "apply" /\ worker'[p] # worker[p] =>
       \A z \in Zones, n \in Names :
         zones[z][n] # NoRecord /\ zones[z][n].id > worker[p].read =>
           zones'[z][n] = zones[z][n]
<1>1. ASSUME DomainInv, [DomainNext]_domainVars, NEW p \in Processes PROVE Stay(p)
  <2> SUFFICES ASSUME worker[p].step = "apply", worker'[p] # worker[p],
                      NEW z \in Zones, NEW n \in Names,
                      zones[z][n] # NoRecord, zones[z][n].id > worker[p].read,
                      zones'[z][n] # zones[z][n]
               PROVE  FALSE
    OBVIOUS
  <2>1. ByProgram
    BY <1>1 DEF DomainNext, domainVars, OperatorSetsDomain, DomainStart, ByProgram
  <2>2. Reconcile(p)
    BY <1>1, <2>1, SomeoneReconciles
  <2>3. Meant(p, z, n) /\ manifest.provider[Plan(p).zone] = "cloudflare"
    <3>1. AtZone(worker[p], zones, configs, stamp)
      BY <1>1 DEF DomainInv
    <3> QED BY <1>1, <2>2, <3>1, WritesAreMeant, SiteFacts DEF AtZone
  <2>4. Listed(p, n) /\ Plan(p).zone = z
    BY <2>3 DEF Meant, OriginsOf, Plan
  <2>5. zones[z][n].id = worker[p].listed[n].id /\ worker[p].listed[n] # NoRecord
    BY <2>4 DEF Listed, Same, ZoneOf
  <2>6. worker[p].listed[n].id <= worker[p].read
    BY <1>1, <2>5 DEF DomainInv, AtZone
  <2>7. worker[p].listed[n].id \in Nat /\ worker[p].read \in Nat
    BY <1>1, <2>5 DEF DomainInv, Worker, ZoneRecords, Record
  <2> QED BY <2>5, <2>6, <2>7
<1>2. CdnSpec => [][\A p \in Processes : Stay(p)]_domainVars
  <2>1. DomainInv /\ [DomainNext]_domainVars => [\A p \in Processes : Stay(p)]_domainVars
    BY <1>1
  <2> QED BY <2>1, DomainInvariant, StartsReconcileDomains, PTL DEF DomainSpec
<1> QED BY <1>2 DEF RecordsMadeSinceStay

------------------------------------------------------------------------------
(* What is reported as submitted.                                           *)

(* How a process comes to be applying, and goes on.                         *)
LEMMA StillApplying ==
  ASSUME DomainInv, NEW p \in Processes, Reconcile(p), worker'[p].step = "apply"
  PROVE  /\ worker'[p].order = worker[p].order
         /\ worker'[p].result = worker[p].result
         /\ \/ /\ ListRecords(p)
               /\ UNCHANGED zones
               /\ worker'[p].todo = Desired(p)
               /\ \A n \in Names : worker'[p].listed[n] \in {ZoneOf(p)[n], NoRecord}
            \/ /\ worker[p].step = "apply"
               /\ worker'[p].listed = worker[p].listed
               /\ \E name \in worker[p].todo :
                    /\ worker'[p].todo = worker[p].todo \ {name}
                    /\ \/ PointsHere(worker[p].listed[name])
                       \/ \E record \in Record : Applies(p, name, record)
            \/ /\ worker[p].step = "apply"
               /\ worker'[p].todo = worker[p].todo
               /\ \A n \in Names : \/ worker'[p].listed[n] = worker[p].listed[n]
                                   \/ worker'[p].listed[n] = NoRecord /\ n \notin Desired(p)
<1>1. worker \in [Processes -> Worker] /\ worker[p] \in Worker
  BY DEF DomainInv
<1>2. ASSUME NEW outcome, Keep(p, OriginDone(p, outcome)) PROVE FALSE
  <2>1. OriginDone(p, outcome).step \in {"ready", "list"}
    BY DEF OriginDone, Stopped
  <2> QED BY <1>1, <1>2, <2>1 DEF Keep
<1>3. CASE ListRecords(p)
  <2>1. PICK page : worker' = [worker EXCEPT ![p] = [worker[p] EXCEPT
           !.step = "apply", !.todo = Desired(p), !.read = stamp[Plan(p).zone],
           !.listed = [n \in Names |-> IF n \in page THEN ZoneOf(p)[n] ELSE NoRecord]]]
    BY <1>3 DEF ListRecords, Keep
  <2>2. /\ worker'[p].order = worker[p].order
        /\ worker'[p].result = worker[p].result
        /\ worker'[p].todo = Desired(p)
        /\ worker'[p].listed = [n \in Names |-> IF n \in page THEN ZoneOf(p)[n] ELSE NoRecord]
    BY <1>1, <2>1 DEF Worker
  <2> QED BY <1>3, <2>2 DEF ListRecords
<1>4. CASE ApplyDomain(p)
  <2>1. PICK name \in worker[p].todo :
          \/ PointsHere(worker[p].listed[name]) /\ Keep(p, Applied(p, name))
          \/ Refused(p)
          \/ \E record \in Record : Applies(p, name, record)
    BY <1>4, ApplyDomainWrites
  <2>2. ~Refused(p) /\ Keep(p, Applied(p, name)) /\ worker[p].step = "apply"
    BY <1>2, <1>4, <2>1 DEF ApplyDomain, Refused, Applies, AppliedOrLost
  <2>3. /\ worker'[p].order = worker[p].order
        /\ worker'[p].result = worker[p].result
        /\ worker'[p].todo = worker[p].todo \ {name}
        /\ worker'[p].listed = worker[p].listed
    BY <1>1, <2>2 DEF Worker, Keep, Applied
  <2> QED BY <2>1, <2>2, <2>3
<1>5. CASE DeleteExtra(p)
  <2>1. PICK name \in Extras(p) :
           Keep(p, [worker[p] EXCEPT !.listed[name] = NoRecord])
    BY <1>2, <1>5 DEF DeleteExtra, Refused
  <2>2. worker[p].step = "apply" /\ name \notin Desired(p) /\ name \in Names
    BY <1>5, <2>1 DEF DeleteExtra, Extras, Extra
  <2>3. worker[p].listed \in [Names -> Record \cup {NoRecord}]
    BY <1>1 DEF Worker, ZoneRecords
  <2>4. /\ worker'[p].order = worker[p].order
        /\ worker'[p].result = worker[p].result
        /\ worker'[p].todo = worker[p].todo
        /\ worker'[p].listed = [worker[p].listed EXCEPT ![name] = NoRecord]
    BY <1>1, <2>1 DEF Worker, Keep
  <2>5. \A n \in Names : worker'[p].listed[n] = IF n = name THEN NoRecord ELSE worker[p].listed[n]
    BY <2>3, <2>4
  <2> QED BY <2>2, <2>4, <2>5
<1>6. CASE GetDistribution(p)
  BY <1>1, <1>6 DEF GetDistribution, Keep, Worker
<1>7. CASE ZoneDone(p) \/ PutDistribution(p) \/ DomainCallFails(p)
  BY <1>2, <1>7 DEF ZoneDone, PutDistribution, DomainCallFails, Refused
<1> QED BY <1>3, <1>4, <1>5, <1>6, <1>7 DEF Reconcile

LEMMA ApplyingSite ==
  ASSUME DomainInv, NEW p \in Processes, worker[p].step = "apply"
  PROVE  /\ Plan(p) = Site(worker[p])
         /\ Plan(p).zone \in Zones
         /\ manifest.provider[Plan(p).zone] = "cloudflare"
         /\ ZoneOf(p) = zones[Plan(p).zone]
         /\ ZoneOf(p) \in ZoneRecords
         /\ Desired(p) \subseteq Names
<1>1. AtZone(worker[p], zones, configs, stamp)
  BY DEF DomainInv
<1>2. worker[p].order # << >>
  BY <1>1 DEF AtZone
<1> QED BY <1>1, <1>2, SiteFacts DEF AtZone, ZoneOf

(* One process goes on, and nothing but its zone changes.                   *)
GoesOn(p) == Reconcile(p) /\ UNCHANGED <<manifest, domainStarts, domainEdits>>

LEMMA GoesOnFacts ==
  ASSUME DomainInv, NEW p \in Processes, GoesOn(p)
  PROVE  /\ DomainInv'
         /\ \A q \in Processes : q # p => worker'[q] = worker[q]
<1>1. DomainInv'
  BY DomainInvStep DEF DomainNext, GoesOn
<1>2. PICK w : worker' = [worker EXCEPT ![p] = w]
  BY ReconcileStep DEF StepInv, GoesOn
<1> QED BY <1>1, <1>2 DEF DomainInv

AllHere(o) ==
  \A n \in DesiredDomains(manifest.domains[o]) :
    LeadsHere(manifest.domains[o].zone, n) \/ ToGroup(manifest.domains[o].zone)

(* Of the origin at hand, what does not point here yet is still to do.      *)
RestToDo(p) ==
  worker[p].step = "apply" =>
    \A n \in Desired(p) :
      \/ LeadsHere(Plan(p).zone, n)
      \/ n \in worker[p].todo /\ ~PointsHere(worker[p].listed[n])

SubmittedInv ==
  \A p \in Processes :
    /\ \A o \in Origins : worker[p].result[o] = "submitted" => o \in ToSet(manifest.order)
    /\ worker[p].step = "apply" /\ OriginOf(p) \notin touched[p] => RestToDo(p)
    /\ \A o \in Origins : worker[p].result[o] = "submitted" /\ o \notin touched[p] => AllHere(o)

(* An origin of the manifest, its zone and its desired domains.             *)
LEMMA OriginFacts ==
  ASSUME DomainInv, NEW o \in ToSet(manifest.order)
  PROVE  /\ o \in Origins
         /\ manifest.domains[o].zone \in Zones
         /\ o \in OriginsOf(manifest.domains[o].zone)
         /\ DesiredDomains(manifest.domains[o]) \subseteq DesiredIn(manifest.domains[o].zone)
<1>1. manifest.order \in Seq(Origins) /\ o \in Origins
  BY DomainAssumption DEF DomainInv, ToSet
<1>2. o \in OriginsOf(manifest.domains[o].zone)
  BY DEF OriginsOf
<1> QED BY <1>1, <1>2, DomainAssumption DEF DomainInv, DesiredIn

LEMMA AllStayHere ==
  ASSUME OwnZones, DomainInv, NEW p \in Processes, GoesOn(p),
         NEW o \in ToSet(manifest.order), AllHere(o)
  PROVE  AllHere(o)'
<1> DEFINE z == manifest.domains[o].zone
<1>1. UNCHANGED manifest /\ z \in Zones /\ DesiredDomains(manifest.domains[o]) \subseteq DesiredIn(z)
  BY OriginFacts DEF GoesOn
<1>2. ASSUME NEW n \in DesiredDomains(manifest.domains[o])
      PROVE  LeadsHere(z, n)' \/ ToGroup(z)'
  BY <1>1, DesiredAreKept DEF GoesOn, AllHere
<1> QED BY <1>1, <1>2 DEF AllHere

(* The first origin that is still to do is one of the manifest.             *)
LEMMA FirstOrigin ==
  ASSUME DomainInv, NEW p \in Processes, worker[p].step \in {"list", "apply", "put"}
  PROVE  OriginOf(p) \in ToSet(manifest.order) /\ OriginOf(p) \in Origins
<1>1. /\ worker[p].order \in Seq(Origins) /\ worker[p].order # << >>
      /\ ToSet(worker[p].order) \subseteq ToSet(manifest.order)
  BY DEF DomainInv, Worker, Recorded, AtZone
<1> QED BY <1>1, TailFacts DEF OriginOf

LEMMA DoneResult ==
  ASSUME DomainInv, NEW p \in Processes, worker[p].step \in {"list", "apply", "put"},
         NEW outcome, NEW o \in Origins
  PROVE  OriginDone(p, outcome).result[o] = IF o = OriginOf(p) THEN outcome
                                            ELSE worker[p].result[o]
<1>1. worker[p].result \in [Origins -> {"none", "submitted", "error"}]
  BY DEF DomainInv, Worker
<1>2. OriginDone(p, outcome).result = [worker[p].result EXCEPT ![OriginOf(p)] = outcome]
  BY DEF OriginDone, Stopped
<1> QED BY <1>1, <1>2

(* Where a result comes from: the last origin at hand, at its end.          *)
LEMMA SubmittedBy ==
  ASSUME DomainInv, NEW p \in Processes, GoesOn(p),
         NEW o \in Origins, worker'[p].result[o] = "submitted"
  PROVE  \/ worker[p].result[o] = "submitted" /\ (PutDistribution(p) => o # OriginOf(p) \/ Refused(p))
         \/ /\ o = OriginOf(p) /\ worker[p].step \in {"apply", "put"}
            /\ ZoneDone(p) \/ (PutDistribution(p) /\ ~Refused(p))
<1>1. worker \in [Processes -> Worker]
  BY DEF DomainInv
<1>2. worker[p].step \in {"list", "apply", "put"}
  BY DEF GoesOn, Reconcile, ListRecords, ApplyDomain, DeleteExtra, ZoneDone, GetDistribution,
         PutDistribution, DomainCallFails
<1>3. ASSUME NEW outcome, Keep(p, OriginDone(p, outcome))
      PROVE  \/ o = OriginOf(p) /\ outcome = "submitted"
             \/ o # OriginOf(p) /\ worker[p].result[o] = "submitted"
  <2>1. worker'[p] = OriginDone(p, outcome)
    BY <1>1, <1>3 DEF Keep
  <2> QED BY <1>2, <2>1, DoneResult
<1>4. ASSUME worker'[p].result = worker[p].result PROVE worker[p].result[o] = "submitted"
  BY <1>4
<1>5. CASE Refused(p)
  BY <1>3, <1>5 DEF Refused
<1>6. CASE ListRecords(p) \/ GetDistribution(p)
  <2>1. worker'[p].result = worker[p].result
    BY <1>1, <1>6 DEF ListRecords, GetDistribution, Keep, Worker
  <2> QED BY <1>4, <1>6, <2>1 DEF ListRecords, GetDistribution, PutDistribution
<1>7. CASE ApplyDomain(p)
  <2>1. PICK name : Keep(p, Applied(p, name)) \/ Keep(p, OriginDone(p, "error"))
    BY <1>7, ApplyDomainWrites DEF Applies, AppliedOrLost, Refused
  <2>2. Keep(p, Applied(p, name)) => worker'[p].result = worker[p].result
    BY <1>1 DEF Keep, Applied, Worker
  <2> QED BY <1>3, <1>4, <1>7, <2>1, <2>2 DEF ApplyDomain, PutDistribution
<1>8. CASE DeleteExtra(p)
  <2>1. PICK name : \/ Keep(p, [worker[p] EXCEPT !.listed[name] = NoRecord])
                    \/ Keep(p, OriginDone(p, "error"))
    BY <1>8 DEF DeleteExtra, Refused
  <2>2. Keep(p, [worker[p] EXCEPT !.listed[name] = NoRecord]) => worker'[p].result = worker[p].result
    BY <1>1 DEF Keep, Worker
  <2> QED BY <1>3, <1>4, <1>8, <2>1, <2>2 DEF DeleteExtra, PutDistribution
<1>9. CASE ZoneDone(p)
  BY <1>3, <1>9 DEF ZoneDone, PutDistribution
<1>10. CASE PutDistribution(p) /\ ~Refused(p)
  BY <1>3, <1>10 DEF PutDistribution
<1> QED BY <1>5, <1>6, <1>7, <1>8, <1>9, <1>10 DEF GoesOn, Reconcile, DomainCallFails

(* What ZoneDone and PutDistribution report is so.                          *)
LEMMA NewlySubmitted ==
  ASSUME DomainInv, SubmittedInv, NEW p \in Processes, GoesOn(p),
         worker[p].step \in {"apply", "put"},
         ZoneDone(p) \/ (PutDistribution(p) /\ ~Refused(p)),
         NEW o, o = OriginOf(p), o \notin touched'[p],
         NEW z, z = manifest.domains[o].zone
  PROVE  AllHere(o)'
<1>1. /\ Plan(p) = manifest.domains[o] /\ Desired(p) = DesiredDomains(manifest.domains[o])
      /\ UNCHANGED manifest
  BY DEF Plan, Desired, GoesOn
<1>2. /\ o \in ToSet(manifest.order) /\ z \in Zones /\ Desired(p) \subseteq Names
      /\ zones \in [Zones -> ZoneRecords] /\ configs \in [Zones -> Config]
  BY <1>1, FirstOrigin, OriginFacts, DesiredNames DEF DomainInv
<1>3. CASE ZoneDone(p)
  <2>1. worker[p].step = "apply" /\ worker[p].todo = {} /\ UNCHANGED <<zones, configs, touched>>
    BY <1>3 DEF ZoneDone
  <2>2. \A n \in Desired(p) : LeadsHere(z, n)
    BY <1>1, <2>1 DEF SubmittedInv, RestToDo
  <2>3. \A n \in Desired(p) : LeadsHere(z, n)'
    BY <1>1, <2>1, <2>2 DEF LeadsHere
  <2> QED BY <1>1, <2>3 DEF AllHere
<1>4. CASE PutDistribution(p) /\ ~Refused(p)
  <2>1. /\ zones' = [zones EXCEPT ![z] = FinalAliases(p)]
        /\ configs' = [configs EXCEPT ![z] = FinalConfig(worker[p].config)]
        /\ worker[p].step = "put"
    BY <1>1, <1>4 DEF PutDistribution
  <2>2. manifest.provider[z] = "cloudfront"
    <3>1. AtZone(worker[p], zones, configs, stamp) /\ Plan(p) = Site(worker[p])
      BY DEF DomainInv, Plan, Site, OriginOf
    <3> QED BY <1>1, <2>1, <3>1 DEF AtZone
  <2>3. \A n \in Desired(p) : zones'[z][n] = Alias
    BY <1>2, <2>1 DEF FinalAliases
  <2>4. Alias # NoRecord
    BY DomainAssumption DEF Alias, Record, Contents
  <2>5. configs'[z] = FinalConfig(worker[p].config)
    BY <1>2, <2>1
  <2>6. \/ configs'[z].origin = "group"
        \/ configs'[z] = [origin |-> "ours", certificate |-> "ours"]
    BY <2>5 DEF FinalConfig
  <2>7. ASSUME NEW n \in Desired(p) PROVE LeadsHere(z, n)' \/ ToGroup(z)'
    BY <1>1, <2>2, <2>3, <2>4, <2>6 DEF LeadsHere, ToGroup
  <2> QED BY <1>1, <2>7 DEF AllHere
<1> QED BY <1>3, <1>4

LEMMA AppliedLeadsHere ==
  ASSUME DomainInv, NEW p \in Processes, worker[p].step = "apply", UNCHANGED manifest,
         NEW name \in Names, NEW record \in Record, Applies(p, name, record),
         NEW z, z = Plan(p).zone
  PROVE  LeadsHere(z, name)'
<1>1. /\ z \in Zones /\ manifest.provider[z] = "cloudflare"
      /\ zones \in [Zones -> ZoneRecords]
  BY ApplyingSite DEF DomainInv
<1>2. zones'[z][name] = record
  BY <1>1 DEF Applies, Write, ZoneRecords
<1>3. record # NoRecord /\ record.content = "ours"
  BY DomainAssumption DEF Applies
<1> QED BY <1>1, <1>2, <1>3 DEF LeadsHere

(* The origin a process is applying, a step later.                          *)
LEMMA StillToDo ==
  ASSUME OwnZones, DomainInv, SubmittedInv, NEW p \in Processes, GoesOn(p),
         NEW q \in Processes, worker'[q].step = "apply", OriginOf(q)' \notin touched'[q]
  PROVE  RestToDo(q)'
<1>0. PICK z : z = Plan(q).zone
  OBVIOUS
<1>1. UNCHANGED manifest /\ \A r \in Processes : r # p => worker'[r] = worker[r]
  BY GoesOnFacts DEF GoesOn
<1>2. worker'[q].order = worker[q].order
  BY <1>1, StillApplying DEF GoesOn
<1>3. Plan(q)' = Plan(q) /\ Desired(q)' = Desired(q) /\ OriginOf(q)' = OriginOf(q)
  BY <1>1, <1>2 DEF Plan, OriginOf, Desired
<1>4. ASSUME NEW n \in Desired(q), ~LeadsHere(z, n)'
      PROVE  n \in worker'[q].todo /\ ~PointsHere(worker'[q].listed[n])
  <2>1. CASE /\ q = p /\ ListRecords(p) /\ UNCHANGED zones
             /\ worker'[p].todo = Desired(p)
             /\ \A m \in Names : worker'[p].listed[m] \in {ZoneOf(p)[m], NoRecord}
    <3>1. worker[p].order # << >> /\ manifest.provider[z] = "cloudflare"
      BY <1>0, <2>1 DEF ListRecords, DomainInv, AtZone
    <3>2. n \in Names
      BY <1>4, <2>1, <3>1, SiteFacts
    <3>3. ~PointsHere(ZoneOf(p)[n])
      BY <1>0, <1>1, <1>4, <2>1, <3>1 DEF ZoneOf, PointsHere, LeadsHere
    <3> QED BY <1>4, <2>1, <3>2, <3>3 DEF PointsHere
  <2>2. CASE worker[q].step = "apply"
    <3>1. /\ z \in Zones /\ n \in Names /\ OriginOf(q) \in ToSet(manifest.order)
          /\ n \in DesiredIn(z) /\ worker[q].todo \subseteq Names
      <4>1. OriginOf(q) \in ToSet(manifest.order)
        BY <2>2, FirstOrigin
      <4>2. Desired(q) \subseteq DesiredIn(z)
        BY <1>0, <4>1, OriginFacts DEF Desired, Plan
      <4> QED BY <1>0, <1>4, <2>2, <4>1, <4>2, ApplyingSite, DesiredNames DEF DomainInv, Worker
    <3>2. ~LeadsHere(z, n)
      BY <1>1, <1>4, <3>1, DesiredAreKept DEF GoesOn
    <3>3. OriginOf(q) \notin touched[q]
      <4>1. ~PutDistribution(q) /\ ~ListRecords(q)
        BY <2>2 DEF PutDistribution, ListRecords
      <4>2. touched'[q] = touched[q]
        BY <4>1, TouchedOrigins DEF GoesOn
      <4> QED BY <1>3, <4>2
    <3>4. n \in worker[q].todo /\ ~PointsHere(worker[q].listed[n])
      BY <1>0, <1>4, <2>2, <3>2, <3>3 DEF SubmittedInv, RestToDo
    <3>5. CASE worker'[q].todo = worker[q].todo /\ worker'[q].listed[n] \in {worker[q].listed[n], NoRecord}
      BY <3>4, <3>5 DEF PointsHere
    <3>6. ASSUME q = p, NEW name \in worker[p].todo,
                 worker'[p].todo = worker[p].todo \ {name}, worker'[p].listed = worker[p].listed,
                 PointsHere(worker[p].listed[name]) \/ \E record \in Record : Applies(p, name, record)
          PROVE  n \in worker'[q].todo /\ ~PointsHere(worker'[q].listed[n])
      <4>1. n # name
        <5>1. n = name => \E record \in Record : Applies(p, n, record)
          BY <3>4, <3>6
        <5> QED BY <1>0, <1>1, <1>4, <2>2, <3>1, <3>6, <5>1, AppliedLeadsHere
      <4> QED BY <3>4, <3>6, <4>1
    <3>7. CASE q # p
      BY <1>1, <3>5, <3>7
    <3>8. CASE q = p
      <4>1. ~ListRecords(p)
        BY <2>2, <3>8 DEF ListRecords
      <4> QED BY <3>1, <3>5, <3>6, <3>8, <4>1, StillApplying DEF GoesOn
    <3> QED BY <3>7, <3>8
  <2>3. worker[q].step = "apply" \/ q = p
    BY <1>1
  <2> QED BY <2>1, <2>2, <2>3, StillApplying DEF GoesOn
<1> QED BY <1>0, <1>3, <1>4 DEF RestToDo

LEMMA GoesOnKeepsSubmitted ==
  ASSUME OwnZones, DomainInv, SubmittedInv, NEW p \in Processes, GoesOn(p)
  PROVE  SubmittedInv'
<1>1. /\ UNCHANGED manifest /\ \A q \in Processes : q # p => worker'[q] = worker[q]
      /\ \A q \in Processes : q # p => touched'[q] = touched[q]
  BY GoesOnFacts, TouchedOrigins DEF GoesOn
<1>2. ASSUME NEW q \in Processes, NEW o \in Origins, worker'[q].result[o] = "submitted"
      PROVE  /\ o \in ToSet(manifest.order)
             /\ o \notin touched'[q] => AllHere(o)'
  <2>1. CASE worker[q].result[o] = "submitted" /\ (o \notin touched'[q] => o \notin touched[q])
    <3>1. o \in ToSet(manifest.order) /\ (o \notin touched'[q] => AllHere(o))
      BY <2>1 DEF SubmittedInv
    <3> QED BY <3>1, AllStayHere
  <2>2. CASE /\ q = p /\ o = OriginOf(p) /\ worker[p].step \in {"apply", "put"}
             /\ ZoneDone(p) \/ (PutDistribution(p) /\ ~Refused(p))
    <3>1. o \in ToSet(manifest.order)
      BY <2>2, FirstOrigin
    <3>2. PICK z : z = manifest.domains[o].zone
      OBVIOUS
    <3> QED BY <2>2, <3>1, <3>2, NewlySubmitted
  <2>3. CASE q = p /\ o = OriginOf(p) /\ ListRecords(p) /\ worker[p].result[o] = "submitted"
    <3>1. worker[p].step = "list" /\ worker[p].order # << >>
      BY <2>3 DEF ListRecords, DomainInv, AtZone
    <3>2. worker[p].order \in Seq(Origins) /\ Recorded(worker[p])
      BY DEF DomainInv, Worker
    <3>3. o \in ToSet(worker[p].order)
      BY <2>3, <3>1, <3>2, TailFacts DEF OriginOf
    <3> QED BY <2>3, <3>1, <3>2, <3>3 DEF Recorded
  <2>4. CASE q # p
    BY <1>1, <1>2, <2>1, <2>4
  <2>5. CASE q = p
    <3>1. CASE /\ worker[p].result[o] = "submitted"
               /\ PutDistribution(p) => o # OriginOf(p) \/ Refused(p)
      <4>1. \/ touched'[p] = touched[p]
            \/ touched'[p] = touched[p] \ {OriginOf(p)} /\ (ListRecords(p) \/ PutDistribution(p))
        BY TouchedOrigins DEF GoesOn
      <4>2. Refused(p) => touched'[p] = touched[p]
        BY DEF Refused
      <4> QED BY <2>1, <2>3, <2>5, <3>1, <4>1, <4>2
    <3> QED BY <1>2, <2>2, <2>5, <3>1, SubmittedBy
  <2> QED BY <2>4, <2>5
<1>3. ASSUME NEW q \in Processes, worker'[q].step = "apply", OriginOf(q)' \notin touched'[q]
      PROVE  RestToDo(q)'
  BY <1>3, StillToDo
<1> QED BY <1>1, <1>2, <1>3 DEF SubmittedInv

LEMMA SubmittedInvStep ==
  ASSUME OwnZones, DomainInv, SubmittedInv, [DomainNext]_domainVars
  PROVE  SubmittedInv'
<1>1. ASSUME NEW p \in Processes, GoesOn(p) PROVE SubmittedInv'
  BY <1>1, GoesOnKeepsSubmitted
<1>2. ASSUME NEW p \in Processes, NEW w, worker' = [worker EXCEPT ![p] = w],
             w.step # "apply", \A o \in Origins : w.result[o] = "none",
             UNCHANGED <<manifest, zones, configs, stamp>>,
             \A q \in Processes : q # p => touched'[q] = touched[q]
      PROVE  SubmittedInv'
  <2>1. worker'[p] = w
    BY <1>2 DEF DomainInv
  <2>2. ASSUME NEW q \in Processes, q # p
        PROVE  /\ \A o \in Origins : worker'[q].result[o] = "submitted" => o \in ToSet(manifest.order)
               /\ worker'[q].step = "apply" /\ OriginOf(q)' \notin touched'[q] => RestToDo(q)'
               /\ \A o \in Origins :
                    worker'[q].result[o] = "submitted" /\ o \notin touched'[q] => AllHere(o)'
    <3>1. worker'[q] = worker[q] /\ touched'[q] = touched[q]
      BY <1>2, <2>2 DEF DomainInv
    <3>2. Desired(q)' = Desired(q) /\ Plan(q)' = Plan(q) /\ OriginOf(q)' = OriginOf(q)
      BY <1>2, <3>1 DEF Plan, OriginOf, Desired
    <3>3. \A o \in Origins : AllHere(o)' = AllHere(o)
      BY <1>2 DEF AllHere, LeadsHere, ToGroup
    <3>4. RestToDo(q)' = RestToDo(q)
      BY <1>2, <3>1, <3>2 DEF RestToDo, PointsHere, LeadsHere
    <3> QED BY <3>1, <3>2, <3>3, <3>4 DEF SubmittedInv
  <2>3. RestToDo(p)'
    BY <1>2, <2>1 DEF RestToDo
  <2> QED BY <1>2, <2>1, <2>2, <2>3 DEF SubmittedInv
<1>3. ASSUME NEW p \in Processes, DomainCrash(p), UNCHANGED manifest
      PROVE  SubmittedInv'
  <2>1. /\ Stopped.step # "apply" /\ \A o \in Origins : Stopped.result[o] = "none"
        /\ worker' = [worker EXCEPT ![p] = Stopped]
    BY <1>3 DEF Stopped, DomainCrash, Keep
  <2> QED BY <1>2, <1>3, <2>1 DEF DomainCrash
<1>4. ASSUME NEW p \in Processes, DomainStart(p), UNCHANGED manifest
      PROVE  SubmittedInv'
  <2> DEFINE w == [Stopped EXCEPT !.step = "list", !.order = manifest.order]
  <2>1. /\ w.step # "apply" /\ \A o \in Origins : w.result[o] = "none"
        /\ worker' = [worker EXCEPT ![p] = w]
    BY <1>4 DEF Stopped, DomainStart, Keep
  <2>2. \A q \in Processes : q # p => touched'[q] = touched[q]
    BY <1>4 DEF DomainStart, DomainInv
  <2> HIDE DEF w
  <2> QED BY <1>2, <1>4, <2>1, <2>2 DEF DomainStart
<1>5. CASE OperatorSetsDomain
  <2>1. PICK z \in Zones :
          /\ OperatorSets(z)
          /\ touched' = [p \in Processes |-> touched[p] \cup OriginsOf(z)]
    BY <1>5 DEF OperatorSetsDomain
  <2>2. UNCHANGED <<manifest, worker>>
    BY <1>5 DEF OperatorSetsDomain
  <2>3. ASSUME NEW y \in Zones, y # z
        PROVE  zones'[y] = zones[y] /\ configs'[y] = configs[y]
    BY <2>1, <2>3 DEF OperatorSets, DomainInv
  <2>4. ASSUME NEW o \in ToSet(manifest.order), o \notin OriginsOf(z)
        PROVE  LET y == manifest.domains[o].zone
               IN  y \in Zones /\ y # z /\ zones'[y] = zones[y] /\ configs'[y] = configs[y]
    BY <2>3, <2>4, OriginFacts DEF OriginsOf
  <2>5. ASSUME NEW p \in Processes, NEW o \in Origins,
               worker'[p].result[o] = "submitted", o \notin touched'[p]
        PROVE  AllHere(o)'
    <3>1. o \in ToSet(manifest.order) /\ o \notin OriginsOf(z) /\ AllHere(o)
      BY <2>1, <2>2, <2>5 DEF SubmittedInv
    <3> QED BY <2>2, <2>4, <3>1 DEF AllHere, LeadsHere, ToGroup
  <2>6. ASSUME NEW p \in Processes, worker'[p].step = "apply", OriginOf(p)' \notin touched'[p]
        PROVE  RestToDo(p)'
    <3>1. /\ OriginOf(p)' = OriginOf(p) /\ Plan(p)' = Plan(p) /\ Desired(p)' = Desired(p)
          /\ worker[p].step = "apply"
      BY <2>2, <2>6 DEF OriginOf, Plan, Desired
    <3>2. OriginOf(p) \in ToSet(manifest.order) /\ OriginOf(p) \notin OriginsOf(z) /\ RestToDo(p)
      BY <2>1, <2>6, <3>1, FirstOrigin DEF SubmittedInv
    <3>3. zones'[Plan(p).zone] = zones[Plan(p).zone] /\ configs'[Plan(p).zone] = configs[Plan(p).zone]
      BY <2>4, <3>2 DEF Plan
    <3> QED BY <2>2, <3>1, <3>2, <3>3 DEF RestToDo, LeadsHere, PointsHere
  <2> QED BY <2>2, <2>5, <2>6 DEF SubmittedInv
<1>6. CASE UNCHANGED domainVars
  BY <1>6 DEF domainVars, SubmittedInv, RestToDo, AllHere, LeadsHere, ToGroup, Plan, OriginOf,
              Desired, PointsHere
<1> QED BY <1>1, <1>3, <1>4, <1>5, <1>6 DEF DomainNext, GoesOn

(* An origin reported as submitted has every desired domain leading here,   *)
(* or to the group of origins its distribution has, until an operator       *)
(* edits, whatever other processes do at the same zones.                    *)
THEOREM SubmittedIsTrue ==
  ASSUME OwnZones
  PROVE  CdnSpec => []SubmittedDomainsPointHere
<1>1. DomainInit => SubmittedInv
  BY DEF DomainInit, Stopped, SubmittedInv, RestToDo
<1>2. DomainInv /\ SubmittedInv /\ [DomainNext]_domainVars => SubmittedInv'
  BY SubmittedInvStep
<1>3. SubmittedInv => SubmittedDomainsPointHere
  BY DEF SubmittedInv, SubmittedDomainsPointHere, AllHere
<1> QED BY <1>1, <1>2, <1>3, DomainInvariant, StartsReconcileDomains, PTL DEF DomainSpec

------------------------------------------------------------------------------
(* Tenants.                                                                 *)

OnTenant == {"certificate", "current", "update"}
OnHost == {"lookup", "create"} \cup OnTenant
Steps == {"down", "list", "invalidate", "ready"} \cup OnHost
Outcomes == {"submitted", "skipped_no_tenants", "error"}
Counts == {"added", "updated", "unchanged"}
Tally == [Counts -> Nat]
Total(t) == t.added + t.updated + t.unchanged

Locals == [step : Steps, starts : Nat, generation : Nat, pages : Nat,
           marker : Ids \cup {0}, markers : SUBSET Ids, found : SUBSET Ids,
           covered : SUBSET Ids, purge : {"none"} \cup Outcomes,
           todo : Seq(Hosts), id : Ids \cup {0}, drifted : BOOLEAN, certified : BOOLEAN,
           seen : Tenant \cup {NoTenant}, tally : Tally,
           domains : {"none", "submitted", "error"}]

LocalsInv(l) ==
  /\ l.step = "down" <=> l.generation = 0
  /\ l.step = "down" => l.domains = "none" /\ l.purge = "none"
  /\ l.step \in OnHost => l.todo # << >>
  /\ l.step \in OnTenant => l.id \in Ids
  /\ l.step = "invalidate" => l.found # {}
  /\ l.domains = "submitted" => l.todo = << >>
  /\ Total(l.tally) + Len(l.todo) <= Len(HostOrder)
  /\ l.pages <= Cardinality(Ids)
  /\ l.step = "list" => l.pages = Cardinality(l.markers)
  /\ l.step \notin {"list", "invalidate"} => l.pages = 0 /\ l.markers = {}

(* What is about to be written is what was read, as long as its ETag is.    *)
SeenInv(l, given, last) ==
  l.step = "update" =>
    /\ l.seen \in Tenant
    /\ l.seen.etag <= last
    /\ Adoptable(l.seen, Head(l.todo))
    /\ given[l.id] # NoTenant /\ given[l.id].etag = l.seen.etag => given[l.id] = l.seen

TenantInv ==
  /\ tenants \in [Ids -> Tenant \cup {NoTenant}]
  /\ lastETag \in Nat
  /\ \A id \in Ids : Exists(id) => tenants[id].etag <= lastETag
  /\ edits \in 0 .. MaxEdits
  /\ activations \in 0 .. MaxActivations
  /\ held \in [Replicas -> SUBSET Ids]
  /\ meddled \in [Replicas -> BOOLEAN]
  /\ replica \in [Replicas -> Locals]
  /\ \A r \in Replicas : LocalsInv(replica[r]) /\ SeenInv(replica[r], tenants, lastETag)

LEMMA HostFacts ==
  /\ HostOrder \in Seq(Hosts)
  /\ Len(HostOrder) \in Nat
  /\ ToSet(HostOrder) = Hosts
<1>1. HostOrder \in Seq(STRING)
  BY TenantAssumption
<1>2. DOMAIN HostOrder = 1 .. Len(HostOrder) /\ Len(HostOrder) \in Nat
      /\ HostOrder = [i \in 1 .. Len(HostOrder) |-> HostOrder[i]]
  BY <1>1
<1>3. HostOrder \in [1 .. Len(HostOrder) -> Hosts]
  BY <1>2 DEF Hosts
<1>4. HostOrder \in Seq(Hosts)
  BY <1>2, <1>3, SeqDef
<1> QED BY <1>2, <1>4 DEF ToSet, Hosts

LEMMA IdFacts == Cardinality(Ids) \in Nat /\ Ids \subseteq Nat /\ 0 \notin Ids
BY TenantAssumption, FS_CardinalityType

LEMMA DownFields ==
  /\ Down \in Locals
  /\ Down.step = "down" /\ Down.generation = 0
  /\ Down.domains = "none" /\ Down.purge = "none" /\ Down.todo = << >>
  /\ Total(Down.tally) = 0 /\ Down.pages = 0 /\ Down.markers = {}
<1>1. NoTally \in Tally /\ Total(NoTally) = 0
  BY DEF NoTally, Tally, Counts, Total
<1>2. << >> \in Seq(Hosts)
  OBVIOUS
<1> QED BY <1>1, <1>2 DEF Down, Locals, Steps

LEMMA FailedFields ==
  ASSUME NEW l \in Locals
  PROVE  /\ Failed(l) \in Locals
         /\ Failed(l).step = "ready" /\ Failed(l).domains = "error"
         /\ Failed(l).todo = << >> /\ Total(Failed(l).tally) = 0
         /\ Failed(l).starts = l.starts /\ Failed(l).generation = l.generation
         /\ Failed(l).purge = l.purge /\ Failed(l).covered = l.covered
         /\ Failed(l).pages = l.pages /\ Failed(l).markers = l.markers
<1>1. NoTally \in Tally /\ Total(NoTally) = 0
  BY DEF NoTally, Tally, Counts, Total
<1>2. << >> \in Seq(Hosts)
  OBVIOUS
<1> QED BY <1>1, <1>2 DEF Failed, Leave, Locals, Steps

LEMMA HandledFields ==
  ASSUME NEW l \in Locals, l.todo # << >>, NEW count \in Counts
  PROVE  /\ Handled(l, count) \in Locals
         /\ Handled(l, count).step = (IF Len(l.todo) = 1 THEN "ready" ELSE "lookup")
         /\ Handled(l, count).domains = (IF Len(l.todo) = 1 THEN "submitted" ELSE l.domains)
         /\ Handled(l, count).todo = Tail(l.todo)
         /\ Total(Handled(l, count).tally) = Total(l.tally) + 1
         /\ Handled(l, count).starts = l.starts /\ Handled(l, count).generation = l.generation
         /\ Handled(l, count).purge = l.purge /\ Handled(l, count).covered = l.covered
         /\ Handled(l, count).pages = l.pages /\ Handled(l, count).markers = l.markers
<1>1. l.tally \in Tally /\ l.todo \in Seq(Hosts)
  BY DEF Locals
<1>2. Tail(l.todo) \in Seq(Hosts)
  BY <1>1, TailFacts
<1> DEFINE counted == [l.tally EXCEPT ![count] = @ + 1]
<1>3. counted \in Tally
  BY <1>1 DEF Tally
<1>4. Total(counted) = Total(l.tally) + 1
  <2>1. l.tally.added \in Nat /\ l.tally.updated \in Nat /\ l.tally.unchanged \in Nat
    BY <1>1 DEF Tally, Counts
  <2>2. CASE count = "added"
    BY <1>1, <2>1, <2>2 DEF Total, Tally, Counts
  <2>3. CASE count = "updated"
    BY <1>1, <2>1, <2>3 DEF Total, Tally, Counts
  <2>4. CASE count = "unchanged"
    BY <1>1, <2>1, <2>4 DEF Total, Tally, Counts
  <2> QED BY <2>2, <2>3, <2>4 DEF Counts
<1>5. Handled(l, count).tally = counted
  BY DEF Handled, Leave, Locals
<1> HIDE DEF counted
<1>6. /\ Handled(l, count).step = (IF Len(l.todo) = 1 THEN "ready" ELSE "lookup")
      /\ Handled(l, count).domains = (IF Len(l.todo) = 1 THEN "submitted" ELSE l.domains)
      /\ Handled(l, count).todo = Tail(l.todo)
      /\ Handled(l, count).starts = l.starts /\ Handled(l, count).generation = l.generation
      /\ Handled(l, count).purge = l.purge /\ Handled(l, count).covered = l.covered
      /\ Handled(l, count).pages = l.pages /\ Handled(l, count).markers = l.markers
  BY DEF Handled, Leave, Locals
<1>7. Handled(l, count) \in Locals
  BY <1>2, <1>3, <1>5 DEF Handled, Leave, Locals, Steps, OnHost, counted
<1> QED BY <1>4, <1>5, <1>6, <1>7

LEMMA ReconcilingFields ==
  ASSUME NEW l \in Locals
  PROVE  /\ Reconciling(l) \in Locals
         /\ Reconciling(l).step = (IF HostOrder = << >> THEN "ready" ELSE "lookup")
         /\ Reconciling(l).domains = (IF HostOrder = << >> THEN "submitted" ELSE "none")
         /\ Reconciling(l).todo = HostOrder
         /\ Total(Reconciling(l).tally) = 0
         /\ Reconciling(l).starts = l.starts /\ Reconciling(l).generation = l.generation
         /\ Reconciling(l).purge = l.purge /\ Reconciling(l).covered = l.covered
         /\ Reconciling(l).pages = l.pages /\ Reconciling(l).markers = l.markers
<1>1. NoTally \in Tally /\ Total(NoTally) = 0
  BY DEF NoTally, Tally, Counts, Total
<1>2. Reconciling(l) \in Locals
  <2>1. (IF HostOrder = << >> THEN "ready" ELSE "lookup") \in Steps
    BY DEF Steps, OnHost
  <2>2. (IF HostOrder = << >> THEN "submitted" ELSE "none") \in {"none", "submitted", "error"}
    OBVIOUS
  <2>3. HostOrder \in Seq(Hosts)
    BY HostFacts
  <2>4. ASSUME NEW step \in Steps, NEW submitted \in {"none", "submitted", "error"},
               NEW todo \in Seq(Hosts), NEW tally \in Tally
        PROVE  [l EXCEPT !.step = step, !.todo = todo, !.tally = tally,
                         !.domains = submitted] \in Locals
    BY DEF Locals
  <2> QED BY <1>1, <2>1, <2>2, <2>3, <2>4 DEF Reconciling
<1>3. /\ Reconciling(l).step = (IF HostOrder = << >> THEN "ready" ELSE "lookup")
      /\ Reconciling(l).domains = (IF HostOrder = << >> THEN "submitted" ELSE "none")
      /\ Reconciling(l).todo = HostOrder
      /\ Reconciling(l).tally = NoTally
  BY DEF Reconciling, Locals
<1>4. /\ Reconciling(l).starts = l.starts /\ Reconciling(l).generation = l.generation
      /\ Reconciling(l).purge = l.purge /\ Reconciling(l).covered = l.covered
      /\ Reconciling(l).pages = l.pages /\ Reconciling(l).markers = l.markers
  BY DEF Reconciling, Locals
<1> QED BY <1>1, <1>2, <1>3, <1>4

LEMMA PurgingFields ==
  ASSUME NEW l \in Locals
  PROVE  /\ Purging(l) \in Locals
         /\ Purging(l).step = "list" /\ Purging(l).covered = {} /\ Purging(l).purge = "none"
         /\ Purging(l).starts = l.starts /\ Purging(l).generation = l.generation
         /\ Purging(l).todo = l.todo /\ Purging(l).domains = l.domains
         /\ Purging(l).tally = l.tally
         /\ Purging(l).pages = l.pages /\ Purging(l).markers = l.markers
         /\ Purging(l).marker = l.marker /\ Purging(l).found = l.found
BY DEF Purging, Locals, Steps

LEMMA PurgeDoneFields ==
  ASSUME NEW l \in Locals, NEW outcome \in Outcomes
  PROVE  LET done == PurgeDone(l, outcome)
         IN  /\ done \in Locals
             /\ done.purge = outcome /\ done.pages = 0 /\ done.found = {}
             /\ done.markers = {} /\ done.marker = 0
             /\ done.starts = l.starts /\ done.generation = l.generation
             /\ done.covered = (IF outcome = "submitted" THEN l.covered ELSE {})
             /\ IF l.generation = 1
                  THEN /\ done.step = (IF HostOrder = << >> THEN "ready" ELSE "lookup")
                       /\ done.domains = (IF HostOrder = << >> THEN "submitted" ELSE "none")
                       /\ done.todo = HostOrder
                       /\ Total(done.tally) = 0
                  ELSE /\ done.step = "ready" /\ done.domains = l.domains
                       /\ done.todo = l.todo /\ done.tally = l.tally
<1> DEFINE ended == [l EXCEPT !.purge = outcome, !.pages = 0, !.found = {},
                              !.markers = {}, !.marker = 0,
                              !.covered = IF outcome = "submitted" THEN @ ELSE {}]
<1>1. /\ ended \in Locals
      /\ ended.purge = outcome /\ ended.pages = 0 /\ ended.found = {}
      /\ ended.markers = {} /\ ended.marker = 0
      /\ ended.starts = l.starts /\ ended.generation = l.generation
      /\ ended.covered = (IF outcome = "submitted" THEN l.covered ELSE {})
      /\ ended.domains = l.domains /\ ended.todo = l.todo /\ ended.tally = l.tally
  BY DEF Locals
<1>2. PurgeDone(l, outcome) = IF l.generation = 1 THEN Reconciling(ended)
                              ELSE [ended EXCEPT !.step = "ready"]
  BY DEF PurgeDone
<1> HIDE DEF ended
<1>3. CASE l.generation = 1
  <2>1. PurgeDone(l, outcome) = Reconciling(ended)
    BY <1>2, <1>3
  <2>2. /\ Reconciling(ended).found = ended.found
        /\ Reconciling(ended).markers = ended.markers
        /\ Reconciling(ended).marker = ended.marker
    BY <1>1 DEF Reconciling, Locals
  <2> QED BY <1>1, <1>3, <2>1, <2>2, ReconcilingFields
<1>4. CASE l.generation # 1
  <2>1. PurgeDone(l, outcome) = [ended EXCEPT !.step = "ready"]
    BY <1>2, <1>4
  <2> QED BY <1>1, <1>4, <2>1 DEF Locals, Steps
<1> QED BY <1>3, <1>4

------------------------------------------------------------------------------
(* Every step gives a tenant it changes a new ETag.                         *)
Stamps ==
  /\ tenants' \in [Ids -> Tenant \cup {NoTenant}]
  /\ lastETag' \in {lastETag, lastETag + 1}
  /\ \A id \in Ids : \/ tenants'[id] = tenants[id]
                     \/ tenants'[id] = NoTenant
                     \/ lastETag' = lastETag + 1 /\ tenants'[id].etag = lastETag'

LEMMA SeenStands ==
  ASSUME TenantInv, Stamps, NEW r \in Replicas
  PROVE  SeenInv(replica[r], tenants', lastETag')
<1> DEFINE l == replica[r]
<1> SUFFICES ASSUME l.step = "update"
             PROVE  SeenInv(l, tenants', lastETag')
  BY DEF SeenInv
<1>1. l.id \in Ids /\ SeenInv(l, tenants, lastETag) /\ lastETag \in Nat
  BY DEF TenantInv, LocalsInv, OnTenant
<1>2. l.seen \in Tenant /\ l.seen.etag \in Nat
  BY <1>1 DEF SeenInv, Tenant
<1> QED BY <1>1, <1>2 DEF SeenInv, Stamps

CallStep(r) ==
  /\ Stamps
  /\ \E l \in Locals :
       /\ replica' = [replica EXCEPT ![r] = l]
       /\ LocalsInv(l) /\ SeenInv(l, tenants', lastETag')

LEMMA NothingStamped ==
  ASSUME TenantInv, UNCHANGED <<tenants, lastETag>>
  PROVE  Stamps
BY DEF TenantInv, Stamps

LEMMA Mine ==
  ASSUME TenantInv, NEW r \in Replicas
  PROVE  /\ replica[r] \in Locals
         /\ LocalsInv(replica[r])
         /\ SeenInv(replica[r], tenants, lastETag)
         /\ replica[r].tally \in Tally /\ Total(replica[r].tally) \in Nat
         /\ replica[r].todo \in Seq(Hosts) /\ Len(replica[r].todo) \in Nat
         /\ replica[r].pages \in Nat /\ replica[r].generation \in Nat
BY DEF TenantInv, Locals, Tally, Counts, Total

(* The constructors keep the locals right.                                  *)
LEMMA FailedInv ==
  ASSUME NEW l \in Locals, LocalsInv(l), l.step \notin {"down", "list", "invalidate"},
         NEW given, NEW last
  PROVE  LocalsInv(Failed(l)) /\ SeenInv(Failed(l), given, last)
<1>1. Len(<< >>) = 0
  OBVIOUS
<1> QED BY <1>1, HostFacts, FailedFields DEF LocalsInv, SeenInv, OnHost, OnTenant

LEMMA HandledInv ==
  ASSUME NEW l \in Locals, LocalsInv(l), l.step \in OnHost, NEW count \in Counts,
         NEW given, NEW last
  PROVE  LocalsInv(Handled(l, count)) /\ SeenInv(Handled(l, count), given, last)
<1>1. l.todo # << >> /\ l.todo \in Seq(Hosts) /\ l.tally \in Tally
  BY DEF LocalsInv, Locals
<1>2. Len(Tail(l.todo)) = Len(l.todo) - 1 /\ Len(l.todo) \in Nat
  BY <1>1, EmptySeq
<1>3. Total(l.tally) \in Nat
  BY <1>1 DEF Tally, Counts, Total
<1>4. Len(l.todo) = 1 => Tail(l.todo) = << >>
  BY <1>1, TailFacts
<1>5. Len(l.todo) # 1 => Tail(l.todo) # << >>
  BY <1>1, TailFacts
<1> DEFINE h == Handled(l, count)
<1>6. /\ h.step = (IF Len(l.todo) = 1 THEN "ready" ELSE "lookup")
      /\ h.domains = (IF Len(l.todo) = 1 THEN "submitted" ELSE l.domains)
      /\ h.todo = Tail(l.todo)
      /\ Total(h.tally) = Total(l.tally) + 1
      /\ h.generation = l.generation
      /\ h.pages = l.pages /\ h.markers = l.markers
  BY <1>1, HandledFields
<1> HIDE DEF h
<1>7. Total(h.tally) + Len(h.todo) <= Len(HostOrder)
  BY <1>2, <1>3, <1>6, HostFacts DEF LocalsInv
<1>8. l.step # "down" /\ (l.domains = "submitted" => l.todo = << >>)
  BY DEF OnHost, OnTenant, LocalsInv
<1>9. h.domains = "submitted" => h.todo = << >>
  BY <1>1, <1>4, <1>6, <1>8
<1>10. LocalsInv(h)
  BY <1>5, <1>6, <1>7, <1>8, <1>9 DEF LocalsInv, OnHost, OnTenant
<1>11. SeenInv(h, given, last)
  BY <1>6 DEF SeenInv
<1> QED BY <1>10, <1>11 DEF h

LEMMA PurgeDoneInv ==
  ASSUME NEW m \in Locals, LocalsInv(m), m.step \in {"list", "invalidate"},
         NEW l \in Locals, l.generation = m.generation, l.domains = m.domains,
         l.todo = m.todo, l.tally = m.tally,
         NEW outcome \in Outcomes, NEW given, NEW last
  PROVE  LocalsInv(PurgeDone(l, outcome)) /\ SeenInv(PurgeDone(l, outcome), given, last)
<1> DEFINE done == PurgeDone(l, outcome)
<1>1. /\ done.generation = l.generation /\ done.pages = 0 /\ done.markers = {}
      /\ IF l.generation = 1
           THEN /\ done.step = (IF HostOrder = << >> THEN "ready" ELSE "lookup")
                /\ done.domains = (IF HostOrder = << >> THEN "submitted" ELSE "none")
                /\ done.todo = HostOrder
                /\ Total(done.tally) = 0
           ELSE /\ done.step = "ready" /\ done.domains = l.domains
                /\ done.todo = l.todo /\ done.tally = l.tally
  BY PurgeDoneFields
<1> HIDE DEF done
<1>2. LocalsInv(done)
  BY <1>1, HostFacts, IdFacts DEF LocalsInv, OnHost, OnTenant
<1>3. SeenInv(done, given, last)
  BY <1>1 DEF SeenInv
<1> QED BY <1>2, <1>3 DEF done

LEMMA FailedStep ==
  ASSUME TenantInv, NEW r \in Replicas, replica[r].step \notin {"down", "list", "invalidate"},
         Local(r, Failed(replica[r])),
         UNCHANGED <<tenants, lastETag>>
  PROVE  CallStep(r)
BY Mine, FailedFields, FailedInv, NothingStamped DEF CallStep, Local, At

LEMMA PurgeDoneStep ==
  ASSUME TenantInv, NEW r \in Replicas, At(r, "list") \/ At(r, "invalidate"),
         NEW outcome \in Outcomes, Local(r, PurgeDone(replica[r], outcome)),
         UNCHANGED <<tenants, lastETag>>
  PROVE  CallStep(r)
<1> DEFINE done == PurgeDone(replica[r], outcome)
<1>1. done \in Locals
  BY Mine, PurgeDoneFields
<1>2. LocalsInv(done) /\ SeenInv(done, tenants', lastETag')
  BY Mine, PurgeDoneInv DEF At
<1>3. replica' = [replica EXCEPT ![r] = done]
  BY DEF Local
<1> HIDE DEF done
<1> QED BY <1>1, <1>2, <1>3, NothingStamped DEF CallStep

LEMMA CallFailsStep ==
  ASSUME TenantInv, NEW r \in Replicas, CallFails(r)
  PROVE  CallStep(r)
<1>1. CASE At(r, "list") \/ At(r, "invalidate")
  BY <1>1, PurgeDoneStep DEF CallFails, Outcomes
<1>2. CASE ~(At(r, "list") \/ At(r, "invalidate"))
  BY <1>2, FailedStep DEF CallFails, At
<1> QED BY <1>1, <1>2

LEMMA InvalidateStep ==
  ASSUME TenantInv, NEW r \in Replicas, Invalidate(r)
  PROVE  CallStep(r)
<1> DEFINE me == replica[r]
           id == Min(me.found)
           new == CallerReference(r, id) \notin references
           rest == [me EXCEPT !.found = @ \ {id},
                              !.covered = IF new THEN @ \cup {id} ELSE @]
<1>0. id \in Ids
  <2>1. me.found # {} /\ me.found \subseteq Nat /\ me.found \subseteq Ids
    BY Mine, IdFacts DEF LocalsInv, Locals, Invalidate, At
  <2> QED BY <2>1, MinIsThere
<1>1. me \in Locals /\ LocalsInv(me) /\ me.step = "invalidate"
  BY Mine DEF Invalidate, At
<1>2. /\ rest \in Locals /\ rest.step = "invalidate" /\ rest.generation = me.generation
      /\ rest.domains = me.domains /\ rest.todo = me.todo /\ rest.tally = me.tally
      /\ rest.pages = me.pages /\ rest.markers = me.markers /\ rest.purge = me.purge
  BY <1>0, <1>1 DEF Locals
<1> HIDE DEF rest
<1>3. rest.found # {} => LocalsInv(rest)
  BY <1>1, <1>2 DEF LocalsInv, OnHost, OnTenant
<1>4. SeenInv(rest, tenants', lastETag')
  BY <1>2 DEF SeenInv
<1>5. Stamps
  BY NothingStamped DEF Invalidate
<1>6. \/ Local(r, PurgeDone(me, "error"))
      \/ rest.found = {} /\ Local(r, PurgeDone(rest, "submitted"))
      \/ rest.found # {} /\ Local(r, rest)
  BY DEF Invalidate, rest
<1>7. CASE Local(r, PurgeDone(me, "error"))
  BY <1>7, PurgeDoneStep DEF Outcomes, Invalidate
<1>8. CASE rest.found = {} /\ Local(r, PurgeDone(rest, "submitted"))
  BY <1>1, <1>2, <1>5, <1>8, PurgeDoneFields, PurgeDoneInv DEF CallStep, Local, Outcomes
<1>9. CASE rest.found # {} /\ Local(r, rest)
  BY <1>2, <1>3, <1>4, <1>5, <1>9 DEF CallStep, Local
<1> QED BY <1>6, <1>7, <1>8, <1>9

(* A page of a listing.                                                     *)
LEMMA PageFacts ==
  ASSUME TenantInv, NEW marker \in Ids \cup {0}
  PROVE  /\ Page(marker) \subseteq Listable(marker) /\ Listable(marker) \subseteq Ids
         /\ IsFiniteSet(Listable(marker))
         /\ Page(marker) # Listable(marker) =>
              /\ Max(Page(marker)) \in Page(marker)
              /\ Max(Page(marker)) \in Ids
              /\ \A id \in Listable(marker) : id \in Page(marker) \/ id > Max(Page(marker))
<1> DEFINE L == Listable(marker)
           P == Page(marker)
           below(id) == {i \in L : i < id}
<1>1. P \subseteq L /\ L \subseteq Ids /\ Ids \subseteq Nat
  BY IdFacts DEF Listable, Page
<1>2. IsFiniteSet(L) /\ IsFiniteSet(P)
  BY <1>1, TenantAssumption, FS_Subset
<1>3. \A id \in L : IsFiniteSet(below(id)) /\ Cardinality(below(id)) \in Nat
  BY <1>2, FS_Subset, FS_CardinalityType
<1>4. \A id \in L : id \in P <=> Cardinality(below(id)) < PageSize
  BY DEF Page
<1>5. PageSize \in Nat \ {0}
  BY TenantAssumption
<1>6. ASSUME P # L PROVE P # {}
  <2>1. L # {} /\ L \subseteq Nat
    BY <1>1, <1>6
  <2>2. PICK m \in L : \A k \in L : m <= k
    BY <2>1, LeastOf
  <2>3. below(m) = {}
    <3>1. ASSUME NEW k \in L, k < m PROVE FALSE
      <4>1. k \in Nat /\ m \in Nat /\ m <= k
        BY <2>1, <2>2
      <4> QED BY <3>1, <4>1
    <3> QED BY <3>1
  <2>4. Cardinality(below(m)) = 0
    BY <2>3, FS_EmptySet
  <2> QED BY <1>4, <1>5, <2>4
<1>7. ASSUME P # L PROVE Max(P) \in P /\ \A k \in P : k <= Max(P)
  <2>1. P \subseteq Nat
    BY <1>1
  <2> HIDE DEF P
  <2> QED BY <1>2, <1>6, <1>7, <2>1, MaxIsThere
<1>8. ASSUME P # L, NEW id \in L, id \notin P, ~(id > Max(P)) PROVE FALSE
  <2>1. Max(P) \in P /\ Max(P) \in L /\ id \in Nat /\ Max(P) \in Nat
    BY <1>1, <1>7, <1>8
  <2>2. id < Max(P)
    BY <1>8, <2>1
  <2> DEFINE m == Max(P)
  <2>3. below(id) \subseteq below(m)
    <3>1. ASSUME NEW x \in L, x < id PROVE x < m
      <4>1. x \in Nat
        BY <1>1
      <4> QED BY <2>1, <2>2, <3>1, <4>1
    <3> QED BY <3>1
  <2>4. IsFiniteSet(below(m)) /\ Cardinality(below(m)) < PageSize
    BY <1>3, <1>4, <2>1
  <2>5. Cardinality(below(id)) <= Cardinality(below(m))
    <3> DEFINE A == below(m)
               B == below(id)
    <3>1. IsFiniteSet(A) /\ B \in SUBSET A
      BY <2>3, <2>4
    <3> HIDE DEF A, B, below
    <3>2. Cardinality(B) <= Cardinality(A)
      BY <3>1, FS_Subset
    <3> QED BY <3>2 DEF A, B
  <2>6. Cardinality(below(id)) \in Nat /\ Cardinality(below(m)) \in Nat /\ PageSize \in Nat
    BY <1>3, <1>5, <2>1
  <2>7. Cardinality(below(id)) < PageSize
    <3> HIDE DEF below, m
    <3> QED BY <2>4, <2>5, <2>6
  <2> QED BY <1>4, <1>8, <2>7
<1> QED BY <1>1, <1>2, <1>7, <1>8

LEMMA ListPageStep ==
  ASSUME TenantInv, NEW r \in Replicas, ListPage(r)
  PROVE  CallStep(r)
<1> DEFINE me == replica[r]
           found == me.found \cup {id \in Page(me.marker) : Purgeable(id)}
<1>1. me \in Locals /\ LocalsInv(me) /\ me.step = "list" /\ me.marker \in Ids \cup {0}
  BY Mine DEF ListPage, At, Locals
<1>2. PICK next \in NextMarkers(me.marker, me.markers) :
        Local(r, IF next = 0
                   THEN IF found = {} THEN PurgeDone(me, "skipped_no_tenants")
                        ELSE [me EXCEPT !.step = "invalidate", !.found = found, !.pages = 0]
                 ELSE IF Repeated(next, me.markers) THEN PurgeDone(me, "error")
                 ELSE [me EXCEPT !.marker = next, !.markers = @ \cup {next},
                                 !.found = found, !.pages = @ + 1])
  BY DEF ListPage
<1>3. found \subseteq Ids
  BY <1>1, PageFacts DEF Locals
<1>4. Stamps /\ UNCHANGED <<tenants, lastETag>>
  BY NothingStamped DEF ListPage
<1>5. CASE Local(r, PurgeDone(me, "skipped_no_tenants")) \/ Local(r, PurgeDone(me, "error"))
  BY <1>4, <1>5, PurgeDoneStep DEF Outcomes, ListPage
<1>6. CASE /\ found # {}
           /\ Local(r, [me EXCEPT !.step = "invalidate", !.found = found, !.pages = 0])
  <2> DEFINE l == [me EXCEPT !.step = "invalidate", !.found = found, !.pages = 0]
  <2>1. /\ l \in Locals /\ l.step = "invalidate" /\ l.found # {} /\ l.pages = 0
        /\ l.generation = me.generation /\ l.domains = me.domains
        /\ l.todo = me.todo /\ l.tally = me.tally /\ l.purge = me.purge
    BY <1>1, <1>3, <1>6 DEF Locals, Steps
  <2> HIDE DEF l
  <2>2. LocalsInv(l) /\ SeenInv(l, tenants', lastETag')
    BY <1>1, <2>1, IdFacts DEF LocalsInv, SeenInv, OnHost, OnTenant
  <2>3. replica' = [replica EXCEPT ![r] = l]
    BY <1>6 DEF Local, l
  <2> QED BY <1>4, <2>1, <2>2, <2>3 DEF CallStep
<1>7. CASE /\ next # 0 /\ next \notin me.markers
           /\ Local(r, [me EXCEPT !.marker = next, !.markers = @ \cup {next},
                                  !.found = found, !.pages = @ + 1])
  <2> DEFINE l == [me EXCEPT !.marker = next, !.markers = @ \cup {next},
                             !.found = found, !.pages = @ + 1]
  <2>1. next \in Ids
    BY <1>1, <1>2, <1>7, PageFacts DEF NextMarkers
  <2>2. /\ l.step = "list" /\ l.pages = me.pages + 1
        /\ l.markers = me.markers \cup {next}
        /\ l.generation = me.generation /\ l.domains = me.domains
        /\ l.todo = me.todo /\ l.tally = me.tally /\ l.purge = me.purge
    BY <1>1 DEF Locals
  <2>6. l \in Locals
    <3>1. me.markers \cup {next} \in SUBSET Ids /\ me.pages + 1 \in Nat /\ found \in SUBSET Ids
      BY <1>1, <1>3, <2>1 DEF Locals
    <3> HIDE DEF found
    <3> QED BY <1>1, <2>1, <3>1 DEF Locals
  <2> HIDE DEF l
  <2>3. l.pages = Cardinality(l.markers) /\ l.pages <= Cardinality(Ids)
    <3>1. me.markers \subseteq Ids /\ IsFiniteSet(me.markers) /\ me.pages = Cardinality(me.markers)
      BY <1>1, TenantAssumption, FS_Subset DEF Locals, LocalsInv
    <3>2. Cardinality(l.markers) = Cardinality(me.markers) + 1
      BY <1>7, <2>2, <3>1, FS_AddElement
    <3>3. Cardinality(l.markers) <= Cardinality(Ids)
      BY <2>1, <2>2, <3>1, TenantAssumption, FS_Subset
    <3> QED BY <2>2, <3>1, <3>2, <3>3
  <2>4. LocalsInv(l) /\ SeenInv(l, tenants', lastETag')
    BY <1>1, <2>2, <2>3 DEF LocalsInv, SeenInv, OnHost, OnTenant
  <2>5. replica' = [replica EXCEPT ![r] = l]
    BY <1>7 DEF Local, l
  <2> QED BY <1>4, <2>4, <2>5, <2>6 DEF CallStep
<1> QED BY <1>2, <1>5, <1>6, <1>7 DEF Repeated

LEMMA HandledStep ==
  ASSUME TenantInv, Stamps, NEW r \in Replicas, replica[r].step \in OnHost, NEW count \in Counts,
         Local(r, Handled(replica[r], count))
  PROVE  CallStep(r)
<1> DEFINE l == Handled(replica[r], count)
<1>1. l \in Locals /\ LocalsInv(l) /\ SeenInv(l, tenants', lastETag')
  <2>1. replica[r] \in Locals /\ LocalsInv(replica[r]) /\ replica[r].todo # << >>
    BY Mine DEF LocalsInv
  <2> QED BY <2>1, HandledFields, HandledInv
<1>2. replica' = [replica EXCEPT ![r] = l]
  BY DEF Local
<1> HIDE DEF l
<1> QED BY <1>1, <1>2 DEF CallStep

LEMMA DecideStep ==
  ASSUME TenantInv, UNCHANGED <<tenants, lastETag>>, NEW r \in Replicas,
         NEW l \in Locals, LocalsInv(l), l.step = "certificate", Local(r, Decide(l))
  PROVE  CallStep(r)
<1> DEFINE again == [l EXCEPT !.step = "current"]
<1>1. Decide(l) = Handled(l, "unchanged") \/ Decide(l) = again
  BY DEF Decide
<1>2. /\ Handled(l, "unchanged") \in Locals
      /\ LocalsInv(Handled(l, "unchanged"))
      /\ SeenInv(Handled(l, "unchanged"), tenants', lastETag')
  BY HandledFields, HandledInv DEF LocalsInv, OnHost, OnTenant, Counts
<1>3. /\ again \in Locals /\ again.step = "current"
      /\ again.generation = l.generation /\ again.todo = l.todo /\ again.id = l.id
      /\ again.domains = l.domains /\ again.tally = l.tally /\ again.pages = l.pages /\ again.markers = l.markers
  BY DEF Locals, Steps, OnHost, OnTenant
<1> HIDE DEF again
<1>4. LocalsInv(again)
  BY <1>3 DEF LocalsInv, OnHost, OnTenant
<1>5. SeenInv(again, tenants', lastETag')
  BY <1>3 DEF SeenInv
<1>6. Stamps
  BY NothingStamped
<1>7. Decide(l) \in Locals /\ LocalsInv(Decide(l)) /\ SeenInv(Decide(l), tenants', lastETag')
  BY <1>1, <1>2, <1>3, <1>4, <1>5
<1> QED BY <1>6, <1>7 DEF CallStep, Local

(* The locals with which a tenant that was looked up is compared.           *)
Observed(r, id) ==
  [replica[r] EXCEPT !.id = id, !.drifted = Merged(tenants[id]) # tenants[id],
                     !.certified = ~Managed, !.step = "certificate"]

LEMMA ObservedFields ==
  ASSUME TenantInv, NEW r \in Replicas, At(r, "lookup"), NEW id \in Ids
  PROVE  LET l == Observed(r, id)
         IN  /\ l \in Locals /\ LocalsInv(l) /\ l.step = "certificate" /\ l.id = id
             /\ l.drifted = (Merged(tenants[id]) # tenants[id]) /\ l.certified = ~Managed
             /\ l.todo = replica[r].todo /\ l.domains = replica[r].domains
             /\ l.starts = replica[r].starts /\ l.generation = replica[r].generation
             /\ l.purge = replica[r].purge /\ l.covered = replica[r].covered
<1> DEFINE l == Observed(r, id)
           me == replica[r]
           d == Merged(tenants[id]) # tenants[id]
           c == ~Managed
<1>1. me \in Locals /\ LocalsInv(me) /\ me.step = "lookup"
  BY Mine DEF At
<1>2. d \in BOOLEAN /\ c \in BOOLEAN
  <2>1. d \in BOOLEAN
    OBVIOUS
  <2>2. c \in BOOLEAN
    OBVIOUS
  <2> QED BY <2>1, <2>2
<1>3. l = [me EXCEPT !.id = id, !.drifted = d, !.certified = c, !.step = "certificate"]
  BY DEF Observed
<1> HIDE DEF l, d, c
<1>4. /\ l \in Locals /\ l.step = "certificate" /\ l.id = id
      /\ l.drifted = d /\ l.certified = c
      /\ l.todo = me.todo /\ l.domains = me.domains
      /\ l.tally = me.tally /\ l.pages = me.pages /\ l.markers = me.markers
      /\ l.starts = me.starts /\ l.generation = me.generation
      /\ l.purge = me.purge /\ l.covered = me.covered
  BY <1>1, <1>2, <1>3 DEF Locals, Steps, OnHost, OnTenant
<1> HIDE DEF me
<1>5. LocalsInv(l)
  BY <1>1, <1>4 DEF LocalsInv, OnHost, OnTenant
<1> QED BY <1>4, <1>5 DEF l, me, d, c

LEMMA LookupStep ==
  ASSUME TenantInv, NEW r \in Replicas, Lookup(r)
  PROVE  CallStep(r)
<1> DEFINE me == replica[r]
<1>1. At(r, "lookup") /\ me \in Locals /\ LocalsInv(me) /\ UNCHANGED <<tenants, lastETag>>
  BY Mine DEF Lookup
<1>2. CASE Local(r, [me EXCEPT !.step = "create"])
  <2> DEFINE l == [me EXCEPT !.step = "create"]
  <2>1. /\ l \in Locals /\ l.step = "create"
        /\ l.generation = me.generation /\ l.domains = me.domains
        /\ l.todo = me.todo /\ l.tally = me.tally /\ l.pages = me.pages /\ l.markers = me.markers
    BY <1>1 DEF Locals, Steps, OnHost, OnTenant
  <2>2. replica' = [replica EXCEPT ![r] = l]
    BY <1>2 DEF Local
  <2> HIDE DEF l
  <2>3. LocalsInv(l) /\ SeenInv(l, tenants', lastETag')
    BY <1>1, <2>1 DEF LocalsInv, SeenInv, OnHost, OnTenant, At
  <2> QED BY <1>1, <2>1, <2>2, <2>3, NothingStamped DEF CallStep
<1>3. CASE Local(r, Failed(me))
  BY <1>1, <1>3, FailedStep DEF At
<1>4. ASSUME NEW id \in Ids, Local(r, Decide(Observed(r, id)))
      PROVE  CallStep(r)
  BY <1>1, <1>4, ObservedFields, DecideStep
<1>5. ASSUME NEW id \in Ids, Local(r, Observed(r, id))
      PROVE  CallStep(r)
  <2>1. /\ Observed(r, id) \in Locals /\ LocalsInv(Observed(r, id))
        /\ Observed(r, id).step = "certificate"
    BY <1>1, ObservedFields
  <2>2. SeenInv(Observed(r, id), tenants', lastETag')
    BY <2>1 DEF SeenInv
  <2> QED BY <1>1, <1>5, <2>1, <2>2, NothingStamped DEF CallStep, Local
<1> QED BY <1>2, <1>3, <1>4, <1>5 DEF Lookup, Owners, Observed

LEMMA CertificateStep ==
  ASSUME TenantInv, NEW r \in Replicas, Certificate(r)
  PROVE  CallStep(r)
<1> DEFINE me == replica[r]
           l == [me EXCEPT !.certified = tenants[me.id].certificate = "wanted"]
<1>1. me \in Locals /\ LocalsInv(me) /\ me.step = "certificate" /\ UNCHANGED <<tenants, lastETag>>
  BY Mine DEF Certificate, At
<1>2. CASE Local(r, Failed(me))
  BY <1>1, <1>2, FailedStep DEF At
<1>3. CASE Local(r, Decide(l))
  <2>1. (tenants[me.id].certificate = "wanted") \in BOOLEAN
    OBVIOUS
  <2>2. ASSUME NEW certified \in BOOLEAN
        PROVE  LET x == [me EXCEPT !.certified = certified]
               IN  /\ x \in Locals /\ x.step = "certificate" /\ x.id = me.id
                   /\ x.generation = me.generation /\ x.domains = me.domains
                   /\ x.todo = me.todo /\ x.tally = me.tally /\ x.pages = me.pages /\ x.markers = me.markers
    BY <1>1 DEF Locals
  <2>3. /\ l \in Locals /\ l.step = "certificate" /\ l.id = me.id
        /\ l.generation = me.generation /\ l.domains = me.domains
        /\ l.todo = me.todo /\ l.tally = me.tally /\ l.pages = me.pages /\ l.markers = me.markers
    BY <2>1, <2>2
  <2>4. LocalsInv(l)
    <3> HIDE DEF l, me
    <3> QED BY <1>1, <2>3 DEF LocalsInv, OnHost, OnTenant
  <2> HIDE DEF l
  <2> QED BY <1>1, <1>3, <2>3, <2>4, DecideStep
<1> QED BY <1>2, <1>3 DEF Certificate

LEMMA CurrentStep ==
  ASSUME TenantInv, NEW r \in Replicas, Current(r)
  PROVE  CallStep(r)
<1> DEFINE me == replica[r]
           now == tenants[me.id]
           l == [me EXCEPT !.step = "update", !.seen = now]
<1>1. /\ me \in Locals /\ LocalsInv(me) /\ me.step = "current" /\ me.id \in Ids
      /\ UNCHANGED <<tenants, lastETag>>
  BY Mine DEF Current, At, LocalsInv, OnTenant
<1>2. CASE Local(r, Failed(me))
  BY <1>1, <1>2, FailedStep DEF At
<1>3. CASE Local(r, Handled(me, "unchanged"))
  BY <1>1, <1>3, HandledStep, NothingStamped DEF OnHost, OnTenant, Counts
<1>4. CASE /\ Exists(me.id) /\ StillAdoptable(now, Head(me.todo))
           /\ Local(r, l)
  <2>1. now \in Tenant /\ now.etag <= lastETag
    BY <1>1, <1>4 DEF TenantInv, Exists
  <2>2. /\ l \in Locals /\ l.step = "update" /\ l.seen = now /\ l.id = me.id
        /\ l.generation = me.generation /\ l.domains = me.domains
        /\ l.todo = me.todo /\ l.tally = me.tally /\ l.pages = me.pages /\ l.markers = me.markers
    BY <1>1, <2>1 DEF Locals, Steps, OnHost, OnTenant
  <2>3. replica' = [replica EXCEPT ![r] = l]
    BY <1>4 DEF Local
  <2> HIDE DEF l
  <2>4. LocalsInv(l)
    BY <1>1, <2>2 DEF LocalsInv, OnHost, OnTenant
  <2>5. SeenInv(l, tenants', lastETag')
    BY <1>1, <1>4, <2>1, <2>2 DEF SeenInv, StillAdoptable
  <2> QED BY <1>1, <2>2, <2>3, <2>4, <2>5, NothingStamped DEF CallStep
<1> QED BY <1>2, <1>3, <1>4 DEF Current

(* The tenant that is created for a host.                                   *)
Created(host, etag) ==
  [distribution |-> "configured", domains |-> {host},
   settings |-> "configured", enabled |-> TRUE, etag |-> etag,
   certificate |-> IF Managed THEN "wanted" ELSE "other",
   owned |-> 0]

LEMMA CreatedType ==
  ASSUME NEW host \in Hosts, NEW etag \in Nat
  PROVE  Created(host, etag) \in Tenant
<1>1. {host} \in (SUBSET Hosts) \ {{}}
  <2>1. {host} # {}
    OBVIOUS
  <2> QED BY <2>1
<1>2. (IF Managed THEN "wanted" ELSE "other") \in {"wanted", "other"}
  <2>1. CASE Managed
    BY <2>1
  <2>2. CASE ~Managed
    BY <2>2
  <2> QED BY <2>1, <2>2
<1> QED BY <1>1, <1>2, TenantAssumption DEF Created, Tenant

(* What is written to a tenant: as it was seen, but for what RenderMesh     *)
(* manages.                                                                 *)
Written(l, etag) ==
  [Merged(l.seen) EXCEPT !.domains = {Head(l.todo)}, !.distribution = "configured",
     !.etag = etag, !.certificate = IF l.certified THEN @ ELSE "wanted"]

LEMMA WrittenFields ==
  ASSUME NEW l \in Locals, l.seen \in Tenant, Head(l.todo) \in Hosts, NEW etag \in Nat
  PROVE  LET w == Written(l, etag)
         IN  /\ w \in Tenant
             /\ w.domains = {Head(l.todo)} /\ w.distribution = "configured"
             /\ w.settings = "configured" /\ w.enabled
             /\ w.owned = l.seen.owned /\ w.etag = etag
             /\ w.certificate = IF l.certified THEN l.seen.certificate ELSE "wanted"
<1> DEFINE w == Written(l, etag)
           m == Merged(l.seen)
           certificate == IF l.certified THEN l.seen.certificate ELSE "wanted"
<1>1. /\ m \in Tenant /\ m.settings = "configured" /\ m.enabled = TRUE /\ m.owned = l.seen.owned
      /\ m.certificate = l.seen.certificate
  BY DEF Merged, Tenant
<1>2. certificate \in {"wanted", "other"}
  <2>1. l.seen.certificate \in {"wanted", "other"}
    BY DEF Tenant
  <2>2. CASE l.certified
    BY <2>1, <2>2
  <2>3. CASE ~l.certified
    BY <2>3
  <2> QED BY <2>2, <2>3
<1>5. {Head(l.todo)} \in (SUBSET Hosts) \ {{}}
  <2>1. {Head(l.todo)} # {}
    OBVIOUS
  <2> QED BY <2>1
<1>3. w = [m EXCEPT !.domains = {Head(l.todo)}, !.distribution = "configured",
             !.etag = etag, !.certificate = certificate]
  BY <1>1 DEF Written, Tenant
<1> HIDE DEF m, certificate, w
<1>4. /\ w \in Tenant
      /\ w.domains = {Head(l.todo)} /\ w.distribution = "configured"
      /\ w.settings = "configured" /\ w.enabled = TRUE
      /\ w.owned = l.seen.owned /\ w.etag = etag
      /\ w.certificate = certificate
  BY <1>1, <1>2, <1>3, <1>5 DEF Tenant
<1> QED BY <1>4 DEF w, certificate

(* The two writes of a reconciliation, and nothing else changes tenants.    *)
CreatesTenant(r) ==
  /\ At(r, "create")
  /\ Owners(Head(replica[r].todo)) = {}
  /\ lastETag' = lastETag + 1
  /\ \E id \in Ids :
       /\ ~Exists(id)
       /\ tenants' = [tenants EXCEPT ![id] = Created(Head(replica[r].todo), lastETag + 1)]
  /\ Local(r, Handled(replica[r], "added")) \/ Local(r, Failed(replica[r]))

UpdatesTenant(r) ==
  /\ At(r, "update")
  /\ Exists(replica[r].id)
  /\ tenants[replica[r].id] = replica[r].seen
  /\ lastETag' = lastETag + 1
  /\ tenants' = [tenants EXCEPT ![replica[r].id] = Written(replica[r], lastETag + 1)]
  /\ Local(r, Handled(replica[r], "updated")) \/ Local(r, Failed(replica[r]))

LEMMA CreateCases ==
  ASSUME TenantInv, NEW r \in Replicas, Create(r)
  PROVE  \/ CreatesTenant(r)
         \/ /\ At(r, "create") /\ Local(r, Failed(replica[r]))
            /\ UNCHANGED <<tenants, lastETag>>
BY DEF Create, CreatesTenant, Created

LEMMA UpdateCases ==
  ASSUME TenantInv, NEW r \in Replicas, Update(r)
  PROVE  \/ UpdatesTenant(r)
         \/ /\ At(r, "update") /\ Local(r, Failed(replica[r]))
            /\ UNCHANGED <<tenants, lastETag>>
<1>1. SeenInv(replica[r], tenants, lastETag) /\ At(r, "update")
  BY DEF TenantInv, Update
<1>2. Exists(replica[r].id) /\ IfMatch(tenants[replica[r].id], replica[r].seen.etag)
        => tenants[replica[r].id] = replica[r].seen
  BY <1>1 DEF SeenInv, Exists, IfMatch, At
<1> QED BY <1>1, <1>2 DEF Update, UpdatesTenant, Written

(* The host at hand.                                                        *)
LEMMA HostAtHand ==
  ASSUME TenantInv, NEW r \in Replicas, replica[r].step \in OnHost
  PROVE  /\ Head(replica[r].todo) \in Hosts /\ replica[r].todo # << >>
         /\ replica[r].step \in OnTenant => replica[r].id \in Ids
<1>1. replica[r].todo # << >> /\ replica[r].todo \in Seq(Hosts)
  BY Mine DEF LocalsInv
<1> QED BY <1>1, TailFacts, Mine DEF LocalsInv

LEMMA WriteFields ==
  ASSUME TenantInv, NEW r \in Replicas, UpdatesTenant(r)
  PROVE  LET w == Written(replica[r], lastETag + 1)
             id == replica[r].id
         IN  /\ id \in Ids /\ w \in Tenant
             /\ Adoptable(tenants[id], Head(replica[r].todo))
             /\ Adoptable(w, Head(replica[r].todo))
             /\ w.settings = "configured" /\ w.enabled
             /\ w.owned = tenants[id].owned /\ w.etag = lastETag + 1
             /\ w.certificate = IF replica[r].certified THEN tenants[id].certificate ELSE "wanted"
<1>1. /\ Head(replica[r].todo) \in Hosts /\ replica[r].id \in Ids /\ replica[r] \in Locals
      /\ lastETag + 1 \in Nat
  BY HostAtHand, Mine DEF UpdatesTenant, At, OnHost, OnTenant, TenantInv
<1>2. /\ replica[r].seen \in Tenant /\ Adoptable(replica[r].seen, Head(replica[r].todo))
      /\ tenants[replica[r].id] = replica[r].seen
  BY Mine DEF UpdatesTenant, At, SeenInv
<1> QED BY <1>1, <1>2, WrittenFields DEF Adoptable

LEMMA CreateStep ==
  ASSUME TenantInv, NEW r \in Replicas, Create(r)
  PROVE  CallStep(r)
<1>1. CASE /\ At(r, "create") /\ Local(r, Failed(replica[r])) /\ UNCHANGED <<tenants, lastETag>>
  BY <1>1, FailedStep DEF At
<1>2. CASE CreatesTenant(r)
  <2>1. replica[r].step = "create" /\ Head(replica[r].todo) \in Hosts
    BY <1>2, HostAtHand DEF CreatesTenant, At, OnHost
  <2>2. PICK id \in Ids : tenants' = [tenants EXCEPT ![id] = Created(Head(replica[r].todo), lastETag + 1)]
    BY <1>2 DEF CreatesTenant
  <2>3. /\ Created(Head(replica[r].todo), lastETag + 1) \in Tenant
        /\ Created(Head(replica[r].todo), lastETag + 1).etag = lastETag + 1
    BY <2>1, CreatedType DEF Created, TenantInv
  <2>4. Stamps
    BY <1>2, <2>2, <2>3 DEF Stamps, CreatesTenant, TenantInv
  <2>5. CASE Local(r, Handled(replica[r], "added"))
    BY <2>1, <2>4, <2>5, HandledStep DEF OnHost, Counts
  <2>6. CASE Local(r, Failed(replica[r]))
    BY <2>1, <2>4, <2>6, Mine, FailedFields, FailedInv DEF CallStep, Local
  <2> QED BY <1>2, <2>5, <2>6 DEF CreatesTenant
<1> QED BY <1>1, <1>2, CreateCases

LEMMA UpdateStep ==
  ASSUME TenantInv, NEW r \in Replicas, Update(r)
  PROVE  CallStep(r)
<1>1. CASE /\ At(r, "update") /\ Local(r, Failed(replica[r])) /\ UNCHANGED <<tenants, lastETag>>
  BY <1>1, FailedStep DEF At
<1>2. CASE UpdatesTenant(r)
  <2>1. replica[r].step = "update"
    BY <1>2 DEF UpdatesTenant, At
  <2> DEFINE w == Written(replica[r], lastETag + 1)
  <2>2. tenants' = [tenants EXCEPT ![replica[r].id] = w]
    BY <1>2 DEF UpdatesTenant
  <2>3. w \in Tenant /\ w.etag = lastETag + 1 /\ replica[r].id \in Ids
    BY <1>2, WriteFields
  <2> HIDE DEF w
  <2>4. Stamps
    BY <1>2, <2>2, <2>3 DEF Stamps, UpdatesTenant, TenantInv
  <2>5. CASE Local(r, Handled(replica[r], "updated"))
    BY <2>1, <2>4, <2>5, HandledStep DEF OnHost, OnTenant, Counts
  <2>6. CASE Local(r, Failed(replica[r]))
    BY <2>1, <2>4, <2>6, Mine, FailedFields, FailedInv DEF CallStep, Local
  <2> QED BY <1>2, <2>5, <2>6 DEF UpdatesTenant
<1> QED BY <1>1, <1>2, UpdateCases

LEMMA CallIsStep ==
  ASSUME TenantInv, NEW r \in Replicas, Call(r)
  PROVE  CallStep(r)
BY ListPageStep, InvalidateStep, LookupStep, CertificateStep, CreateStep, CurrentStep,
   UpdateStep, CallFailsStep DEF Call

LEMMA RestartFields ==
  ASSUME NEW l \in Locals, NEW n \in Nat, NEW generation \in Nat
  PROVE  [l EXCEPT !.starts = n, !.generation = generation] \in Locals
BY DEF Locals

LEMMA StartStep ==
  ASSUME TenantInv, NEW r \in Replicas, Start(r)
  PROVE  CallStep(r)
<1> DEFINE fresh == [Down EXCEPT !.starts = replica[r].starts + 1, !.generation = 1]
<1>1. replica[r].starts \in Nat
  BY Mine DEF Locals
<1>2. /\ fresh \in Locals /\ fresh.generation = 1 /\ fresh.domains = "none"
      /\ fresh.purge = "none" /\ fresh.todo = << >> /\ Total(fresh.tally) = 0
      /\ fresh.pages = 0 /\ fresh.markers = {}
  <2>1. fresh \in Locals
    <3>1. Down \in Locals
      BY DownFields
    <3>2. replica[r].starts + 1 \in Nat /\ 1 \in Nat
      BY <1>1
    <3> HIDE DEF Down
    <3> QED BY <3>1, <3>2, RestartFields
  <2>2. /\ fresh.generation = 1 /\ fresh.domains = Down.domains
        /\ fresh.purge = Down.purge /\ fresh.todo = Down.todo /\ fresh.tally = Down.tally
        /\ fresh.pages = Down.pages /\ fresh.markers = Down.markers
    BY DownFields DEF Locals
  <2> QED BY <2>1, <2>2, DownFields
<1> HIDE DEF fresh
<1>3. Stamps
  BY NothingStamped DEF Start
<1>4. Len(<< >>) = 0 /\ Cardinality({}) = 0
  BY FS_EmptySet
<1>5. CASE Local(r, Purging(fresh))
  <2> DEFINE l == Purging(fresh)
  <2>1. /\ l \in Locals /\ l.step = "list" /\ l.purge = "none" /\ l.generation = 1
        /\ l.domains = "none" /\ l.todo = << >> /\ Total(l.tally) = 0
        /\ l.pages = 0 /\ l.markers = {}
    BY <1>2, PurgingFields
  <2>2. replica' = [replica EXCEPT ![r] = l]
    BY <1>5 DEF Local
  <2> HIDE DEF l
  <2>3. LocalsInv(l) /\ SeenInv(l, tenants', lastETag')
    BY <1>4, <2>1, HostFacts, IdFacts DEF LocalsInv, SeenInv, OnHost, OnTenant
  <2> QED BY <1>3, <2>1, <2>2, <2>3 DEF CallStep
<1>6. CASE Local(r, Reconciling(fresh))
  <2> DEFINE l == Reconciling(fresh)
  <2>1. /\ l \in Locals /\ l.generation = 1 /\ l.pages = 0 /\ l.markers = {}
        /\ l.step = (IF HostOrder = << >> THEN "ready" ELSE "lookup")
        /\ l.domains = (IF HostOrder = << >> THEN "submitted" ELSE "none")
        /\ l.todo = HostOrder /\ Total(l.tally) = 0
    BY <1>2, ReconcilingFields
  <2>2. replica' = [replica EXCEPT ![r] = l]
    BY <1>6 DEF Local
  <2> HIDE DEF l
  <2>3. LocalsInv(l) /\ SeenInv(l, tenants', lastETag')
    BY <1>4, <2>1, HostFacts, IdFacts DEF LocalsInv, SeenInv, OnHost, OnTenant
  <2> QED BY <1>3, <2>1, <2>2, <2>3 DEF CallStep
<1> QED BY <1>5, <1>6 DEF Start, fresh

LEMMA ActivateStep ==
  ASSUME TenantInv, NEW r \in Replicas, Activate(r)
  PROVE  CallStep(r)
<1> DEFINE me == replica[r]
           next == [me EXCEPT !.generation = @ + 1]
           l == Purging(next)
<1>1. me \in Locals /\ LocalsInv(me) /\ me.step = "ready" /\ me.generation \in Nat
  BY Mine DEF Activate, At
<1>2. /\ next \in Locals /\ next.generation = me.generation + 1
      /\ next.domains = me.domains /\ next.todo = me.todo /\ next.tally = me.tally
      /\ next.pages = me.pages /\ next.markers = me.markers
  BY <1>1 DEF Locals
<1> HIDE DEF next
<1>3. /\ l \in Locals /\ l.step = "list" /\ l.purge = "none"
      /\ l.generation = me.generation + 1
      /\ l.domains = me.domains /\ l.todo = me.todo /\ l.tally = me.tally
      /\ l.pages = me.pages /\ l.markers = me.markers
  BY <1>2, PurgingFields
<1>4. replica' = [replica EXCEPT ![r] = l]
  BY DEF Activate, Local, next
<1> HIDE DEF l
<1>5. LocalsInv(l) /\ SeenInv(l, tenants', lastETag')
  <2>1. Cardinality({}) = 0
    BY FS_EmptySet
  <2>2. me.pages = 0 /\ me.markers = {} /\ l.pages = 0 /\ l.markers = {}
    BY <1>1, <1>3 DEF LocalsInv
  <2>3. l.generation # 0
    BY <1>1, <1>3
  <2> HIDE DEF me
  <2> QED BY <1>1, <1>3, <2>1, <2>2, <2>3, IdFacts DEF LocalsInv, SeenInv, OnHost, OnTenant
<1> QED BY <1>3, <1>4, <1>5, NothingStamped DEF CallStep, Activate

(* A process that stops keeps the count of its starts.                      *)
Halted(r) == [Down EXCEPT !.starts = replica[r].starts]

LEMMA HaltedFields ==
  ASSUME TenantInv, NEW r \in Replicas
  PROVE  LET l == Halted(r)
         IN  /\ l \in Locals
             /\ l.step = "down" /\ l.generation = 0
             /\ l.domains = "none" /\ l.purge = "none" /\ l.todo = << >>
             /\ Total(l.tally) = 0 /\ l.pages = 0 /\ l.markers = {}
<1>1. replica[r].starts \in Nat
  BY Mine DEF Locals
<1>2. \A d \in Locals, n \in Nat :
        LET l == [d EXCEPT !.starts = n]
        IN  /\ l \in Locals
            /\ l.step = d.step /\ l.generation = d.generation
            /\ l.domains = d.domains /\ l.purge = d.purge /\ l.todo = d.todo
            /\ l.tally = d.tally /\ l.pages = d.pages /\ l.markers = d.markers
  BY DEF Locals
<1> HIDE DEF Down, Total
<1> QED BY <1>1, <1>2, DownFields DEF Halted

LEMMA CrashStep ==
  ASSUME TenantInv, NEW r \in Replicas, Crash(r)
  PROVE  CallStep(r)
<1> DEFINE l == Halted(r)
<1>1. /\ l \in Locals
      /\ l.step = "down" /\ l.generation = 0
      /\ l.domains = "none" /\ l.purge = "none" /\ l.todo = << >>
      /\ Total(l.tally) = 0 /\ l.pages = 0 /\ l.markers = {}
  BY HaltedFields
<1>2. replica' = [replica EXCEPT ![r] = l]
  BY DEF Crash, Local, Halted
<1> HIDE DEF l
<1>3. Len(<< >>) = 0
  OBVIOUS
<1>4. LocalsInv(l) /\ SeenInv(l, tenants', lastETag')
  BY <1>1, <1>3, HostFacts, IdFacts DEF LocalsInv, SeenInv, OnHost, OnTenant
<1> QED BY <1>1, <1>2, <1>4, NothingStamped DEF CallStep, Crash

(* An operator changes one tenant, or removes it.                           *)
LEMMA EditsAreTenants ==
  ASSUME NEW t \in Tenant, NEW u \in Edits(t), NEW etag \in Nat
  PROVE  [u EXCEPT !.etag = etag] \in Tenant /\ [u EXCEPT !.etag = etag].etag = etag
<1>1. u \in Tenant
  <2>1. CASE \E o \in Owned : u = [t EXCEPT !.owned = o]
    BY <2>1 DEF Tenant
  <2>2. CASE u \in {[t EXCEPT !.settings = "other"], [t EXCEPT !.enabled = ~@],
                    [t EXCEPT !.distribution = "another"], [t EXCEPT !.certificate = "other"]}
    <3>1. (~t.enabled) \in BOOLEAN
      OBVIOUS
    <3>2. \A e \in BOOLEAN : [t EXCEPT !.enabled = e] \in Tenant
      BY DEF Tenant
    <3>3. /\ [t EXCEPT !.settings = "other"] \in Tenant
          /\ [t EXCEPT !.distribution = "another"] \in Tenant
          /\ [t EXCEPT !.certificate = "other"] \in Tenant
      BY DEF Tenant
    <3>4. [t EXCEPT !.enabled = ~@] = [t EXCEPT !.enabled = ~t.enabled]
      BY DEF Tenant
    <3> QED BY <2>2, <3>1, <3>2, <3>3, <3>4
  <2>3. CASE \E host \in Hosts : u = [t EXCEPT !.domains = @ \cup {host}]
    <3>1. PICK host \in Hosts : u = [t EXCEPT !.domains = t.domains \cup {host}]
      BY <2>3 DEF Tenant
    <3>2. t.domains \cup {host} \in (SUBSET Hosts) \ {{}}
      BY DEF Tenant
    <3>3. \A d \in (SUBSET Hosts) \ {{}} : [t EXCEPT !.domains = d] \in Tenant
      BY DEF Tenant
    <3> QED BY <3>1, <3>2, <3>3
  <2> QED BY <2>1, <2>2, <2>3 DEF Edits
<1> QED BY <1>1 DEF Tenant

LEMMA OperatorStamps ==
  ASSUME TenantInv, OperatorEdits
  PROVE  Stamps
<1>1. PICK id \in Ids :
        /\ Exists(id)
        /\ \/ \E t \in Edits(tenants[id]) :
                tenants' = [tenants EXCEPT ![id] = [t EXCEPT !.etag = lastETag + 1]]
           \/ tenants' = [tenants EXCEPT ![id] = NoTenant]
  BY DEF OperatorEdits
<1>2. tenants[id] \in Tenant /\ lastETag + 1 \in Nat
  BY <1>1 DEF TenantInv, Exists
<1>3. CASE tenants' = [tenants EXCEPT ![id] = NoTenant]
  BY <1>3 DEF Stamps, TenantInv, OperatorEdits
<1>4. ASSUME NEW t \in Edits(tenants[id]),
             tenants' = [tenants EXCEPT ![id] = [t EXCEPT !.etag = lastETag + 1]]
      PROVE  Stamps
  <2> DEFINE u == [t EXCEPT !.etag = lastETag + 1]
  <2>1. u \in Tenant /\ u.etag = lastETag + 1
    BY <1>2, EditsAreTenants
  <2>2. tenants' = [tenants EXCEPT ![id] = u]
    BY <1>4
  <2> HIDE DEF u
  <2> QED BY <2>1, <2>2 DEF Stamps, TenantInv, OperatorEdits
<1> QED BY <1>1, <1>3, <1>4

LEMMA TenantInvInit ==
  TenantInit => TenantInv
<1> SUFFICES ASSUME TenantInit PROVE TenantInv
  OBVIOUS
<1>1. tenants \in [Ids -> Tenant \cup {NoTenant}]
      /\ \A id \in Ids : Exists(id) => tenants[id].etag <= lastETag
  BY TenantAssumption DEF TenantInit, Exists
<1>2. MaxEdits \in Nat /\ MaxActivations \in Nat
  BY TenantAssumption
<1>3. Len(<< >>) = 0
  OBVIOUS
<1>4. LocalsInv(Down) /\ SeenInv(Down, tenants, lastETag)
  <2> HIDE DEF Down
  <2> QED BY <1>3, DownFields, HostFacts, IdFacts DEF LocalsInv, SeenInv, OnHost, OnTenant
<1> QED BY <1>1, <1>2, <1>4, DownFields DEF TenantInv, TenantInit

(* What every step of the tenants does to the parts of the invariant.       *)
LEMMA EveryStep ==
  ASSUME TenantInv, TenantNext
  PROVE  /\ Stamps
         /\ edits' \in 0 .. MaxEdits /\ activations' \in 0 .. MaxActivations
         /\ \/ replica' = replica
            \/ \E r \in Replicas : CallStep(r)
<1>1. edits \in Nat /\ activations \in Nat /\ MaxEdits \in Nat /\ MaxActivations \in Nat
      /\ edits <= MaxEdits /\ activations <= MaxActivations
  BY TenantAssumption DEF TenantInv
<1>2. CASE OperatorEdits
  BY <1>1, <1>2, OperatorStamps DEF OperatorEdits
<1>3. ASSUME NEW r \in Replicas, Call(r)
      PROVE  CallStep(r) /\ UNCHANGED <<edits, activations>>
  BY <1>3, CallIsStep DEF Call, ListPage, Invalidate, Lookup, Certificate, Create, Current,
     Update, CallFails
<1>4. ASSUME NEW r \in Replicas, Start(r) \/ Activate(r)
      PROVE  /\ CallStep(r) /\ UNCHANGED edits
             /\ activations < MaxActivations /\ activations' = activations + 1
  BY <1>4, StartStep, ActivateStep DEF Start, Activate
<1>5. ASSUME NEW r \in Replicas, Crash(r)
      PROVE  CallStep(r) /\ UNCHANGED <<edits, activations>>
  BY <1>5, CrashStep DEF Crash
<1> QED BY <1>1, <1>2, <1>3, <1>4, <1>5 DEF TenantNext, CallStep

LEMMA TenantInvStep ==
  TenantInv /\ [TenantNext]_tenantVars => TenantInv'
<1> SUFFICES ASSUME TenantInv, [TenantNext]_tenantVars
             PROVE  TenantInv'
  OBVIOUS
<1>1. CASE UNCHANGED tenantVars
  BY <1>1 DEF TenantInv, tenantVars, Exists, LocalsInv, SeenInv
<1>2. CASE TenantNext
  <2>1. Stamps /\ edits' \in 0 .. MaxEdits /\ activations' \in 0 .. MaxActivations
    BY <1>2, EveryStep
  <2>2. tenants' \in [Ids -> Tenant \cup {NoTenant}] /\ lastETag' \in Nat
    BY <2>1 DEF Stamps, TenantInv
  <2>3. \A id \in Ids : tenants'[id] # NoTenant => tenants'[id].etag <= lastETag'
    <3>1. \A id \in Ids : tenants[id] # NoTenant => tenants[id] \in Tenant /\ tenants[id].etag <= lastETag
      BY DEF TenantInv, Exists
    <3>2. \A t \in Tenant : t.etag \in Nat
      BY DEF Tenant
    <3> QED BY <2>1, <2>2, <3>1, <3>2 DEF Stamps, TenantInv
  <2>4. held' \in [Replicas -> SUBSET Ids] /\ meddled' \in [Replicas -> BOOLEAN]
    <3>1. Observe
      BY <1>2 DEF TenantNext
    <3>2. \A r \in Replicas : held'[r] \in SUBSET Ids /\ meddled'[r] \in BOOLEAN
      BY <3>1 DEF Observe, TenantInv
    <3> QED BY <3>1, <3>2 DEF Observe
  <2>5. /\ replica' \in [Replicas -> Locals]
        /\ \A r \in Replicas : LocalsInv(replica'[r]) /\ SeenInv(replica'[r], tenants', lastETag')
    <3>1. \A r \in Replicas : LocalsInv(replica[r]) /\ SeenInv(replica[r], tenants', lastETag')
      BY <2>1, SeenStands, Mine
    <3>2. CASE replica' = replica
      BY <3>1, <3>2 DEF TenantInv
    <3>3. ASSUME NEW r \in Replicas, CallStep(r)
          PROVE  /\ replica' \in [Replicas -> Locals]
                 /\ \A q \in Replicas : /\ LocalsInv(replica'[q])
                                         /\ SeenInv(replica'[q], tenants', lastETag')
      <4>1. PICK l \in Locals : /\ replica' = [replica EXCEPT ![r] = l]
                                /\ LocalsInv(l) /\ SeenInv(l, tenants', lastETag')
        BY <3>3 DEF CallStep
      <4>2. replica \in [Replicas -> Locals]
        BY DEF TenantInv
      <4>3. \A q \in Replicas : replica'[q] = IF q = r THEN l ELSE replica[q]
        BY <4>1, <4>2
      <4> QED BY <3>1, <4>1, <4>2, <4>3
    <3> QED BY <1>2, <3>2, <3>3, EveryStep
  <2> QED BY <2>1, <2>2, <2>3, <2>4, <2>5 DEF TenantInv, Exists
<1> QED BY <1>1, <1>2

LEMMA StartsReconcileTenants ==
  CdnSpec => TenantSpec
<1>1. CdnInit => TenantInit
  BY DEF CdnInit
<1>2. [CdnNext]_<<tenantVars, domainVars>> => [TenantNext]_tenantVars
  BY DEF CdnNext, tenantVars, domainVars
<1> QED BY <1>1, <1>2, PTL DEF CdnSpec, TenantSpec

LEMMA TenantInvHolds ==
  CdnSpec => []TenantInv
<1>1. TenantSpec => []TenantInv
  BY TenantInvInit, TenantInvStep, PTL DEF TenantSpec
<1> QED BY <1>1, StartsReconcileTenants, PTL

------------------------------------------------------------------------------
(* What the steps write.                                                    *)
LEMMA OnlyTwoWrites ==
  ASSUME TenantInv, TenantNext, edits' = edits
  PROVE  \/ tenants' = tenants
         \/ \E r \in Replicas : CreatesTenant(r) \/ UpdatesTenant(r)
<1>1. ~OperatorEdits
  BY DEF OperatorEdits, TenantInv
<1>2. ASSUME NEW r \in Replicas, Call(r)
      PROVE  tenants' = tenants \/ CreatesTenant(r) \/ UpdatesTenant(r)
  BY <1>2, CreateCases, UpdateCases
     DEF Call, ListPage, Invalidate, Lookup, Certificate, Current, CallFails
<1> QED BY <1>1, <1>2 DEF TenantNext, Start, Activate, Crash

LEMMA CreatedStands ==
  ASSUME TenantInv, NEW r \in Replicas, CreatesTenant(r), NEW id \in Ids, Exists(id)
  PROVE  tenants'[id] = tenants[id]
BY DEF CreatesTenant, TenantInv, Exists

LEMMA UpdatedStands ==
  ASSUME TenantInv, NEW r \in Replicas, UpdatesTenant(r), NEW id \in Ids
  PROVE  tenants'[id] = IF id = replica[r].id THEN Written(replica[r], lastETag + 1)
                                              ELSE tenants[id]
BY DEF UpdatesTenant, TenantInv

(* reconcile_tenants never loses what an operator set on a tenant: an update*)
(* carries the ETag of what was read, and writes the rest back as read.     *)
THEOREM OperatorsKeepTheirs ==
  CdnSpec => OperatorSettingsSurvive
<1>1. ASSUME TenantInv, [TenantNext]_tenantVars, edits' = edits, NEW id \in Ids, Exists(id)
      PROVE  Exists(id)' /\ tenants'[id].owned = tenants[id].owned
  <2>1. CASE tenants' = tenants
    BY <1>1, <2>1 DEF Exists
  <2>2. ASSUME NEW r \in Replicas, CreatesTenant(r)
        PROVE  Exists(id)' /\ tenants'[id].owned = tenants[id].owned
    BY <1>1, <2>2, CreatedStands DEF Exists
  <2>3. ASSUME NEW r \in Replicas, UpdatesTenant(r)
        PROVE  Exists(id)' /\ tenants'[id].owned = tenants[id].owned
    <3> DEFINE w == Written(replica[r], lastETag + 1)
    <3>1. w \in Tenant /\ w.owned = tenants[replica[r].id].owned
      BY <1>1, <2>3, WriteFields
    <3>2. tenants'[id] = IF id = replica[r].id THEN w ELSE tenants[id]
      BY <1>1, <2>3, UpdatedStands
    <3> HIDE DEF w
    <3> QED BY <1>1, <3>1, <3>2, TenantAssumption DEF Exists
  <2>4. TenantNext \/ tenants' = tenants
    BY <1>1 DEF tenantVars
  <2> QED BY <1>1, <2>1, <2>2, <2>3, <2>4, OnlyTwoWrites
<1>2. TenantInv /\ [TenantNext]_tenantVars =>
        [edits' = edits => \A id \in Ids : Exists(id) =>
           Exists(id)' /\ tenants'[id].owned = tenants[id].owned]_tenantVars
  BY <1>1
<1> QED BY <1>2, TenantInvHolds, StartsReconcileTenants, PTL DEF TenantSpec, OperatorSettingsSurvive

(* Nothing but a tenant of the configured distribution with one exact host  *)
(* and no other is changed, as it is when the change lands.                 *)
THEOREM WritesAreAllowed ==
  CdnSpec => OnlyAdoptableTenantsChange
<1>1. ASSUME TenantInv, [TenantNext]_tenantVars, edits' = edits,
             NEW id \in Ids, Exists(id), tenants'[id] # tenants[id]
      PROVE  \E host \in Hosts : Adoptable(tenants[id], host) /\ Adoptable(tenants'[id], host)
  <2>1. TenantNext
    BY <1>1 DEF tenantVars
  <2>2. PICK r \in Replicas : CreatesTenant(r) \/ UpdatesTenant(r)
    BY <1>1, <2>1, OnlyTwoWrites
  <2>3. UpdatesTenant(r)
    BY <1>1, <2>2, CreatedStands
  <2> DEFINE w == Written(replica[r], lastETag + 1)
  <2>4. /\ Adoptable(tenants[replica[r].id], Head(replica[r].todo))
        /\ Adoptable(w, Head(replica[r].todo))
    BY <1>1, <2>3, WriteFields
  <2>5. tenants'[id] = IF id = replica[r].id THEN w ELSE tenants[id]
    BY <1>1, <2>3, UpdatedStands
  <2>6. Head(replica[r].todo) \in Hosts
    BY <1>1, <2>3, HostAtHand DEF UpdatesTenant, At, OnHost, OnTenant
  <2> HIDE DEF w
  <2> QED BY <1>1, <2>4, <2>5, <2>6
<1>2. TenantInv /\ [TenantNext]_tenantVars =>
        [edits' = edits => \A id \in Ids : Exists(id) /\ tenants'[id] # tenants[id] =>
           \E host \in Hosts : Adoptable(tenants[id], host) /\ Adoptable(tenants'[id], host)]_tenantVars
  BY <1>1
<1> QED BY <1>2, TenantInvHolds, StartsReconcileTenants, PTL
        DEF TenantSpec, OnlyAdoptableTenantsChange

(* Every variable of the tenants has its type, and no host is counted twice *)
(* in the report of a reconciliation.                                       *)
THEOREM TenantTypes ==
  CdnSpec => []TenantTypeOK
<1>1. TenantInv => TenantTypeOK
  <2> SUFFICES ASSUME TenantInv PROVE TenantTypeOK
    OBVIOUS
  <2>1. ASSUME NEW r \in Replicas
        PROVE  /\ replica[r].step \in Steps
               /\ replica[r].purge \in {"none"} \cup Outcomes
               /\ replica[r].domains \in {"none", "submitted", "error"}
               /\ replica[r].found \cup replica[r].covered \subseteq Ids
               /\ Total(replica[r].tally) <= Len(HostOrder) - Len(replica[r].todo)
    <3>1. replica[r] \in Locals /\ LocalsInv(replica[r])
      BY Mine
    <3>2. /\ replica[r].step \in Steps
          /\ replica[r].purge \in {"none"} \cup Outcomes
          /\ replica[r].domains \in {"none", "submitted", "error"}
          /\ replica[r].found \cup replica[r].covered \subseteq Ids
      BY <3>1 DEF Locals
    <3>3. Total(replica[r].tally) + Len(replica[r].todo) <= Len(HostOrder)
      BY <3>1 DEF LocalsInv
    <3>4. /\ Total(replica[r].tally) \in Nat /\ Len(replica[r].todo) \in Nat
          /\ Len(HostOrder) \in Nat
      BY Mine, HostFacts
    <3> QED BY <3>2, <3>3, <3>4
  <2> QED BY <2>1 DEF TenantInv, TenantTypeOK, Steps, OnHost, OnTenant, Outcomes, Total
<1> QED BY <1>1, TenantInvHolds, PTL

(* A listing of tenants ends after a page for every tenant, also if         *)
(* CloudFront repeats markers: it gives each at most once.                  *)
THEOREM ListingsEnd ==
  CdnSpec => []ListingEnds
<1>1. TenantInv => ListingEnds
  BY DEF TenantInv, LocalsInv, ListingEnds
<1> QED BY <1>1, TenantInvHolds, PTL

------------------------------------------------------------------------------
(* Purges.                                                                  *)
PurgeSteps == {"list", "invalidate"}
Reported == {"submitted", "skipped_no_tenants"}

MayBePurged(t) ==
  t # NoTenant /\ t.enabled /\ t.distribution = "configured" /\ t.domains \cap Hosts # {}

(* No reference of this process and generation stands in the way.           *)
FreshInv(r, l, given) ==
  \A ref \in given : \A s \in Nat : ref.process = <<r, s>> =>
    /\ s <= l.starts
    /\ s = l.starts /\ l.step # "down" => ref.generation <= l.generation
    /\ s = l.starts /\ l.step = "list" => ref.generation # l.generation
    /\ s = l.starts /\ l.step = "invalidate" /\ ref.generation = l.generation =>
         ref.tenant \notin l.found

(* Every tenant that matches all the while was found or comes after the     *)
(* marker, and is then invalidated or still to be.                          *)
HeldInv(l, kept, given) ==
  /\ l.step \in PurgeSteps => l.purge = "none" /\ \A id \in kept : MayBePurged(given[id])
  /\ l.step = "list" => l.covered = {} /\ \A id \in kept : id \in l.found \/ id > l.marker
  /\ l.step = "invalidate" => kept \subseteq l.covered \cup l.found
  /\ l.step \notin PurgeSteps => l.marker = 0
  /\ l.purge \in Reported => kept \subseteq l.covered

PurgeInv ==
  /\ \A ref \in references : ref.generation \in Nat
  /\ \A r \in Replicas : /\ FreshInv(r, replica[r], references)
                         /\ HeldInv(replica[r], held[r], tenants)

(* What is held after a step of a process.                                  *)
LEMMA HeldNext ==
  ASSUME TenantInv, Observe, NEW r \in Replicas
  PROVE  /\ replica'[r].step \in PurgeSteps /\ replica[r].step \in PurgeSteps =>
              held'[r] = {id \in held[r] : MayBePurged(tenants'[id])}
         /\ replica'[r].step \in PurgeSteps /\ replica[r].step \notin PurgeSteps =>
              held'[r] = {id \in Ids : MayBePurged(tenants'[id])}
         /\ replica'[r].step \notin PurgeSteps /\ replica'[r].purge \in Reported =>
              held'[r] = held[r]
BY DEF Observe, PurgeSteps, Reported, Purgeable, MayBePurged, Exists, At

(* A step that changes neither the purge nor what is known of it.           *)
SamePurge(m, l) ==
  /\ m.step \notin PurgeSteps \cup {"down"} /\ l.step \notin PurgeSteps \cup {"down"}
  /\ l.starts = m.starts /\ l.generation = m.generation
  /\ l.purge = m.purge /\ l.covered = m.covered /\ l.marker = m.marker

PurgeStep(r) ==
  \E l \in Locals :
    /\ replica' = [replica EXCEPT ![r] = l]
    /\ FreshInv(r, l, references')
    /\ HeldInv(l, held'[r], tenants')

LEMMA SamePurgeStep ==
  ASSUME TenantInv, PurgeInv, Observe, NEW r \in Replicas, UNCHANGED references,
         NEW l \in Locals, replica' = [replica EXCEPT ![r] = l], SamePurge(replica[r], l)
  PROVE  PurgeStep(r)
<1>1. replica'[r] = l
  BY DEF TenantInv
<1>2. FreshInv(r, l, references')
  BY DEF PurgeInv, FreshInv, SamePurge, PurgeSteps
<1>3. HeldInv(l, held'[r], tenants')
  <2>1. HeldInv(replica[r], held[r], tenants)
    BY DEF PurgeInv
  <2>2. l.step \notin PurgeSteps /\ l.step \notin {"list", "invalidate"}
    BY DEF SamePurge, PurgeSteps
  <2>3. l.purge \in Reported => held'[r] = held[r]
    BY <1>1, <2>2, HeldNext
  <2> QED BY <2>1, <2>2, <2>3 DEF HeldInv, SamePurge
<1> QED BY <1>2, <1>3 DEF PurgeStep

LEMMA SameFields ==
  ASSUME NEW l \in Locals, l.step \in OnHost
  PROVE  /\ SamePurge(l, Failed(l))
         /\ l.todo # << >> => \A count \in Counts : SamePurge(l, Handled(l, count))
         /\ \A step \in OnHost : SamePurge(l, [l EXCEPT !.step = step])
         /\ \A seen : SamePurge(l, [l EXCEPT !.step = "update", !.seen = seen])
         /\ \A id, drifted, certified :
              SamePurge(l, [l EXCEPT !.id = id, !.drifted = drifted, !.certified = certified,
                                     !.step = "certificate"])
         /\ \A certified : SamePurge(l, [l EXCEPT !.certified = certified])
<1>1. l.step \notin PurgeSteps \cup {"down"}
  BY DEF OnHost, OnTenant, PurgeSteps
<1>2. /\ Failed(l).marker = l.marker
      /\ \A count \in Counts : Handled(l, count).marker = l.marker
  BY DEF Failed, Handled, Leave, Locals
<1>3. SamePurge(l, Failed(l))
  BY <1>1, <1>2, FailedFields DEF SamePurge, PurgeSteps
<1>4. l.todo # << >> => \A count \in Counts : SamePurge(l, Handled(l, count))
  BY <1>1, <1>2, HandledFields DEF SamePurge, PurgeSteps
<1>5. \A step \in OnHost : SamePurge(l, [l EXCEPT !.step = step])
  BY <1>1 DEF SamePurge, PurgeSteps, OnHost, OnTenant, Locals
<1>6. \A seen : SamePurge(l, [l EXCEPT !.step = "update", !.seen = seen])
  BY <1>1 DEF SamePurge, PurgeSteps, Locals
<1>7. \A id, drifted, certified :
        SamePurge(l, [l EXCEPT !.id = id, !.drifted = drifted, !.certified = certified,
                               !.step = "certificate"])
  BY <1>1 DEF SamePurge, PurgeSteps, Locals
<1>8. \A certified : SamePurge(l, [l EXCEPT !.certified = certified])
  BY <1>1 DEF SamePurge, Locals
<1> QED BY <1>3, <1>4, <1>5, <1>6, <1>7, <1>8

LEMMA SameIsTransitive ==
  ASSUME NEW k, NEW l, NEW m, SamePurge(k, l), SamePurge(l, m)
  PROVE  SamePurge(k, m)
BY DEF SamePurge

LEMMA DecideSame ==
  ASSUME NEW l \in Locals, l.step \in OnHost, l.todo # << >>
  PROVE  SamePurge(l, Decide(l))
BY SameFields DEF Decide, Counts, OnHost, OnTenant

(* The steps that reconcile.                                                *)
LEMMA HostStepSame ==
  ASSUME TenantInv, NEW r \in Replicas, replica[r].step \in OnHost, Call(r)
  PROVE  SamePurge(replica[r], replica'[r])
<1> DEFINE me == replica[r]
<1>1. me \in Locals /\ me.todo # << >> /\ LocalsInv(me)
  BY Mine DEF LocalsInv
<1>2. \A l : Local(r, l) => replica'[r] = l
  BY DEF Local, TenantInv
<1>3. SamePurge(me, Failed(me)) /\ \A count \in Counts : SamePurge(me, Handled(me, count))
  BY <1>1, SameFields
<1>4. CASE Lookup(r)
  <2>1. CASE Local(r, [me EXCEPT !.step = "create"])
    <3>1. "create" \in OnHost
      BY DEF OnHost
    <3>2. SamePurge(me, [me EXCEPT !.step = "create"])
      BY <1>1, <3>1, SameFields
    <3> QED BY <1>2, <2>1, <3>2
  <2>2. ASSUME NEW id \in Ids, Local(r, Observed(r, id)) \/ Local(r, Decide(Observed(r, id)))
        PROVE  SamePurge(me, replica'[r])
    <3>1. Observed(r, id) \in Locals /\ Observed(r, id).step = "certificate"
          /\ Observed(r, id).todo # << >>
      BY <1>1, <1>4, ObservedFields DEF Lookup
    <3>2. SamePurge(me, Observed(r, id))
      BY <1>1, SameFields DEF Observed
    <3>3. SamePurge(Observed(r, id), Decide(Observed(r, id)))
      BY <3>1, DecideSame DEF OnHost, OnTenant
    <3> QED BY <1>2, <2>2, <3>2, <3>3, SameIsTransitive
  <2> QED BY <1>2, <1>3, <1>4, <2>1, <2>2 DEF Lookup, Owners, Observed
<1>5. CASE Certificate(r)
  <2>1. CASE Local(r, Failed(me))
    BY <1>2, <1>3, <2>1
  <2>2. CASE Local(r, Decide([me EXCEPT !.certified = tenants[me.id].certificate = "wanted"]))
    <3> DEFINE c == tenants[me.id].certificate = "wanted"
               l == [me EXCEPT !.certified = c]
    <3>1. c \in BOOLEAN
      OBVIOUS
    <3>2. SamePurge(me, l)
      BY <1>1, SameFields
    <3>3. l \in Locals /\ l.step \in OnHost /\ l.todo # << >>
      <4>1. ASSUME NEW b \in BOOLEAN
            PROVE  LET x == [me EXCEPT !.certified = b]
                   IN  x \in Locals /\ x.step = me.step /\ x.todo = me.todo
        BY <1>1 DEF Locals
      <4>2. l \in Locals /\ l.step = me.step /\ l.todo = me.todo
        BY <3>1, <4>1
      <4> HIDE DEF l
      <4> QED BY <1>1, <4>2
    <3>4. replica'[r] = Decide(l)
      BY <1>2, <2>2
    <3> HIDE DEF l
    <3> QED BY <3>2, <3>3, <3>4, DecideSame, SameIsTransitive
  <2> QED BY <1>5, <2>1, <2>2 DEF Certificate
<1>6. CASE Create(r)
  BY <1>2, <1>3, <1>6, CreateCases DEF CreatesTenant, Counts
<1>7. CASE Current(r)
  <2>1. \/ Local(r, Failed(me)) \/ Local(r, Handled(me, "unchanged"))
        \/ Local(r, [me EXCEPT !.step = "update", !.seen = tenants[me.id]])
    BY <1>7 DEF Current
  <2>2. \A seen : SamePurge(me, [me EXCEPT !.step = "update", !.seen = seen])
    BY <1>1, SameFields
  <2>3. SamePurge(me, Handled(me, "unchanged"))
    BY <1>3 DEF Counts
  <2> QED BY <1>2, <1>3, <2>1, <2>2, <2>3
<1>8. CASE Update(r)
  BY <1>2, <1>3, <1>8, UpdateCases DEF UpdatesTenant, Counts
<1>9. CASE CallFails(r)
  BY <1>2, <1>3, <1>9 DEF CallFails, At, OnHost, OnTenant
<1>10. ~ListPage(r) /\ ~Invalidate(r)
  BY DEF ListPage, Invalidate, At, OnHost, OnTenant
<1> QED BY <1>4, <1>5, <1>6, <1>7, <1>8, <1>9, <1>10 DEF Call

(* The steps that purge.                                                    *)
LEMMA AfterPurge ==
  ASSUME TenantInv, PurgeInv, Observe, NEW r \in Replicas,
         At(r, "list") \/ At(r, "invalidate"),
         NEW m \in Locals, m.starts = replica[r].starts, m.generation = replica[r].generation,
         NEW outcome \in Outcomes, Local(r, PurgeDone(m, outcome)),
         outcome = "submitted" => held[r] \subseteq m.covered,
         outcome = "skipped_no_tenants" => held[r] = {},
         \A ref \in references' : \A s \in Nat : ref.process = <<r, s>> =>
           s <= m.starts /\ (s = m.starts => ref.generation <= m.generation)
  PROVE  PurgeStep(r)
<1> DEFINE done == PurgeDone(m, outcome)
<1>1. /\ done \in Locals /\ done.purge = outcome /\ done.marker = 0
      /\ done.starts = m.starts /\ done.generation = m.generation
      /\ done.covered = (IF outcome = "submitted" THEN m.covered ELSE {})
      /\ done.step \in {"ready", "lookup"}
  BY PurgeDoneFields
<1>2. replica' = [replica EXCEPT ![r] = done]
  BY DEF Local
<1> HIDE DEF done
<1>3. replica'[r] = done
  BY <1>2 DEF TenantInv
<1>4. done.step \notin PurgeSteps /\ done.step # "down"
  BY <1>1 DEF PurgeSteps
<1>5. FreshInv(r, done, references')
  BY <1>1, <1>4 DEF FreshInv, PurgeSteps
<1>6. done.purge \in Reported => held'[r] = held[r]
  BY <1>3, <1>4, HeldNext
<1>7. done.purge \in Reported => held'[r] \subseteq done.covered
  <2>1. CASE outcome = "submitted"
    BY <1>1, <1>6, <2>1 DEF Reported
  <2>2. CASE outcome = "skipped_no_tenants"
    BY <1>1, <1>6, <2>2 DEF Reported
  <2> QED BY <1>1, <2>1, <2>2 DEF Reported
<1>8. HeldInv(done, held'[r], tenants')
  BY <1>1, <1>4, <1>7 DEF HeldInv, PurgeSteps
<1> QED BY <1>1, <1>2, <1>5, <1>8 DEF PurgeStep

(* A reference of the process that is not down has its generation or an     *)
(* earlier one.                                                             *)
LEMMA MyReferences ==
  ASSUME TenantInv, PurgeInv, NEW r \in Replicas, replica[r].step # "down"
  PROVE  \A ref \in references : \A s \in Nat : ref.process = <<r, s>> =>
           s <= replica[r].starts /\ (s = replica[r].starts => ref.generation <= replica[r].generation)
BY DEF PurgeInv, FreshInv

LEMMA ListPagePurges ==
  ASSUME TenantInv, PurgeInv, Observe, NEW r \in Replicas, ListPage(r)
  PROVE  PurgeStep(r)
<1> DEFINE me == replica[r]
           found == me.found \cup {id \in Page(me.marker) : Purgeable(id)}
<1>1. me \in Locals /\ LocalsInv(me) /\ me.step = "list" /\ me.marker \in Ids \cup {0}
  BY Mine DEF ListPage, At, Locals
<1>2. PICK next \in NextMarkers(me.marker, me.markers) :
        Local(r, IF next = 0
                   THEN IF found = {} THEN PurgeDone(me, "skipped_no_tenants")
                        ELSE [me EXCEPT !.step = "invalidate", !.found = found, !.pages = 0]
                 ELSE IF Repeated(next, me.markers) THEN PurgeDone(me, "error")
                 ELSE [me EXCEPT !.marker = next, !.markers = @ \cup {next},
                                 !.found = found, !.pages = @ + 1])
  BY DEF ListPage
<1>3. UNCHANGED <<tenants, references>>
  BY DEF ListPage
<1>4. /\ me.purge = "none" /\ me.covered = {}
      /\ \A id \in held[r] : id \in Ids /\ MayBePurged(tenants[id]) /\ (id \in me.found \/ id > me.marker)
  BY <1>1 DEF PurgeInv, HeldInv, PurgeSteps, TenantInv
<1>5. \A id \in held[r] : id \in me.found \/ (id \in Listable(me.marker) /\ Purgeable(id))
  BY <1>4 DEF Listable, Purgeable, MayBePurged, Exists
<1>6. \A ref \in references' : \A s \in Nat : ref.process = <<r, s>> =>
        s <= me.starts /\ (s = me.starts => ref.generation <= me.generation)
  BY <1>1, <1>3, MyReferences
<1>7. next = 0 => \A id \in held[r] : id \in found
  <2>1. CASE Page(me.marker) = Listable(me.marker)
    BY <1>5, <2>1
  <2>2. CASE Page(me.marker) # Listable(me.marker)
    <3>1. Max(Page(me.marker)) \in Ids
      BY <1>1, <2>2, PageFacts
    <3>2. me.markers \subseteq Ids /\ 0 \notin Ids
      BY <1>1, IdFacts DEF Locals
    <3>3. next \in me.markers \cup {Max(Page(me.marker))}
      BY <1>2, <2>2 DEF NextMarkers
    <3> QED BY <3>1, <3>2, <3>3
  <2> QED BY <2>1, <2>2
<1>8. next # 0 /\ next \notin me.markers => \A id \in held[r] : id \in found \/ id > next
  <2> SUFFICES ASSUME next # 0, next \notin me.markers
               PROVE  \A id \in held[r] : id \in found \/ id > next
    OBVIOUS
  <2>1. Page(me.marker) # Listable(me.marker) /\ next = Max(Page(me.marker))
    BY <1>2 DEF NextMarkers
  <2>2. \A id \in Listable(me.marker) : id \in Page(me.marker) \/ id > next
    BY <1>1, <2>1, PageFacts
  <2> QED BY <1>5, <2>2
<1>9. CASE Local(r, PurgeDone(me, "error"))
  BY <1>1, <1>6, <1>9, AfterPurge DEF Outcomes, ListPage
<1>10. CASE next = 0 /\ found = {} /\ Local(r, PurgeDone(me, "skipped_no_tenants"))
  <2>1. held[r] = {}
    BY <1>7, <1>10
  <2> QED BY <1>1, <1>6, <1>10, <2>1, AfterPurge DEF Outcomes, ListPage
<1>11. CASE /\ next = 0 /\ found # {}
            /\ Local(r, [me EXCEPT !.step = "invalidate", !.found = found, !.pages = 0])
  <2> DEFINE l == [me EXCEPT !.step = "invalidate", !.found = found, !.pages = 0]
  <2>1. /\ l.step = "invalidate" /\ l.found = found /\ l.starts = me.starts
        /\ l.generation = me.generation /\ l.purge = me.purge /\ l.covered = me.covered
    BY <1>1 DEF Locals
  <2>2. replica' = [replica EXCEPT ![r] = l]
    BY <1>11 DEF Local
  <2>7. l \in Locals
    <3>1. found \in SUBSET Ids
      BY <1>1, PageFacts DEF Locals
    <3> HIDE DEF found
    <3> QED BY <1>1, <3>1 DEF Locals, Steps
  <2> HIDE DEF l
  <2>3. replica'[r] = l
    BY <2>2 DEF TenantInv
  <2>4. held'[r] = {id \in held[r] : MayBePurged(tenants'[id])}
    BY <1>1, <2>1, <2>3, HeldNext DEF PurgeSteps
  <2>5. FreshInv(r, l, references')
    <3>1. FreshInv(r, me, references)
      BY DEF PurgeInv
    <3> QED BY <1>1, <1>3, <2>1, <3>1 DEF FreshInv
  <2>6. HeldInv(l, held'[r], tenants')
    <3>1. held'[r] \subseteq l.found
      BY <1>7, <1>11, <2>1, <2>4
    <3> HIDE DEF found, me
    <3> QED BY <1>4, <2>1, <2>4, <3>1 DEF HeldInv, PurgeSteps, Reported
  <2> QED BY <2>2, <2>5, <2>6, <2>7 DEF PurgeStep
<1>12. CASE /\ next # 0 /\ next \notin me.markers
            /\ Local(r, [me EXCEPT !.marker = next, !.markers = @ \cup {next},
                                   !.found = found, !.pages = @ + 1])
  <2> DEFINE l == [me EXCEPT !.marker = next, !.markers = @ \cup {next},
                             !.found = found, !.pages = @ + 1]
  <2>1. /\ l.step = "list" /\ l.found = found /\ l.marker = next /\ l.starts = me.starts
        /\ l.generation = me.generation /\ l.purge = me.purge /\ l.covered = me.covered
    BY <1>1 DEF Locals
  <2>2. replica' = [replica EXCEPT ![r] = l]
    BY <1>12 DEF Local
  <2>7. l \in Locals
    <3>1. next \in Ids
      BY <1>1, <1>2, <1>12, PageFacts DEF NextMarkers
    <3>2. me.markers \cup {next} \in SUBSET Ids /\ me.pages + 1 \in Nat /\ found \in SUBSET Ids
      BY <1>1, <3>1, PageFacts DEF Locals
    <3> HIDE DEF found
    <3> QED BY <1>1, <3>1, <3>2 DEF Locals
  <2> HIDE DEF l
  <2>3. replica'[r] = l
    BY <2>2 DEF TenantInv
  <2>4. held'[r] = {id \in held[r] : MayBePurged(tenants'[id])}
    BY <1>1, <2>1, <2>3, HeldNext DEF PurgeSteps
  <2>5. FreshInv(r, l, references')
    <3>1. FreshInv(r, me, references)
      BY DEF PurgeInv
    <3> QED BY <1>1, <1>3, <2>1, <3>1 DEF FreshInv
  <2>6. HeldInv(l, held'[r], tenants')
    <3>1. \A id \in held'[r] : id \in l.found \/ id > l.marker
      BY <1>8, <1>12, <2>1, <2>4
    <3> HIDE DEF found, me
    <3> QED BY <1>4, <2>1, <2>4, <3>1 DEF HeldInv, PurgeSteps, Reported
  <2> QED BY <2>2, <2>5, <2>6, <2>7 DEF PurgeStep
<1> QED BY <1>2, <1>9, <1>10, <1>11, <1>12 DEF Repeated

LEMMA InvalidatePurges ==
  ASSUME TenantInv, PurgeInv, Observe, NEW r \in Replicas, Invalidate(r)
  PROVE  PurgeStep(r)
<1> DEFINE me == replica[r]
           id == Min(me.found)
           ref == CallerReference(r, id)
           rest == [me EXCEPT !.found = @ \ {id}, !.covered = @ \cup {id}]
<1>1. me \in Locals /\ LocalsInv(me) /\ me.step = "invalidate"
  BY Mine DEF Invalidate, At
<1>2. id \in Ids /\ id \in me.found
  <2>1. me.found # {} /\ me.found \subseteq Nat /\ me.found \subseteq Ids
    BY <1>1, IdFacts DEF LocalsInv, Locals
  <2> QED BY <2>1, MinIsThere
<1>3. FreshInv(r, me, references) /\ HeldInv(me, held[r], tenants)
  BY DEF PurgeInv
<1>4. /\ ref.process = <<r, me.starts>> /\ ref.generation = me.generation /\ ref.tenant = id
      /\ me.starts \in Nat /\ me.generation \in Nat
  BY <1>1 DEF CallerReference, Locals
<1> HIDE DEF ref
<1>5. ref \notin references
  BY <1>1, <1>2, <1>3, <1>4 DEF FreshInv
<1>6. references' = references \cup {ref} /\ UNCHANGED tenants
  BY DEF Invalidate, ref
<1>7. \/ Local(r, PurgeDone(me, "error"))
      \/ rest.found = {} /\ Local(r, PurgeDone(rest, "submitted"))
      \/ Local(r, rest)
  BY <1>5 DEF Invalidate, ref
<1>8. /\ rest \in Locals /\ rest.step = "invalidate" /\ rest.starts = me.starts
      /\ rest.generation = me.generation /\ rest.purge = me.purge
      /\ rest.found = me.found \ {id} /\ rest.covered = me.covered \cup {id}
  BY <1>1, <1>2 DEF Locals
<1> HIDE DEF rest
<1>9. \A other \in references' : \A s \in Nat : other.process = <<r, s>> =>
        s <= me.starts /\ (s = me.starts => other.generation <= me.generation)
  <2>1. \A other \in references : \A s \in Nat : other.process = <<r, s>> =>
          s <= me.starts /\ (s = me.starts => other.generation <= me.generation)
    BY <1>1, MyReferences
  <2>2. \A s \in Nat : ref.process = <<r, s>> =>
          s <= me.starts /\ (s = me.starts => ref.generation <= me.generation)
    BY <1>4
  <2> QED BY <1>6, <2>1, <2>2
<1>10. held[r] \subseteq rest.covered \cup rest.found
  BY <1>1, <1>3, <1>8 DEF HeldInv
<1>11. CASE Local(r, PurgeDone(me, "error"))
  BY <1>1, <1>9, <1>11, AfterPurge DEF Outcomes, Invalidate
<1>12. CASE rest.found = {} /\ Local(r, PurgeDone(rest, "submitted"))
  BY <1>8, <1>9, <1>10, <1>12, AfterPurge DEF Outcomes, Invalidate
<1>13. CASE Local(r, rest)
  <2>1. replica' = [replica EXCEPT ![r] = rest] /\ replica'[r] = rest
    BY <1>13 DEF Local, TenantInv
  <2>2. held'[r] = {i \in held[r] : MayBePurged(tenants'[i])}
    BY <1>1, <1>8, <2>1, HeldNext DEF PurgeSteps
  <2>3. FreshInv(r, rest, references')
    <3>1. \A s \in Nat : ref.process = <<r, s>> =>
            /\ s <= rest.starts /\ ref.generation <= rest.generation /\ ref.tenant \notin rest.found
      BY <1>4, <1>8
    <3>2. FreshInv(r, rest, references)
      BY <1>1, <1>3, <1>8 DEF FreshInv
    <3> QED BY <1>6, <1>8, <3>1, <3>2 DEF FreshInv
  <2>4. HeldInv(rest, held'[r], tenants')
    <3>1. rest.purge = "none"
      BY <1>1, <1>3, <1>8 DEF HeldInv, PurgeSteps
    <3> QED BY <1>8, <1>10, <2>2, <3>1 DEF HeldInv, PurgeSteps, Reported
  <2> QED BY <1>8, <2>1, <2>3, <2>4 DEF PurgeStep
<1> QED BY <1>7, <1>11, <1>12, <1>13

LEMMA CallPurges ==
  ASSUME TenantInv, PurgeInv, Observe, NEW r \in Replicas, Call(r)
  PROVE  PurgeStep(r)
<1>1. CASE replica[r].step \in OnHost
  <2>1. SamePurge(replica[r], replica'[r])
    BY <1>1, HostStepSame
  <2>2. PICK l \in Locals : replica' = [replica EXCEPT ![r] = l]
    BY CallIsStep DEF CallStep
  <2>3. replica'[r] = l
    BY <2>2 DEF TenantInv
  <2>4. UNCHANGED references
    BY <1>1 DEF Call, ListPage, Invalidate, Lookup, Certificate, Create, Current, Update,
       CallFails, At, OnHost, OnTenant
  <2> QED BY <2>1, <2>2, <2>3, <2>4, SamePurgeStep
<1>2. CASE ListPage(r)
  BY <1>2, ListPagePurges
<1>3. CASE Invalidate(r)
  BY <1>3, InvalidatePurges
<1>4. CASE CallFails(r) /\ (At(r, "list") \/ At(r, "invalidate"))
  <2>1. replica[r] \in Locals /\ replica[r].step # "down" /\ UNCHANGED references
    BY <1>4, Mine DEF CallFails, At
  <2>2. Local(r, PurgeDone(replica[r], "error"))
    BY <1>4 DEF CallFails
  <2> QED BY <1>4, <2>1, <2>2, MyReferences, AfterPurge DEF Outcomes
<1>5. CASE CallFails(r) /\ ~(At(r, "list") \/ At(r, "invalidate"))
  <2>1. replica[r].step \in Steps
    BY Mine DEF Locals
  <2> QED BY <1>1, <1>5, <2>1 DEF CallFails, At, Steps
<1>6. Lookup(r) \/ Certificate(r) \/ Create(r) \/ Current(r) \/ Update(r) =>
        replica[r].step \in OnHost
  BY DEF Lookup, Certificate, Create, Current, Update, At, OnHost, OnTenant
<1> QED BY <1>1, <1>2, <1>3, <1>4, <1>5, <1>6 DEF Call

(* A purge begins.                                                          *)
LEMMA PurgeBegins ==
  ASSUME TenantInv, Observe, NEW r \in Replicas, replica[r].step \notin PurgeSteps,
         NEW m \in Locals, m.marker = 0, Local(r, Purging(m)),
         \A ref \in references' : ref.generation \in Nat,
         \A ref \in references' : \A s \in Nat : ref.process = <<r, s>> =>
           s <= m.starts /\ (s = m.starts => ref.generation < m.generation)
  PROVE  PurgeStep(r)
<1> DEFINE l == Purging(m)
<1>1. /\ l \in Locals /\ l.step = "list" /\ l.covered = {} /\ l.purge = "none"
      /\ l.starts = m.starts /\ l.generation = m.generation /\ l.marker = 0
  BY PurgingFields
<1>2. replica' = [replica EXCEPT ![r] = l]
  BY DEF Local
<1> HIDE DEF l
<1>3. replica'[r] = l
  BY <1>2 DEF TenantInv
<1>4. held'[r] = {id \in Ids : MayBePurged(tenants'[id])}
  BY <1>1, <1>3, HeldNext DEF PurgeSteps
<1>5. \A id \in Ids : id > 0
  BY TenantAssumption
<1>6. \A ref \in references' : \A s \in Nat : ref.process = <<r, s>> /\ s = l.starts =>
        ref.generation <= l.generation /\ ref.generation # l.generation
  <2>1. l.generation \in Nat
    BY <1>1 DEF Locals
  <2>2. \A ref \in references' : \A s \in Nat : ref.process = <<r, s>> /\ s = l.starts =>
          ref.generation < l.generation
    BY <1>1
  <2> QED BY <2>1, <2>2
<1>7. FreshInv(r, l, references')
  BY <1>1, <1>6 DEF FreshInv
<1>8. HeldInv(l, held'[r], tenants')
  BY <1>1, <1>4, <1>5 DEF HeldInv, PurgeSteps, Reported
<1> QED BY <1>1, <1>2, <1>7, <1>8 DEF PurgeStep

(* A process that is not purging, and has nothing to report of a purge.     *)
LEMMA NothingReported ==
  ASSUME TenantInv, Observe, NEW r \in Replicas, NEW l \in Locals,
         replica' = [replica EXCEPT ![r] = l],
         l.step \notin PurgeSteps, l.purge = "none", l.marker = 0,
         FreshInv(r, l, references')
  PROVE  PurgeStep(r)
<1>1. HeldInv(l, held'[r], tenants')
  BY DEF HeldInv, PurgeSteps, Reported
<1> QED BY <1>1 DEF PurgeStep

LEMMA StartPurges ==
  ASSUME TenantInv, PurgeInv, Observe, NEW r \in Replicas, Start(r)
  PROVE  PurgeStep(r)
<1> DEFINE me == replica[r]
           n == me.starts + 1
           fresh == [Down EXCEPT !.starts = n, !.generation = 1]
<1>1. me \in Locals /\ me.step = "down" /\ me.starts \in Nat /\ n \in Nat
  BY Mine DEF Start, At, Locals
<1>2. /\ fresh \in Locals /\ fresh.starts = n /\ fresh.generation = 1
      /\ fresh.marker = 0 /\ fresh.purge = "none"
  <2>1. Down \in Locals /\ Down.marker = 0 /\ Down.purge = "none"
    BY DownFields DEF Down
  <2>2. \A d \in Locals, s \in Nat :
          LET x == [d EXCEPT !.starts = s, !.generation = 1]
          IN  /\ x \in Locals /\ x.starts = s /\ x.generation = 1
              /\ x.marker = d.marker /\ x.purge = d.purge
    BY DEF Locals
  <2> HIDE DEF Down, n
  <2> QED BY <1>1, <2>1, <2>2
<1> HIDE DEF fresh
<1>3. \A ref \in references : \A s \in Nat : ref.process = <<r, s>> => s <= me.starts
  BY DEF PurgeInv, FreshInv
<1>4. references' = references /\ \A ref \in references : ref.generation \in Nat
  BY DEF Start, PurgeInv
<1>5. \A ref \in references' : \A s \in Nat : ref.process = <<r, s>> => s <= n /\ s # n
  BY <1>1, <1>3, <1>4
<1>6. CASE Local(r, Purging(fresh))
  <2>1. me.step \notin PurgeSteps
    BY <1>1 DEF PurgeSteps
  <2> QED BY <1>2, <1>4, <1>5, <1>6, <2>1, PurgeBegins
<1>7. CASE Local(r, Reconciling(fresh))
  <2> DEFINE l == Reconciling(fresh)
  <2>1. /\ l \in Locals /\ l.starts = n /\ l.generation = 1 /\ l.purge = "none"
        /\ l.step \in {"ready", "lookup"}
    BY <1>2, ReconcilingFields
  <2>2. l.marker = 0
    BY <1>2 DEF Reconciling, Locals
  <2>3. replica' = [replica EXCEPT ![r] = l]
    BY <1>7 DEF Local
  <2> HIDE DEF l
  <2>4. FreshInv(r, l, references')
    BY <1>5, <2>1 DEF FreshInv
  <2>5. l.step \notin PurgeSteps
    BY <2>1 DEF PurgeSteps
  <2> QED BY <2>1, <2>2, <2>3, <2>4, <2>5, NothingReported
<1> QED BY <1>6, <1>7 DEF Start, fresh

LEMMA ActivatePurges ==
  ASSUME TenantInv, PurgeInv, Observe, NEW r \in Replicas, Activate(r)
  PROVE  PurgeStep(r)
<1> DEFINE me == replica[r]
           next == [me EXCEPT !.generation = @ + 1]
<1>1. me \in Locals /\ me.step = "ready" /\ me.generation \in Nat
  BY Mine DEF Activate, At
<1>2. me.step \notin PurgeSteps /\ me.marker = 0
  BY <1>1 DEF PurgeInv, HeldInv, PurgeSteps
<1>3. /\ next \in Locals /\ next.starts = me.starts /\ next.generation = me.generation + 1
      /\ next.marker = me.marker
  BY <1>1 DEF Locals
<1>4. Local(r, Purging(next))
  BY DEF Activate
<1> HIDE DEF next
<1>5. references' = references /\ \A ref \in references : ref.generation \in Nat
  BY DEF Activate, PurgeInv
<1>6. \A ref \in references' : \A s \in Nat : ref.process = <<r, s>> =>
        s <= next.starts /\ (s = next.starts => ref.generation < next.generation)
  BY <1>1, <1>3, <1>5, MyReferences
<1> QED BY <1>2, <1>3, <1>4, <1>5, <1>6, PurgeBegins

LEMMA CrashPurges ==
  ASSUME TenantInv, PurgeInv, Observe, NEW r \in Replicas, Crash(r)
  PROVE  PurgeStep(r)
<1> DEFINE l == Halted(r)
<1>1. l \in Locals /\ l.step = "down" /\ l.purge = "none"
  BY HaltedFields
<1>2. l.marker = 0 /\ l.starts = replica[r].starts
  BY DEF Halted, Down
<1>3. replica' = [replica EXCEPT ![r] = l] /\ references' = references
  BY DEF Crash, Local, Halted
<1> HIDE DEF l
<1>4. FreshInv(r, l, references')
  BY <1>1, <1>2, <1>3 DEF PurgeInv, FreshInv
<1> QED BY <1>1, <1>2, <1>3, <1>4, NothingReported DEF PurgeSteps

(* The other processes, and an operator, at most take tenants away.         *)
LEMMA OthersPurge ==
  ASSUME TenantInv, PurgeInv, Observe, NEW r \in Replicas, replica'[r] = replica[r],
         \A ref \in references' \ references : \A s : ref.process # <<r, s>>
  PROVE  /\ FreshInv(r, replica'[r], references')
         /\ HeldInv(replica'[r], held'[r], tenants')
<1>1. FreshInv(r, replica[r], references) /\ HeldInv(replica[r], held[r], tenants)
  BY DEF PurgeInv
<1>2. FreshInv(r, replica'[r], references')
  BY <1>1 DEF FreshInv
<1>3. CASE replica[r].step \in PurgeSteps
  <2>1. held'[r] = {id \in held[r] : MayBePurged(tenants'[id])}
    BY <1>3, HeldNext
  <2>2. replica[r].purge = "none"
    BY <1>1, <1>3 DEF HeldInv
  <2> QED BY <1>1, <1>2, <1>3, <2>1, <2>2 DEF HeldInv, Reported
<1>4. CASE replica[r].step \notin PurgeSteps
  <2>1. replica[r].purge \in Reported => held'[r] = held[r]
    BY <1>4, HeldNext
  <2> QED BY <1>1, <1>2, <1>4, <2>1 DEF HeldInv, PurgeSteps
<1> QED BY <1>3, <1>4

LEMMA NewReferences ==
  ASSUME TenantInv, PurgeInv, TenantNext
  PROVE  /\ \A ref \in references' : ref.generation \in Nat
         /\ \/ /\ replica' = replica /\ references' = references
            \/ \E r \in Replicas :
                 /\ PurgeStep(r)
                 /\ \A ref \in references' \ references : ref.process = <<r, replica[r].starts>>
<1>1. Observe
  BY DEF TenantNext
<1>2. \A ref \in references : ref.generation \in Nat
  BY DEF PurgeInv
<1>3. ASSUME NEW r \in Replicas, Call(r)
      PROVE  /\ PurgeStep(r)
             /\ \A ref \in references' \ references :
                  ref.process = <<r, replica[r].starts>> /\ ref.generation \in Nat
  <2>1. PurgeStep(r)
    BY <1>1, <1>3, CallPurges
  <2>2. replica[r].generation \in Nat
    BY Mine
  <2>3. CASE Invalidate(r)
    BY <2>1, <2>2, <2>3 DEF Invalidate, CallerReference
  <2>4. CASE ~Invalidate(r)
    <3>1. references' = references
      BY <1>3, <2>4 DEF Call, ListPage, Lookup, Certificate, Create, Current, Update, CallFails
    <3> QED BY <2>1, <3>1
  <2> QED BY <2>3, <2>4
<1>4. ASSUME NEW r \in Replicas, Start(r) \/ Activate(r) \/ Crash(r)
      PROVE  PurgeStep(r) /\ references' = references
  BY <1>1, <1>4, StartPurges, ActivatePurges, CrashPurges DEF Start, Activate, Crash
<1>5. CASE OperatorEdits
  BY <1>2, <1>5 DEF OperatorEdits
<1>6. ASSUME NEW r \in Replicas, Call(r) \/ Start(r) \/ Activate(r) \/ Crash(r)
      PROVE  /\ \A ref \in references' : ref.generation \in Nat
             /\ PurgeStep(r)
             /\ \A ref \in references' \ references : ref.process = <<r, replica[r].starts>>
  BY <1>2, <1>3, <1>4, <1>6
<1> QED BY <1>5, <1>6, <1>2 DEF TenantNext, OperatorEdits

LEMMA PurgeInvStep ==
  TenantInv /\ PurgeInv /\ [TenantNext]_tenantVars => PurgeInv'
<1> SUFFICES ASSUME TenantInv, PurgeInv, [TenantNext]_tenantVars
             PROVE  PurgeInv'
  OBVIOUS
<1>1. CASE UNCHANGED tenantVars
  BY <1>1 DEF PurgeInv, tenantVars, FreshInv, HeldInv, MayBePurged
<1>2. CASE TenantNext
  <2>1. Observe
    BY <1>2 DEF TenantNext
  <2>2. ASSUME NEW q \in Replicas
        PROVE  FreshInv(q, replica'[q], references') /\ HeldInv(replica'[q], held'[q], tenants')
    <3>1. CASE replica' = replica /\ references' = references
      BY <2>1, <3>1, OthersPurge
    <3>2. ASSUME NEW r \in Replicas, PurgeStep(r),
                 \A ref \in references' \ references : ref.process = <<r, replica[r].starts>>
          PROVE  FreshInv(q, replica'[q], references') /\ HeldInv(replica'[q], held'[q], tenants')
      <4>1. PICK l \in Locals : /\ replica' = [replica EXCEPT ![r] = l]
                                /\ FreshInv(r, l, references') /\ HeldInv(l, held'[r], tenants')
        BY <3>2 DEF PurgeStep
      <4>2. replica'[q] = IF q = r THEN l ELSE replica[q]
        BY <4>1 DEF TenantInv
      <4>3. CASE q = r
        BY <4>1, <4>2, <4>3
      <4>4. CASE q # r
        <5>1. replica'[q] = replica[q]
          BY <4>2, <4>4
        <5>2. \A ref \in references' \ references : \A s : ref.process # <<q, s>>
          BY <3>2, <4>4
        <5> QED BY <2>1, <5>1, <5>2, OthersPurge
      <4> QED BY <4>3, <4>4
    <3> QED BY <1>2, <3>1, <3>2, NewReferences
  <2> QED BY <1>2, <2>2, NewReferences DEF PurgeInv
<1> QED BY <1>1, <1>2

LEMMA PurgeInvInit ==
  TenantInit => PurgeInv
<1>1. Down.step = "down" /\ Down.purge = "none" /\ Down.marker = 0
  BY DEF Down
<1> QED BY <1>1 DEF TenantInit, PurgeInv, FreshInv, HeldInv, PurgeSteps, Reported

(* A purge reported without an error has started a new invalidation for     *)
(* every tenant that matched from its beginning to its end: none is lost    *)
(* between two pages, and no caller reference is one used before.           *)
THEOREM PurgesReachEveryTenant ==
  CdnSpec => []PurgeReachesTenants
<1>1. PurgeInv => PurgeReachesTenants
  BY DEF PurgeInv, HeldInv, PurgeReachesTenants, Reported
<1>2. TenantSpec => []TenantInv
  BY TenantInvInit, TenantInvStep, PTL DEF TenantSpec
<1>3. TenantSpec /\ []TenantInv => []PurgeInv
  BY PurgeInvInit, PurgeInvStep, PTL DEF TenantSpec
<1> QED BY <1>1, <1>2, <1>3, StartsReconcileTenants, PTL

------------------------------------------------------------------------------
(* Reconciliations.                                                         *)

(* A tenant serves a host; a tenant that was found as configured.           *)
Serves(t, host) ==
  /\ t # NoTenant /\ Adoptable(t, host) /\ t.enabled /\ t.settings = "configured"
  /\ Managed => t.certificate = "wanted"
IsServed(given, host) == \E id \in Ids : Serves(given[id], host)
Settled(t, host) ==
  t # NoTenant /\ Adoptable(t, host) /\ t.enabled /\ t.settings = "configured"

(* The hosts that are done are served, and what is known of the host at     *)
(* hand is still so.                                                        *)
ServedInv(l, given) ==
  /\ l.step \in OnHost \/ l.domains = "submitted" =>
       \A host \in Hosts \ ToSet(l.todo) : IsServed(given, host)
  /\ l.step = "certificate" /\ ~l.drifted => Settled(given[l.id], Head(l.todo))
  /\ l.step \in {"current", "update"} /\ l.certified /\ Managed =>
       given[l.id] # NoTenant /\ given[l.id].certificate = "wanted"

ReconcileInv == \A r \in Replicas : ~meddled[r] => ServedInv(replica[r], tenants)

(* What a write of RenderMesh may do to the tenants that exist.             *)
Improves ==
  \A id \in Ids : tenants[id] # NoTenant =>
    \/ tenants'[id] = tenants[id]
    \/ /\ tenants'[id] # NoTenant
       /\ \E host : Adoptable(tenants[id], host) /\ Adoptable(tenants'[id], host)
       /\ tenants'[id].enabled /\ tenants'[id].settings = "configured"
       /\ tenants[id].certificate = "wanted" => tenants'[id].certificate = "wanted"

LEMMA SettledWhenMerged ==
  ASSUME NEW t \in Tenant, Merged(t) = t, NEW host, Adoptable(t, host)
  PROVE  Settled(t, host)
<1>1. Merged(t).settings = "configured" /\ Merged(t).enabled = TRUE
  BY DEF Merged, Tenant
<1>2. t.settings = "configured" /\ t.enabled
  BY <1>1
<1> QED BY <1>2, TenantAssumption DEF Settled

LEMMA OneHost ==
  ASSUME NEW t, NEW u, NEW g, NEW h, Adoptable(t, g), Adoptable(t, h), Adoptable(u, g)
  PROVE  Adoptable(u, h)
BY DEF Adoptable

LEMMA ServesAfter ==
  ASSUME Improves, NEW id \in Ids, NEW host
  PROVE  /\ Serves(tenants[id], host) => Serves(tenants'[id], host)
         /\ Settled(tenants[id], host) => Settled(tenants'[id], host)
BY OneHost DEF Improves, Serves, Settled

LEMMA ServedAfter ==
  ASSUME TenantInv, Improves, NEW r \in Replicas, ServedInv(replica[r], tenants)
  PROVE  ServedInv(replica[r], tenants')
<1> DEFINE l == replica[r]
<1>1. \A host : IsServed(tenants, host) => IsServed(tenants', host)
  BY ServesAfter DEF IsServed
<1>2. l.step \in OnTenant => l.id \in Ids
  BY Mine DEF LocalsInv
<1>3. l.step = "certificate" /\ ~l.drifted => Settled(tenants'[l.id], Head(l.todo))
  BY <1>2, ServesAfter DEF ServedInv, OnTenant
<1>4. l.step \in {"current", "update"} /\ l.certified /\ Managed =>
        tenants'[l.id] # NoTenant /\ tenants'[l.id].certificate = "wanted"
  BY <1>2 DEF ServedInv, OnTenant, Improves
<1> QED BY <1>1, <1>3, <1>4 DEF ServedInv

LEMMA WritesImprove ==
  ASSUME TenantInv, TenantNext, edits' = edits
  PROVE  Improves
<1>1. CASE tenants' = tenants
  BY <1>1 DEF Improves
<1>2. ASSUME NEW r \in Replicas, CreatesTenant(r)
      PROVE  Improves
  BY <1>2, CreatedStands DEF Improves, Exists
<1>3. ASSUME NEW r \in Replicas, UpdatesTenant(r)
      PROVE  Improves
  <2> DEFINE w == Written(replica[r], lastETag + 1)
             i == replica[r].id
  <2>1. /\ i \in Ids /\ w \in Tenant
        /\ Adoptable(tenants[i], Head(replica[r].todo)) /\ Adoptable(w, Head(replica[r].todo))
        /\ w.settings = "configured" /\ w.enabled
        /\ w.certificate = IF replica[r].certified THEN tenants[i].certificate ELSE "wanted"
    BY <1>3, WriteFields
  <2>2. \A id \in Ids : tenants'[id] = IF id = i THEN w ELSE tenants[id]
    BY <1>3, UpdatedStands
  <2>3. w # NoTenant
    BY <2>1, TenantAssumption
  <2> HIDE DEF w, i
  <2> QED BY <2>1, <2>2, <2>3 DEF Improves
<1> QED BY <1>1, <1>2, <1>3, OnlyTwoWrites

(* A host is done.                                                          *)
LEMMA HandledServes ==
  ASSUME NEW l \in Locals, LocalsInv(l), l.step \in OnHost, NEW given, ServedInv(l, given),
         IsServed(given, Head(l.todo)), NEW count \in Counts
  PROVE  ServedInv(Handled(l, count), given)
<1>1. l.todo \in Seq(Hosts) /\ l.todo # << >>
  BY DEF Locals, LocalsInv
<1> DEFINE h == Handled(l, count)
<1>2. h.step \in {"ready", "lookup"} /\ h.todo = Tail(l.todo)
  BY <1>1, HandledFields
<1> HIDE DEF h
<1>3. ToSet(l.todo) \ ToSet(Tail(l.todo)) \subseteq {Head(l.todo)}
  BY <1>1, TailFacts
<1>4. \A host \in Hosts \ ToSet(l.todo) : IsServed(given, host)
  BY DEF ServedInv
<1>5. \A host \in Hosts \ ToSet(h.todo) : IsServed(given, host)
  BY <1>2, <1>3, <1>4
<1> QED BY <1>2, <1>5 DEF ServedInv, h

LEMMA FailedServes ==
  ASSUME NEW l \in Locals, NEW given
  PROVE  ServedInv(Failed(l), given)
BY FailedFields DEF ServedInv, OnHost, OnTenant

(* The comparison of what was found.                                        *)
LEMMA DecideServes ==
  ASSUME NEW l \in Locals, LocalsInv(l), l.step = "certificate", l.id \in Ids,
         NEW given, ServedInv(l, given),
         l.certified /\ Managed => given[l.id] # NoTenant /\ given[l.id].certificate = "wanted"
  PROVE  ServedInv(Decide(l), given)
<1>1. CASE ~l.drifted /\ l.certified
  <2>1. Serves(given[l.id], Head(l.todo))
    BY <1>1 DEF ServedInv, Settled, Serves
  <2>2. IsServed(given, Head(l.todo))
    BY <2>1 DEF IsServed
  <2> QED BY <1>1, <2>2, HandledServes DEF Decide, OnHost, OnTenant, Counts
<1>2. CASE ~(~l.drifted /\ l.certified)
  <2> DEFINE again == [l EXCEPT !.step = "current"]
  <2>1. /\ again.step = "current" /\ again.todo = l.todo /\ again.id = l.id
        /\ again.certified = l.certified
    BY DEF Locals
  <2>2. Decide(l) = again
    BY <1>2 DEF Decide
  <2> HIDE DEF again
  <2> QED BY <2>1, <2>2 DEF ServedInv, OnHost, OnTenant
<1> QED BY <1>1, <1>2

(* Every call, seen from the tenants it leaves behind.                      *)
LEMMA LookupServes ==
  ASSUME TenantInv, NEW r \in Replicas, Lookup(r), ServedInv(replica[r], tenants)
  PROVE  ServedInv(replica'[r], tenants')
<1> DEFINE me == replica[r]
<1>1. me \in Locals /\ me.step = "lookup" /\ tenants' = tenants /\ LocalsInv(me)
  BY Mine DEF Lookup, At
<1>2. \A l : Local(r, l) => replica'[r] = l
  BY DEF Local, TenantInv
<1>3. CASE Local(r, [me EXCEPT !.step = "create"])
  <2> DEFINE l == [me EXCEPT !.step = "create"]
  <2>1. l.step = "create" /\ l.todo = me.todo
    BY <1>1 DEF Locals
  <2>2. replica'[r] = l
    BY <1>2, <1>3
  <2> HIDE DEF l
  <2> QED BY <1>1, <2>1, <2>2 DEF ServedInv, OnHost, OnTenant
<1>4. CASE Local(r, Failed(me))
  BY <1>1, <1>2, <1>4, FailedServes
<1>5. ASSUME NEW id \in Ids, Exists(id), Adoptable(tenants[id], Head(me.todo)),
             \/ Managed /\ Local(r, Observed(r, id))
             \/ ~Managed /\ Local(r, Decide(Observed(r, id)))
      PROVE  ServedInv(replica'[r], tenants')
  <2> DEFINE l == Observed(r, id)
  <2>1. /\ l \in Locals /\ LocalsInv(l) /\ l.step = "certificate" /\ l.id = id
        /\ l.drifted = (Merged(tenants[id]) # tenants[id]) /\ l.certified = ~Managed
        /\ l.todo = me.todo
    BY <1>1, ObservedFields DEF Lookup
  <2> HIDE DEF l
  <2>2. tenants[id] \in Tenant
    BY <1>5 DEF TenantInv, Exists
  <2>3. ~l.drifted => Settled(tenants[id], Head(me.todo))
    BY <1>5, <2>1, <2>2, SettledWhenMerged
  <2>4. ServedInv(l, tenants)
    BY <1>1, <2>1, <2>3 DEF ServedInv, OnHost, OnTenant
  <2>5. CASE Local(r, l)
    BY <1>1, <1>2, <2>4, <2>5
  <2>6. CASE ~Managed /\ Local(r, Decide(l))
    BY <1>1, <1>2, <2>1, <2>4, <2>6, DecideServes
  <2> QED BY <1>5, <2>5, <2>6 DEF l
<1>6. \/ Local(r, [me EXCEPT !.step = "create"]) \/ Local(r, Failed(me))
      \/ \E id \in Ids : /\ Exists(id) /\ Adoptable(tenants[id], Head(me.todo))
                        /\ \/ Managed /\ Local(r, Observed(r, id))
                           \/ ~Managed /\ Local(r, Decide(Observed(r, id)))
  BY DEF Lookup, Owners, Observed
<1> QED BY <1>3, <1>4, <1>5, <1>6

LEMMA CertificateServes ==
  ASSUME TenantInv, NEW r \in Replicas, Certificate(r), ServedInv(replica[r], tenants)
  PROVE  ServedInv(replica'[r], tenants')
<1> DEFINE me == replica[r]
           c == tenants[me.id].certificate = "wanted"
           l == [me EXCEPT !.certified = c]
<1>1. /\ me \in Locals /\ me.step = "certificate" /\ tenants' = tenants /\ LocalsInv(me)
      /\ me.id \in Ids
  BY Mine DEF Certificate, At, LocalsInv, OnTenant
<1>2. \A x : Local(r, x) => replica'[r] = x
  BY DEF Local, TenantInv
<1>3. CASE Local(r, Failed(me))
  BY <1>1, <1>2, <1>3, FailedServes
<1>4. CASE Exists(me.id) /\ Local(r, Decide(l))
  <2>1. c \in BOOLEAN
    OBVIOUS
  <2>2. ASSUME NEW b \in BOOLEAN
        PROVE  LET x == [me EXCEPT !.certified = b]
               IN  /\ x \in Locals /\ x.step = me.step /\ x.id = me.id /\ x.todo = me.todo
                   /\ x.generation = me.generation /\ x.domains = me.domains /\ x.purge = me.purge
                   /\ x.found = me.found /\ x.tally = me.tally /\ x.drifted = me.drifted
                   /\ x.pages = me.pages /\ x.markers = me.markers /\ x.certified = b
    BY <1>1 DEF Locals
  <2>3. /\ l \in Locals /\ l.step = me.step /\ l.id = me.id /\ l.todo = me.todo
        /\ l.generation = me.generation /\ l.domains = me.domains /\ l.purge = me.purge
        /\ l.found = me.found /\ l.tally = me.tally /\ l.drifted = me.drifted
        /\ l.pages = me.pages /\ l.markers = me.markers /\ l.certified = c
    BY <2>1, <2>2
  <2>4. replica'[r] = Decide(l)
    BY <1>2, <1>4
  <2> HIDE DEF l, c, me
  <2>5. LocalsInv(l)
    BY <1>1, <2>3 DEF LocalsInv, OnHost, OnTenant
  <2>6. ServedInv(l, tenants)
    BY <1>1, <2>3 DEF ServedInv, OnHost, OnTenant, me
  <2>7. l.certified => tenants[l.id] # NoTenant /\ tenants[l.id].certificate = "wanted"
    BY <1>4, <2>3 DEF c, Exists
  <2> QED BY <1>1, <2>3, <2>4, <2>5, <2>6, <2>7, DecideServes
<1> QED BY <1>3, <1>4 DEF Certificate

LEMMA CreateServes ==
  ASSUME TenantInv, NEW r \in Replicas, Create(r), ServedInv(replica[r], tenants')
  PROVE  ServedInv(replica'[r], tenants')
<1> DEFINE me == replica[r]
           host == Head(me.todo)
           t == Created(host, lastETag + 1)
<1>1. me \in Locals /\ LocalsInv(me) /\ me.step = "create"
  BY Mine DEF Create, At
<1>2. \A x : Local(r, x) => replica'[r] = x
  BY DEF Local, TenantInv
<1>3. CASE Local(r, Failed(me))
  BY <1>1, <1>2, <1>3, FailedServes
<1>4. CASE CreatesTenant(r) /\ Local(r, Handled(me, "added"))
  <2>1. PICK id \in Ids : tenants'[id] = t
    BY <1>4 DEF CreatesTenant, TenantInv
  <2>2. t \in Tenant
    BY <1>1, HostAtHand, CreatedType DEF OnHost, TenantInv
  <2>3. Serves(t, host)
    <3>1. t # NoTenant
      BY <2>2, TenantAssumption
    <3>2. t.distribution = "configured" /\ t.domains = {host} /\ t.enabled = TRUE
          /\ t.settings = "configured" /\ (Managed => t.certificate = "wanted")
      BY DEF Created
    <3> QED BY <3>1, <3>2 DEF Serves, Adoptable
  <2>4. IsServed(tenants', host)
    BY <2>1, <2>3 DEF IsServed
  <2> QED BY <1>1, <1>2, <1>4, <2>4, HandledServes DEF OnHost, Counts
<1> QED BY <1>3, <1>4, CreateCases DEF CreatesTenant

LEMMA CurrentServes ==
  ASSUME TenantInv, NEW r \in Replicas, Current(r), ServedInv(replica[r], tenants)
  PROVE  ServedInv(replica'[r], tenants')
<1> DEFINE me == replica[r]
           now == tenants[me.id]
           l == [me EXCEPT !.step = "update", !.seen = now]
<1>1. /\ me \in Locals /\ me.step = "current" /\ tenants' = tenants /\ LocalsInv(me)
      /\ me.id \in Ids
  BY Mine DEF Current, At, LocalsInv, OnTenant
<1>2. \A x : Local(r, x) => replica'[r] = x
  BY DEF Local, TenantInv
<1>3. CASE Local(r, Failed(me))
  BY <1>1, <1>2, <1>3, FailedServes
<1>4. CASE /\ Exists(me.id) /\ Adoptable(now, Head(me.todo)) /\ Merged(now) = now /\ me.certified
           /\ Local(r, Handled(me, "unchanged"))
  <2>1. now \in Tenant
    BY <1>1, <1>4 DEF TenantInv, Exists
  <2>2. Settled(now, Head(me.todo))
    BY <1>4, <2>1, SettledWhenMerged
  <2>3. Managed => now.certificate = "wanted"
    BY <1>1, <1>4 DEF ServedInv
  <2>4. IsServed(tenants, Head(me.todo))
    BY <1>1, <2>2, <2>3 DEF IsServed, Serves, Settled
  <2> QED BY <1>1, <1>2, <1>4, <2>4, HandledServes DEF OnHost, OnTenant, Counts
<1>5. CASE Local(r, l)
  <2>1. /\ l.step = "update" /\ l.todo = me.todo /\ l.id = me.id /\ l.certified = me.certified
        /\ l.domains = me.domains
    BY <1>1 DEF Locals
  <2>2. replica'[r] = l
    BY <1>2, <1>5
  <2> HIDE DEF l
  <2> QED BY <1>1, <2>1, <2>2 DEF ServedInv, OnHost, OnTenant
<1> QED BY <1>3, <1>4, <1>5 DEF Current, StillAdoptable

LEMMA UpdateServes ==
  ASSUME TenantInv, NEW r \in Replicas, Update(r), ServedInv(replica[r], tenants),
         ServedInv(replica[r], tenants')
  PROVE  ServedInv(replica'[r], tenants')
<1> DEFINE me == replica[r]
           w == Written(me, lastETag + 1)
<1>1. me \in Locals /\ LocalsInv(me) /\ me.step = "update"
  BY Mine DEF Update, At
<1>2. \A x : Local(r, x) => replica'[r] = x
  BY DEF Local, TenantInv
<1>3. CASE Local(r, Failed(me))
  BY <1>1, <1>2, <1>3, FailedServes
<1>4. CASE UpdatesTenant(r) /\ Local(r, Handled(me, "updated"))
  <2>1. /\ me.id \in Ids /\ w \in Tenant /\ Adoptable(w, Head(me.todo))
        /\ w.settings = "configured" /\ w.enabled
        /\ w.certificate = IF me.certified THEN tenants[me.id].certificate ELSE "wanted"
    BY <1>4, WriteFields
  <2>2. tenants'[me.id] = w
    BY <1>4, <2>1, UpdatedStands
  <2> HIDE DEF w
  <2>3. Managed => w.certificate = "wanted"
    BY <1>1, <2>1 DEF ServedInv
  <2>4. IsServed(tenants', Head(me.todo))
    BY <2>1, <2>2, <2>3, TenantAssumption DEF IsServed, Serves
  <2> QED BY <1>1, <1>2, <1>4, <2>4, HandledServes DEF OnHost, OnTenant, Counts
<1> QED BY <1>3, <1>4, UpdateCases DEF UpdatesTenant

(* A process that purges keeps what it had submitted; one that begins to    *)
(* reconcile has every host to do.                                          *)
LEMMA KeepsServing ==
  ASSUME NEW l, NEW m, NEW given, ServedInv(l, given), m.domains = l.domains, m.todo = l.todo,
         m.step \notin OnHost
  PROVE  ServedInv(m, given)
BY DEF ServedInv, OnHost, OnTenant

LEMMA BeginsToServe ==
  ASSUME NEW m, NEW given, m.todo = HostOrder, m.step \notin OnTenant
  PROVE  ServedInv(m, given)
BY HostFacts DEF ServedInv, OnTenant

LEMMA PurgeDoneServes ==
  ASSUME NEW l \in Locals, NEW m \in Locals, NEW given, ServedInv(l, given),
         m.domains = l.domains, m.todo = l.todo, NEW outcome \in Outcomes
  PROVE  ServedInv(PurgeDone(m, outcome), given)
<1> DEFINE done == PurgeDone(m, outcome)
<1>1. IF m.generation = 1
        THEN done.step \in {"ready", "lookup"} /\ done.todo = HostOrder
        ELSE done.step = "ready" /\ done.domains = m.domains /\ done.todo = m.todo
  BY PurgeDoneFields
<1> HIDE DEF done
<1>2. CASE m.generation = 1
  BY <1>1, <1>2, BeginsToServe DEF done, OnTenant
<1>3. CASE m.generation # 1
  BY <1>1, <1>3, KeepsServing DEF done, OnHost, OnTenant
<1> QED BY <1>2, <1>3

LEMMA PurgeServes ==
  ASSUME TenantInv, NEW r \in Replicas, ListPage(r) \/ Invalidate(r),
         ServedInv(replica[r], tenants')
  PROVE  ServedInv(replica'[r], tenants')
<1> DEFINE me == replica[r]
<1>1. me \in Locals
  BY Mine
<1>2. \A x : Local(r, x) => replica'[r] = x
  BY DEF Local, TenantInv
<1>3. \A outcome \in Outcomes : ServedInv(PurgeDone(me, outcome), tenants')
  BY <1>1, PurgeDoneServes
<1>4. CASE ListPage(r)
  <2> DEFINE next(x) == [me EXCEPT !.marker = x[1], !.markers = @ \cup {x[1]},
                                   !.found = x[2], !.pages = @ + 1]
             last(f) == [me EXCEPT !.step = "invalidate", !.found = f, !.pages = 0]
  <2>1. \A x : /\ next(x).step = me.step /\ next(x).domains = me.domains
               /\ next(x).todo = me.todo
    BY <1>1 DEF Locals
  <2>2. \A f : /\ last(f).step = "invalidate" /\ last(f).domains = me.domains
               /\ last(f).todo = me.todo
    BY <1>1 DEF Locals
  <2>3. me.step = "list"
    BY <1>4 DEF ListPage, At
  <2>4. \/ \E outcome \in Outcomes : replica'[r] = PurgeDone(me, outcome)
        \/ \E f : replica'[r] = last(f)
        \/ \E n, f : replica'[r] = next(<<n, f>>)
    BY <1>2, <1>4 DEF ListPage, Outcomes
  <2>5. \A x : ServedInv(next(x), tenants')
    <3> HIDE DEF next, me
    <3> QED BY <2>1, <2>3, KeepsServing DEF OnHost, OnTenant, me
  <2>6. \A f : ServedInv(last(f), tenants')
    <3> HIDE DEF last, me
    <3> QED BY <2>2, KeepsServing DEF OnHost, OnTenant, me
  <2> HIDE DEF next, last
  <2> QED BY <1>3, <2>4, <2>5, <2>6
<1>5. CASE Invalidate(r)
  <2> DEFINE rest(f, c) == [me EXCEPT !.found = f, !.covered = c]
             f == me.found \ {Min(me.found)}
  <2>1. me.step = "invalidate"
    BY <1>5 DEF Invalidate, At
  <2>2. \A g, c : /\ rest(g, c).step = me.step /\ rest(g, c).domains = me.domains
                  /\ rest(g, c).todo = me.todo
    BY <1>1 DEF Locals
  <2>3. PICK c \in {me.covered, me.covered \cup {Min(me.found)}} :
          \/ replica'[r] = PurgeDone(me, "error")
          \/ replica'[r] = PurgeDone(rest(f, c), "submitted")
          \/ replica'[r] = rest(f, c)
    <3> DEFINE covered == IF CallerReference(r, Min(me.found)) \notin references
                            THEN me.covered \cup {Min(me.found)} ELSE me.covered
    <3>1. covered \in {me.covered, me.covered \cup {Min(me.found)}}
      OBVIOUS
    <3>2. \/ replica'[r] = PurgeDone(me, "error")
          \/ replica'[r] = PurgeDone(rest(f, covered), "submitted")
          \/ replica'[r] = rest(f, covered)
      BY <1>2, <1>5 DEF Invalidate
    <3> QED BY <3>1, <3>2
  <2>4. f \subseteq Ids /\ c \subseteq Ids
    <3>1. me.found # {} /\ me.found \subseteq Nat /\ me.found \subseteq Ids /\ me.covered \subseteq Ids
      BY <1>1, <2>1, Mine, IdFacts DEF LocalsInv, Locals
    <3> QED BY <3>1, MinIsThere
  <2> HIDE DEF f
  <2>5. rest(f, c) \in Locals
    BY <1>1, <2>4 DEF Locals
  <2> HIDE DEF rest
  <2>6. ServedInv(rest(f, c), tenants')
    BY <2>1, <2>2, KeepsServing DEF OnHost, OnTenant
  <2>7. ServedInv(PurgeDone(rest(f, c), "submitted"), tenants')
    BY <1>1, <2>2, <2>5, PurgeDoneServes DEF Outcomes
  <2> QED BY <1>3, <2>3, <2>6, <2>7 DEF Outcomes
<1> QED BY <1>4, <1>5

LEMMA CallServes ==
  ASSUME TenantInv, TenantNext, NEW r \in Replicas, Call(r), ServedInv(replica[r], tenants)
  PROVE  ServedInv(replica'[r], tenants')
<1>1. edits' = edits
  BY DEF Call, ListPage, Invalidate, Lookup, Certificate, Create, Current, Update, CallFails
<1>2. ServedInv(replica[r], tenants')
  BY <1>1, WritesImprove, ServedAfter
<1>3. CASE CallFails(r)
  <2>1. \A x : Local(r, x) => replica'[r] = x
    BY DEF Local, TenantInv
  <2>2. replica'[r] = PurgeDone(replica[r], "error") \/ replica'[r] = Failed(replica[r])
    BY <1>3, <2>1 DEF CallFails
  <2> QED BY <1>2, <2>2, Mine, PurgeDoneServes, FailedServes DEF Outcomes
<1> QED BY <1>2, <1>3, LookupServes, CertificateServes, CreateServes, CurrentServes,
           UpdateServes, PurgeServes DEF Call

LEMMA StartServes ==
  ASSUME TenantInv, NEW r \in Replicas, Start(r)
  PROVE  ServedInv(replica'[r], tenants')
<1> DEFINE n == replica[r].starts + 1
           fresh == [Down EXCEPT !.starts = n, !.generation = 1]
<1>1. fresh \in Locals /\ fresh.domains = "none"
  <2>1. Down \in Locals /\ Down.domains = "none" /\ n \in Nat
    BY DownFields, Mine DEF Locals
  <2>2. \A d \in Locals, s \in Nat :
          LET x == [d EXCEPT !.starts = s, !.generation = 1]
          IN  x \in Locals /\ x.domains = d.domains
    BY DEF Locals
  <2> HIDE DEF Down, n
  <2> QED BY <2>1, <2>2
<1> HIDE DEF fresh
<1>2. replica'[r] \in {Purging(fresh), Reconciling(fresh)}
  BY DEF Start, Local, TenantInv, fresh
<1>3. ServedInv(Purging(fresh), tenants')
  BY <1>1, PurgingFields DEF ServedInv, OnHost, OnTenant
<1>4. ServedInv(Reconciling(fresh), tenants')
  BY <1>1, ReconcilingFields, BeginsToServe DEF OnTenant
<1> QED BY <1>2, <1>3, <1>4

LEMMA ActivateServes ==
  ASSUME TenantInv, NEW r \in Replicas, Activate(r), ServedInv(replica[r], tenants)
  PROVE  ServedInv(replica'[r], tenants')
<1> DEFINE me == replica[r]
           next == [me EXCEPT !.generation = @ + 1]
<1>1. me \in Locals /\ me.generation \in Nat /\ tenants' = tenants
  BY Mine DEF Activate
<1>2. next \in Locals /\ next.domains = me.domains /\ next.todo = me.todo
  BY <1>1 DEF Locals
<1>3. replica'[r] = Purging(next)
  BY DEF Activate, Local, TenantInv
<1> HIDE DEF next
<1> QED BY <1>1, <1>2, <1>3, PurgingFields, KeepsServing DEF OnHost, OnTenant

LEMMA CrashServes ==
  ASSUME TenantInv, NEW r \in Replicas, Crash(r)
  PROVE  ServedInv(replica'[r], tenants')
<1>1. replica'[r] = Halted(r)
  BY DEF Crash, Local, TenantInv, Halted
<1>2. Halted(r).step = "down" /\ Halted(r).domains = "none"
  BY HaltedFields
<1> QED BY <1>1, <1>2 DEF ServedInv, OnHost, OnTenant

LEMMA ReconcileInvStep ==
  TenantInv /\ ReconcileInv /\ [TenantNext]_tenantVars => ReconcileInv'
<1> SUFFICES ASSUME TenantInv, ReconcileInv, [TenantNext]_tenantVars
             PROVE  ReconcileInv'
  OBVIOUS
<1>1. CASE UNCHANGED tenantVars
  BY <1>1 DEF ReconcileInv, tenantVars, ServedInv, IsServed
<1>2. CASE TenantNext
  <2>1. ASSUME NEW q \in Replicas, ~meddled'[q]
        PROVE  ServedInv(replica'[q], tenants')
    <3>1. replica'[q].generation > 0 => ~meddled[q] /\ edits' = edits
      BY <1>2, <2>1 DEF TenantNext, Observe
    <3>2. replica'[q] \in Locals /\ LocalsInv(replica'[q])
      <4>1. TenantInv'
        BY <1>2, TenantInvStep
      <4> QED BY <4>1 DEF TenantInv
    <3>3. CASE replica'[q].generation = 0
      <4>1. replica'[q].step = "down" /\ replica'[q].domains = "none"
        BY <3>2, <3>3 DEF LocalsInv
      <4> QED BY <4>1 DEF ServedInv, OnHost, OnTenant
    <3>4. CASE replica'[q].generation # 0
      <4>1. replica'[q].generation > 0
        BY <3>2, <3>4 DEF Locals
      <4>2. ~meddled[q] /\ edits' = edits /\ ServedInv(replica[q], tenants)
        BY <3>1, <4>1 DEF ReconcileInv
      <4>3. ServedInv(replica[q], tenants')
        BY <1>2, <4>2, WritesImprove, ServedAfter
      <4>4. CASE replica'[q] = replica[q]
        BY <4>3, <4>4
      <4>5. CASE replica'[q] # replica[q]
        <5>1. ~OperatorEdits
          BY <4>2 DEF OperatorEdits, TenantInv
        <5>2. PICK r \in Replicas : Call(r) \/ Start(r) \/ Activate(r) \/ Crash(r)
          BY <1>2, <5>1 DEF TenantNext
        <5>3. r = q
          <6>1. CallStep(r)
            BY <5>2, CallIsStep, StartStep, ActivateStep, CrashStep
          <6> QED BY <4>5, <6>1 DEF CallStep, TenantInv
        <5> QED BY <1>2, <4>2, <5>2, <5>3, CallServes, StartServes, ActivateServes, CrashServes
      <4> QED BY <4>4, <4>5
    <3> QED BY <3>3, <3>4
  <2> QED BY <2>1 DEF ReconcileInv
<1> QED BY <1>1, <1>2

LEMMA ReconcileInvInit ==
  TenantInit => ReconcileInv
<1>1. Down.step = "down" /\ Down.domains = "none"
  BY DEF Down
<1> QED BY <1>1 DEF TenantInit, ReconcileInv, ServedInv, OnHost, OnTenant

(* A reconciliation reported as submitted has left every exact host with an *)
(* enabled tenant as configured, whatever other processes do at the same    *)
(* tenants, until an operator edits.                                        *)
THEOREM SubmittedIsServed ==
  CdnSpec => []SubmittedHostsAreServed
<1>1. TenantInv /\ ReconcileInv => SubmittedHostsAreServed
  <2> SUFFICES ASSUME TenantInv, ReconcileInv, NEW r \in Replicas,
                      replica[r].domains = "submitted", ~meddled[r], NEW host \in Hosts
               PROVE  \E id \in Owners(host) :
                        /\ Adoptable(tenants[id], host) /\ tenants[id].enabled
                        /\ tenants[id].settings = "configured"
                        /\ Managed => tenants[id].certificate = "wanted"
    BY DEF SubmittedHostsAreServed
  <2>1. replica[r].todo = << >> /\ ServedInv(replica[r], tenants)
    BY DEF TenantInv, LocalsInv, ReconcileInv
  <2>2. IsServed(tenants, host)
    BY <2>1, EmptyToSet DEF ServedInv
  <2> QED BY <2>2 DEF IsServed, Serves, Owners, Exists, Adoptable
<1>2. TenantSpec => []TenantInv
  BY TenantInvInit, TenantInvStep, PTL DEF TenantSpec
<1>3. TenantSpec /\ []TenantInv => []ReconcileInv
  BY ReconcileInvInit, ReconcileInvStep, PTL DEF TenantSpec
<1> QED BY <1>1, <1>2, <1>3, StartsReconcileTenants, PTL
==============================================================================
