------------------------- MODULE CaseDetectorProofs -------------------------
(***************************************************************************)
(* What the detector promises for every fleet, every set of watched        *)
(* airports, any scenes, any number of runs that overlap and die, and      *)
(* cases that are closed meanwhile: what it says is so in the rows it      *)
(* read, and it says it once.                                              *)
(***************************************************************************)
EXTENDS CaseDetector, FiniteSetTheorems, WellFoundedInduction, TLAPS

-----------------------------------------------------------------------------
(* The inductive invariant. *)

WorldInv ==
    /\ scene \in Scenes
    /\ clock \in Nat
    /\ traffic \in (0..clock) \cup {NULL}
    /\ sky \in [Watched -> scene.skies]

\* The rows are those of the window.
FeedInv ==
    \A a \in Aircraft :
        /\ IsFiniteSet(feed[a])
        /\ \A q \in feed[a] : /\ q.ts \in 0..clock /\ clock <= q.ts + LOOKBACK_MINUTES
                              /\ q.alt \in Int \cup {NULL}

CaseFields == {"id", "key", "event", "created", "open", "sync", "known"}

\* Ids are counted up, and an occurrence is older than its case.
CaseInv ==
    /\ IsFiniteSet(cases)
    /\ \A c \in cases :
         /\ DOMAIN c = CaseFields
         /\ c.id \in 0..Cardinality(cases) - 1
         /\ c.created \in 0..clock
         /\ c.event # NULL => c.event \in Nat /\ c.event <= c.created
    /\ \A c, d \in cases : c.id = d.id => c = d

\* Until it has read the open cases, what a run found is no older than the
\* window of rows before its "now".
FoundInv ==
    \A r \in Runs : \A x \in found[r] : x.event # NULL =>
        /\ x.rule \in {"lost_signal", "go_around"}
        /\ x.event \in 0..clock
        /\ pc[r] = "dedup" => asOf[r] <= x.event + LOOKBACK_MINUTES

RunInv ==
    /\ pc \in [Runs -> {"idle", "dedup", "insert"}]
    /\ DOMAIN found = Runs /\ DOMAIN asOf = Runs /\ DOMAIN known = Runs
    /\ \A r \in Runs :
         /\ pc[r] = "idle" => found[r] = {}
         /\ pc[r] = "dedup" => asOf[r] # NULL
         /\ asOf[r] # NULL => asOf[r] \in 0..clock
         /\ known[r] \subseteq 0..Cardinality(cases) - 1

\* What a run is about to insert is not what a case it read stands for.
NewInv ==
    \A r \in Runs : pc[r] = "insert" =>
        \A x \in found[r] : \A c \in cases :
            c.id \in known[r] /\ x.event # NULL /\ c.event = x.event => c.key # DedupKey(x)

DetectorInv == WorldInv /\ FeedInv /\ CaseInv /\ FoundInv /\ RunInv /\ NewInv /\ FiledOnce

-----------------------------------------------------------------------------
(* Extremes. *)

\* A strict order has a minimal element in every finite set: of the sets of what
\* is below an element, one has no strict subset among them.
LEMMA Minimal ==
    ASSUME NEW S, IsFiniteSet(S), S # {}, NEW R,
           \A x \in S : <<x, x>> \notin R,
           \A x, y, z \in S : <<x, y>> \in R /\ <<y, z>> \in R => <<x, z>> \in R
    PROVE  \E m \in S : \A x \in S : <<x, m>> \notin R
<1> DEFINE below(x) == {y \in S : <<y, x>> \in R}
           belows == {below(x) : x \in S}
<1>1. belows \subseteq FiniteSubsetsOf(S) /\ belows # {}
  <2>1. \A x \in S : below(x) \in SUBSET S /\ IsFiniteSet(below(x))
    BY FS_Subset
  <2> HIDE DEF below
  <2> QED BY <2>1 DEF FiniteSubsetsOf
<1>2. \E b \in belows : \A c \in belows : <<c, b>> \notin StrictSubsetOrdering(S)
  <2> HIDE DEF belows
  <2>1. IsWellFoundedOn(StrictSubsetOrdering(S), FiniteSubsetsOf(S))
    BY FS_StrictSubsetOrderingWellFounded
  <2> QED BY <1>1, <2>1, WFMin
<1>3. PICK m \in S : \A x \in S : <<below(x), below(m)>> \notin StrictSubsetOrdering(S)
  <2>1. PICK b \in belows : \A c \in belows : <<c, b>> \notin StrictSubsetOrdering(S)
    BY <1>2
  <2>2. PICK m \in S : b = below(m)
    BY <2>1
  <2>3. \A x \in S : below(x) \in belows
    OBVIOUS
  <2> HIDE DEF below, belows
  <2> QED BY <2>1, <2>2, <2>3
<1>4. ASSUME NEW x \in S, <<x, m>> \in R PROVE FALSE
  <2>1. below(x) \subseteq below(m) /\ x \in below(m) /\ x \notin below(x)
    BY <1>4
  <2>2. below(x) \in SUBSET S /\ below(m) \in SUBSET S
    OBVIOUS
  <2>3. <<below(x), below(m)>> \in StrictSubsetOrdering(S)
    BY <2>1, <2>2 DEF StrictSubsetOrdering
  <2> QED BY <1>3, <2>3
<1> QED BY <1>4

LEMMA Greatest ==
    ASSUME NEW T, IsFiniteSet(T), T # {}, \A t \in T : t \in Int
    PROVE  \E t \in T : \A u \in T : u <= t
<1> DEFINE above == {p \in T \X T : p[1] > p[2]}
<1>1. \A x \in T : <<x, x>> \notin above
  OBVIOUS
<1>2. \A x, y, z \in T : <<x, y>> \in above /\ <<y, z>> \in above => <<x, z>> \in above
  OBVIOUS
<1>3. PICK t \in T : \A u \in T : <<u, t>> \notin above
  <2> HIDE DEF above
  <2> QED BY <1>1, <1>2, Minimal, SMTT(30)
<1>4. \A u \in T : ~(u > t)
  BY <1>3
<1> QED BY <1>4

LEMMA LatestIs ==
    ASSUME NEW rows, IsFiniteSet(rows), rows # {}, \A q \in rows : q.ts \in Int
    PROVE  Latest(rows) \in rows /\ \A q \in rows : q.ts <= Latest(rows).ts
<1> DEFINE later == {p \in rows \X rows : p[1].ts > p[2].ts}
<1>1. \A x \in rows : <<x, x>> \notin later
  OBVIOUS
<1>2. \A x, y, z \in rows : <<x, y>> \in later /\ <<y, z>> \in later => <<x, z>> \in later
  OBVIOUS
<1>3. PICK r \in rows : \A q \in rows : <<q, r>> \notin later
  <2> HIDE DEF later
  <2> QED BY <1>1, <1>2, Minimal, SMTT(30)
<1>4. \A q \in rows : q.ts <= r.ts
  <2>1. \A q \in rows : ~(q.ts > r.ts)
    BY <1>3
  <2> QED BY <2>1
<1> QED BY <1>4 DEF Latest

\* The low point is one of the rows.
LEMMA LowPointIs ==
    ASSUME NEW rows, IsFiniteSet(rows), rows # {},
           \A q \in rows : q.ts \in Int /\ q.alt \in Int
    PROVE  LowPoint(rows) \in rows
<1> DEFINE Lower(q, r) == q.alt < r.alt \/ (q.alt = r.alt /\ q.ts < r.ts)
           lower == {p \in rows \X rows : Lower(p[1], p[2])}
<1>1. \A x \in rows : <<x, x>> \notin lower
  OBVIOUS
<1>2. \A x, y, z \in rows : <<x, y>> \in lower /\ <<y, z>> \in lower => <<x, z>> \in lower
  OBVIOUS
<1>3. PICK r \in rows : \A q \in rows : <<q, r>> \notin lower
  <2> HIDE DEF lower
  <2> QED BY <1>1, <1>2, Minimal, SMTT(30)
<1>4. \A q \in rows : r.alt < q.alt \/ (r.alt = q.alt /\ r.ts <= q.ts)
  <2>1. \A q \in rows : ~Lower(q, r)
    BY <1>3
  <2> QED BY <2>1
<1> QED BY <1>4 DEF LowPoint

\* The lowest layer that counts.
LEMMA CeilingIs ==
    ASSUME NEW clouds, IsFiniteSet(clouds), \A l \in clouds : l.base \in Int
    PROVE  LET layers == {l \in clouds : l.cover \in CeilingCovers}
           IN  /\ layers = {} => Ceiling(clouds) = NULL
               /\ layers # {} => /\ Ceiling(clouds) \in Int
                                 /\ \E l \in layers : l.base = Ceiling(clouds)
                                 /\ \A l \in layers : Ceiling(clouds) <= l.base
<1> DEFINE layers == {l \in clouds : l.cover \in CeilingCovers}
           bases == {l.base : l \in layers}
           below == {p \in layers \X layers : p[1].base < p[2].base}
<1>1. Ceiling(clouds) = IF bases = {} THEN NULL ELSE CHOOSE b \in bases : \A c \in bases : b <= c
  BY DEF Ceiling
<1>2. CASE layers = {}
  BY <1>1, <1>2
<1>3. CASE layers # {}
  <2>1. IsFiniteSet(layers) /\ \A l \in layers : l.base \in Int
    BY FS_Subset
  <2>2. PICK m \in layers : \A l \in layers : <<l, m>> \notin below
    <3>1. \A x \in layers : <<x, x>> \notin below
      BY <2>1
    <3>2. \A x, y, z \in layers : <<x, y>> \in below /\ <<y, z>> \in below => <<x, z>> \in below
      BY <2>1
    <3> HIDE DEF below, layers
    <3> QED BY <1>3, <2>1, <3>1, <3>2, Minimal, SMTT(30)
  <2>3. \A l \in layers : m.base <= l.base
    <3>1. \A l \in layers : ~(l.base < m.base)
      BY <2>2
    <3> HIDE DEF layers, below
    <3> QED BY <2>1, <3>1
  <2>4. \E b \in bases : \A c \in bases : b <= c
    BY <2>3
  <2>5. Ceiling(clouds) \in bases /\ \A c \in bases : Ceiling(clouds) <= c
    <3> HIDE DEF bases
    <3> QED BY <1>1, <2>4
  <2> QED BY <1>3, <2>1, <2>5
<1> QED BY <1>2, <1>3

-----------------------------------------------------------------------------
(* What a run finds. *)

\* "now" is the last poll at which somebody was in scope.
LEMMA NowIs ==
    ASSUME WorldInv, FeedInv, InScopeTimes # {}
    PROVE  Now \in 0..clock /\ Now \in InScopeTimes
<1>1. InScopeTimes \subseteq 0..clock
  <2>1. \A a \in Aircraft : \A q \in InScope(feed[a]) : q.ts \in 0..clock
    BY DEF FeedInv, InScope
  <2>2. ASSUME NEW t \in InScopeTimes PROVE t \in 0..clock
    <3> DEFINE others == IF traffic # NULL /\ traffic >= clock - LOOKBACK_MINUTES THEN {traffic} ELSE {}
               ours == UNION {{q.ts : q \in InScope(feed[a])} : a \in Aircraft}
    <3>1. InScopeTimes = ours \cup others
      BY DEF InScopeTimes
    <3>2. t \in others => t # NULL /\ t = traffic
      OBVIOUS
    <3>3. t \in ours => \E a \in Aircraft : \E q \in InScope(feed[a]) : t = q.ts
      <4> HIDE DEF others
      <4> QED OBVIOUS
    <3> HIDE DEF ours, others
    <3> QED BY <2>1, <3>1, <3>2, <3>3 DEF WorldInv
  <2> QED BY <2>2
<1>2. IsFiniteSet(InScopeTimes)
  <2>1. IsFiniteSet(0..clock)
    BY FS_Interval DEF WorldInv
  <2> QED BY <1>1, <2>1, FS_Subset
<1>3. \A t \in InScopeTimes : t \in Int
  BY <1>1
<1>4. \E t \in InScopeTimes : \A u \in InScopeTimes : u <= t
  BY <1>2, <1>3, Greatest
<1>5. Now \in InScopeTimes
  BY <1>4 DEF Now
<1> QED BY <1>1, <1>5

\* When an aircraft with rows was last heard.
LEMMA HeardIs ==
    ASSUME WorldInv, FeedInv, NEW a \in Aircraft, feed[a] # {}
    PROVE  /\ Heard(a) \in 0..clock /\ clock <= Heard(a) + LOOKBACK_MINUTES
           /\ \A q \in feed[a] : q.ts <= Heard(a)
<1>1. IsFiniteSet(feed[a]) /\ \A q \in feed[a] : q.ts \in Int
  BY DEF FeedInv
<1>2. Latest(feed[a]) \in feed[a] /\ \A q \in feed[a] : q.ts <= Latest(feed[a]).ts
  BY <1>1, LatestIs
<1> QED BY <1>2 DEF FeedInv, Heard

\* The rows of a go-around, those with an altitude.
Flown(a) == {q \in Near(InScope(feed[a]), 10) : q.alt # NULL}

LEMMA FlownLow ==
    ASSUME WorldInv, FeedInv, NEW a \in Aircraft, Flown(a) # {}
    PROVE  LowPoint(Flown(a)) \in Flown(a) /\ Flown(a) \subseteq feed[a]
<1>1. Flown(a) \subseteq feed[a]
  BY DEF Flown, Near, InScope
<1>2. IsFiniteSet(Flown(a)) /\ \A q \in Flown(a) : q.ts \in Int /\ q.alt \in Int
  <2>1. IsFiniteSet(Flown(a))
    BY <1>1, FS_Subset DEF FeedInv
  <2>2. \A q \in Flown(a) : q.alt # NULL
    BY DEF Flown
  <2> QED BY <1>1, <2>1, <2>2 DEF FeedInv
<1> QED BY <1>1, <1>2, LowPointIs

LostSignalFound(x) ==
    /\ x.rule = "lost_signal" /\ x.about \in Aircraft /\ feed[x.about] # {}
    /\ x.event = Heard(x.about) /\ Now - Heard(x.about) \in 14..30

GoAroundFound(x) ==
    /\ x.rule = "go_around" /\ x.about \in Aircraft /\ Flown(x.about) # {}
    /\ x.event = LowPoint(Flown(x.about)).ts
    /\ IsValley(Flown(x.about), LowPoint(Flown(x.about)))

\* A finding is a lost signal, a go-around or of another rule, and then no
\* occurrence tells it apart.
LEMMA FindingsAre ==
    ASSUME NEW x \in Findings
    PROVE  \/ x.event = NULL /\ x.rule \notin {"lost_signal", "go_around"}
           \/ LostSignalFound(x)
           \/ GoAroundFound(x)
<1>1. ASSUME x \in WeatherImpact(sky) PROVE x.event = NULL /\ x.rule \notin {"lost_signal", "go_around"}
  BY <1>1 DEF WeatherImpact, Anomaly
<1>2. ASSUME NEW a \in Aircraft, InScope(feed[a]) # {},
             x \in Anomalies(a, InScope(feed[a]), Heard(a), scene.plan, Now)
      PROVE  \/ x.event = NULL /\ x.rule \notin {"lost_signal", "go_around"}
             \/ LostSignalFound(x)
             \/ GoAroundFound(x)
  <2> DEFINE rows == InScope(feed[a])
             now == Now
             heard == Heard(a)
  <2>1. CASE x \in LostSignal(a, rows, heard, now)
    <3>1. x.rule = "lost_signal" /\ x.about = a /\ x.event = heard /\ Silence(heard, Latest(rows), now) \in 14..30
      <4> HIDE DEF rows, heard, now
      <4> QED BY <2>1 DEF LostSignal, Anomaly
    <3>2. feed[a] # {}
      BY <1>2 DEF InScope
    <3> QED BY <3>1, <3>2 DEF LostSignalFound, Silence
  <2>2. CASE x \in GoAround(a, rows)
    <3> DEFINE flown == {q \in Near(rows, 10) : q.alt # NULL}
    <3>1. x.rule = "go_around" /\ x.about = a /\ x.event = LowPoint(flown).ts
          /\ flown # {} /\ IsValley(flown, LowPoint(flown))
      <4> HIDE DEF rows
      <4> QED BY <2>2 DEF GoAround, Anomaly
    <3>2. flown = Flown(a)
      BY DEF Flown
    <3> HIDE DEF flown
    <3> QED BY <3>1, <3>2 DEF GoAroundFound
  <2>3. CASE x \in Diversion(a, rows, scene.plan)
    BY <2>3 DEF Diversion, Anomaly
  <2>4. CASE x \in ExcessiveHold(a, rows)
    <3> HIDE DEF rows
    <3> QED BY <2>4 DEF ExcessiveHold, Anomaly
  <2>5. CASE x \in Delay(a, rows, scene.plan, now)
    <3> HIDE DEF rows, now
    <3> QED BY <2>5 DEF Delay, Anomaly
  <2> QED BY <1>2, <2>1, <2>2, <2>3, <2>4, <2>5 DEF Anomalies
<1>3. x \in WeatherImpact(sky) \/ \E a \in Aircraft :
        InScope(feed[a]) # {} /\ x \in Anomalies(a, InScope(feed[a]), Heard(a), scene.plan, Now)
  BY DEF Findings
<1> QED BY <1>1, <1>2, <1>3

\* What tells an occurrence apart is the time of a row in the window.
LEMMA EventsAreFresh ==
    ASSUME WorldInv, FeedInv, InScopeTimes # {}, NEW x \in Findings, x.event # NULL
    PROVE  /\ x.rule \in {"lost_signal", "go_around"}
           /\ x.event \in 0..clock /\ Now <= x.event + LOOKBACK_MINUTES
<1>1. Now \in 0..clock
  BY NowIs
<1>2. CASE LostSignalFound(x)
  BY <1>1, <1>2, HeardIs DEF LostSignalFound, LOOKBACK_MINUTES, WorldInv
<1>3. CASE GoAroundFound(x)
  <2>1. LowPoint(Flown(x.about)) \in feed[x.about]
    BY <1>3, FlownLow DEF GoAroundFound
  <2>2. x.event \in 0..clock /\ clock <= x.event + LOOKBACK_MINUTES
    BY <1>3, <2>1 DEF GoAroundFound, FeedInv
  <2> QED BY <1>1, <1>3, <2>2 DEF GoAroundFound, LOOKBACK_MINUTES, WorldInv
<1> QED BY <1>2, <1>3, FindingsAre

-----------------------------------------------------------------------------
(* Steps. *)

LEMMA DetectorInitial == Init => DetectorInv
<1> SUFFICES ASSUME Init PROVE DetectorInv
  OBVIOUS
<1>1. /\ scene \in Scenes /\ clock = 0 /\ traffic = NULL /\ sky \in [Watched -> scene.skies]
      /\ feed = [a \in Aircraft |-> {}] /\ cases = {}
      /\ pc = [r \in Runs |-> "idle"] /\ found = [r \in Runs |-> {}]
      /\ asOf = [r \in Runs |-> NULL] /\ known = [r \in Runs |-> {}]
  BY DEF Init
<1>2. IsFiniteSet({})
  BY FS_EmptySet
<1>3. WorldInv /\ FeedInv
  BY <1>1, <1>2 DEF WorldInv, FeedInv
<1>4. CaseInv /\ FoundInv /\ RunInv /\ NewInv /\ FiledOnce
  BY <1>1, <1>2 DEF CaseInv, FoundInv, RunInv, NewInv, FiledOnce
<1> QED BY <1>3, <1>4 DEF DetectorInv

\* Time does not take back what the runs and the cases hold.
LEMMA PollKeeps ==
    ASSUME DetectorInv, Poll
    PROVE  DetectorInv'
<1>1. /\ clock' = clock + Cadence /\ clock \in Nat /\ clock' \in Nat /\ clock <= clock'
      /\ traffic' \in {traffic, clock'}
      /\ UNCHANGED <<scene, sky, cases, pc, found, asOf, known>>
  BY DetectorAssumption DEF Poll, DetectorInv, WorldInv, runVars
<1>2. 0..clock \subseteq 0..clock'
  BY <1>1
<1>3. WorldInv'
  BY <1>1, <1>2 DEF DetectorInv, WorldInv
<1>4. FeedInv'
  <2>1. PICK seen \in SUBSET Aircraft : \E said \in [seen -> scene.reports] :
          feed' = [a \in Aircraft |->
                     Fresh(feed[a], clock') \cup IF a \in seen THEN {Row(said[a], clock')} ELSE {}]
    BY DEF Poll
  <2>2. PICK said \in [seen -> scene.reports] :
          feed' = [a \in Aircraft |->
                     Fresh(feed[a], clock') \cup IF a \in seen THEN {Row(said[a], clock')} ELSE {}]
    BY <2>1
  <2> SUFFICES ASSUME NEW a \in Aircraft
               PROVE  /\ IsFiniteSet(feed'[a])
                      /\ \A q \in feed'[a] : /\ q.ts \in 0..clock' /\ clock' <= q.ts + LOOKBACK_MINUTES
                                             /\ q.alt \in Int \cup {NULL}
    BY DEF FeedInv
  <2> DEFINE old == Fresh(feed[a], clock')
  <2>3. IsFiniteSet(old) /\ \A q \in old : /\ q.ts \in 0..clock' /\ clock' <= q.ts + LOOKBACK_MINUTES
                                           /\ q.alt \in Int \cup {NULL}
    <3>1. old \subseteq feed[a] /\ \A q \in old : q.ts >= clock' - LOOKBACK_MINUTES
      BY DEF Fresh
    <3>2. \A q \in feed[a] : q.ts \in 0..clock /\ q.alt \in Int \cup {NULL}
      BY DEF DetectorInv, FeedInv
    <3>3. IsFiniteSet(old)
      BY <3>1, FS_Subset DEF DetectorInv, FeedInv
    <3> HIDE DEF old
    <3> QED BY <1>1, <3>1, <3>2, <3>3 DEF LOOKBACK_MINUTES
  <2>4. CASE a \in seen
    <3> DEFINE new == Row(said[a], clock')
    <3>1. said[a] \in scene.reports /\ scene \in Scenes
      BY <2>4 DEF DetectorInv, WorldInv
    <3>2. new.ts = clock' /\ new.alt = said[a].alt /\ said[a].alt \in Int \cup {NULL}
      BY <3>1, DetectorAssumption DEF Row
    <3>3. feed'[a] = old \cup {new}
      BY <2>2, <2>4
    <3> HIDE DEF old, new
    <3>4. IsFiniteSet(feed'[a])
      BY <2>3, <3>3, FS_AddElement
    <3> QED BY <1>1, <2>3, <3>2, <3>3, <3>4 DEF LOOKBACK_MINUTES
  <2>5. CASE a \notin seen
    <3>1. feed'[a] = old
      BY <2>2, <2>5
    <3> QED BY <2>3, <3>1
  <2> QED BY <2>4, <2>5
<1>5. CaseInv' /\ FoundInv' /\ RunInv' /\ NewInv' /\ FiledOnce'
  BY <1>1, <1>2 DEF DetectorInv, CaseInv, FoundInv, RunInv, NewInv, FiledOnce
<1> QED BY <1>3, <1>4, <1>5 DEF DetectorInv

LEMMA WeatherKeeps ==
    ASSUME DetectorInv, NEW s \in Watched, Weather(s)
    PROVE  DetectorInv'
<1>1. /\ UNCHANGED <<scene, clock, feed, traffic, cases, pc, found, asOf, known>>
      /\ \E c \in scene.skies : sky' = [sky EXCEPT ![s] = c]
  BY DEF Weather, runVars
<1>2. WorldInv'
  BY <1>1 DEF DetectorInv, WorldInv
<1>3. FeedInv' /\ CaseInv' /\ FoundInv' /\ RunInv' /\ NewInv' /\ FiledOnce'
  BY <1>1 DEF DetectorInv, FeedInv, CaseInv, FoundInv, RunInv, NewInv, FiledOnce
<1> QED BY <1>2, <1>3 DEF DetectorInv

\* A case that is closed keeps its id, its key and its occurrence.
LEMMA CloseKeeps ==
    ASSUME DetectorInv, NEW c \in cases, Close(c)
    PROVE  DetectorInv'
<1> DEFINE shut == [c EXCEPT !.open = FALSE]
<1>1. /\ cases' = (cases \ {c}) \cup {shut} /\ c.open
      /\ UNCHANGED <<scene, clock, feed, traffic, sky, pc, found, asOf, known>>
  BY DEF Close, envVars, runVars
<1>2. /\ DOMAIN shut = CaseFields
      /\ shut.id = c.id /\ shut.key = c.key /\ shut.event = c.event
      /\ shut.created = c.created /\ shut.known = c.known
  <2>1. DOMAIN c = CaseFields
    BY DEF DetectorInv, CaseInv
  <2> QED BY <2>1 DEF CaseFields
<1> HIDE DEF shut
<1>3. shut \notin cases \ {c}
  BY <1>2 DEF DetectorInv, CaseInv
<1>4. IsFiniteSet(cases') /\ Cardinality(cases') = Cardinality(cases)
  <2>1. IsFiniteSet(cases \ {c}) /\ Cardinality(cases \ {c}) = Cardinality(cases) - 1
    BY FS_RemoveElement DEF DetectorInv, CaseInv
  <2>2. IsFiniteSet(cases') /\ Cardinality(cases') = Cardinality(cases \ {c}) + 1
    BY <1>1, <1>3, <2>1, FS_AddElement
  <2>3. Cardinality(cases) \in Nat
    BY FS_CardinalityType DEF DetectorInv, CaseInv
  <2> QED BY <2>1, <2>2, <2>3
<1>5. \A e \in cases' : \E d \in cases : e.id = d.id /\ e.key = d.key /\ e.event = d.event
                                          /\ e.created = d.created /\ e.known = d.known
  BY <1>1, <1>2
<1>6. CaseInv'
  <2>1. \A e \in cases' : /\ DOMAIN e = CaseFields
                          /\ e.id \in 0..Cardinality(cases') - 1 /\ e.created \in 0..clock'
                          /\ e.event # NULL => e.event \in Nat /\ e.event <= e.created
    <3> SUFFICES ASSUME NEW e \in cases'
                 PROVE  /\ DOMAIN e = CaseFields
                        /\ e.id \in 0..Cardinality(cases') - 1 /\ e.created \in 0..clock'
                        /\ e.event # NULL => e.event \in Nat /\ e.event <= e.created
      OBVIOUS
    <3>1. CASE e \in cases
      BY <1>1, <1>4, <3>1 DEF DetectorInv, CaseInv
    <3>2. CASE e = shut
      BY <1>1, <1>2, <1>4, <3>2 DEF DetectorInv, CaseInv
    <3> QED BY <1>1, <3>1, <3>2
  <2>2. \A d, e \in cases' : d.id = e.id => d = e
    <3>1. \A d \in cases \ {c} : d.id # c.id
      BY DEF DetectorInv, CaseInv
    <3>2. \A d, e \in cases \ {c} : d.id = e.id => d = e
      BY DEF DetectorInv, CaseInv
    <3> SUFFICES ASSUME NEW d \in cases', NEW e \in cases', d.id = e.id PROVE d = e
      OBVIOUS
    <3>3. (d \in cases \ {c} \/ d = shut) /\ (e \in cases \ {c} \/ e = shut)
      BY <1>1
    <3> QED BY <1>2, <3>1, <3>2, <3>3
  <2> QED BY <1>4, <2>1, <2>2 DEF CaseInv
<1>7. WorldInv' /\ FeedInv' /\ FoundInv' /\ RunInv'
  BY <1>1, <1>4 DEF DetectorInv, WorldInv, FeedInv, FoundInv, RunInv
<1>8. NewInv'
  BY <1>1, <1>5 DEF DetectorInv, NewInv
<1>9. FiledOnce'
  BY <1>5 DEF DetectorInv, FiledOnce
<1> QED BY <1>6, <1>7, <1>8, <1>9 DEF DetectorInv

LEMMA ReadFeedKeeps ==
    ASSUME DetectorInv, NEW r \in Runs, ReadFeed(r)
    PROVE  DetectorInv'
<1>1. /\ found' = [found EXCEPT ![r] = Findings] /\ asOf' = [asOf EXCEPT ![r] = Now]
      /\ pc' = [pc EXCEPT ![r] = "dedup"] /\ InScopeTimes # {}
      /\ UNCHANGED <<scene, clock, feed, traffic, sky, cases, known>>
  BY DEF ReadFeed, envVars
<1>2. /\ found'[r] = Findings /\ asOf'[r] = Now /\ pc'[r] = "dedup"
      /\ \A q \in Runs \ {r} : found'[q] = found[q] /\ asOf'[q] = asOf[q] /\ pc'[q] = pc[q]
      /\ pc' \in [Runs -> {"idle", "dedup", "insert"}]
      /\ DOMAIN found' = Runs /\ DOMAIN asOf' = Runs
  BY <1>1 DEF DetectorInv, RunInv
<1>3. Now \in 0..clock /\ Now # NULL
  BY <1>1, NowIs, RulesAssumption DEF DetectorInv, WorldInv
<1>4. WorldInv' /\ FeedInv' /\ CaseInv' /\ FiledOnce'
  BY <1>1 DEF DetectorInv, WorldInv, FeedInv, CaseInv, FiledOnce
<1>5. RunInv'
  BY <1>1, <1>2, <1>3 DEF DetectorInv, RunInv
<1>6. FoundInv'
  <2> SUFFICES ASSUME NEW q \in Runs, NEW x \in found'[q], x.event # NULL
               PROVE  /\ x.rule \in {"lost_signal", "go_around"}
                      /\ x.event \in 0..clock
                      /\ pc'[q] = "dedup" => asOf'[q] <= x.event + LOOKBACK_MINUTES
    BY <1>1 DEF FoundInv
  <2>1. CASE q = r
    BY <1>1, <1>2, <2>1, EventsAreFresh DEF DetectorInv
  <2>2. CASE q # r
    BY <1>2, <2>2 DEF DetectorInv, FoundInv
  <2> QED BY <2>1, <2>2
<1>7. NewInv'
  BY <1>1, <1>2 DEF DetectorInv, NewInv
<1> QED BY <1>4, <1>5, <1>6, <1>7 DEF DetectorInv

\* Every window of deduplication of a rule with occurrences is as long as that of
\* the rows.
LEMMA WindowsCover ==
    ASSUME NEW rule \in {"lost_signal", "go_around"}
    PROVE  DedupWindow[rule] \in Nat /\ DedupWindow[rule] >= LOOKBACK_MINUTES
BY DEF DedupWindow, LOOKBACK_MINUTES

LEMMA DedupKeeps ==
    ASSUME DetectorInv, NEW r \in Runs, Dedup(r)
    PROVE  DetectorInv'
<1> DEFINE left == {x \in found[r] : \A c \in cases : ~Matches(x, c, asOf[r])}
           read == {c.id : c \in {d \in cases : d.open}}
<1>1. /\ found' = [found EXCEPT ![r] = left] /\ known' = [known EXCEPT ![r] = read]
      /\ asOf' = [asOf EXCEPT ![r] = NULL] /\ pc' = [pc EXCEPT ![r] = "insert"]
      /\ pc[r] = "dedup"
      /\ UNCHANGED <<scene, clock, feed, traffic, sky, cases>>
  BY DEF Dedup, envVars
<1>2. /\ found'[r] = left /\ known'[r] = read /\ asOf'[r] = NULL /\ pc'[r] = "insert"
      /\ \A q \in Runs \ {r} : /\ found'[q] = found[q] /\ known'[q] = known[q]
                               /\ asOf'[q] = asOf[q] /\ pc'[q] = pc[q]
      /\ pc' \in [Runs -> {"idle", "dedup", "insert"}]
      /\ DOMAIN found' = Runs /\ DOMAIN asOf' = Runs /\ DOMAIN known' = Runs
  <2> HIDE DEF left, read
  <2> QED BY <1>1 DEF DetectorInv, RunInv
<1>3. read \subseteq 0..Cardinality(cases) - 1 /\ left \subseteq found[r]
  BY DEF DetectorInv, CaseInv
<1>4. ASSUME NEW x \in left, NEW c \in cases, c.id \in read, x.event # NULL, c.event = x.event
      PROVE  c.key # DedupKey(x)
  <2>1. c.open
    BY <1>4 DEF DetectorInv, CaseInv
  <2>2. /\ x.rule \in {"lost_signal", "go_around"} /\ x.event \in Nat
        /\ asOf[r] <= x.event + LOOKBACK_MINUTES /\ asOf[r] \in 0..clock /\ clock \in Nat
    <3>1. x \in found[r]
      OBVIOUS
    <3>2. asOf[r] \in 0..clock /\ clock \in Nat
      BY <1>1 DEF DetectorInv, RunInv, WorldInv
    <3> HIDE DEF left
    <3> QED BY <1>1, <1>4, <3>1, <3>2 DEF DetectorInv, FoundInv
  <2>3. x.event <= c.created /\ c.created \in Nat
    BY <1>4, <2>2 DEF DetectorInv, CaseInv
  <2>4. DedupWindow[x.rule] \in Nat /\ DedupWindow[x.rule] >= LOOKBACK_MINUTES
    BY <2>2, WindowsCover
  <2>5. c.created >= asOf[r] - DedupWindow[x.rule]
    BY <2>2, <2>3, <2>4 DEF LOOKBACK_MINUTES
  <2>6. ~Matches(x, c, asOf[r])
    BY <1>4
  <2> QED BY <2>1, <2>5, <2>6 DEF Matches
<1> HIDE DEF left, read
<1>5. WorldInv' /\ FeedInv' /\ CaseInv' /\ FiledOnce'
  BY <1>1 DEF DetectorInv, WorldInv, FeedInv, CaseInv, FiledOnce
<1>6. RunInv'
  BY <1>1, <1>2, <1>3 DEF DetectorInv, RunInv
<1>7. FoundInv'
  BY <1>1, <1>2, <1>3 DEF DetectorInv, FoundInv
<1>8. NewInv'
  <2> SUFFICES ASSUME NEW q \in Runs, pc'[q] = "insert", NEW x \in found'[q], NEW c \in cases,
                      c.id \in known'[q], x.event # NULL, c.event = x.event
               PROVE  c.key # DedupKey(x)
    BY <1>1 DEF NewInv
  <2>1. CASE q = r
    BY <1>2, <1>4, <2>1
  <2>2. CASE q # r
    BY <1>2, <2>2 DEF DetectorInv, NewInv
  <2> QED BY <2>1, <2>2
<1> QED BY <1>5, <1>6, <1>7, <1>8 DEF DetectorInv

\* A new case has an id that no run has read.
LEMMA InsertCaseKeeps ==
    ASSUME DetectorInv, NEW r \in Runs, InsertCase(r)
    PROVE  DetectorInv'
<1>1. PICK x \in found[r] : /\ cases' = cases \cup {NewCase(r, x)}
                            /\ found' = [found EXCEPT ![r] = @ \ {x}]
  BY DEF InsertCase
<1> DEFINE new == NewCase(r, x)
           n == Cardinality(cases)
<1>2. pc[r] = "insert" /\ UNCHANGED <<scene, clock, feed, traffic, sky, pc, asOf, known>>
  BY DEF InsertCase, envVars
<1>3. /\ DOMAIN new = CaseFields /\ new.id = n /\ new.key = DedupKey(x)
      /\ new.event = x.event /\ new.created = clock /\ new.known = known[r]
  BY DEF NewCase, CaseFields
<1>4. n \in Nat /\ IsFiniteSet(cases) /\ clock \in Nat
  BY FS_CardinalityType DEF DetectorInv, CaseInv, WorldInv
<1>5. cases' = cases \cup {new}
  BY <1>1
<1> HIDE DEF new
<1>6. \A c \in cases : c.id < n /\ c.id \in Nat
  BY <1>4 DEF DetectorInv, CaseInv
<1>7. IsFiniteSet(cases') /\ Cardinality(cases') = n + 1
  <2>1. new \notin cases
    BY <1>3, <1>4, <1>6
  <2> QED BY <1>4, <1>5, <2>1, FS_AddElement
<1>8. /\ found'[r] \subseteq found[r] /\ DOMAIN found' = Runs
      /\ \A q \in Runs : found'[q] \subseteq found[q]
  BY <1>1 DEF DetectorInv, RunInv
<1>9. x.event # NULL => x.event \in Nat /\ x.event <= clock
  BY <1>4 DEF DetectorInv, FoundInv
<1>10. WorldInv' /\ FeedInv'
  BY <1>2 DEF DetectorInv, WorldInv, FeedInv
<1>11. CaseInv'
  <2> HIDE DEF n
  <2>1. ASSUME NEW c \in cases'
        PROVE  /\ DOMAIN c = CaseFields
               /\ c.id \in 0..n /\ c.created \in 0..clock
               /\ c.event # NULL => c.event \in Nat /\ c.event <= c.created
    <3>1. CASE c \in cases
      BY <1>4, <1>6, <3>1 DEF DetectorInv, CaseInv
    <3>2. CASE c = new
      BY <1>3, <1>4, <1>9, <3>2
    <3> QED BY <1>5, <3>1, <3>2
  <2>2. \A c, d \in cases' : c.id = d.id => c = d
    BY <1>3, <1>4, <1>5, <1>6 DEF DetectorInv, CaseInv
  <2> QED BY <1>2, <1>4, <1>7, <2>1, <2>2 DEF CaseInv
<1>12. FoundInv'
  BY <1>2, <1>8 DEF DetectorInv, FoundInv
<1>13. RunInv'
  <2>1. \A q \in Runs : known[q] \subseteq 0..(n + 1) - 1
    BY <1>4 DEF DetectorInv, RunInv
  <2> HIDE DEF n
  <2> QED BY <1>2, <1>7, <1>8, <2>1 DEF DetectorInv, RunInv
<1>14. n \notin known[r] /\ \A q \in Runs : n \notin known[q]
  BY <1>4 DEF DetectorInv, RunInv
<1>15. NewInv'
  <2> HIDE DEF n
  <2> SUFFICES ASSUME NEW q \in Runs, pc[q] = "insert", NEW y \in found'[q], NEW c \in cases',
                      c.id \in known[q], y.event # NULL, c.event = y.event
               PROVE  c.key # DedupKey(y)
    BY <1>2 DEF NewInv
  <2>1. c \in cases /\ y \in found[q]
    BY <1>3, <1>5, <1>8, <1>14
  <2> QED BY <2>1 DEF DetectorInv, NewInv
<1>16. FiledOnce'
  <2> HIDE DEF n
  <2> SUFFICES ASSUME NEW c \in cases', NEW d \in cases', c.id < d.id, c.key = d.key,
                      c.event = d.event, c.event # NULL
               PROVE  c.id \notin d.known
    BY DEF FiledOnce
  <2>1. c \in cases
    BY <1>3, <1>4, <1>5, <1>6
  <2>2. CASE d \in cases
    BY <2>1, <2>2 DEF DetectorInv, FiledOnce
  <2>3. CASE d = new
    BY <1>2, <1>3, <2>1, <2>3 DEF DetectorInv, NewInv
  <2> QED BY <1>5, <2>2, <2>3
<1> QED BY <1>10, <1>11, <1>12, <1>13, <1>15, <1>16 DEF DetectorInv

LEMMA EndRunKeeps ==
    ASSUME DetectorInv, NEW r \in Runs, EndRun(r)
    PROVE  DetectorInv'
<1>1. /\ pc' = [pc EXCEPT ![r] = "idle"] /\ found' = [found EXCEPT ![r] = {}]
      /\ asOf' = [asOf EXCEPT ![r] = NULL] /\ known' = [known EXCEPT ![r] = {}]
      /\ UNCHANGED <<scene, clock, feed, traffic, sky, cases>>
  BY DEF EndRun, envVars
<1>2. /\ pc'[r] = "idle" /\ found'[r] = {} /\ asOf'[r] = NULL /\ known'[r] = {}
      /\ \A q \in Runs \ {r} : /\ found'[q] = found[q] /\ known'[q] = known[q]
                               /\ asOf'[q] = asOf[q] /\ pc'[q] = pc[q]
      /\ pc' \in [Runs -> {"idle", "dedup", "insert"}]
      /\ DOMAIN found' = Runs /\ DOMAIN asOf' = Runs /\ DOMAIN known' = Runs
  BY <1>1 DEF DetectorInv, RunInv
<1>3. WorldInv' /\ FeedInv' /\ CaseInv' /\ FiledOnce'
  BY <1>1 DEF DetectorInv, WorldInv, FeedInv, CaseInv, FiledOnce
<1>4. RunInv' /\ FoundInv' /\ NewInv'
  BY <1>1, <1>2 DEF DetectorInv, RunInv, FoundInv, NewInv
<1> QED BY <1>3, <1>4 DEF DetectorInv

LEMMA DetectorStep ==
    ASSUME DetectorInv, [Next]_vars
    PROVE  DetectorInv'
<1>1. CASE Poll
  BY <1>1, PollKeeps
<1>2. ASSUME NEW s \in Watched, Weather(s) PROVE DetectorInv'
  BY <1>2, WeatherKeeps
<1>3. ASSUME NEW c \in cases, Close(c) PROVE DetectorInv'
  BY <1>3, CloseKeeps
<1>4. ASSUME NEW r \in Runs, ReadFeed(r) \/ Dedup(r) \/ InsertCase(r) PROVE DetectorInv'
  BY <1>4, ReadFeedKeeps, DedupKeeps, InsertCaseKeeps
<1>5. ASSUME NEW r \in Runs, Finish(r) \/ Fail(r) PROVE DetectorInv'
  BY <1>5, EndRunKeeps DEF Finish, Fail
<1>6. CASE UNCHANGED vars
  BY <1>6 DEF vars, envVars, runVars, DetectorInv, WorldInv, FeedInv, CaseInv, FoundInv,
              RunInv, NewInv, FiledOnce
<1> QED BY <1>1, <1>2, <1>3, <1>4, <1>5, <1>6 DEF Next, RunStep, ReadNothing

LEMMA DetectorInvariant == Spec => []DetectorInv
<1>1. DetectorInv /\ [Next]_vars => DetectorInv'
  BY DetectorStep
<1> QED BY <1>1, DetectorInitial, PTL DEF Spec

\* Every variable keeps its type: no row and no case is from the future, the ids
\* of cases count up, and an idle run holds nothing.
THEOREM TypeCorrect == Spec => []TypeOK
<1>1. DetectorInv => TypeOK
  BY DEF DetectorInv, WorldInv, FeedInv, CaseInv, RunInv, TypeOK
<1> QED BY <1>1, DetectorInvariant, PTL

\* One occurrence is filed once, unless the earlier case had been closed, or had
\* not been inserted, when the later run read the open cases (deduplicate).
THEOREM Once == Spec => []FiledOnce
<1>1. DetectorInv => FiledOnce
  BY DEF DetectorInv
<1> QED BY <1>1, DetectorInvariant, PTL

-----------------------------------------------------------------------------
(* What a run says. *)

\* Only a run that has just read the rows finds anything.
LEMMA NewFound ==
    ASSUME DetectorInv, [Next]_vars, NEW r \in Runs,
           ~(found'[r] \subseteq found[r]) \/ (pc[r] = "idle" /\ pc'[r] # "idle")
    PROVE  ReadFeed(r) /\ found'[r] = Findings /\ asOf'[r] = Now
<1>1. CASE Poll \/ (\E s \in Watched : Weather(s)) \/ (\E c \in cases : Close(c)) \/ UNCHANGED vars
  BY <1>1 DEF Poll, Weather, Close, vars, runVars
<1>2. ASSUME NEW q \in Runs, RunStep(q) \/ Fail(q) PROVE ReadFeed(r)
  <2>1. ReadFeed(q) \/ Dedup(q) \/ InsertCase(q) \/ EndRun(q) \/ UNCHANGED vars
    BY <1>2 DEF RunStep, Fail, Finish, ReadNothing
  <2>2. CASE ReadFeed(q)
    BY <2>2 DEF ReadFeed, DetectorInv, RunInv
  <2>3. CASE Dedup(q)
    BY <2>3 DEF Dedup, DetectorInv, RunInv
  <2>4. CASE InsertCase(q)
    BY <2>4 DEF InsertCase, DetectorInv, RunInv
  <2>5. CASE EndRun(q)
    BY <2>5 DEF EndRun, DetectorInv, RunInv
  <2> QED BY <2>1, <2>2, <2>3, <2>4, <2>5, <1>1
<1>3. ReadFeed(r)
  BY <1>1, <1>2 DEF Next
<1> QED BY <1>3 DEF ReadFeed, DetectorInv, RunInv

\* What is said to be lost has been silent (lost_signal, feed_last_ts).
THEOREM Silent == Spec => LostIsSilent
<1>1. ASSUME DetectorInv, [Next]_vars, NEW r \in Runs, NEW x \in found'[r] \ found[r],
             x.rule = "lost_signal"
      PROVE  \A q \in feed[x.about] : q.ts + 14 <= asOf'[r]
  <2>1. ReadFeed(r) /\ x \in Findings /\ asOf'[r] = Now
    BY <1>1, NewFound
  <2>2. InScopeTimes # {} /\ WorldInv /\ FeedInv
    BY <1>1, <2>1 DEF ReadFeed, DetectorInv
  <2>3. Now \in Nat
    BY <2>2, NowIs DEF WorldInv
  <2>4. LostSignalFound(x)
    BY <1>1, <2>1, <2>2, FindingsAre, EventsAreFresh DEF GoAroundFound
  <2>5. Heard(x.about) \in Nat /\ \A q \in feed[x.about] : q.ts <= Heard(x.about) /\ q.ts \in Nat
    BY <2>2, <2>4, HeardIs DEF LostSignalFound, FeedInv, WorldInv
  <2>6. Now - Heard(x.about) >= 14
    BY <2>3, <2>4, <2>5 DEF LostSignalFound
  <2> QED BY <2>1, <2>3, <2>5, <2>6
<1>2. DetectorInv /\ [Next]_vars =>
        [\A r \in Runs : \A x \in found'[r] \ found[r] :
            x.rule = "lost_signal" => \A q \in feed[x.about] : q.ts + 14 <= asOf'[r]]_vars
  BY <1>1
<1> QED BY <1>2, DetectorInvariant, PTL DEF LostIsSilent, Spec

\* A valley with three rows, near an airport, within the window (go_around).
THEOREM Valley == Spec => GoAroundIsValley
<1>1. ASSUME DetectorInv, [Next]_vars, NEW r \in Runs, NEW x \in found'[r] \ found[r],
             x.rule = "go_around"
      PROVE  \E p, q, s \in Near(InScope(feed[x.about]), 10) :
                /\ p.ts < q.ts /\ q.ts < s.ts /\ s.ts - p.ts <= LOOKBACK_MINUTES
                /\ NULL \notin {p.alt, q.alt, s.alt}
                /\ q.alt <= 3000 /\ p.alt >= q.alt + 1000 /\ s.alt >= q.alt + 1000
  <2>1. ReadFeed(r) /\ x \in Findings
    BY <1>1, NewFound
  <2>2. InScopeTimes # {} /\ WorldInv /\ FeedInv
    BY <1>1, <2>1 DEF ReadFeed, DetectorInv
  <2>3. GoAroundFound(x)
    BY <1>1, <2>1, FindingsAre DEF LostSignalFound
  <2> DEFINE flown == Flown(x.about)
             low == LowPoint(flown)
  <2>4. low \in flown /\ flown \subseteq feed[x.about] /\ x.about \in Aircraft
    BY <2>2, <2>3, FlownLow DEF GoAroundFound
  <2>5. \A q \in flown : /\ q.ts \in Nat /\ q.ts <= clock /\ clock <= q.ts + LOOKBACK_MINUTES
                         /\ q.alt \in Int /\ q.alt # NULL /\ clock \in Nat
                         /\ q \in Near(InScope(feed[x.about]), 10)
    <3>1. \A q \in flown : q.alt # NULL /\ q \in Near(InScope(feed[x.about]), 10)
      BY DEF Flown
    <3> HIDE DEF flown
    <3> QED BY <2>2, <2>4, <3>1 DEF FeedInv, WorldInv
  <2>6. IsValley(flown, low)
    BY <2>3 DEF GoAroundFound
  <2> HIDE DEF flown, low
  <2>7. PICK p \in flown, s \in flown : /\ p.ts < low.ts /\ p.alt - low.alt >= 1000
                                        /\ s.ts > low.ts /\ s.alt - low.alt >= 1000
    BY <2>6 DEF IsValley
  <2>8. low.alt <= 3000
    BY <2>6 DEF IsValley
  <2>9. /\ p.ts < low.ts /\ low.ts < s.ts /\ s.ts - p.ts <= LOOKBACK_MINUTES
        /\ NULL \notin {p.alt, low.alt, s.alt}
        /\ p.alt >= low.alt + 1000 /\ s.alt >= low.alt + 1000
    BY <2>4, <2>5, <2>7 DEF LOOKBACK_MINUTES
  <2> QED BY <2>4, <2>5, <2>7, <2>8, <2>9
<1>2. DetectorInv /\ [Next]_vars =>
        [\A r \in Runs : \A x \in found'[r] \ found[r] : x.rule = "go_around" =>
          \E p, q, s \in Near(InScope(feed[x.about]), 10) :
              /\ p.ts < q.ts /\ q.ts < s.ts /\ s.ts - p.ts <= LOOKBACK_MINUTES
              /\ NULL \notin {p.alt, q.alt, s.alt}
              /\ q.alt <= 3000 /\ p.alt >= q.alt + 1000 /\ s.alt >= q.alt + 1000]_vars
  BY <1>1
<1> QED BY <1>2, DetectorInvariant, PTL DEF GoAroundIsValley, Spec

\* The category of a report is IFR or worse when its ceiling or its visibility
\* is (_extract_ceiling_ft, _compute_flight_category).
LEMMA CategoryIs ==
    ASSUME NEW m, IsFiniteSet(m.clouds), \A l \in m.clouds : l.base \in Int,
           m.visibility \in Int \cup {NULL}
    PROVE  FlightCategory(m) \in {"IFR", "LIFR"} <=>
             \/ \E l \in m.clouds : l.cover \in {"BKN", "OVC", "OVX", "VV"} /\ l.base < 1000
             \/ m.visibility # NULL /\ m.visibility < 3
<1> DEFINE ceiling == Ceiling(m.clouds)
           sm == m.visibility
           c == CeilingRank(ceiling)
           v == VisibilityRank(sm)
           layers == {l \in m.clouds : l.cover \in CeilingCovers}
<1>1. /\ layers = {} => ceiling = NULL
      /\ layers # {} => /\ ceiling \in Int /\ \E l \in layers : l.base = ceiling
                        /\ \A l \in layers : ceiling <= l.base
  BY CeilingIs
<1>2. NULL \notin Int
  BY RulesAssumption
<1>3. ceiling # NULL /\ ceiling < 1000 <=> \E l \in layers : l.base < 1000
  <2>1. \A l \in layers : l.base \in Int
    OBVIOUS
  <2> HIDE DEF layers, ceiling
  <2> QED BY <1>1, <1>2, <2>1
<1> HIDE DEF ceiling, layers, sm
<1>4. c \in 1..4 /\ (c <= 2 <=> ceiling # NULL /\ ceiling < 1000)
  BY <1>1, <1>2 DEF CeilingRank
<1>5. v \in 1..4 /\ (v <= 2 <=> sm # NULL /\ sm < 3)
  BY <1>2 DEF VisibilityRank, sm
<1>6. FlightCategory(m) = IF ceiling = NULL /\ sm = NULL THEN NULL
                          ELSE Worst[IF c < v THEN c ELSE v]
  BY DEF FlightCategory, ceiling, sm
<1>7. CASE ceiling = NULL /\ sm = NULL
  <2>1. FlightCategory(m) = NULL
    BY <1>6, <1>7
  <2> QED BY <1>3, <1>7, <2>1, RulesAssumption DEF layers, sm, CeilingCovers
<1>8. CASE ~(ceiling = NULL /\ sm = NULL)
  <2> HIDE DEF c, v
  <2>1. PICK k \in 1..4 : FlightCategory(m) = Worst[k] /\ (k <= 2 <=> c <= 2 \/ v <= 2)
    BY <1>4, <1>5, <1>6, <1>8
  <2>2. Worst[k] \in {"IFR", "LIFR"} <=> k <= 2
    BY DEF Worst
  <2> QED BY <1>3, <1>4, <1>5, <2>1, <2>2 DEF layers, sm, CeilingCovers
<1> QED BY <1>7, <1>8

\* The weather that is found bad is that of the airports where it is, and of no
\* other (weather_impact, noaa_weather).
THEOREM Weathered == Spec => WeatherIsReal
<1> DEFINE Bad == {s \in Watched :
                     \/ \E l \in sky[s].clouds :
                            l.cover \in {"BKN", "OVC", "OVX", "VV"} /\ l.base < 1000
                     \/ sky[s].visibility # NULL /\ sky[s].visibility < 3}
<1>1. ASSUME WorldInv PROVE Bad = {s \in Watched : FlightCategory(sky[s]) \in {"IFR", "LIFR"}}
  <2> SUFFICES ASSUME NEW s \in Watched
               PROVE  FlightCategory(sky[s]) \in {"IFR", "LIFR"} <=>
                        \/ \E l \in sky[s].clouds :
                               l.cover \in {"BKN", "OVC", "OVX", "VV"} /\ l.base < 1000
                        \/ sky[s].visibility # NULL /\ sky[s].visibility < 3
    OBVIOUS
  <2>1. sky[s] \in scene.skies /\ scene \in Scenes
    BY <1>1 DEF WorldInv
  <2>2. /\ IsFiniteSet(sky[s].clouds) /\ \A l \in sky[s].clouds : l.base \in Int
        /\ sky[s].visibility \in Int \cup {NULL}
    BY <2>1, DetectorAssumption
  <2> QED BY <2>2, CategoryIs
<1>2. \A x \in WeatherImpact(sky) :
        x.rule = "weather_impact" /\ x.site \in Watched /\ FlightCategory(sky[x.site]) \in {"IFR", "LIFR"}
  BY DEF WeatherImpact, Anomaly
<1>3. \A s \in Watched : FlightCategory(sky[s]) \in {"IFR", "LIFR"} =>
        \E x \in WeatherImpact(sky) : x.rule = "weather_impact" /\ x.site = s
  <2> SUFFICES ASSUME NEW s \in Watched, FlightCategory(sky[s]) \in {"IFR", "LIFR"}
               PROVE  \E x \in WeatherImpact(sky) : x.rule = "weather_impact" /\ x.site = s
    OBVIOUS
  <2> DEFINE x == Anomaly("weather_impact", NULL, s, <<FlightCategory(sky[s])>>,
                          IF FlightCategory(sky[s]) = "LIFR" THEN "high" ELSE "medium", NULL)
  <2>1. x \in WeatherImpact(sky)
    BY DEF WeatherImpact
  <2>2. x.rule = "weather_impact" /\ x.site = s
    BY DEF Anomaly
  <2> QED BY <2>1, <2>2
<1>4. ASSUME NEW x \in Findings, x.rule = "weather_impact" PROVE x \in WeatherImpact(sky)
  <2>1. \A a, rows, heard, plan, now : \A y \in Anomalies(a, rows, heard, plan, now) :
          y.rule \in {"lost_signal", "diversion", "excessive_hold", "go_around", "delay"}
    BY DEF Anomalies, LostSignal, Diversion, ExcessiveHold, GoAround, Delay, Anomaly
  <2> QED BY <1>4, <2>1 DEF Findings
<1>5. ASSUME DetectorInv, [Next]_vars, NEW r \in Runs, pc[r] = "idle" /\ pc'[r] # "idle"
      PROVE  {x.site : x \in {y \in found'[r] : y.rule = "weather_impact"}} = Bad
  <2>1. ReadFeed(r) /\ found'[r] = Findings
    BY <1>5, NewFound
  <2>2. WeatherImpact(sky) \subseteq Findings
    BY <2>1 DEF ReadFeed, Findings
  <2>3. Bad = {s \in Watched : FlightCategory(sky[s]) \in {"IFR", "LIFR"}}
    BY <1>1, <1>5 DEF DetectorInv
  <2> HIDE DEF Bad
  <2> QED BY <1>2, <1>3, <1>4, <2>1, <2>2, <2>3
<1>6. DetectorInv /\ [Next]_vars =>
        [\A r \in Runs : pc[r] = "idle" /\ pc'[r] # "idle" =>
          {x.site : x \in {y \in found'[r] : y.rule = "weather_impact"}} = Bad]_vars
  <2> HIDE DEF Bad
  <2> QED BY <1>5
<1> QED BY <1>6, DetectorInvariant, PTL DEF WeatherIsReal, Spec
=============================================================================
