--------------------------- MODULE CasePullProofs ---------------------------
(***************************************************************************)
(* What CasePull promises for every set of Cases, every Limit, every grain *)
(* of the clock and any number of pulls: with pulls that overlap and fail  *)
(* at any point, with equal stamps, and with no watermark to begin with.   *)
(***************************************************************************)
EXTENDS CasePull, FiniteSetTheorems, TLAPS

-----------------------------------------------------------------------------
(* The bound of the query. *)

LEMMA FloorType ==
    ASSUME NEW t \in Nat
    PROVE  Floor(t) \in Nat /\ Floor(t) <= t /\ t < Floor(t) + Second
<1>1. t % Second \in 0 .. (Second - 1) /\ t % Second <= t
  BY PullAssumption
<1> QED BY <1>1, PullAssumption DEF Floor

LEMMA FloorMultiple ==
    ASSUME NEW t \in Nat
    PROVE  \E k \in Nat : Floor(t) = Second * k
<1>1. t = Second * (t \div Second) + (t % Second)
  BY PullAssumption
<1>2. t \div Second \in Nat
  BY PullAssumption
<1>3. t % Second \in Nat /\ Second * (t \div Second) \in Nat
  BY <1>2, PullAssumption
<1>4. Floor(t) = Second * (t \div Second)
  <2> DEFINE m == Second * (t \div Second)
             d == t % Second
  <2>1. m \in Nat /\ d \in Nat /\ t = m + d
    BY <1>1, <1>3
  <2> HIDE DEF m
  <2>2. Floor(t) = m
    BY <2>1 DEF Floor
  <2> QED BY <2>2 DEF m
<1> QED BY <1>2, <1>4

LEMMA Multiples ==
    ASSUME NEW a \in Nat, NEW b \in Nat, NEW n \in Nat \ {0}, n * a < n * b + n
    PROVE  n * a <= n * b
<1>1. CASE a <= b
  BY <1>1
<1>2. CASE b + 1 <= a
  <2>1. n * (b + 1) <= n * a
    BY <1>2
  <2>2. n * (b + 1) = n * b + n
    OBVIOUS
  <2> QED BY <2>1, <2>2
<1> QED BY <1>1, <1>2

LEMMA FloorBound ==
    ASSUME NEW s \in Nat, NEW t \in Nat, Floor(s) < t
    PROVE  Floor(s) <= Floor(t)
<1>1. PICK a \in Nat : Floor(s) = Second * a
  BY FloorMultiple
<1>2. PICK b \in Nat : Floor(t) = Second * b
  BY FloorMultiple
<1>3. Second * a < Second * b + Second
  BY <1>1, <1>2, FloorType, PullAssumption
<1>4. Second * a <= Second * b
  BY <1>3, Multiples, PullAssumption
<1> QED BY <1>1, <1>2, <1>4

-----------------------------------------------------------------------------
(* Types. *)

LEMMA TypedInit == Init => TypeOK
<1> SUFFICES ASSUME Init PROVE TypeOK
  OBVIOUS
<1>1. Nothing \in [DOMAIN Nothing -> Nat] /\ DOMAIN Nothing \subseteq Recs
  BY DEF Nothing
<1> QED BY <1>1, PullAssumption DEF Init, TypeOK

LEMMA DropType ==
    ASSUME NEW b, b \in [DOMAIN b -> Nat], DOMAIN b \subseteq Recs, NEW r
    PROVE  /\ Drop(b, r) \in [DOMAIN Drop(b, r) -> Nat]
           /\ DOMAIN Drop(b, r) = DOMAIN b \ {r}
           /\ DOMAIN Drop(b, r) \subseteq Recs
           /\ \A s \in DOMAIN b \ {r} : Drop(b, r)[s] = b[s]
BY DEF Drop

LEMMA MarkType == TypeOK => Mark \in Nat
BY PullAssumption DEF TypeOK, Mark, DefaultMark

LEMMA TypedStep == TypeOK /\ [Next]_vars => TypeOK'
<1> SUFFICES ASSUME TypeOK, [Next]_vars
             PROVE  TypeOK'
  OBVIOUS
<1> USE PullAssumption DEF TypeOK, sfVars, pgVars, pullVars, history
<1>1. CASE Tick
  BY <1>1 DEF Tick
<1>2. ASSUME NEW r \in Recs, Modify(r) PROVE TypeOK'
  BY <1>2 DEF Modify
<1>3. ASSUME NEW p \in Pulls, ReadWatermark(p) PROVE TypeOK'
  BY <1>3, MarkType DEF ReadWatermark, Others
<1>4. ASSUME NEW p \in Pulls, Query(p) PROVE TypeOK'
  <2>1. PICK page \in SUBSET Recs : batch' = [batch EXCEPT ![p] = [r \in page |-> modified[r]]]
    BY <1>4 DEF Query, Hits
  <2> DEFINE b == [r \in page |-> modified[r]]
  <2>2. b \in [DOMAIN b -> Nat] /\ DOMAIN b \subseteq Recs
    BY <2>1
  <2> HIDE DEF b
  <2>3. batch' = [q \in Pulls |-> batch'[q]] /\ batch'[p] = b
        /\ \A q \in Pulls \ {p} : batch'[q] = batch[q]
    BY <2>1 DEF b
  <2>4. \A q \in Pulls : DOMAIN batch'[q] \subseteq Recs
                         /\ batch'[q] \in [DOMAIN batch'[q] -> Nat]
    BY <2>2, <2>3
  <2>5. lapsed' \subseteq Recs
    BY <1>4 DEF Query, Hits, Cut
  <2> QED BY <1>4, <2>3, <2>4, <2>5 DEF Query
<1>5. ASSUME NEW p \in Pulls, Unmatched(p) \/ ApplyRecord(p) PROVE TypeOK'
  <2>1. PICK r : batch' = [batch EXCEPT ![p] = Drop(batch[p], r)]
    BY <1>5 DEF Unmatched, ApplyRecord
  <2>2. batch' = [q \in Pulls |-> batch'[q]] /\ batch'[p] = Drop(batch[p], r)
        /\ \A q \in Pulls \ {p} : batch'[q] = batch[q]
    BY <2>1
  <2>3. \A q \in Pulls : DOMAIN batch'[q] \subseteq Recs
                         /\ batch'[q] \in [DOMAIN batch'[q] -> Nat]
    <3>1. DOMAIN batch'[p] \subseteq Recs /\ batch'[p] \in [DOMAIN batch'[p] -> Nat]
      <4>1. batch[p] \in [DOMAIN batch[p] -> Nat] /\ DOMAIN batch[p] \subseteq Recs
        OBVIOUS
      <4>2. Drop(batch[p], r) \in [DOMAIN Drop(batch[p], r) -> Nat]
            /\ DOMAIN Drop(batch[p], r) \subseteq Recs
        BY <4>1, DropType
      <4> QED BY <2>2, <4>2
    <3> QED BY <2>2, <3>1
  <2>4. CASE Unmatched(p)
    BY <2>4, <2>2, <2>3 DEF Unmatched, Seen, IsNext
  <2>5. CASE ApplyRecord(p)
    BY <2>5, <2>2, <2>3 DEF ApplyRecord, Seen, IsNext, Applied
  <2> QED BY <1>5, <2>4, <2>5
<1>7. ASSUME NEW p \in Pulls, Return(p), UNCHANGED <<sfVars, row, linked>>,
             watermark' \in Nat \cup {NULL}
      PROVE  TypeOK'
  <2>1. Nothing \in [DOMAIN Nothing -> Nat] /\ DOMAIN Nothing \subseteq Recs
    BY DEF Nothing
  <2> QED BY <1>7, <2>1 DEF Return
<1>8. ASSUME NEW p \in Pulls, WriteWatermark(p) PROVE TypeOK'
  BY <1>7, <1>8 DEF WriteWatermark
<1>9. ASSUME NEW p \in Pulls, Fail(p) PROVE TypeOK'
  BY <1>7, <1>9 DEF Fail
<1>10. CASE UNCHANGED vars
  BY <1>10 DEF vars
<1> QED BY <1>1, <1>2, <1>3, <1>4, <1>5, <1>8, <1>9, <1>10
    DEF Next, PullStep

\* The type invariant of CasePull holds in every reachable state, however many
\* pulls overlap (pull_from_sf).
THEOREM TypeCorrect == Spec => []TypeOK
BY TypedInit, TypedStep, PTL DEF Spec

-----------------------------------------------------------------------------
(* What a step keeps.                                                      *)

\* Mirrored as it is, or excepted.
Kept(r) == Current(r) \/ r \in lapsed

\* A pull whose own variables stay stands as it stood, if the rows do.
LEMMA SoundKeeps ==
    ASSUME NEW q \in Pulls, UNCHANGED <<modified, since[q], batch[q], top[q], pc[q]>>,
           \A r \in Local : Kept(r) => Kept(r)',
           PullSound(q),
           pc'[q] # "idle" /\ q \notin overlapped' => Alone(q)'
    PROVE  PullSound(q)'
<1>1. \A t : Ahead(q, t)' = Ahead(q, t)
  BY DEF Ahead, Floor
<1>2. SinceSound(q) => SinceSound(q)'
  BY DEF SinceSound, Kept, Floor
<1>3. BatchSound(q) => BatchSound(q)'
  BY <1>1 DEF BatchSound, Kept, Floor
<1>4. RestSound(q) => RestSound(q)'
  BY <1>1 DEF RestSound, Kept
<1>5. batch[q] = Nothing => (batch[q] = Nothing)'
  BY DEF Nothing
<1> QED BY <1>2, <1>3, <1>4, <1>5 DEF PullSound, Floor

\* Beside a step of another pull, none is alone.
LEMMA NotAlone ==
    ASSUME PullInv, NEW p \in Pulls, NEW q \in Pulls \ {p}, PullStep(p) \/ Fail(p)
    PROVE  pc'[q] = pc[q] /\ (pc'[q] # "idle" => q \in overlapped')
<1>1. pc'[q] = pc[q]
  BY DEF PullStep, ReadWatermark, Query, Unmatched, ApplyRecord, WriteWatermark, Fail, Return,
     PullInv, TypeOK
<1>2. CASE ReadWatermark(p)
  BY <1>1, <1>2 DEF ReadWatermark, Others
<1>3. CASE ~ReadWatermark(p)
  <2>1. pc[p] # "idle"
    BY <1>3 DEF PullStep, Query, Unmatched, ApplyRecord, WriteWatermark, Fail
  <2>2. pc[q] # "idle" => q \in overlapped
    BY <2>1 DEF PullInv, PullSound, Alone, Others
  <2>3. overlapped \ {p} \subseteq overlapped'
    BY <1>3 DEF PullStep, Query, Unmatched, ApplyRecord, WriteWatermark, Fail, Return, history
  <2> QED BY <1>1, <2>2, <2>3
<1> QED BY <1>1, <1>2, <1>3

\* So a step of pull p keeps the invariant if p is sound after it and the rows
\* are kept.
LEMMA StepKeeps ==
    ASSUME PullInv, NEW p \in Pulls, PullStep(p) \/ Fail(p), UNCHANGED sfVars,
           TypeOK', Stamps', NothingForgotten',
           \A q \in Pulls \ {p} : UNCHANGED <<since[q], batch[q], top[q]>>,
           \A r \in Local : Kept(r) => Kept(r)',
           PullSound(p)'
    PROVE  PullInv'
<1>1. ASSUME NEW q \in Pulls \ {p} PROVE PullSound(q)'
  <2>1. pc'[q] = pc[q] /\ (pc'[q] # "idle" => q \in overlapped')
    BY NotAlone
  <2> QED BY <2>1, SoundKeeps DEF PullInv, sfVars
<1> QED BY <1>1 DEF PullInv

LEMMA ForgottenKeeps ==
    ASSUME NothingForgotten, UNCHANGED <<modified, Mark>>,
           \A r \in Local : Kept(r) => Kept(r)'
    PROVE  NothingForgotten'
BY DEF NothingForgotten, Kept, Floor

LEMMA InvInit == Init => PullInv
<1> SUFFICES ASSUME Init PROVE PullInv
  OBVIOUS
<1>1. TypeOK
  BY TypedInit
<1>2. Stamps
  BY <1>1, PullAssumption DEF Stamps, Init, TypeOK
<1>3. NothingForgotten
  BY PullAssumption DEF NothingForgotten, Init
<1>4. \A p \in Pulls : PullSound(p)
  BY DEF PullSound, Init
<1> QED BY <1>1, <1>2, <1>3, <1>4 DEF PullInv

-----------------------------------------------------------------------------
(* Salesforce and the clock.                                               *)

LEMMA TickKeeps ==
    ASSUME PullInv, Tick
    PROVE  PullInv'
<1>1. TypeOK'
  BY TypedStep DEF Next, PullInv
<1>2. /\ UNCHANGED <<modified, watermark, row, linked, pc, since, batch, top, overlapped>>
      /\ now' = now + 1 /\ lapsed \subseteq lapsed'
  BY DEF Tick, pgVars, pullVars
<1>3. Stamps'
  BY <1>2 DEF PullInv, Stamps, TypeOK
<1>4. NothingForgotten'
  BY <1>2 DEF NothingForgotten, Tick, Current, Floor
<1>5. \A r \in Local : Kept(r) => Kept(r)'
  BY <1>2 DEF Kept, Current
<1>6. ASSUME NEW q \in Pulls PROVE PullSound(q)'
  <2>1. Alone(q)' = Alone(q)
    BY <1>2 DEF Alone, Others
  <2>2. pc'[q] # "idle" /\ q \notin overlapped' => Alone(q)'
    BY <1>2, <2>1 DEF PullInv, PullSound
  <2> QED BY <1>2, <1>5, <2>2, SoundKeeps DEF PullInv
<1> QED BY <1>1, <1>3, <1>4, <1>6 DEF PullInv

LEMMA ModifyKeeps ==
    ASSUME PullInv, NEW x \in Recs, Modify(x)
    PROVE  PullInv'
<1> USE PullAssumption
<1>1. TypeOK'
  BY TypedStep DEF Next, PullInv
<1>2. /\ modified[x] < now /\ now \in Nat
      /\ \A r \in Recs : modified'[r] = IF r = x THEN now ELSE modified[r]
      /\ \A r \in Recs : modified[r] \in Nat
      /\ UNCHANGED <<now, watermark, row, linked, pc, since, batch, top, overlapped>>
      /\ \A r \in Recs \ {x} : r \in lapsed' <=> r \in lapsed
  BY DEF Modify, PullInv, TypeOK, pgVars, pullVars
<1>3. Stamps'
  BY <1>2 DEF PullInv, Stamps, TypeOK
<1>4. ASSUME x \notin lapsed'
      PROVE  \A m \in Marks : ~(now <= Floor(m))
  BY <1>4 DEF Modify, Passed
<1>5. Mark' = Mark
  BY <1>2 DEF Mark, DefaultMark
<1>6. \A r \in Local \ {x} : Current(r)' = Current(r)
  BY <1>2 DEF Current
<1>7. NothingForgotten'
  <2>1. x \notin lapsed' => ~(now <= Floor(Mark))
    BY <1>4 DEF Marks
  <2> QED BY <1>2, <1>5, <1>6, <2>1 DEF PullInv, NothingForgotten, Floor
<1>8. ASSUME NEW p \in Pulls PROVE PullSound(p)'
  <2>1. PullSound(p) /\ top[p] \in Nat /\ since[p] \in Nat
        /\ \A s \in DOMAIN batch[p] : batch[p][s] \in Nat /\ s \in Recs
    BY DEF PullInv, TypeOK
  <2>2. \A t : Ahead(p, t)' = Ahead(p, t)
    BY <1>2 DEF Ahead, Floor
  <2>3. x \notin lapsed' => Ahead(p, now) /\ ~(now <= Floor(since[p]))
    <3>1. {since[p], top[p]} \cup {batch[p][r] : r \in DOMAIN batch[p]} \subseteq Marks
      BY DEF Marks
    <3>2. Floor(top[p]) \in Nat /\ \A s \in DOMAIN batch[p] : Floor(batch[p][s]) \in Nat
      BY <2>1, FloorType
    <3> QED BY <1>2, <1>4, <3>1, <3>2 DEF Ahead
  <2>4. SinceSound(p) => SinceSound(p)'
    BY <1>2, <1>6, <2>3 DEF SinceSound, Floor
  <2>5. BatchSound(p) => BatchSound(p)'
    <3> SUFFICES ASSUME BatchSound(p), NEW r \in DOMAIN batch[p]
                 PROVE  /\ Floor(since[p]) < batch[p][r] /\ batch[p][r] <= modified'[r]
                        /\ r \in Local => \/ batch[p][r] = modified'[r] \/ Current(r)'
                                          \/ Ahead(p, modified[r])' \/ r \in lapsed'
      BY <1>2 DEF BatchSound, Floor
    <3>1. Floor(since[p]) < batch[p][r] /\ batch[p][r] <= modified'[r]
      BY <1>2, <2>1 DEF BatchSound
    <3>2. CASE r = x
      BY <1>2, <2>1, <2>2, <2>3, <3>1, <3>2
    <3>3. CASE r # x
      BY <1>2, <1>6, <2>1, <2>2, <3>1, <3>3 DEF BatchSound
    <3> QED BY <3>2, <3>3
  <2>6. RestSound(p) => RestSound(p)'
    BY <1>2, <1>6, <2>2, <2>3, PullAssumption DEF RestSound
  <2>7. Alone(p)' = Alone(p)
    BY <1>2 DEF Alone, Others
  <2> QED BY <1>2, <2>1, <2>4, <2>5, <2>6, <2>7 DEF PullSound, Floor, Nothing
<1> QED BY <1>1, <1>3, <1>7, <1>8 DEF PullInv

-----------------------------------------------------------------------------
(* The steps of a pull.                                                    *)

LEMMA ReadKeeps ==
    ASSUME PullInv, NEW p \in Pulls, ReadWatermark(p)
    PROVE  PullInv'
<1>1. TypeOK'
  BY TypedStep DEF Next, PullStep, PullInv
<1>2. /\ UNCHANGED <<now, modified, watermark, row, linked, batch, top, lapsed>>
      /\ pc' = [pc EXCEPT ![p] = "query"]
      /\ since' = [since EXCEPT ![p] = Mark]
  BY DEF ReadWatermark, sfVars, pgVars
<1>3. Mark' = Mark
  BY <1>2 DEF Mark, DefaultMark
<1>4. \A r \in Local : Kept(r) => Kept(r)'
  BY <1>2 DEF Kept, Current
<1>5. Stamps' /\ NothingForgotten'
  BY <1>2, <1>3, <1>4, ForgottenKeeps DEF PullInv, Stamps
<1>6. batch'[p] = Nothing /\ top'[p] = 0 /\ pc'[p] = "query" /\ since'[p] = Mark
  BY <1>2 DEF ReadWatermark, PullInv, PullSound, TypeOK
<1>7. SinceSound(p)'
  BY <1>2, <1>5, <1>6 DEF SinceSound, NothingForgotten, PullInv, Current, Floor
<1>8. p \notin overlapped' => Alone(p)'
  <2>1. Others(p)' = Others(p)
    BY <1>2 DEF Others, PullInv, TypeOK
  <2>2. p \notin overlapped' => Others(p) = {}
    BY DEF ReadWatermark
  <2> QED BY <1>2, <1>6, <2>1, <2>2 DEF Alone, Mark, Nothing
<1>9. PullSound(p)'
  BY <1>6, <1>7, <1>8 DEF PullSound, Nothing
<1>10. \A q \in Pulls \ {p} : UNCHANGED <<since[q], batch[q], top[q]>>
  BY <1>2 DEF PullInv, TypeOK
<1> QED BY <1>1, <1>4, <1>5, <1>9, <1>10, StepKeeps DEF PullStep, ReadWatermark

LEMMA QueryKeeps ==
    ASSUME PullInv, NEW p \in Pulls, Query(p)
    PROVE  PullInv'
<1> USE PullAssumption
<1>1. TypeOK'
  BY TypedStep DEF Next, PullStep, PullInv
<1>2. /\ UNCHANGED <<now, modified, watermark, row, linked, since, top, overlapped>>
      /\ pc[p] = "query" /\ pc' = [pc EXCEPT ![p] = "apply"]
  BY DEF Query, sfVars, pgVars
<1>3. /\ top[p] = 0 /\ SinceSound(p)
      /\ p \notin overlapped => Alone(p)
      /\ \A r \in Recs : modified[r] \in Nat
      /\ since[p] \in Nat
  BY <1>2 DEF PullInv, PullSound, TypeOK
<1>4. PICK page \in SUBSET Hits(since[p]) :
        /\ IsPage(page, Hits(since[p]))
        /\ batch' = [batch EXCEPT ![p] = [r \in page |-> modified[r]]]
        /\ lapsed' = lapsed \cup Cut(page, Hits(since[p]))
  BY DEF Query
<1>5. batch'[p] = [r \in page |-> modified[r]] /\ page \subseteq Recs
  BY <1>4 DEF PullInv, TypeOK, Hits
<1>6. \A r \in Local : Kept(r) => Kept(r)'
  BY <1>2, <1>4 DEF Kept, Current
<1>7. Stamps' /\ NothingForgotten'
  <2>1. Mark' = Mark
    BY <1>2 DEF Mark, DefaultMark
  <2> QED BY <1>2, <1>6, <2>1, ForgottenKeeps DEF PullInv, Stamps
<1>8. SinceSound(p)'
  BY <1>2, <1>3, <1>6 DEF SinceSound, Kept, Floor
<1>9. BatchSound(p)'
  BY <1>2, <1>3, <1>4, <1>5 DEF BatchSound, Hits, Floor
<1>10. RestSound(p)'
  <2> SUFFICES ASSUME NEW r \in Local \ page, modified[r] # 0, ~Kept(r)'
               PROVE  Ahead(p, modified[r])'
    BY <1>2, <1>5 DEF RestSound, Kept
  <2>1. r \in Recs /\ modified[r] \in Nat /\ Floor(since[p]) \in Nat
    BY <1>3, FloorType
  <2>2. r \in Hits(since[p])
    BY <1>3, <1>6, <2>1 DEF Hits, SinceSound, Kept
  <2>3. \A s \in page : modified[s] <= modified[r]
    BY <1>4, <2>2 DEF IsPage
  <2>4. ASSUME NEW s \in page PROVE modified[r] > Floor(modified[s])
    <3>1. s \in Recs /\ modified[s] \in Nat /\ modified[s] <= modified[r]
      BY <1>3, <1>5, <2>3
    <3>2. Floor(modified[s]) \in Nat /\ Floor(modified[s]) <= modified[s]
      BY <3>1, FloorType
    <3>3. ~(modified[s] = modified[r] /\ Floor(modified[r]) = modified[r])
      BY <1>4, <2>2 DEF Cut, Kept
    <3>4. CASE modified[s] = modified[r]
      BY <2>1, <3>2, <3>3, <3>4
    <3>5. CASE modified[s] # modified[r]
      BY <2>1, <3>1, <3>2, <3>5
    <3> QED BY <3>4, <3>5
  <2>5. modified[r] > Floor(0)
    <3>1. Floor(0) \in Nat /\ Floor(0) <= 0
      BY FloorType
    <3> QED BY <2>1, <3>1
  <2> QED BY <1>2, <1>3, <1>5, <2>4, <2>5 DEF Ahead, Floor
<1>11. p \notin overlapped' => Alone(p)'
  <2>1. Others(p)' = Others(p)
    BY <1>2 DEF Others, PullInv, TypeOK
  <2> QED BY <1>2, <1>3, <1>5, <2>1 DEF Alone, PullInv, Stamps
<1>12. PullSound(p)'
  BY <1>1, <1>2, <1>3, <1>8, <1>9, <1>10, <1>11 DEF PullSound, PullInv, TypeOK
<1>13. \A q \in Pulls \ {p} : UNCHANGED <<since[q], batch[q], top[q]>>
  BY <1>2, <1>4 DEF PullInv, TypeOK
<1> QED BY <1>1, <1>6, <1>7, <1>12, <1>13, StepKeeps DEF PullStep, Query

\* Going through record r raises the top to its stamp, which is behind every
\* stamp that was ahead of the pull.
LEMMA SeenKeeps ==
    ASSUME PullInv, NEW p \in Pulls, NEW r \in DOMAIN batch[p],
           pc[p] = "apply", Seen(p, r), batch' = [batch EXCEPT ![p] = Drop(@, r)]
    PROVE  /\ DOMAIN batch'[p] = DOMAIN batch[p] \ {r}
           /\ \A s \in DOMAIN batch'[p] : batch'[p][s] = batch[p][s]
           /\ \A q \in Pulls \ {p} : UNCHANGED <<batch[q], top[q]>>
           /\ \A t \in Nat : Ahead(p, t) => Ahead(p, t)'
           /\ top'[p] # 0 => Floor(since[p]) < top'[p]
<1>1. /\ top'[p] = IF batch[p][r] > top[p] THEN batch[p][r] ELSE top[p]
      /\ \A q \in Pulls \ {p} : UNCHANGED <<batch[q], top[q]>>
      /\ DOMAIN batch'[p] = DOMAIN batch[p] \ {r}
      /\ \A s \in DOMAIN batch'[p] : batch'[p][s] = batch[p][s]
  BY DEF Seen, PullInv, TypeOK, Drop
<1>2. PullSound(p) /\ BatchSound(p)
  BY DEF PullInv, PullSound
<1>3. /\ top[p] \in Nat /\ batch[p][r] \in Nat /\ Floor(since[p]) \in Nat
  BY FloorType DEF PullInv, TypeOK
<1>4. ASSUME NEW t \in Nat, Ahead(p, t) PROVE Ahead(p, t)'
  BY <1>1, <1>4 DEF Ahead, Floor
<1>5. top'[p] # 0 => Floor(since[p]) < top'[p]
  BY <1>1, <1>2, <1>3 DEF BatchSound, PullSound
<1> QED BY <1>1, <1>4, <1>5

LEMMA UnmatchedKeeps ==
    ASSUME PullInv, NEW p \in Pulls, Unmatched(p)
    PROVE  PullInv'
<1> USE PullAssumption
<1>1. TypeOK'
  BY TypedStep DEF Next, PullStep, PullInv
<1>2. PICK c \in Recs \ Local :
        IsNext(p, c) /\ Seen(p, c) /\ batch' = [batch EXCEPT ![p] = Drop(@, c)]
  BY DEF Unmatched
<1>3. /\ UNCHANGED <<now, modified, watermark, row, linked, pc, since, lapsed, overlapped>>
      /\ pc[p] = "apply" /\ c \in DOMAIN batch[p]
  BY <1>2 DEF Unmatched, IsNext, sfVars, pgVars, history
<1>4. /\ DOMAIN batch'[p] = DOMAIN batch[p] \ {c}
      /\ \A s \in DOMAIN batch'[p] : batch'[p][s] = batch[p][s]
      /\ \A q \in Pulls \ {p} : UNCHANGED <<batch[q], top[q]>>
      /\ \A t \in Nat : Ahead(p, t) => Ahead(p, t)'
      /\ top'[p] # 0 => Floor(since[p]) < top'[p]
  BY <1>2, <1>3, SeenKeeps
<1>5. /\ PullSound(p) /\ BatchSound(p) /\ RestSound(p) /\ SinceSound(p)
      /\ \A s \in Recs : modified[s] \in Nat
      /\ DOMAIN batch[p] \subseteq Recs
  BY <1>3 DEF PullInv, PullSound, TypeOK
<1>6. \A r \in Local : Kept(r) => Kept(r)'
  BY <1>3 DEF Kept, Current
<1>7. Stamps' /\ NothingForgotten'
  <2>1. Mark' = Mark
    BY <1>3 DEF Mark, DefaultMark
  <2> QED BY <1>3, <1>6, <2>1, ForgottenKeeps DEF PullInv, Stamps
<1>8. BatchSound(p)' /\ SinceSound(p)'
  BY <1>3, <1>4, <1>5 DEF BatchSound, SinceSound, Current, Floor
<1>9. RestSound(p)'
  BY <1>3, <1>4, <1>5 DEF RestSound, Current
<1>10. p \notin overlapped' => Alone(p)'
  <2>1. p \notin overlapped => Alone(p)
    BY <1>3 DEF PullInv, PullSound
  <2>2. Others(p)' = Others(p)
    BY <1>3 DEF Others
  <2> QED BY <1>3, <1>4, <2>1, <2>2 DEF Alone
<1>11. PullSound(p)'
  BY <1>3, <1>4, <1>5, <1>8, <1>9, <1>10 DEF PullSound, Floor
<1> QED BY <1>1, <1>3, <1>4, <1>6, <1>7, <1>11, StepKeeps DEF PullStep, sfVars

LEMMA ApplyKeeps ==
    ASSUME PullInv, NEW p \in Pulls, ApplyRecord(p)
    PROVE  PullInv'
<1> USE PullAssumption
<1>1. TypeOK'
  BY TypedStep DEF Next, PullStep, PullInv
<1>2. PICK c \in Local :
        /\ IsNext(p, c) /\ Seen(p, c)
        /\ batch' = [batch EXCEPT ![p] = Drop(@, c)]
        /\ row' = [row EXCEPT ![c] = batch[p][c]]
        /\ linked' = linked \cup {c}
        /\ lapsed' = Applied(c, batch[p][c])
  BY DEF ApplyRecord
<1>3. /\ UNCHANGED <<now, modified, watermark, pc, since, overlapped>>
      /\ pc[p] = "apply" /\ c \in DOMAIN batch[p]
      /\ \A r \in Local : row'[r] = IF r = c THEN batch[p][c] ELSE row[r]
  BY <1>2 DEF ApplyRecord, IsNext, PullInv, TypeOK, sfVars
<1>4. /\ DOMAIN batch'[p] = DOMAIN batch[p] \ {c}
      /\ \A s \in DOMAIN batch'[p] : batch'[p][s] = batch[p][s]
      /\ \A q \in Pulls \ {p} : UNCHANGED <<batch[q], top[q]>>
      /\ \A t \in Nat : Ahead(p, t) => Ahead(p, t)'
      /\ top'[p] # 0 => Floor(since[p]) < top'[p]
  BY <1>2, <1>3, SeenKeeps
<1>5. /\ PullSound(p) /\ BatchSound(p) /\ RestSound(p) /\ SinceSound(p)
      /\ \A s \in Recs : modified[s] \in Nat
      /\ DOMAIN batch[p] \subseteq Recs
      /\ batch[p][c] <= modified[c]
  BY <1>3 DEF PullInv, PullSound, BatchSound, TypeOK
<1>6. \A r \in Local : Kept(r) => Kept(r)'
  BY <1>2, <1>3 DEF Kept, Current, Applied
<1>7. Stamps' /\ NothingForgotten'
  <2>1. Mark' = Mark
    BY <1>3 DEF Mark, DefaultMark
  <2> QED BY <1>3, <1>5, <1>6, <2>1, ForgottenKeeps DEF PullInv, Stamps
<1>8. SinceSound(p)'
  BY <1>3, <1>5, <1>6 DEF SinceSound, Kept, Floor
<1>9. BatchSound(p)'
  <2>1. \A r \in Local : Current(r) \/ r \in lapsed => Current(r)' \/ r \in lapsed'
    BY <1>6 DEF Kept
  <2> QED BY <1>3, <1>4, <1>5, <2>1 DEF BatchSound, Floor
<1>10. RestSound(p)'
  <2> SUFFICES ASSUME NEW r \in Local \ DOMAIN batch'[p]
               PROVE  modified[r] = 0 \/ Kept(r)' \/ Ahead(p, modified[r])'
    BY <1>3 DEF RestSound, Kept
  <2>1. CASE r = c /\ batch[p][c] = modified[c]
    BY <1>2, <1>3, <2>1 DEF Kept, Current
  <2>2. CASE r = c /\ batch[p][c] # modified[c]
    BY <1>3, <1>4, <1>5, <1>6, <2>2 DEF BatchSound, Kept
  <2>3. CASE r # c
    BY <1>3, <1>4, <1>5, <1>6, <2>3 DEF RestSound, Kept
  <2> QED BY <2>1, <2>2, <2>3
<1>11. p \notin overlapped' => Alone(p)'
  <2>1. p \notin overlapped => Alone(p)
    BY <1>3 DEF PullInv, PullSound
  <2>2. Others(p)' = Others(p)
    BY <1>3 DEF Others
  <2> QED BY <1>3, <1>4, <2>1, <2>2 DEF Alone
<1>12. PullSound(p)'
  BY <1>3, <1>4, <1>5, <1>8, <1>9, <1>10, <1>11 DEF PullSound, Floor
<1> QED BY <1>1, <1>3, <1>4, <1>6, <1>7, <1>12, StepKeeps DEF PullStep, sfVars

\* A pull that ends has nothing more to say.
LEMMA ReturnKeeps ==
    ASSUME PullInv, NEW p \in Pulls, PullStep(p) \/ Fail(p), Return(p),
           TypeOK', NothingForgotten', UNCHANGED <<sfVars, row, linked>>
    PROVE  PullInv'
<1>1. pc'[p] = "idle" /\ batch'[p] = Nothing /\ top'[p] = 0
  BY DEF Return, PullInv, TypeOK
<1>2. PullSound(p)'
  BY <1>1 DEF PullSound, Nothing
<1>3. Stamps'
  BY DEF PullInv, Stamps, sfVars
<1>4. \A r \in Local : Kept(r) => Kept(r)'
  BY DEF Return, Kept, Current, sfVars
<1>5. \A q \in Pulls \ {p} : UNCHANGED <<since[q], batch[q], top[q]>>
  BY DEF Return, PullInv, TypeOK
<1> QED BY <1>2, <1>3, <1>4, <1>5, StepKeeps

LEMMA WriteKeeps ==
    ASSUME PullInv, NEW p \in Pulls, WriteWatermark(p)
    PROVE  PullInv'
<1> USE PullAssumption
<1>1. TypeOK'
  BY TypedStep DEF Next, PullStep, PullInv
<1>2. /\ Return(p) /\ UNCHANGED <<now, modified, row, linked, lapsed>>
      /\ watermark' = IF top[p] = 0 THEN watermark ELSE top[p]
      /\ pc[p] = "apply" /\ batch[p] = Nothing
  BY DEF WriteWatermark, Return, sfVars
<1>3. RestSound(p) /\ top[p] \in Nat
  BY <1>2 DEF PullInv, PullSound, TypeOK
<1>4. NothingForgotten'
  <2>1. CASE top[p] = 0
    <3>1. Mark' = Mark
      BY <1>2, <2>1 DEF Mark, DefaultMark
    <3>2. \A r \in Local : Kept(r) => Kept(r)'
      BY <1>2 DEF Kept, Current
    <3> QED BY <1>2, <3>1, <3>2, ForgottenKeeps DEF PullInv
  <2>2. CASE top[p] # 0
    <3>1. Mark' = top[p]
      BY <1>2, <1>3, <2>2 DEF Mark
    <3> SUFFICES ASSUME NEW r \in Local \ lapsed, 0 < modified[r], modified[r] <= Floor(top[p])
                 PROVE  Current(r)
      BY <1>2, <3>1 DEF NothingForgotten, Current, Floor
    <3>2. r \notin DOMAIN batch[p] /\ modified[r] \in Nat /\ Floor(top[p]) \in Nat
      BY <1>2, <1>3, FloorType DEF Nothing, PullInv, TypeOK
    <3> QED BY <1>3, <3>2 DEF RestSound, Ahead
  <2> QED BY <2>1, <2>2
<1> QED BY <1>1, <1>2, <1>4, ReturnKeeps DEF PullStep, sfVars

LEMMA FailKeeps ==
    ASSUME PullInv, NEW p \in Pulls, Fail(p)
    PROVE  PullInv'
<1>1. TypeOK'
  BY TypedStep DEF Next, PullInv
<1>2. Return(p) /\ UNCHANGED <<now, modified, watermark, row, linked, lapsed>>
  BY DEF Fail, Return, sfVars, pgVars
<1>3. NothingForgotten'
  BY <1>2 DEF PullInv, NothingForgotten, Mark, DefaultMark, Current, Floor
<1> QED BY <1>1, <1>2, <1>3, ReturnKeeps DEF sfVars

LEMMA InvStep == PullInv /\ [Next]_vars => PullInv'
<1> SUFFICES ASSUME PullInv, [Next]_vars PROVE PullInv'
  OBVIOUS
<1>1. CASE UNCHANGED vars
  <2>1. UNCHANGED <<now, modified, watermark, row, linked, pc, since, batch, top, lapsed, overlapped>>
    BY <1>1 DEF vars, sfVars, pgVars, pullVars, history
  <2>2. TypeOK' /\ Stamps' /\ NothingForgotten'
    BY <2>1, TypedStep DEF PullInv, Stamps, NothingForgotten, Mark, DefaultMark, Current, Floor
  <2>3. ASSUME NEW q \in Pulls PROVE PullSound(q)'
    <3>1. Alone(q)' = Alone(q) /\ \A r \in Local : Kept(r) => Kept(r)'
      BY <2>1 DEF Alone, Others, Kept, Current
    <3>2. pc'[q] # "idle" /\ q \notin overlapped' => Alone(q)'
      BY <2>1, <3>1 DEF PullInv, PullSound
    <3> QED BY <2>1, <3>1, <3>2, SoundKeeps DEF PullInv
  <2> QED BY <2>2, <2>3 DEF PullInv
<1> QED BY <1>1, TickKeeps, ModifyKeeps, ReadKeeps, QueryKeeps, UnmatchedKeeps, ApplyKeeps,
       WriteKeeps, FailKeeps DEF Next, PullStep

-----------------------------------------------------------------------------
(* The theorems.                                                           *)

\* The invariant of CasePull holds in every reachable state (pull_from_sf).
THEOREM Invariance == Spec => []PullInv
<1>1. Init => PullInv
  BY InvInit
<1>2. PullInv /\ [Next]_vars => PullInv'
  BY InvStep
<1> QED BY <1>1, <1>2, PTL DEF Spec

\* A modification that the next query cannot see any more has reached its row,
\* unless a page cut its group of equal stamps, it came under a stamp already
\* passed, an older copy of an overlapping pull was written over it, or the
\* first window slid past it (pull_from_sf advances the watermark last).
THEOREM Forgotten == Spec => []NothingForgotten
<1>1. PullInv => NothingForgotten
  BY DEF PullInv
<1> QED BY <1>1, Invariance, PTL

\* Neither a row nor the bound of the query goes back, but by a pull that has
\* had another beside it (_apply_record, _write_watermark).
THEOREM Forward == Spec => OnlyForward
<1> DEFINE Step == /\ \A r \in Local :
                         row'[r] < row[r] => \E p \in overlapped : ApplyRecord(p)
                   /\ watermark # NULL /\ Floor(watermark') < Floor(watermark)
                         => \E p \in overlapped : WriteWatermark(p)
<1>1. PullInv /\ [Next]_vars => [Step]_vars
  <2> SUFFICES ASSUME PullInv, Next PROVE Step
    OBVIOUS
  <2> USE PullAssumption
  <2>1. /\ watermark # NULL => watermark \in Nat /\ Floor(watermark) \in Nat
        /\ \A r \in Local : row[r] \in Nat
    BY FloorType DEF PullInv, TypeOK
  <2>2. CASE UNCHANGED <<row, watermark>>
    BY <2>1, <2>2 DEF Floor
  <2>3. ASSUME NEW p \in Pulls, ApplyRecord(p) PROVE Step
    <3>1. PICK c \in Local : IsNext(p, c) /\ row' = [row EXCEPT ![c] = batch[p][c]]
      BY <2>3 DEF ApplyRecord
    <3>2. /\ UNCHANGED watermark
          /\ \A r \in Local : row'[r] = IF r = c THEN batch[p][c] ELSE row[r]
          /\ batch[p][c] \in Nat
      BY <2>3, <3>1 DEF ApplyRecord, IsNext, PullInv, TypeOK
    <3>3. p \notin overlapped => row[c] <= batch[p][c]
      BY <2>3, <3>1 DEF ApplyRecord, IsNext, PullInv, PullSound, Alone
    <3> QED BY <2>1, <2>3, <3>2, <3>3 DEF Floor
  <2>4. ASSUME NEW p \in Pulls, WriteWatermark(p) PROVE Step
    <3>1. /\ UNCHANGED row
          /\ watermark' = IF top[p] = 0 THEN watermark ELSE top[p]
          /\ top[p] # 0 => Floor(since[p]) < top[p]
          /\ p \notin overlapped /\ watermark # NULL => since[p] = watermark
          /\ top[p] \in Nat
      BY <2>4 DEF WriteWatermark, PullInv, PullSound, Alone, TypeOK
    <3>2. ASSUME p \notin overlapped, watermark # NULL
          PROVE  Floor(watermark) <= Floor(watermark')
      <4>1. CASE top[p] = 0
        BY <2>1, <3>1, <3>2, <4>1 DEF Floor
      <4>2. CASE top[p] # 0
        BY <2>1, <3>1, <3>2, <4>2, FloorBound DEF Floor
      <4> QED BY <4>1, <4>2
    <3>3. watermark # NULL => Floor(watermark') \in Nat
      <4>1. watermark # NULL => watermark' \in Nat
        BY <2>1, <3>1
      <4> QED BY <4>1, FloorType DEF Floor
    <3> QED BY <2>1, <2>4, <3>1, <3>2, <3>3
  <2> QED BY <2>2, <2>3, <2>4 DEF Next, PullStep, Tick, Modify, ReadWatermark, Query,
         Unmatched, Fail, pgVars
<1> QED BY <1>1, Invariance, PTL DEF Spec, OnlyForward
=============================================================================
