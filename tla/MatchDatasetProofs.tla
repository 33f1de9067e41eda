-------------------------- MODULE MatchDatasetProofs -------------------------
(***************************************************************************)
(* Every log, whatever seconds it leaves out, gives as many frames as      *)
(* snapshots, pairwise of one second, and a frame carries exactly the      *)
(* labels of the deaths that follow it, for the heroes whose two names     *)
(* agree, and no others.  Nothing in saveMatch touches what was parsed, so *)
(* both hold of the rows it saves.  saveMatch picks one row of every window *)
(* of labelled frames for each smallest label in it: the invariant         *)
(* (SampleInv) ties the lists of the open window and the picks of the ended *)
(* ones to the tick that the scan has reached.                             *)
(***************************************************************************)
EXTENDS MatchDataset, SequenceTheorems, FiniteSetTheorems, WellFoundedInduction, TLAPS

\* The types of what the two parsers build.
ParseTypes ==
  /\ results \in Seq(FrameType) /\ frame \in Seq(FrameType) /\ Len(frame) <= 1
  /\ vision \in Seq(Int) /\ last \in Int /\ lastSnap \in Int
  /\ deaths \subseteq Heroes \X Int

\* The snapshots are of successive seconds, the closed frames of the same ones.
SameSeconds ==
  /\ \A k \in 1..Len(results) : results[k].time = vision[k]
  /\ \A k \in 1..Len(vision) : vision[k] = vision[1] + (k - 1)

\* Before the first line nothing is there; then the frame being filled and the
\* last snapshot are of the second of the last line; after the log no frame is open.
InStep ==
  /\ phase = "parse" /\ frame = << >> =>
       /\ results = << >> /\ vision = << >> /\ deaths = {}
       /\ lastSnap = NoSnapshot /\ last = NotStarted
  /\ frame # << >> =>
       /\ phase = "parse" /\ Len(vision) = Len(results) + 1
       /\ frame[1].time = last /\ vision[Len(vision)] = last /\ lastSnap = last
       /\ last >= -PreGame
  /\ phase # "parse" => frame = << >> /\ Len(vision) = Len(results)

ParseInv == ParseTypes /\ SameSeconds /\ InStep

-----------------------------------------------------------------------------
\* An empty frame and a frame with one more hero are frames.
LEMMA FrameTypes ==
  /\ \A t \in Int : EmptyFrame(t) \in FrameType /\ EmptyFrame(t).time = t
                    /\ EmptyFrame(t).heroes = {} /\ EmptyFrame(t).dead = NoLabels
  /\ \A f \in FrameType, h \in Heroes :
       LET g == [f EXCEPT !.heroes = @ \cup {h}]
       IN  g \in FrameType /\ g.time = f.time /\ g.dead = f.dead
<1>1. ASSUME NEW t \in Int
      PROVE  EmptyFrame(t) \in FrameType /\ EmptyFrame(t).time = t
                /\ EmptyFrame(t).heroes = {} /\ EmptyFrame(t).dead = NoLabels
  BY DEF EmptyFrame, FrameType, NoLabels
<1>2. ASSUME NEW f \in FrameType, NEW h \in Heroes
      PROVE  LET g == [f EXCEPT !.heroes = @ \cup {h}]
             IN  g \in FrameType /\ g.time = f.time /\ g.dead = f.dead
  BY DEF FrameType
<1>. QED  BY <1>1, <1>2

\* The labels that a death at second t of whoever is called h adds to frame k.
Added(rs, h, t, k) ==
  LET i == (t - rs[1].time) - (k - 1)
  IN  IF i >= 1 /\ h \in rs[k].heroes THEN {n \in Horizons : i <= n} ELSE {}

\* appendDeathPredict adds labels, if the name h is that of a hero; it moves no
\* frame and no hero.
LEMMA LabelledFrames ==
  ASSUME NEW rs \in Seq(FrameType), NEW h, NEW t \in Int
  PROVE  /\ Labelled(rs, h, t) \in Seq(FrameType)
         /\ Len(Labelled(rs, h, t)) = Len(rs)
         /\ \A k \in 1..Len(rs) :
              /\ Labelled(rs, h, t)[k].time = rs[k].time
              /\ Labelled(rs, h, t)[k].heroes = rs[k].heroes
         /\ \A k \in 1..Len(rs) : \A o \in Heroes \ {h} :
              Labelled(rs, h, t)[k].dead[o] = rs[k].dead[o]
         /\ h \in Heroes => \A k \in 1..Len(rs) :
              Labelled(rs, h, t)[k].dead[h] = rs[k].dead[h] \cup Added(rs, h, t, k)
<1> DEFINE I(k) == (t - rs[1].time) - (k - 1)
           New(k) == IF I(k) >= 1 /\ h \in rs[k].heroes THEN {n \in Horizons : I(k) <= n} ELSE {}
           F(k) == IF I(k) >= 1 /\ h \in rs[k].heroes
                   THEN [rs[k] EXCEPT !.dead[h] = @ \cup {n \in Horizons : I(k) <= n}]
                   ELSE rs[k]
           ls == [k \in 1..Len(rs) |-> F(k)]
<1>1. DOMAIN rs = 1..Len(rs) /\ Len(rs) \in Nat /\ \A k \in 1..Len(rs) : rs[k] \in FrameType
  BY LenProperties, ElementOfSeq
<1>2. Labelled(rs, h, t) = ls
  BY <1>1 DEF Labelled
<1>3. ASSUME NEW k \in 1..Len(rs)
      PROVE  /\ F(k) \in FrameType /\ F(k).time = rs[k].time /\ F(k).heroes = rs[k].heroes
             /\ \A o \in Heroes :
                  F(k).dead[o] = IF o = h THEN rs[k].dead[o] \cup New(k) ELSE rs[k].dead[o]
  <2>1. rs[k] \in FrameType
    BY <1>1
  <2>2. CASE I(k) >= 1 /\ h \in rs[k].heroes
    <3>1. New(k) = {n \in Horizons : I(k) <= n} /\ New(k) \in SUBSET Horizons
      BY <2>2
    <3>2. F(k) = [rs[k] EXCEPT !.dead[h] = @ \cup New(k)]
      BY <2>2, <3>1
    <3> HIDE DEF F, New, I
    <3> DEFINE g == [rs[k] EXCEPT !.dead[h] = @ \cup New(k)]
    <3>3. /\ g \in FrameType /\ g.time = rs[k].time /\ g.heroes = rs[k].heroes
          /\ \A o \in Heroes :
               g.dead[o] = IF o = h THEN rs[k].dead[o] \cup New(k) ELSE rs[k].dead[o]
      BY <2>1, <3>1 DEF FrameType
    <3> HIDE DEF g
    <3>4. F(k) = g
      BY <3>2 DEF g
    <3>. QED  BY <3>3, <3>4
  <2>3. CASE ~(I(k) >= 1 /\ h \in rs[k].heroes)
    <3>1. F(k) = rs[k] /\ New(k) = {}
      BY <2>3
    <3> HIDE DEF F, New, I
    <3>. QED  BY <2>1, <3>1
  <2>. QED  BY <2>2, <2>3
<1> HIDE DEF F
<1>4. ls \in Seq(FrameType) /\ Len(ls) = Len(rs)
  BY <1>1, <1>3
<1>5. \A k \in 1..Len(rs) : ls[k] = F(k)
  OBVIOUS
<1> HIDE DEF ls
<1>6. ASSUME NEW k \in 1..Len(rs)
      PROVE  /\ Labelled(rs, h, t)[k].time = rs[k].time
             /\ Labelled(rs, h, t)[k].heroes = rs[k].heroes
             /\ \A o \in Heroes :
                  Labelled(rs, h, t)[k].dead[o] =
                    IF o = h THEN rs[k].dead[o] \cup New(k) ELSE rs[k].dead[o]
  <2> HIDE DEF New
  <2>. QED  BY <1>2, <1>3, <1>5
<1>7. \A k \in 1..Len(rs) : New(k) = Added(rs, h, t, k)
  BY DEF Added
<1> HIDE DEF New
<1>. QED  BY <1>2, <1>4, <1>6, <1>7

\* The first line closes nothing.
LEMMA ClosedFirst ==
  ASSUME NEW t \in Int, frame = << >>, results = << >>
  PROVE  Closed(t) = << >>
<1> DEFINE gap == Seconds(t, t)
           g == [k \in DOMAIN gap |-> EmptyFrame(gap[k])]
<1>1. DOMAIN gap = 1..(t - t - 1)
  BY DEF Seconds
<1>2. DOMAIN gap = {}
  BY <1>1
<1>3. g = << >>
  BY <1>2
<1>4. Closed(t) = (<< >> \o << >>) \o g
  BY DEF Closed
<1> HIDE DEF g
<1>5. << >> \in Seq(FrameType)
  OBVIOUS
<1>6. << >> \o << >> = << >>
  BY <1>5, ConcatEmptySeq, Zenon
<1>. QED  BY <1>3, <1>4, <1>6

\* A line of a later second closes the current frame and the empty ones between.
LEMMA ClosedLater ==
  ASSUME ParseTypes, frame # << >>, NEW t \in Int, frame[1].time < t
  PROVE  LET f == frame[1].time
             L == Len(results)
         IN  /\ Closed(t) \in Seq(FrameType)
             /\ Len(Closed(t)) = L + (t - f)
             /\ \A k \in 1..L : Closed(t)[k] = results[k]
             /\ Closed(t)[L + 1] = frame[1]
             /\ \A k \in (L + 2)..(L + (t - f)) : Closed(t)[k] = EmptyFrame(f + (k - L - 1))
<1> DEFINE f == frame[1].time
           L == Len(results)
           n == t - f - 1
           G == [k \in 1..n |-> EmptyFrame(f + k)]
           r1 == results \o frame
<1>1. /\ results \in Seq(FrameType) /\ frame \in Seq(FrameType) /\ Len(frame) = 1
      /\ L \in Nat /\ frame[1] \in FrameType
  <2>1. Len(frame) \in Nat /\ Len(frame) # 0
    BY LenProperties, EmptySeq DEF ParseTypes
  <2>0. Len(frame) <= 1
    BY DEF ParseTypes
  <2>2. Len(frame) = 1
    BY <2>0, <2>1
  <2>3. frame[1] \in FrameType
    BY <2>2, ElementOfSeq DEF ParseTypes
  <2>. QED  BY <2>2, <2>3, LenProperties DEF ParseTypes
<1>2. f \in Int
  BY <1>1 DEF FrameType
<1>3. n \in Nat
  BY <1>2
<1>4. G \in Seq(FrameType) /\ Len(G) = n /\ \A k \in 1..n : G[k] = EmptyFrame(f + k)
  <2>1. \A k \in 1..n : EmptyFrame(f + k) \in FrameType
    BY <1>2, <1>3, FrameTypes
  <2> HIDE DEF n, f
  <2>. QED  BY <1>3, <2>1
<1>5. Closed(t) = r1 \o G
  <2>1. Seconds(f, t) = [k \in 1..n |-> f + k]
    BY DEF Seconds
  <2>2. DOMAIN Seconds(f, t) = 1..n /\ \A k \in 1..n : Seconds(f, t)[k] = f + k
    BY <2>1
  <2>3. [k \in DOMAIN Seconds(f, t) |-> EmptyFrame(Seconds(f, t)[k])] = G
    BY <2>2
  <2>4. Closed(t) = (results \o frame)
                      \o [k \in DOMAIN Seconds(f, t) |-> EmptyFrame(Seconds(f, t)[k])]
    BY <1>2 DEF Closed
  <2> HIDE DEF G
  <2>. QED  BY <2>3, <2>4
<1>6. /\ r1 \in Seq(FrameType) /\ Len(r1) = L + 1
      /\ \A k \in 1..L : r1[k] = results[k]
      /\ r1[L + 1] = frame[1]
  <2>1. /\ r1 \in Seq(FrameType) /\ Len(r1) = L + 1
        /\ \A k \in 1..(L + 1) : r1[k] = IF k <= L THEN results[k] ELSE frame[k - L]
    BY <1>1, ConcatProperties
  <2>2. (L + 1) - L = 1 /\ ~(L + 1 <= L) /\ L + 1 \in 1..(L + 1)
    BY <1>1
  <2>. QED  BY <2>1, <2>2, <1>1
<1> HIDE DEF r1, G, n, f
<1>7. /\ Closed(t) \in Seq(FrameType) /\ Len(Closed(t)) = (L + 1) + n
      /\ \A k \in 1..((L + 1) + n) :
           Closed(t)[k] = IF k <= L + 1 THEN r1[k] ELSE G[k - (L + 1)]
  <2>1. /\ r1 \o G \in Seq(FrameType) /\ Len(r1 \o G) = Len(r1) + Len(G)
        /\ \A k \in 1..(Len(r1) + Len(G)) :
             (r1 \o G)[k] = IF k <= Len(r1) THEN r1[k] ELSE G[k - Len(r1)]
    BY <1>4, <1>6, ConcatProperties, Zenon
  <2>2. Len(r1) = L + 1 /\ Len(G) = n
    BY <1>4, <1>6
  <2>. QED  BY <1>5, <2>1, <2>2, Zenon
<1>8. (L + 1) + n = L + (t - f)
  BY <1>1, <1>2 DEF n
<1>9. ASSUME NEW k \in (L + 2)..(L + (t - f))
      PROVE  Closed(t)[k] = EmptyFrame(f + (k - L - 1))
  <2>1. /\ k - (L + 1) \in 1..n /\ ~(k <= L + 1) /\ k \in 1..((L + 1) + n)
        /\ k - (L + 1) = k - L - 1
    BY <1>1, <1>2, <1>8, <1>3
  <2>. QED  BY <2>1, <1>4, <1>7
<1>10. \A k \in 1..L : Closed(t)[k] = results[k]
  BY <1>1, <1>3, <1>6, <1>7
<1>11. Closed(t)[L + 1] = frame[1]
  BY <1>1, <1>3, <1>6, <1>7
<1>. QED  BY <1>7, <1>8, <1>9, <1>10, <1>11 DEF f

\* ParseVisionWorker adds a snapshot for every second up to the line's.
LEMMA SnapshotLater ==
  ASSUME vision \in Seq(Int), vision # << >>, lastSnap \in Int, lastSnap # NoSnapshot,
         NEW t \in Int, lastSnap < t, Snapshot(t)
  PROVE  /\ vision' \in Seq(Int) /\ Len(vision') = Len(vision) + (t - lastSnap)
         /\ \A k \in 1..Len(vision) : vision'[k] = vision[k]
         /\ \A k \in (Len(vision) + 1)..Len(vision') : vision'[k] = lastSnap + (k - Len(vision))
         /\ lastSnap' = t
<1> DEFINE L == Len(vision)
           n == t - lastSnap - 1
           S == [k \in 1..n |-> lastSnap + k]
           v1 == vision \o S
<1>1. L \in Nat /\ n \in Nat
  BY LenProperties
<1>2. S \in Seq(Int) /\ Len(S) = n /\ \A k \in 1..n : S[k] = lastSnap + k
  <2>1. \A k \in 1..n : lastSnap + k \in Int
    BY <1>1
  <2> HIDE DEF n
  <2>. QED  BY <1>1, <2>1
<1>3. vision' = Append(v1, t) /\ lastSnap' = t
  <2>1. ~(t <= lastSnap) /\ Max({lastSnap, t}) = t
    <3>1. {lastSnap, t} # {} /\ \E x \in {lastSnap, t} : \A y \in {lastSnap, t} : x >= y
      OBVIOUS
    <3>. QED  BY <3>1 DEF Max
  <2>2. Seconds(lastSnap, t) = S
    BY DEF Seconds
  <2>. QED  BY <2>1, <2>2 DEF Snapshot
<1> HIDE DEF S
<1>4. /\ v1 \in Seq(Int) /\ Len(v1) = L + n
      /\ \A k \in 1..(L + n) : v1[k] = IF k <= L THEN vision[k] ELSE S[k - L]
  <2>1. /\ vision \o S \in Seq(Int) /\ Len(vision \o S) = Len(vision) + Len(S)
        /\ \A k \in 1..(Len(vision) + Len(S)) :
             (vision \o S)[k] = IF k <= Len(vision) THEN vision[k] ELSE S[k - Len(vision)]
    BY <1>2, ConcatProperties, Zenon
  <2>. QED  BY <1>2, <2>1, Zenon
<1> HIDE DEF v1, n
<1>5. /\ vision' \in Seq(Int) /\ Len(vision') = (L + n) + 1
      /\ \A k \in 1..(L + n) : vision'[k] = v1[k]
      /\ vision'[(L + n) + 1] = t
  <2>1. v1 \in Seq(Int)
    BY <1>4
  <2>2. /\ Append(v1, t) \in Seq(Int) /\ Len(Append(v1, t)) = Len(v1) + 1
        /\ \A k \in 1..Len(v1) : Append(v1, t)[k] = v1[k]
        /\ Append(v1, t)[Len(v1) + 1] = t
    BY <2>1
  <2>3. Len(v1) = L + n /\ vision' = Append(v1, t)
    BY <1>3, <1>4
  <2>. QED  BY <2>2, <2>3, Zenon
<1>6. (L + n) + 1 = L + (t - lastSnap)
  BY <1>1 DEF n
<1>7. ASSUME NEW k \in (L + 1)..Len(vision') PROVE vision'[k] = lastSnap + (k - L)
  <2>1. CASE k = (L + n) + 1
    BY <2>1, <1>1, <1>5 DEF n
  <2>2. CASE k # (L + n) + 1
    <3>0. k \in (L + 1)..((L + n) + 1)
      BY <1>5
    <3>1. k \in 1..(L + n) /\ k - L \in 1..n /\ ~(k <= L)
      BY <2>2, <3>0, <1>1
    <3>. QED  BY <3>1, <1>2, <1>4, <1>5
  <2>. QED  BY <2>1, <2>2
<1>8. ASSUME NEW k \in 1..L PROVE vision'[k] = vision[k]
  <2>1. k \in 1..(L + n) /\ k <= L
    BY <1>1
  <2>. QED  BY <2>1, <1>4, <1>5
<1>. QED  BY <1>3, <1>5, <1>6, <1>7, <1>8

\* The larger of two integers.
LEMMA MaxOfTwo ==
  ASSUME NEW a \in Int, NEW b \in Int
  PROVE  /\ a <= b => Max({a, b}) = b
         /\ b <= a => Max({a, b}) = a
<1>1. \E x \in {a, b} : \A y \in {a, b} : x >= y
  OBVIOUS
<1>2. Max({a, b}) \in {a, b} /\ \A y \in {a, b} : Max({a, b}) >= y
  BY <1>1 DEF Max
<1>. QED  BY <1>2

\* What is there when a frame is open.
LEMMA Open ==
  ASSUME ParseInv, frame # << >>
  PROVE  /\ Len(frame) = 1 /\ frame[1] \in FrameType
         /\ results \in Seq(FrameType) /\ vision \in Seq(Int) /\ vision # << >>
         /\ Len(results) \in Nat /\ Len(vision) = Len(results) + 1
         /\ last \in Int /\ frame[1].time = last /\ lastSnap = last
         /\ vision[Len(vision)] = last /\ last >= -PreGame
<1>1. Len(frame) \in Nat /\ Len(frame) # 0
  BY LenProperties, EmptySeq DEF ParseInv, ParseTypes
<1>2. Len(frame) <= 1
  BY DEF ParseInv, ParseTypes
<1>3. Len(frame) = 1
  <2>1. \A n \in Nat : n # 0 /\ n <= 1 => n = 1
    OBVIOUS
  <2>. QED  BY <1>1, <1>2, <2>1, Zenon
<1>4. frame[1] \in FrameType
  BY <1>3, ElementOfSeq DEF ParseInv, ParseTypes
<1>5. results \in Seq(FrameType) /\ vision \in Seq(Int) /\ last \in Int
  BY DEF ParseInv, ParseTypes
<1>6. /\ Len(vision) = Len(results) + 1
      /\ frame[1].time = last /\ vision[Len(vision)] = last /\ lastSnap = last
      /\ last >= -PreGame
  BY DEF ParseInv, InStep
<1>7. Len(results) \in Nat
  BY <1>5, LenProperties
<1>8. vision # << >>
  BY <1>5, <1>6, <1>7, EmptySeq
<1>. QED  BY <1>3, <1>4, <1>5, <1>6, <1>7, <1>8

\* A line that is not skipped is of the second of the current frame or a later one,
\* and closes as many frames as there are snapshots before it.
LEMMA LineCloses ==
  ASSUME ParseInv, phase = "parse", NEW t \in -PreGame..LastTime, NextSecond(t),
         ~Skipped(t), Snapshot(t)
  PROVE  /\ Closed(t) \in Seq(FrameType)
         /\ vision' \in Seq(Int) /\ Len(vision') = Len(Closed(t)) + 1
         /\ \A k \in 1..Len(Closed(t)) : Closed(t)[k].time = vision'[k]
         /\ \A k \in 1..Len(vision') : vision'[k] = vision'[1] + (k - 1)
         /\ vision'[Len(vision')] = t /\ lastSnap' = t
         /\ frame = << >> \/ last <= t
<1>t. t \in Int /\ t > NoSnapshot /\ t >= -PreGame
  BY HorizonsAssumption DEF NoSnapshot
<1>1. CASE frame = << >>
  <2>1. results = << >> /\ vision = << >> /\ lastSnap = NoSnapshot
    BY <1>1 DEF ParseInv, InStep
  <2>2. Closed(t) = << >>
    BY <1>1, <1>t, <2>1, ClosedFirst
  <2>3. NoSnapshot \in Int /\ Max({NoSnapshot, t}) = t
    BY <1>t, MaxOfTwo DEF NoSnapshot
  <2>4. vision' = << t >> /\ lastSnap' = t
    BY <1>t, <2>1, <2>3 DEF Snapshot, NoSnapshot
  <2>5. /\ << >> \in Seq(FrameType) /\ Len(<< >>) = 0
        /\ << t >> \in Seq(Int) /\ Len(<< t >>) = 1 /\ << t >>[1] = t
    BY <1>t
  <2>. QED  BY <1>1, <1>t, <2>2, <2>4, <2>5
<1>2. CASE frame # << >>
  <2>0. /\ results \in Seq(FrameType) /\ vision \in Seq(Int) /\ vision # << >>
        /\ Len(results) \in Nat /\ Len(vision) = Len(results) + 1
        /\ last \in Int /\ frame[1].time = last /\ lastSnap = last
        /\ vision[Len(vision)] = last /\ last >= -PreGame
    BY <1>2, Open
  <2>s. /\ \A k \in 1..Len(results) : results[k].time = vision[k]
        /\ \A k \in 1..Len(vision) : vision[k] = vision[1] + (k - 1)
    BY DEF ParseInv, SameSeconds
  <2>1. last <= t
    BY <1>t, <2>0 DEF NextSecond, Skipped
  <2>2. CASE t = last
    <3>1. Closed(t) = results
      BY <1>2, <2>0, <2>2 DEF Closed
    <3>2. Max({lastSnap, t}) = t
      BY <2>0, <2>2, MaxOfTwo
    <3>3. vision' = vision /\ lastSnap' = t
      BY <2>0, <2>2, <3>2 DEF Snapshot
    <3>. QED  BY <2>0, <2>s, <2>2, <3>1, <3>3
  <2>3. CASE last < t
    <3> DEFINE L == Len(results)
               C == Closed(t)
    <3>1. /\ C \in Seq(FrameType) /\ Len(C) = L + (t - last)
          /\ \A k \in 1..L : C[k] = results[k]
          /\ C[L + 1] = frame[1]
          /\ \A k \in (L + 2)..(L + (t - last)) : C[k] = EmptyFrame(last + (k - L - 1))
      BY <1>2, <1>t, <2>0, <2>3, ClosedLater DEF ParseInv
    <3>2. lastSnap # NoSnapshot
      BY <2>0, HorizonsAssumption DEF NoSnapshot
    <3>3. /\ vision' \in Seq(Int) /\ Len(vision') = Len(vision) + (t - last)
          /\ \A k \in 1..Len(vision) : vision'[k] = vision[k]
          /\ \A k \in (Len(vision) + 1)..Len(vision') : vision'[k] = last + (k - Len(vision))
          /\ lastSnap' = t
      BY <1>t, <2>0, <2>3, <3>2, SnapshotLater
    <3> HIDE DEF C, L
    <3>l. L \in Nat /\ Len(vision) = L + 1
      BY <2>0 DEF L
    <3>4. Len(vision') = Len(C) + 1
      <4>1. (L + 1) + (t - last) = (L + (t - last)) + 1
        BY <1>t, <2>0, <3>l
      <4>. QED  BY <3>1, <3>3, <3>l, <4>1, Zenon
    <3>5. ASSUME NEW k \in 1..Len(C) PROVE C[k].time = vision'[k]
      <4>1. k \in 1..(L + (t - last))
        BY <3>1
      <4>2. CASE k <= L
        <5>1. k \in 1..L /\ k \in 1..Len(vision)
          BY <4>1, <4>2, <3>l
        <5>. QED  BY <5>1, <2>s, <3>1, <3>3 DEF L
      <4>3. CASE k = L + 1
        <5>1. k = Len(vision) /\ k \in 1..Len(vision)
          BY <4>3, <3>l
        <5>. QED  BY <5>1, <4>3, <2>0, <3>1, <3>3
      <4>4. CASE k > L + 1
        <5>1. /\ k \in (L + 2)..(L + (t - last))
              /\ k \in (Len(vision) + 1)..Len(vision')
              /\ last + (k - L - 1) \in Int
              /\ k - L - 1 = k - Len(vision)
          BY <4>1, <4>4, <3>1, <3>4, <3>l, <1>t, <2>0
        <5>2. C[k] = EmptyFrame(last + (k - L - 1))
          BY <5>1, <3>1
        <5>3. EmptyFrame(last + (k - L - 1)).time = last + (k - L - 1)
          BY <5>1, FrameTypes
        <5>4. vision'[k] = last + (k - Len(vision))
          BY <5>1, <3>3
        <5>. QED  BY <5>1, <5>2, <5>3, <5>4
      <4>. QED  BY <4>1, <4>2, <4>3, <4>4, <3>l
    <3>6. 1 \in 1..Len(vision) /\ vision'[1] = vision[1] /\ vision[1] \in Int
      BY <2>0, <3>l, <3>3
    <3>7. last = vision[1] + L
      BY <2>0, <2>s, <3>l, <3>6
    <3>8. ASSUME NEW k \in 1..Len(vision') PROVE vision'[k] = vision'[1] + (k - 1)
      <4>1. CASE k \in 1..Len(vision)
        BY <4>1, <2>s, <3>3, <3>6
      <4>2. CASE k \in (Len(vision) + 1)..Len(vision')
        <5>1. vision'[k] = last + (k - Len(vision))
          BY <4>2, <3>3
        <5>. QED  BY <5>1, <3>6, <3>7, <3>l
      <4>3. k \in 1..Len(vision) \/ k \in (Len(vision) + 1)..Len(vision')
        BY <3>3, <3>l, <1>t, <2>0
      <4>. QED  BY <4>1, <4>2, <4>3
    <3>9. vision'[Len(vision')] = t
      <4>0. Len(vision') \in Nat /\ Len(vision) + 1 <= Len(vision')
        BY <3>3, <3>l, <1>t, <2>0, <2>3
      <4>1. Len(vision') \in (Len(vision) + 1)..Len(vision')
        BY <4>0, <3>l
      <4>2. vision'[Len(vision')] = last + (Len(vision') - Len(vision))
        BY <4>1, <3>3
      <4>. QED  BY <4>2, <3>3, <3>l, <1>t, <2>0
    <3>. QED  BY <2>1, <3>1, <3>3, <3>4, <3>5, <3>8, <3>9 DEF C
  <2>. QED  BY <1>t, <2>0, <2>1, <2>2, <2>3
<1>. QED  BY <1>1, <1>2

-----------------------------------------------------------------------------
\* One line of the log keeps frames and snapshots in step.
LEMMA LineStep ==
  ASSUME ParseInv, phase = "parse", phase' = phase, NEW t \in -PreGame..LastTime,
         NEW kind \in {"interval", "death", "other"}, NEW h \in Heroes,
         NextSecond(t), Line(t, kind, h)
  PROVE  ParseInv'
<1>t. t \in Int /\ t >= -PreGame
  BY HorizonsAssumption
<1>v. Snapshot(t)
  BY DEF Line
<1>1. CASE Skipped(t)
  <2>1. UNCHANGED <<frame, results, last, deaths>>
    BY <1>1 DEF Line
  <2>2. frame # << >>
    BY <1>1 DEF ParseInv, InStep, Skipped, NotStarted
  <2>3. last \in Int /\ lastSnap = last
    BY <2>2, Open
  <2>4. t <= lastSnap
    BY <1>1, <1>t, <2>3 DEF Skipped
  <2>5. vision' = vision /\ lastSnap' = lastSnap
    <3>1. Max({lastSnap, t}) = lastSnap
      BY <1>t, <2>3, <2>4, MaxOfTwo
    <3>. QED  BY <1>v, <2>4, <3>1 DEF Snapshot
  <2>. QED  BY <2>1, <2>5 DEF ParseInv, ParseTypes, SameSeconds, InStep
<1>2. CASE ~Skipped(t)
  <2> DEFINE here == IF frame # << >> /\ frame[1].time = t THEN frame[1] ELSE EmptyFrame(t)
             new == IF kind = "interval" THEN [here EXCEPT !.heroes = @ \cup {h}] ELSE here
             C == Closed(t)
  <2>1. /\ last' = t /\ frame' = << new >>
        /\ results' = IF kind = "death" THEN Labelled(C, TargetName[h], t) ELSE C
        /\ deaths' = IF kind = "death" THEN deaths \cup {<<h, t>>} ELSE deaths
    BY <1>2 DEF Line
  <2>2. /\ C \in Seq(FrameType)
        /\ vision' \in Seq(Int) /\ Len(vision') = Len(C) + 1
        /\ \A k \in 1..Len(C) : C[k].time = vision'[k]
        /\ \A k \in 1..Len(vision') : vision'[k] = vision'[1] + (k - 1)
        /\ vision'[Len(vision')] = t /\ lastSnap' = t
    BY <1>2, <1>v, LineCloses
  <2>3. here \in FrameType /\ here.time = t
    BY <1>t, Open, FrameTypes
  <2>4. new \in FrameType /\ new.time = t
    <3>1. [here EXCEPT !.heroes = @ \cup {h}] \in FrameType
          /\ [here EXCEPT !.heroes = @ \cup {h}].time = here.time
      BY <2>3 DEF FrameType
    <3> HIDE DEF here
    <3>. QED  BY <2>3, <3>1
  <2> HIDE DEF here, new, C
  <2>5. /\ results' \in Seq(FrameType) /\ Len(results') = Len(C)
        /\ \A k \in 1..Len(C) : results'[k].time = C[k].time
    BY <2>1, <2>2, <1>t, LabelledFrames
  <2>6. /\ << new >> \in Seq(FrameType) /\ Len(<< new >>) = 1 /\ << new >>[1] = new
        /\ << new >> # << >>
    BY <2>4
  <2>7. deaths' \subseteq Heroes \X Int
    BY <2>1, <1>t DEF ParseInv, ParseTypes
  <2>8. ParseTypes'
    BY <2>1, <2>2, <2>5, <2>6, <2>7, <1>t DEF ParseTypes
  <2>9. SameSeconds'
    BY <2>2, <2>5 DEF SameSeconds
  <2>10. InStep'
    BY <2>1, <2>2, <2>4, <2>5, <2>6, <1>t DEF InStep
  <2>. QED  BY <2>8, <2>9, <2>10 DEF ParseInv
<1>. QED  BY <1>1, <1>2

\* The end of the log closes the frame that is open.
LEMMA EndOfLogStep ==
  ASSUME ParseInv, EndOfLog
  PROVE  /\ ParseInv'
         /\ \A k \in 1..Len(results) : results'[k] = results[k]
         /\ Len(results') = Len(results) + 1 /\ results'[Len(results) + 1] = frame[1]
<1>1. /\ phase = "parse" /\ frame # << >> /\ results' = results \o frame /\ frame' = << >>
      /\ phase' = "scan" /\ UNCHANGED <<last, vision, lastSnap, deaths>>
  BY DEF EndOfLog
<1>2. /\ Len(frame) = 1 /\ frame[1] \in FrameType
      /\ results \in Seq(FrameType) /\ vision \in Seq(Int)
      /\ Len(results) \in Nat /\ Len(vision) = Len(results) + 1
      /\ frame[1].time = last /\ vision[Len(vision)] = last
  BY <1>1, Open
<1>3. frame \in Seq(FrameType)
  BY DEF ParseInv, ParseTypes
<1>4. /\ results' \in Seq(FrameType) /\ Len(results') = Len(results) + Len(frame)
      /\ \A k \in 1..(Len(results) + Len(frame)) :
           results'[k] = IF k <= Len(results) THEN results[k] ELSE frame[k - Len(results)]
  <2>1. /\ results \o frame \in Seq(FrameType)
        /\ Len(results \o frame) = Len(results) + Len(frame)
        /\ \A k \in 1..(Len(results) + Len(frame)) :
             (results \o frame)[k] =
               IF k <= Len(results) THEN results[k] ELSE frame[k - Len(results)]
    BY <1>2, <1>3, ConcatProperties, Zenon
  <2>. QED  BY <1>1, <2>1, Zenon
<1>5. Len(results') = Len(results) + 1
  BY <1>2, <1>4
<1>6. ASSUME NEW k \in 1..Len(results) PROVE results'[k] = results[k]
  <2>1. k \in 1..(Len(results) + 1) /\ k <= Len(results)
    BY <1>2
  <2>. QED  BY <1>2, <1>4, <2>1
<1>7. results'[Len(results) + 1] = frame[1]
  <2>1. /\ Len(results) + 1 \in 1..(Len(results) + 1) /\ ~(Len(results) + 1 <= Len(results))
        /\ (Len(results) + 1) - Len(results) = 1
    BY <1>2
  <2>. QED  BY <1>2, <1>4, <2>1
<1>8. ParseTypes'
  <2>1. << >> \in Seq(FrameType) /\ Len(<< >>) = 0
    OBVIOUS
  <2>2. ParseTypes
    BY DEF ParseInv
  <2>. QED  BY <1>1, <1>4, <2>1, <2>2 DEF ParseTypes
<1>9. SameSeconds'
  <2>1. ASSUME NEW k \in 1..Len(results') PROVE results'[k].time = vision[k]
    <3>1. CASE k \in 1..Len(results)
      BY <3>1, <1>6 DEF ParseInv, SameSeconds
    <3>2. CASE k = Len(results) + 1
      BY <3>2, <1>2, <1>7
    <3>3. k \in 1..Len(results) \/ k = Len(results) + 1
      BY <1>2, <1>5
    <3>. QED  BY <3>1, <3>2, <3>3
  <2>. QED  BY <1>1, <2>1 DEF ParseInv, SameSeconds
<1>10. InStep'
  BY <1>1, <1>2, <1>5 DEF InStep
<1>. QED  BY <1>5, <1>6, <1>7, <1>8, <1>9, <1>10 DEF ParseInv

\* Nothing after the log changes what was parsed.
LEMMA AfterLog ==
  ASSUME NextHero \/ ScanTick \/ EndHero \/ ChooseSafe \/ Commit \/ Rollback \/ UNCHANGED vars
  PROVE  UNCHANGED parse /\ (phase' = phase \/ (phase # "parse" /\ phase' # "parse"))
  BY DEF NextHero, ScanTick, EndHero, ChooseSafe, Commit, Rollback, vars, scan

\* Every step keeps the parsers in step.
LEMMA ParseStep == ParseInv /\ [Next]_vars => ParseInv'
<1> SUFFICES ASSUME ParseInv, [Next]_vars PROVE ParseInv'
  OBVIOUS
<1>1. CASE ReadLine
  <2>1. PICK t \in -PreGame..LastTime, kind \in {"interval", "death", "other"}, h \in Heroes :
          NextSecond(t) /\ Line(t, kind, h)
    BY <1>1 DEF ReadLine
  <2>2. phase = "parse" /\ phase' = phase
    BY <1>1 DEF ReadLine
  <2>. QED  BY <2>1, <2>2, LineStep
<1>2. CASE EndOfLog
  BY <1>2, EndOfLogStep
<1>3. CASE NextHero \/ ScanTick \/ EndHero \/ ChooseSafe \/ Commit \/ Rollback \/ UNCHANGED vars
  <2>1. UNCHANGED parse /\ (phase' = phase \/ (phase # "parse" /\ phase' # "parse"))
    BY <1>3, AfterLog
  <2>. QED  BY <2>1 DEF parse, ParseInv, ParseTypes, SameSeconds, InStep
<1>. QED  BY <1>1, <1>2, <1>3 DEF Next

\* No line has been read yet.
LEMMA ParseStarts == Init => ParseInv
<1> SUFFICES ASSUME Init PROVE ParseInv
  OBVIOUS
<1>1. /\ << >> \in Seq(FrameType) /\ << >> \in Seq(Int) /\ Len(<< >>) = 0
  OBVIOUS
<1>2. NotStarted \in Int /\ NoSnapshot \in Int
  BY DEF NotStarted, NoSnapshot
<1>3. ParseTypes
  BY <1>1, <1>2 DEF Init, ParseTypes
<1>4. SameSeconds /\ InStep
  BY <1>1 DEF Init, SameSeconds, InStep
<1>. QED  BY <1>3, <1>4 DEF ParseInv

\* The two parsers are in step in every reachable state.
LEMMA ParseHolds == Spec => []ParseInv
<1>1. Init => ParseInv
  BY ParseStarts
<1>2. ParseInv /\ [Next]_vars => ParseInv'
  BY ParseStep
<1>. QED  BY <1>1, <1>2, PTL DEF Spec

-----------------------------------------------------------------------------
\* The frames with the open one are as many as the snapshots, and of the same seconds.
LEMMA AlignedWhenInStep == ParseInv => FramesAligned
<1> SUFFICES ASSUME ParseInv PROVE FramesAligned
  OBVIOUS
<1> DEFINE frames == results \o frame
<1>1. /\ results \in Seq(FrameType) /\ frame \in Seq(FrameType) /\ vision \in Seq(Int)
      /\ Len(results) \in Nat /\ Len(vision) \in Nat
  BY LenProperties DEF ParseInv, ParseTypes
<1>2. \A k \in 1..Len(vision) : vision[k] = vision[1] + (k - 1)
  BY DEF ParseInv, SameSeconds
<1>3. ASSUME frames \in Seq(FrameType), Len(frames) = Len(vision),
             \A k \in 1..Len(vision) : frames[k].time = vision[k]
      PROVE  FramesAligned
  <2>1. DOMAIN frames = 1..Len(vision)
    BY <1>3, LenProperties
  <2>2. ASSUME NEW k \in 1..Len(vision) PROVE vision[k] = vision[1] + k - 1
    <3>1. 1 \in 1..Len(vision) /\ vision[1] \in Int /\ k \in Int
      BY <1>1, <2>2
    <3>. QED  BY <1>2, <2>2, <3>1
  <2>. QED  BY <1>3, <2>1, <2>2 DEF FramesAligned
<1>4. CASE frame = << >>
  <2>1. frames = results
    <3>1. results \o << >> = results
      BY <1>1, ConcatEmptySeq, Zenon
    <3>. QED  BY <1>4, <3>1
  <2>2. Len(vision) = Len(results)
    <3>1. CASE phase = "parse"
      <4>1. results = << >> /\ vision = << >>
        BY <1>4, <3>1 DEF ParseInv, InStep
      <4>. QED  BY <4>1
    <3>2. CASE phase # "parse"
      BY <3>2 DEF ParseInv, InStep
    <3>. QED  BY <3>1, <3>2
  <2>3. \A k \in 1..Len(vision) : results[k].time = vision[k]
    BY <2>2 DEF ParseInv, SameSeconds
  <2> HIDE DEF frames
  <2>4. /\ frames \in Seq(FrameType) /\ Len(frames) = Len(vision)
        /\ \A k \in 1..Len(vision) : frames[k].time = vision[k]
    BY <1>1, <2>1, <2>2, <2>3
  <2>. QED  BY <1>3, <2>4
<1>5. CASE frame # << >>
  <2>1. /\ Len(frame) = 1 /\ Len(vision) = Len(results) + 1
        /\ frame[1].time = last /\ vision[Len(vision)] = last
    BY <1>5, Open
  <2>2. /\ frames \in Seq(FrameType) /\ Len(frames) = Len(results) + Len(frame)
        /\ \A k \in 1..(Len(results) + Len(frame)) :
             frames[k] = IF k <= Len(results) THEN results[k] ELSE frame[k - Len(results)]
    BY <1>1, ConcatProperties, Zenon
  <2> HIDE DEF frames
  <2>3. Len(frames) = Len(vision)
    BY <2>1, <2>2
  <2>4. ASSUME NEW k \in 1..Len(vision) PROVE frames[k].time = vision[k]
    <3>1. CASE k <= Len(results)
      <4>1. k \in 1..Len(results) /\ k \in 1..(Len(results) + Len(frame))
        BY <1>1, <2>1, <2>4, <3>1
      <4>. QED  BY <3>1, <4>1, <2>2 DEF ParseInv, SameSeconds
    <3>2. CASE ~(k <= Len(results))
      <4>1. /\ k = Len(vision) /\ k - Len(results) = 1
            /\ k \in 1..(Len(results) + Len(frame))
        BY <1>1, <2>1, <2>4, <3>2
      <4>. QED  BY <3>2, <4>1, <2>1, <2>2
    <3>. QED  BY <3>1, <3>2
  <2>. QED  BY <1>3, <2>2, <2>3, <2>4
<1>. QED  BY <1>4, <1>5

\* Frame k of general.go and snapshot k of vision.go, which saveMatch joins by index
\* (postgres/worker.go:177-183), are of one second, for every log in order.
THEOREM DatasetFramesAligned == Spec => []FramesAligned
<1>1. ParseInv => FramesAligned
  BY AlignedWhenInStep
<1>. QED  BY <1>1, ParseHolds, PTL

-----------------------------------------------------------------------------
(* The labels.                                                             *)

\* A frame has the labels of the deaths in ds that follow it, of heroes whose
\* names agree, and no others.
Exact(f, ds) ==
  \A h \in f.heroes :
    f.dead[h] = {n \in Horizons : /\ TargetName[h] = h
                                  /\ \E d \in ds : d[1] = h /\ d[2] - f.time \in 1..n}

\* The open frame has no label yet, and no death was read of a later second: a
\* frame that is closed has missed none.
NoneAhead ==
  frame # << >> => /\ frame[1].dead = NoLabels
                   /\ \A d \in deaths : d[2] <= last

ExactSoFar == \A k \in 1..Len(results) : Exact(results[k], deaths)

LabelsInv == NoneAhead /\ ExactSoFar

\* A frame that no death follows needs no label.
LEMMA NoDeathNoLabel ==
  ASSUME NEW f \in FrameType, f.dead = NoLabels, NEW ds \in SUBSET (Heroes \X Int),
         \A d \in ds : d[2] <= f.time
  PROVE  Exact(f, ds)
<1> SUFFICES ASSUME NEW h \in f.heroes
             PROVE  f.dead[h] = {n \in Horizons :
                                   /\ TargetName[h] = h
                                   /\ \E d \in ds : d[1] = h /\ d[2] - f.time \in 1..n}
  BY DEF Exact
<1>1. f.time \in Int /\ h \in Heroes
  BY DEF FrameType
<1>2. f.dead[h] = {}
  BY <1>1 DEF NoLabels
<1>3. ASSUME NEW n \in Horizons, NEW d \in ds PROVE ~(d[2] - f.time \in 1..n)
  <2>1. d[2] \in Int /\ d[2] <= f.time
    OBVIOUS
  <2>. QED  BY <1>1, <2>1
<1>. QED  BY <1>2, <1>3

\* Every frame that a line closes has the labels of the deaths read before it.
LEMMA ClosedExact ==
  ASSUME ParseInv, LabelsInv, NEW t \in -PreGame..LastTime,
         frame = << >> => phase = "parse", frame # << >> => last <= t
  PROVE  \A k \in 1..Len(Closed(t)) : Exact(Closed(t)[k], deaths)
<1>t. t \in Int
  BY HorizonsAssumption
<1>d. deaths \in SUBSET (Heroes \X Int)
  BY DEF ParseInv, ParseTypes
<1>1. CASE frame = << >>
  <2>1. Closed(t) = << >>
    BY <1>1, <1>t, ClosedFirst DEF ParseInv, InStep
  <2>. QED  BY <2>1
<1>2. CASE frame # << >>
  <2>0. /\ Len(results) \in Nat /\ frame[1] \in FrameType
        /\ last \in Int /\ frame[1].time = last /\ last <= t
    BY <1>2, Open
  <2>1. frame[1].dead = NoLabels /\ \A d \in deaths : d[2] <= last
    BY <1>2 DEF LabelsInv, NoneAhead
  <2>2. CASE t = last
    <3>1. Closed(t) = results
      BY <1>2, <2>0, <2>2 DEF Closed
    <3>. QED  BY <3>1 DEF LabelsInv, ExactSoFar
  <2>3. CASE last < t
    <3> DEFINE L == Len(results)
               C == Closed(t)
    <3>1. /\ Len(C) = L + (t - last)
          /\ \A k \in 1..L : C[k] = results[k]
          /\ C[L + 1] = frame[1]
          /\ \A k \in (L + 2)..(L + (t - last)) : C[k] = EmptyFrame(last + (k - L - 1))
      BY <1>2, <1>t, <2>0, <2>3, ClosedLater DEF ParseInv
    <3>e. \A k \in 1..L : Exact(results[k], deaths)
      BY DEF LabelsInv, ExactSoFar
    <3>l. L \in Nat
      BY <2>0
    <3> HIDE DEF C, L
    <3>2. ASSUME NEW k \in 1..Len(C) PROVE Exact(C[k], deaths)
      <4>1. CASE k <= L
        <5>1. k \in 1..L
          BY <4>1, <3>l
        <5>. QED  BY <5>1, <3>1, <3>e
      <4>2. CASE k = L + 1
        <5>1. Exact(frame[1], deaths)
          BY <1>d, <2>0, <2>1, NoDeathNoLabel
        <5>. QED  BY <4>2, <5>1, <3>1
      <4>3. CASE k > L + 1
        <5>1. /\ k \in (L + 2)..(L + (t - last))
              /\ last + (k - L - 1) \in Int
          BY <4>3, <3>1, <3>2, <3>l, <1>t, <2>0
        <5>2. C[k] = EmptyFrame(last + (k - L - 1))
          BY <5>1, <3>1
        <5>3. C[k].heroes = {}
          BY <5>1, <5>2, FrameTypes
        <5>. QED  BY <5>3 DEF Exact
      <4>. QED  BY <4>1, <4>2, <4>3, <3>l
    <3>. QED  BY <3>2 DEF C
  <2>. QED  BY <1>t, <2>0, <2>2, <2>3
<1>. QED  BY <1>1, <1>2

\* appendDeathPredict keeps the labels exact: the distance it counts by index is
\* the time from the frame to the death, and the name it is given is that of the
\* hero who dies or of nobody in the frames.
LEMMA LabelledExact ==
  ASSUME NEW rs \in Seq(FrameType), NEW h \in Heroes, NEW t \in Int,
         NEW ds \in SUBSET (Heroes \X Int),
         \A k \in 1..Len(rs) : rs[k].time = rs[1].time + (k - 1) /\ rs[k].time < t,
         \A k \in 1..Len(rs) : Exact(rs[k], ds)
  PROVE  \A k \in 1..Len(rs) : Exact(Labelled(rs, TargetName[h], t)[k], ds \cup {<<h, t>>})
<1> DEFINE name == TargetName[h]
           ls == Labelled(rs, name, t)
<1>n. \A o \in Heroes : name = o => o = h
  BY NamesAssumption
<1> HIDE DEF name
<1>0. ASSUME NEW j \in 1..Len(rs)
      PROVE  /\ ls[j].time = rs[j].time
             /\ ls[j].heroes = rs[j].heroes
             /\ \A q \in Heroes \ {name} : ls[j].dead[q] = rs[j].dead[q]
             /\ name \in Heroes => ls[j].dead[name] = rs[j].dead[name] \cup Added(rs, name, t, j)
  <2>1. \A k \in 1..Len(rs) :
          /\ ls[k].time = rs[k].time
          /\ ls[k].heroes = rs[k].heroes
    BY LabelledFrames
  <2>2. \A k \in 1..Len(rs) : \A q \in Heroes \ {name} : ls[k].dead[q] = rs[k].dead[q]
    BY LabelledFrames
  <2>3. name \in Heroes => \A k \in 1..Len(rs) :
          ls[k].dead[name] = rs[k].dead[name] \cup Added(rs, name, t, k)
    BY LabelledFrames
  <2>. QED  BY <2>1, <2>2, <2>3
<1> HIDE DEF ls
<1> SUFFICES ASSUME NEW k \in 1..Len(rs),
                    NEW o \in ls[k].heroes
             PROVE  ls[k].dead[o] =
                      {n \in Horizons :
                         /\ TargetName[o] = o
                         /\ \E d \in ds \cup {<<h, t>>} : d[1] = o /\ d[2] - ls[k].time \in 1..n}
  BY DEF Exact, ls, name
<1> DEFINE i == (t - rs[1].time) - (k - 1)
           new == Added(rs, name, t, k)
           f == rs[k]
<1>1. /\ ls[k].time = f.time
      /\ ls[k].heroes = f.heroes
      /\ \A q \in Heroes \ {name} : ls[k].dead[q] = f.dead[q]
      /\ name \in Heroes => ls[k].dead[name] = f.dead[name] \cup new
  BY <1>0
<1>2. Len(rs) \in Nat /\ f \in FrameType /\ 1 \in 1..Len(rs) /\ rs[1] \in FrameType
  <2>1. Len(rs) \in Nat
    BY LenProperties
  <2>2. 1 \in 1..Len(rs)
    BY <2>1
  <2>. QED  BY <2>1, <2>2, ElementOfSeq
<1>3. f.time \in Int /\ rs[1].time \in Int /\ o \in Heroes /\ o \in f.heroes
  BY <1>1, <1>2 DEF FrameType
<1>4. i = t - f.time /\ i >= 1 /\ i \in Int
  <2>1. f.time = rs[1].time + (k - 1) /\ f.time < t /\ k \in Int
    OBVIOUS
  <2> HIDE DEF f
  <2>. QED  BY <1>3, <2>1
<1>5. f.dead[o] = {n \in Horizons : /\ TargetName[o] = o
                                    /\ \E d \in ds : d[1] = o /\ d[2] - f.time \in 1..n}
  BY <1>3 DEF Exact
<1> HIDE DEF i
<1>6. CASE o = name
  <2>0. o = h /\ TargetName[o] = o
    BY <1>3, <1>6, <1>n DEF name
  <2>1. new = {n \in Horizons : i <= n}
    BY <1>3, <1>4, <1>6 DEF Added, i
  <2>2. ASSUME NEW n \in Horizons PROVE i <= n <=> t - f.time \in 1..n
    <3>1. n \in Nat
      BY HorizonsAssumption
    <3>. QED  BY <3>1, <1>4
  <2>3. ls[k].dead[o] = f.dead[o] \cup new
    BY <1>1, <1>3, <1>6
  <2> HIDE DEF new, f
  <2>4. <<h, t>>[1] = o /\ <<h, t>>[2] = t
    BY <2>0
  <2>. QED  BY <1>1, <1>5, <2>0, <2>1, <2>2, <2>3, <2>4
<1>7. CASE o # name
  <2>1. ls[k].dead[o] = f.dead[o]
    BY <1>1, <1>3, <1>7
  <2>2. <<h, t>>[1] = o => TargetName[o] # o
    BY <1>7 DEF name
  <2> HIDE DEF f
  <2>. QED  BY <1>1, <1>5, <2>1, <2>2
<1>. QED  BY <1>6, <1>7

\* One line keeps the labels exact.
LEMMA LineLabels ==
  ASSUME ParseInv, LabelsInv, phase = "parse", NEW t \in -PreGame..LastTime,
         NEW kind \in {"interval", "death", "other"}, NEW h \in Heroes,
         NextSecond(t), Line(t, kind, h)
  PROVE  LabelsInv'
<1>t. t \in Int
  BY HorizonsAssumption
<1>v. Snapshot(t)
  BY DEF Line
<1>1. CASE Skipped(t)
  <2>1. UNCHANGED <<frame, results, last, deaths>>
    BY <1>1 DEF Line
  <2>. QED  BY <2>1 DEF LabelsInv, NoneAhead, ExactSoFar
<1>2. CASE ~Skipped(t)
  <2> DEFINE here == IF frame # << >> /\ frame[1].time = t THEN frame[1] ELSE EmptyFrame(t)
             new == IF kind = "interval" THEN [here EXCEPT !.heroes = @ \cup {h}] ELSE here
             C == Closed(t)
  <2>1. /\ last' = t /\ frame' = << new >>
        /\ results' = IF kind = "death" THEN Labelled(C, TargetName[h], t) ELSE C
        /\ deaths' = IF kind = "death" THEN deaths \cup {<<h, t>>} ELSE deaths
    BY <1>2 DEF Line
  <2>2. /\ C \in Seq(FrameType)
        /\ vision' \in Seq(Int) /\ Len(vision') = Len(C) + 1
        /\ \A k \in 1..Len(C) : C[k].time = vision'[k]
        /\ \A k \in 1..Len(vision') : vision'[k] = vision'[1] + (k - 1)
        /\ vision'[Len(vision')] = t
        /\ frame = << >> \/ last <= t
    BY <1>2, <1>v, LineCloses
  <2>3. here \in FrameType /\ here.dead = NoLabels
    BY <1>t, Open, FrameTypes DEF LabelsInv, NoneAhead
  <2>4. new.dead = NoLabels
    <3>1. [here EXCEPT !.heroes = @ \cup {h}].dead = here.dead
      BY <2>3, FrameTypes
    <3> HIDE DEF here
    <3>. QED  BY <2>3, <3>1
  <2>5. \A k \in 1..Len(C) : Exact(C[k], deaths)
    BY <2>2, ClosedExact
  <2>d. deaths \in SUBSET (Heroes \X Int) /\ last \in Int
    BY DEF ParseInv, ParseTypes
  <2>6. \A d \in deaths : d[2] <= t
    <3>1. CASE frame = << >>
      BY <3>1 DEF ParseInv, InStep
    <3>2. CASE frame # << >>
      <4>1. last <= t /\ \A d \in deaths : d[2] <= last /\ d[2] \in Int
        BY <3>2, <2>2, <2>d DEF LabelsInv, NoneAhead
      <4>. QED  BY <4>1, <2>d, <1>t
    <3>. QED  BY <3>1, <3>2
  <2> HIDE DEF here, new, C
  <2>7. NoneAhead'
    <3>1. << new >>[1] = new
      OBVIOUS
    <3>2. \A d \in deaths' : d[2] <= t
      BY <2>1, <2>6, <1>t
    <3>. QED  BY <2>1, <2>4, <3>1, <3>2 DEF NoneAhead
  <2>8. ASSUME NEW k \in 1..Len(C)
        PROVE  C[k].time = C[1].time + (k - 1) /\ C[k].time < t
    <3>1. Len(C) \in Nat /\ Len(vision') = Len(C) + 1
      BY <2>2, LenProperties
    <3>2. /\ k \in 1..Len(vision') /\ 1 \in 1..Len(vision') /\ 1 \in 1..Len(C)
          /\ Len(vision') \in 1..Len(vision') /\ k \in Int /\ k < Len(vision')
      BY <2>8, <3>1
    <3>3. vision'[1] \in Int
      BY <2>2, <3>2, ElementOfSeq
    <3>4. /\ vision'[k] = vision'[1] + (k - 1)
          /\ t = vision'[1] + (Len(vision') - 1)
          /\ C[k].time = vision'[k] /\ C[1].time = vision'[1]
      BY <2>2, <2>8, <3>2
    <3>. QED  BY <3>1, <3>2, <3>3, <3>4
  <2>9. ExactSoFar'
    <3>1. CASE kind = "death"
      <4>1. \A k \in 1..Len(C) : Exact(Labelled(C, TargetName[h], t)[k], deaths \cup {<<h, t>>})
        BY <2>2, <2>5, <2>8, <2>d, <1>t, LabelledExact
      <4>2. Len(Labelled(C, TargetName[h], t)) = Len(C)
        BY <2>2, <1>t, LabelledFrames
      <4>3. results' = Labelled(C, TargetName[h], t) /\ deaths' = deaths \cup {<<h, t>>}
        BY <2>1, <3>1
      <4>. QED  BY <4>1, <4>2, <4>3 DEF ExactSoFar, Exact
    <3>2. CASE kind # "death"
      BY <3>2, <2>1, <2>5 DEF ExactSoFar, Exact
    <3>. QED  BY <3>1, <3>2
  <2>. QED  BY <2>7, <2>9 DEF LabelsInv
<1>. QED  BY <1>1, <1>2

\* Every step keeps the labels exact.
LEMMA LabelsStep == ParseInv /\ LabelsInv /\ [Next]_vars => LabelsInv'
<1> SUFFICES ASSUME ParseInv, LabelsInv, [Next]_vars PROVE LabelsInv'
  OBVIOUS
<1>1. CASE ReadLine
  <2>1. PICK t \in -PreGame..LastTime, kind \in {"interval", "death", "other"}, h \in Heroes :
          NextSecond(t) /\ Line(t, kind, h)
    BY <1>1 DEF ReadLine
  <2>2. phase = "parse"
    BY <1>1 DEF ReadLine
  <2>. QED  BY <2>1, <2>2, LineLabels
<1>2. CASE EndOfLog
  <2>1. /\ frame # << >> /\ frame' = << >> /\ deaths' = deaths
        /\ \A k \in 1..Len(results) : results'[k] = results[k]
        /\ Len(results') = Len(results) + 1 /\ results'[Len(results) + 1] = frame[1]
    BY <1>2, EndOfLogStep DEF EndOfLog
  <2>2. /\ frame[1] \in FrameType /\ frame[1].time = last /\ Len(results) \in Nat
        /\ frame[1].dead = NoLabels /\ \A d \in deaths : d[2] <= last
        /\ deaths \in SUBSET (Heroes \X Int)
    BY <2>1, Open DEF LabelsInv, NoneAhead, ParseInv, ParseTypes
  <2>3. Exact(frame[1], deaths)
    BY <2>2, NoDeathNoLabel
  <2>4. ASSUME NEW k \in 1..Len(results') PROVE Exact(results'[k], deaths)
    <3>1. CASE k \in 1..Len(results)
      BY <3>1, <2>1 DEF LabelsInv, ExactSoFar
    <3>2. CASE k = Len(results) + 1
      BY <3>2, <2>1, <2>3
    <3>3. k \in 1..Len(results) \/ k = Len(results) + 1
      BY <2>1, <2>2, <2>4
    <3>. QED  BY <3>1, <3>2, <3>3
  <2>. QED  BY <2>1, <2>4 DEF LabelsInv, NoneAhead, ExactSoFar, Exact
<1>3. CASE NextHero \/ ScanTick \/ EndHero \/ ChooseSafe \/ Commit \/ Rollback \/ UNCHANGED vars
  <2>1. UNCHANGED parse
    BY <1>3, AfterLog
  <2>. QED  BY <2>1 DEF parse, LabelsInv, NoneAhead, ExactSoFar
<1>. QED  BY <1>1, <1>2, <1>3 DEF Next

\* Every frame of a parsed log has exactly the labels of the deaths that follow it
\* within a horizon (general.go:651-684), for each hero whom the combat log calls by
\* the name in the frames: none is missed over seconds without a line, none is set
\* on the second of the death or later.  It has no label of any other hero.
THEOREM DatasetLabelsExact == Spec => []LabelsExact
<1>1. Init => LabelsInv
  <2> SUFFICES ASSUME Init PROVE LabelsInv
    OBVIOUS
  <2>1. results = << >> /\ frame = << >> /\ Len(<< >>) = 0
    BY DEF Init
  <2>. QED  BY <2>1 DEF LabelsInv, NoneAhead, ExactSoFar
<1>2. ParseInv /\ LabelsInv /\ [Next]_vars => LabelsInv'
  BY LabelsStep
<1>3. ParseInv /\ LabelsInv => LabelsExact
  <2> SUFFICES ASSUME ParseInv, LabelsInv PROVE LabelsExact
    OBVIOUS
  <2>1. DOMAIN results = 1..Len(results)
    BY LenProperties DEF ParseInv, ParseTypes
  <2>. QED  BY <2>1 DEF LabelsInv, ExactSoFar, Exact, LabelsExact
<1>. QED  BY <1>1, <1>2, <1>3, ParseHolds, PTL DEF Spec

-----------------------------------------------------------------------------
(* Smallest labels, and windows.                                           *)

\* A set of natural numbers has a smallest one.
LEMMA MinExists ==
  ASSUME NEW S \in SUBSET Nat, S # {}
  PROVE  Min(S) \in S /\ \A n \in S : Min(S) <= n
<1>1. IsWellFoundedOn(OpToRel(<, Nat), Nat)
  BY NatLessThanWellFounded
<1>2. PICK m \in S : \A n \in S : ~(<<n, m>> \in OpToRel(<, Nat))
  BY <1>1, WFMin
<1>3. \A n \in S : ~(n < m)
  BY <1>2 DEF OpToRel
<1>4. \E o \in S : \A n \in S : o <= n
  BY <1>3
<1>. QED  BY <1>4 DEF Min

\* The smaller of two integers.
LEMMA MinOfTwo ==
  ASSUME NEW a \in Int, NEW b \in Int
  PROVE  /\ a <= b => Min({a, b}) = a
         /\ b <= a => Min({a, b}) = b
<1>1. \E x \in {a, b} : \A y \in {a, b} : x <= y
  OBVIOUS
<1>2. Min({a, b}) \in {a, b} /\ \A y \in {a, b} : Min({a, b}) <= y
  BY <1>1 DEF Min
<1>. QED  BY <1>2

\* The ticks of h without a label.
SafeTicks(h) == Shown(h) \ Doomed(h)

\* The smallest label of h at tick k, whose list the tick joins.
Label(h, k) == Min(results[k].dead[h])

\* A tick without a label ends the window of k before the scan reaches n.
EndedBefore(h, k, n) == \E i \in SafeTicks(h) : k < i /\ i < n

\* No tick without a label is between k and j.
OneWindow(h, k, j) == ~EndedBefore(h, k, j) /\ ~EndedBefore(h, j, k)

\* How far the scan of h has come.
Reach(h) == IF h \in todo THEN 1 ELSE IF h \in hero THEN tick ELSE Len(results) + 1

\* The chosen rows of frames with a label.
Picked == {s \in saveMap : results[s[1]].dead[s[2]] # {}}

\* Nothing is scanned while the log is read.
Unscanned ==
  /\ todo = {} /\ hero = {} /\ tick = 1 /\ lists = NoTicks /\ dying = FALSE
  /\ safe = {} /\ saveMap = {} /\ db = {}

\* The types of the scan; it goes over one hero of the first frame at a time.
ScanTypes ==
  /\ phase \in {"scan", "save", "end"}
  /\ todo \subseteq FirstOfGame(results) /\ hero \subseteq FirstOfGame(results)
  /\ hero = {} \/ \E h \in Heroes : hero = {h} /\ h \notin todo
  /\ phase # "scan" => todo = {} /\ hero = {}
  /\ tick \in 1..(Len(results) + 1)
  /\ lists \in [Horizons -> SUBSET Nat] /\ dying \in BOOLEAN
  /\ safe \subseteq (1..Len(results)) \X Heroes
  /\ saveMap \subseteq (1..Len(results)) \X Heroes

\* The lists hold the ticks of the open window, each in that of its smallest label.
ListsOpen ==
  \A h \in hero :
    /\ \A n \in Horizons :
         lists[n] = {k \in Doomed(h) :
                       k < tick /\ Label(h, k) = n /\ ~EndedBefore(h, k, tick)}
    /\ dying <=> \E n \in Horizons : lists[n] # {}

\* A picked tick is of a window that has ended.
PickedEnded ==
  \A s \in Picked : /\ s[2] \in FirstOfGame(results) /\ s[1] \in Doomed(s[2])
                    /\ EndedBefore(s[2], s[1], Reach(s[2]))

\* No window gives two ticks of one smallest label ...
PickedOnce ==
  \A s, r \in Picked :
    /\ s[2] = r[2] /\ Label(s[2], s[1]) = Label(r[2], r[1])
    /\ OneWindow(s[2], s[1], r[1])
    => s = r

\* ... and every window that has ended gives one.
PickedAll ==
  \A h \in FirstOfGame(results) : \A k \in Doomed(h) :
    EndedBefore(h, k, Reach(h)) =>
      \E s \in Picked : /\ s[2] = h /\ Label(h, s[1]) = Label(h, k)
                        /\ OneWindow(h, s[1], k)

\* Candidates have no label; of them at most MaxSafe are chosen, after the scan.
SafeRows ==
  /\ \A s \in safe : results[s[1]].dead[s[2]] = {}
  /\ IsFiniteSet(safe)
  /\ phase = "scan" => saveMap = Picked
  /\ IsFiniteSet(saveMap \ Picked) /\ Cardinality(saveMap \ Picked) <= MaxSafe

\* The rows of the database are the chosen ones, or there are none.
Saved ==
  db # {} => phase = "end" /\ db = {Row(s[1], s[2]) : s \in saveMap}

SampleInv ==
  IF phase = "parse" THEN Unscanned
  ELSE ScanTypes /\ ListsOpen /\ PickedEnded /\ PickedOnce /\ PickedAll /\ SafeRows /\ Saved

-----------------------------------------------------------------------------
\* After the log there is a snapshot for every frame, so that the ticks are the
\* indices of the frames, and the heroes of the first frame are heroes.
LEMMA AllTicks ==
  ASSUME ParseInv, phase # "parse"
  PROVE  /\ results \in Seq(FrameType) /\ Len(results) \in Nat
         /\ DOMAIN results = 1..Len(results)
         /\ \A k \in 1..Len(results) : results[k] \in FrameType
         /\ Ticks(results) = 1..Len(results)
         /\ FirstOfGame(results) \subseteq Heroes
<1>1. results \in Seq(FrameType) /\ Len(vision) = Len(results)
  BY DEF ParseInv, ParseTypes, InStep
<1>2. /\ Len(results) \in Nat /\ DOMAIN results = 1..Len(results)
      /\ \A k \in 1..Len(results) : results[k] \in FrameType
  BY <1>1, LenProperties, ElementOfSeq
<1>3. Ticks(results) = 1..Len(results)
  <2>1. Min({Len(results), Len(vision)}) = Len(results)
    BY <1>1, <1>2, MinOfTwo
  <2>. QED  BY <2>1 DEF Ticks
<1>4. FirstOfGame(results) \subseteq Heroes
  <2> DEFINE game == {k \in Ticks(results) : results[k].time >= 0}
  <2>1. CASE game = {}
    BY <2>1 DEF FirstOfGame
  <2>2. CASE game # {}
    <3>1. game \in SUBSET Nat
      BY <1>2, <1>3
    <3>2. Min(game) \in game
      BY <2>2, <3>1, MinExists
    <3>3. results[Min(game)] \in FrameType
      BY <1>2, <1>3, <3>2
    <3>4. FirstOfGame(results) = results[Min(game)].heroes
      BY <2>2 DEF FirstOfGame
    <3>. QED  BY <3>3, <3>4 DEF FrameType
  <2>. QED  BY <2>1, <2>2
<1>. QED  BY <1>1, <1>2, <1>3, <1>4

\* What ticks and labels are.
LEMMA TickTypes ==
  ASSUME ParseInv, phase # "parse", NEW h \in Heroes
  PROVE  /\ Doomed(h) \subseteq 1..Len(results) /\ SafeTicks(h) \subseteq 1..Len(results)
         /\ Doomed(h) \cap SafeTicks(h) = {} /\ Shown(h) = Doomed(h) \cup SafeTicks(h)
         /\ \A k \in Doomed(h) : /\ results[k].dead[h] # {}
                                 /\ Label(h, k) \in Horizons
         /\ \A k \in SafeTicks(h) : results[k].dead[h] = {}
<1>1. /\ DOMAIN results = 1..Len(results)
      /\ \A k \in 1..Len(results) : results[k] \in FrameType
  BY AllTicks
<1>2. ASSUME NEW k \in Doomed(h) PROVE results[k].dead[h] # {} /\ Label(h, k) \in Horizons
  <2>1. k \in 1..Len(results) /\ results[k].dead[h] # {}
    BY <1>1, <1>2 DEF Doomed, Shown
  <2>2. results[k].dead[h] \in SUBSET Horizons
    BY <1>1, <2>1 DEF FrameType
  <2>3. results[k].dead[h] \in SUBSET Nat
    <3>1. Horizons \subseteq Nat
      BY HorizonsAssumption
    <3>. QED  BY <2>2, <3>1
  <2>4. Label(h, k) \in results[k].dead[h]
    BY <2>1, <2>3, MinExists DEF Label
  <2>. QED  BY <2>1, <2>2, <2>4
<1>3. Doomed(h) \subseteq Shown(h) /\ Shown(h) \subseteq 1..Len(results)
  BY <1>1 DEF Doomed, Shown
<1>. QED  BY <1>2, <1>3 DEF SafeTicks, Doomed

\* Nothing after the log changes which ticks and labels there are.
LEMMA SameTicks ==
  ASSUME UNCHANGED parse
  PROVE  /\ FirstOfGame(results)' = FirstOfGame(results)
         /\ \A h : Doomed(h)' = Doomed(h) /\ SafeTicks(h)' = SafeTicks(h)
         /\ \A h, k : Label(h, k)' = Label(h, k)
         /\ \A h, k, n : EndedBefore(h, k, n)' = EndedBefore(h, k, n)
         /\ \A h, k, n : OneWindow(h, k, n)' = OneWindow(h, k, n)
<1>1. results' = results /\ vision' = vision
  BY DEF parse
<1>. QED  BY <1>1 DEF FirstOfGame, Ticks, Doomed, Shown, SafeTicks, Label, EndedBefore, OneWindow

\* A step that ends no window and picks no tick keeps what is said of the picked ones.
LEMMA SamePicks ==
  ASSUME UNCHANGED parse, Picked' = Picked, PickedEnded, PickedOnce, PickedAll,
         \A h \in FirstOfGame(results) : \A k \in Doomed(h) :
           EndedBefore(h, k, Reach(h))' <=> EndedBefore(h, k, Reach(h))
  PROVE  PickedEnded' /\ PickedOnce' /\ PickedAll'
<1>1. /\ FirstOfGame(results)' = FirstOfGame(results)
      /\ \A h : Doomed(h)' = Doomed(h)
      /\ \A h, k : Label(h, k)' = Label(h, k)
      /\ \A h, k, n : OneWindow(h, k, n)' = OneWindow(h, k, n)
  BY SameTicks
<1>2. PickedEnded'
  BY <1>1 DEF PickedEnded
<1>3. PickedOnce'
  BY <1>1 DEF PickedOnce
<1>4. PickedAll'
  BY <1>1 DEF PickedAll
<1>. QED  BY <1>2, <1>3, <1>4

-----------------------------------------------------------------------------
(* The scan.                                                               *)

\* The end of the log: nothing has been picked.
LEMMA ScanStarts ==
  ASSUME ParseInv, ParseInv', SampleInv, EndOfLog
  PROVE  SampleInv'
<1>1. /\ Unscanned /\ phase' = "scan" /\ todo' = FirstOfGame(results')
      /\ UNCHANGED <<vision, hero, tick, lists, dying, safe, saveMap, db>>
  BY DEF EndOfLog, SampleInv
<1>2. /\ hero' = {} /\ tick' = 1 /\ lists' = NoTicks /\ dying' = FALSE
      /\ safe' = {} /\ saveMap' = {} /\ db' = {}
  BY <1>1 DEF Unscanned
<1>3. todo' = FirstOfGame(results)'
  BY <1>1 DEF FirstOfGame, Ticks
<1>4. Len(results') \in Nat /\ DOMAIN results' = 1..Len(results')
  BY <1>1, LenProperties DEF ParseInv, ParseTypes
<1>5. ScanTypes'
  <2>1. lists' \in [Horizons -> SUBSET Nat] /\ dying' \in BOOLEAN
    BY <1>2 DEF NoTicks
  <2>2. tick' \in 1..(Len(results') + 1)
    BY <1>2, <1>4
  <2>3. /\ safe' \subseteq (1..Len(results')) \X Heroes
        /\ saveMap' \subseteq (1..Len(results')) \X Heroes
    BY <1>2
  <2>4. todo' \subseteq FirstOfGame(results)' /\ hero' \subseteq FirstOfGame(results)'
    BY <1>2, <1>3
  <2>. QED  BY <1>1, <1>2, <2>1, <2>2, <2>3, <2>4, Zenon DEF ScanTypes
<1>6. ListsOpen'
  BY <1>2 DEF ListsOpen
<1>7. Picked' = {}
  BY <1>2 DEF Picked
<1>8. PickedEnded' /\ PickedOnce'
  BY <1>7 DEF PickedEnded, PickedOnce
<1>9. PickedAll'
  <2> SUFFICES ASSUME NEW h \in FirstOfGame(results)', NEW k \in Doomed(h)',
                      EndedBefore(h, k, Reach(h))'
               PROVE  FALSE
    BY DEF PickedAll
  <2>1. Reach(h)' = 1
    BY <1>3 DEF Reach
  <2>2. PICK i \in SafeTicks(h)' : k < i /\ i < 1
    BY <2>1 DEF EndedBefore
  <2>3. k \in 1..Len(results') /\ i \in 1..Len(results')
    BY <1>4, <2>2 DEF Doomed, SafeTicks, Shown
  <2>. QED  BY <1>4, <2>2, <2>3
<1>10. SafeRows'
  <2>1. safe' = {} /\ saveMap' = Picked' /\ saveMap' \ Picked' = {}
    BY <1>2, <1>7
  <2>2. IsFiniteSet({}) /\ Cardinality({}) = 0
    BY FS_EmptySet
  <2>3. 0 <= MaxSafe
    BY HorizonsAssumption
  <2>. QED  BY <2>1, <2>2, <2>3 DEF SafeRows
<1>11. Saved'
  BY <1>2 DEF Saved
<1>. QED  BY <1>1, <1>5, <1>6, <1>8, <1>9, <1>10, <1>11 DEF SampleInv

\* The parts of SampleInv after the log.
LEMMA AfterLogInv ==
  ASSUME SampleInv, phase # "parse"
  PROVE  ScanTypes /\ ListsOpen /\ PickedEnded /\ PickedOnce /\ PickedAll /\ SafeRows /\ Saved
BY DEF SampleInv

\* The scan of the next hero starts before its first tick.
LEMMA NextHeroStep ==
  ASSUME ParseInv, SampleInv, NextHero
  PROVE  SampleInv'
<1>1. /\ phase = "scan" /\ hero = {}
      /\ UNCHANGED <<results, phase, safe, saveMap, db>> /\ UNCHANGED parse
      /\ tick' = 1 /\ lists' = NoTicks /\ dying' = FALSE
  BY DEF NextHero, parse
<1>2. PICK h \in todo : hero' = {h} /\ todo' = todo \ {h}
  BY DEF NextHero
<1>3. ScanTypes /\ PickedEnded /\ PickedOnce /\ PickedAll /\ SafeRows /\ Saved
  BY <1>1, AfterLogInv
<1>4. /\ FirstOfGame(results)' = FirstOfGame(results) /\ FirstOfGame(results) \subseteq Heroes
      /\ Len(results) \in Nat
  BY <1>1, SameTicks, AllTicks
<1>5. h \in FirstOfGame(results) /\ h \in Heroes
  BY <1>2, <1>3, <1>4 DEF ScanTypes
<1>6. ScanTypes'
  <2>1. lists' \in [Horizons -> SUBSET Nat] /\ dying' \in BOOLEAN
    BY <1>1 DEF NoTicks
  <2>2. tick' \in 1..(Len(results') + 1)
    BY <1>1, <1>4
  <2>3. /\ safe' \subseteq (1..Len(results')) \X Heroes
        /\ saveMap' \subseteq (1..Len(results')) \X Heroes
    BY <1>1, <1>3 DEF ScanTypes
  <2>4. todo' \subseteq FirstOfGame(results)' /\ hero' \subseteq FirstOfGame(results)'
    BY <1>2, <1>3, <1>4, <1>5 DEF ScanTypes
  <2>5. hero' = {h} /\ h \in Heroes /\ h \notin todo'
    BY <1>2, <1>5
  <2>6. phase' = "scan"
    BY <1>1
  <2>. QED  BY <2>1, <2>2, <2>3, <2>4, <2>5, <2>6 DEF ScanTypes
<1>7. ListsOpen'
  <2>1. Doomed(h)' \subseteq 1..Len(results)
    BY <1>1, <1>5, SameTicks, TickTypes
  <2>2. \A k \in Doomed(h)' : ~(k < tick')
    BY <1>1, <1>4, <2>1
  <2>3. \A n \in Horizons : lists'[n] = {}
    BY <1>1 DEF NoTicks
  <2>. QED  BY <1>1, <1>2, <2>2, <2>3 DEF ListsOpen
<1>8. \A q \in FirstOfGame(results) : Reach(q)' = Reach(q)
  BY <1>1, <1>2 DEF Reach
<1>9. Picked' = Picked
  BY <1>1 DEF Picked
<1>10. PickedEnded' /\ PickedOnce' /\ PickedAll'
  <2>1. \A q \in FirstOfGame(results) : \A k \in Doomed(q) :
           EndedBefore(q, k, Reach(q))' <=> EndedBefore(q, k, Reach(q))
    BY <1>1, <1>8 DEF EndedBefore, SafeTicks, Shown, Doomed
  <2>. QED  BY <1>1, <1>3, <1>9, <2>1, SamePicks
<1>11. SafeRows'
  BY <1>1, <1>3, <1>9 DEF SafeRows
<1>12. Saved'
  BY <1>1, <1>3 DEF Saved
<1>. QED  BY <1>1, <1>6, <1>7, <1>10, <1>11, <1>12 DEF SampleInv

\* The scan of a hero ends behind its last tick.
LEMMA EndHeroStep ==
  ASSUME ParseInv, SampleInv, EndHero
  PROVE  SampleInv'
<1>1. /\ phase = "scan" /\ hero # {} /\ tick \notin Ticks(results) /\ hero' = {}
      /\ UNCHANGED <<results, phase, todo, tick, lists, dying, safe, saveMap, db>>
      /\ UNCHANGED parse
  BY DEF EndHero, parse
<1>3. ScanTypes /\ PickedEnded /\ PickedOnce /\ PickedAll /\ SafeRows /\ Saved
  BY <1>1, AfterLogInv
<1>4. /\ FirstOfGame(results)' = FirstOfGame(results) /\ Len(results) \in Nat
      /\ Ticks(results) = 1..Len(results)
  BY <1>1, SameTicks, AllTicks
<1>5. tick = Len(results) + 1
  BY <1>1, <1>3, <1>4 DEF ScanTypes
<1>6. ScanTypes'
  BY <1>1, <1>3, <1>4 DEF ScanTypes
<1>7. ListsOpen'
  BY <1>1 DEF ListsOpen
<1>8. \A q \in FirstOfGame(results) : Reach(q)' = Reach(q)
  BY <1>1, <1>5 DEF Reach
<1>9. Picked' = Picked
  BY <1>1 DEF Picked
<1>10. PickedEnded' /\ PickedOnce' /\ PickedAll'
  <2>1. \A q \in FirstOfGame(results) : \A k \in Doomed(q) :
           EndedBefore(q, k, Reach(q))' <=> EndedBefore(q, k, Reach(q))
    BY <1>1, <1>8 DEF EndedBefore, SafeTicks, Shown, Doomed
  <2>. QED  BY <1>1, <1>3, <1>9, <2>1, SamePicks
<1>11. SafeRows'
  BY <1>1, <1>3, <1>9 DEF SafeRows
<1>12. Saved'
  BY <1>1, <1>3 DEF Saved
<1>. QED  BY <1>1, <1>6, <1>7, <1>10, <1>11, <1>12 DEF SampleInv

\* The picks of a window: one tick for each smallest label in it.
LEMMA WindowPicks ==
  ASSUME ParseInv, SampleInv, phase = "scan", NEW h \in Heroes, hero = {h},
         EndWindow(h), tick \in SafeTicks(h)
  PROVE  \E new \in SUBSET (Doomed(h) \X {h}) :
           /\ saveMap' = saveMap \cup new
           /\ \A s \in new : s[1] < tick /\ ~EndedBefore(h, s[1], tick)
           /\ \A s, r \in new : Label(h, s[1]) = Label(h, r[1]) => s = r
           /\ \A k \in Doomed(h) : k < tick /\ ~EndedBefore(h, k, tick) =>
                \E s \in new : Label(h, s[1]) = Label(h, k)
<1>1. ListsOpen /\ ScanTypes
  BY AfterLogInv
<1>2. /\ \A n \in Horizons :
           lists[n] = {k \in Doomed(h) :
                         k < tick /\ Label(h, k) = n /\ ~EndedBefore(h, k, tick)}
      /\ dying <=> \E n \in Horizons : lists[n] # {}
  BY <1>1 DEF ListsOpen
<1>3. \A k \in Doomed(h) : Label(h, k) \in Horizons
  BY TickTypes
<1>4. CASE dying
  <2>1. PICK p \in Picks : saveMap' = saveMap \cup {<<p[n], h>> : n \in DOMAIN p}
    BY <1>4 DEF EndWindow
  <2>2. /\ DOMAIN p = {n \in Horizons : lists[n] # {}}
        /\ \A n \in DOMAIN p : p[n] \in lists[n]
    BY <2>1 DEF Picks
  <2> DEFINE new == {<<p[n], h>> : n \in DOMAIN p}
  <2>3. \A n \in DOMAIN p : /\ p[n] \in Doomed(h) /\ p[n] < tick
                            /\ Label(h, p[n]) = n /\ ~EndedBefore(h, p[n], tick)
    BY <1>2, <2>2
  <2>4. ASSUME NEW k \in Doomed(h), k < tick, ~EndedBefore(h, k, tick)
        PROVE  \E s \in new : Label(h, s[1]) = Label(h, k)
    <3>1. k \in lists[Label(h, k)]
      BY <1>2, <1>3, <2>4
    <3>2. Label(h, k) \in DOMAIN p
      BY <1>3, <2>2, <3>1
    <3>3. <<p[Label(h, k)], h>> \in new /\ Label(h, p[Label(h, k)]) = Label(h, k)
      BY <2>3, <3>2
    <3>. QED  BY <3>3
  <2>5. /\ new \in SUBSET (Doomed(h) \X {h})
        /\ \A s \in new : s[1] < tick /\ ~EndedBefore(h, s[1], tick)
    BY <2>3
  <2>6. ASSUME NEW s \in new, NEW r \in new, Label(h, s[1]) = Label(h, r[1]) PROVE s = r
    <3>1. PICK n, m \in DOMAIN p : s = <<p[n], h>> /\ r = <<p[m], h>>
      OBVIOUS
    <3>. QED  BY <2>3, <2>6, <3>1
  <2> HIDE DEF new
  <2>7. saveMap' = saveMap \cup new
    BY <2>1 DEF new
  <2>. QED  BY <2>4, <2>5, <2>6, <2>7
<1>5. CASE ~dying
  <2>1. saveMap' = saveMap \cup {}
    BY <1>5 DEF EndWindow
  <2>2. ASSUME NEW k \in Doomed(h), k < tick, ~EndedBefore(h, k, tick) PROVE FALSE
    <3>1. k \in lists[Label(h, k)]
      BY <1>2, <1>3, <2>2
    <3>. QED  BY <1>2, <1>3, <1>5, <3>1
  <2>. WITNESS {} \in SUBSET (Doomed(h) \X {h})
  <2>. QED  BY <2>1, <2>2
<1>. QED  BY <1>4, <1>5

\* A tick that does not end the window of h leaves all windows as they are.
LEMMA QuietTick ==
  ASSUME ParseInv, SampleInv, phase = "scan", NEW h \in Heroes, hero = {h},
         UNCHANGED parse, UNCHANGED <<todo, hero, saveMap>>, tick' = tick + 1,
         tick \notin SafeTicks(h)
  PROVE  /\ \A k \in Doomed(h) : EndedBefore(h, k, tick + 1) <=> EndedBefore(h, k, tick)
         /\ Picked' = Picked /\ PickedEnded' /\ PickedOnce' /\ PickedAll'
<1>1. ScanTypes /\ PickedEnded /\ PickedOnce /\ PickedAll
  BY AfterLogInv
<1>2. /\ SafeTicks(h) \subseteq 1..Len(results) /\ Doomed(h) \subseteq 1..Len(results)
      /\ Len(results) \in Nat /\ tick \in Nat
  BY <1>1, TickTypes, AllTicks DEF ScanTypes
<1>3. ASSUME NEW k \in Doomed(h)
      PROVE  EndedBefore(h, k, tick + 1) <=> EndedBefore(h, k, tick)
  <2>1. \A i \in SafeTicks(h) : i < tick + 1 <=> i < tick
    BY <1>2
  <2>. QED  BY <2>1 DEF EndedBefore
<1>4. /\ \A q \in Heroes \ {h} : Reach(q)' = Reach(q)
      /\ Reach(h) = tick /\ Reach(h)' = tick + 1
  BY <1>1 DEF Reach, ScanTypes, parse
<1>5. Picked' = Picked
  BY DEF Picked, parse
<1>6. ASSUME NEW q \in FirstOfGame(results), NEW k \in Doomed(q)
      PROVE  EndedBefore(q, k, Reach(q))' <=> EndedBefore(q, k, Reach(q))
  <2>1. q \in Heroes /\ SafeTicks(q)' = SafeTicks(q)
    BY AllTicks, SameTicks
  <2>2. CASE q = h
    BY <1>3, <1>4, <2>1, <2>2 DEF EndedBefore
  <2>3. CASE q # h
    BY <1>4, <2>1, <2>3 DEF EndedBefore
  <2>. QED  BY <2>2, <2>3
<1>7. PickedEnded' /\ PickedOnce' /\ PickedAll'
  BY <1>1, <1>5, <1>6, SamePicks
<1>. QED  BY <1>3, <1>5, <1>7

\* A tick without a label ends the window: its picks are added.
LEMMA WindowEnds ==
  ASSUME ParseInv, SampleInv, phase = "scan", NEW h \in Heroes, hero = {h},
         UNCHANGED parse, UNCHANGED <<todo, hero>>, tick' = tick + 1,
         EndWindow(h), tick \in SafeTicks(h)
  PROVE  /\ saveMap' = Picked' /\ saveMap' \subseteq (1..Len(results)) \X Heroes
         /\ PickedEnded' /\ PickedOnce' /\ PickedAll'
<1>1. ScanTypes /\ PickedEnded /\ PickedOnce /\ PickedAll /\ SafeRows
  BY AfterLogInv
<1>2. PICK new \in SUBSET (Doomed(h) \X {h}) :
        /\ saveMap' = saveMap \cup new
        /\ \A s \in new : s[1] < tick /\ ~EndedBefore(h, s[1], tick)
        /\ \A s, r \in new : Label(h, s[1]) = Label(h, r[1]) => s = r
        /\ \A k \in Doomed(h) : k < tick /\ ~EndedBefore(h, k, tick) =>
             \E s \in new : Label(h, s[1]) = Label(h, k)
  BY WindowPicks
<1>3. /\ SafeTicks(h) \subseteq 1..Len(results) /\ Doomed(h) \subseteq 1..Len(results)
      /\ Doomed(h) \cap SafeTicks(h) = {}
      /\ \A k \in Doomed(h) : results[k].dead[h] # {}
      /\ Len(results) \in Nat /\ tick \in Nat
  BY <1>1, TickTypes, AllTicks DEF ScanTypes
<1>4. /\ FirstOfGame(results)' = FirstOfGame(results)
      /\ \A q : Doomed(q)' = Doomed(q) /\ SafeTicks(q)' = SafeTicks(q)
      /\ \A q, k : Label(q, k)' = Label(q, k)
      /\ \A q, k, n : EndedBefore(q, k, n)' = EndedBefore(q, k, n)
      /\ \A q, k, n : OneWindow(q, k, n)' = OneWindow(q, k, n)
  BY SameTicks
<1>5. h \in FirstOfGame(results)
  BY <1>1 DEF ScanTypes
<1>6. /\ \A q \in Heroes \ {h} : Reach(q)' = Reach(q)
      /\ Reach(h) = tick /\ Reach(h)' = tick + 1
  BY <1>1 DEF Reach, ScanTypes, parse
<1>7. saveMap = Picked
  BY <1>1 DEF SafeRows
<1>8. \A s \in new : s[2] = h /\ s[1] \in Doomed(h) /\ s[1] \in 1..Len(results)
  BY <1>3
<1>9. Picked' = Picked \cup new /\ saveMap' = Picked'
  <2>1. results' = results
    BY DEF parse
  <2>2. \A s \in Picked : results[s[1]].dead[s[2]] # {}
    BY DEF Picked
  <2>3. \A s \in new : results[s[1]].dead[s[2]] # {}
    BY <1>3, <1>8
  <2>. QED  BY <1>2, <1>7, <2>1, <2>2, <2>3 DEF Picked
<1>10. saveMap' \subseteq (1..Len(results)) \X Heroes
  BY <1>1, <1>2, <1>3 DEF ScanTypes
<1>11. ASSUME NEW k \in Doomed(h)
       PROVE  EndedBefore(h, k, tick + 1) <=> k < tick
  <2>1. ASSUME k < tick PROVE EndedBefore(h, k, tick + 1)
    BY <1>3, <2>1 DEF EndedBefore
  <2>2. ASSUME EndedBefore(h, k, tick + 1) PROVE k < tick
    BY <1>3, <2>2 DEF EndedBefore
  <2>. QED  BY <2>1, <2>2
<1>12. PickedEnded'
  <2> SUFFICES ASSUME NEW s \in Picked \cup new
               PROVE  /\ s[2] \in FirstOfGame(results) /\ s[1] \in Doomed(s[2])
                      /\ EndedBefore(s[2], s[1], Reach(s[2])')
    BY <1>4, <1>9 DEF PickedEnded, EndedBefore
  <2>1. CASE s \in new
    <3>1. s[2] = h /\ s[1] \in Doomed(h) /\ s[1] < tick
      BY <1>2, <1>8, <2>1
    <3>. QED  BY <1>5, <1>6, <1>11, <3>1
  <2>2. CASE s \in Picked
    <3>1. /\ s[2] \in FirstOfGame(results) /\ s[1] \in Doomed(s[2])
          /\ EndedBefore(s[2], s[1], Reach(s[2]))
      BY <1>1, <2>2 DEF PickedEnded
    <3>2. CASE s[2] = h
      <4>1. EndedBefore(h, s[1], tick) /\ s[1] \in Doomed(h)
        BY <1>6, <3>1, <3>2
      <4>2. s[1] < tick
        BY <1>3, <4>1 DEF EndedBefore
      <4>. QED  BY <1>5, <1>6, <1>11, <3>2, <4>1, <4>2
    <3>3. CASE s[2] # h
      <4>1. s[2] \in Heroes
        BY <3>1, AllTicks
      <4>. QED  BY <1>6, <3>1, <3>3, <4>1
    <3>. QED  BY <3>2, <3>3
  <2>. QED  BY <2>1, <2>2
<1>13. ASSUME NEW s \in Picked, NEW r \in new, s[2] = h
       PROVE  ~OneWindow(h, s[1], r[1]) /\ ~OneWindow(h, r[1], s[1])
  <2>1. EndedBefore(h, s[1], tick) /\ s[1] \in Doomed(h)
    BY <1>1, <1>6, <1>13 DEF PickedEnded
  <2>2. PICK i \in SafeTicks(h) : s[1] < i /\ i < tick
    BY <2>1 DEF EndedBefore
  <2>3. r[1] \in Doomed(h) /\ ~EndedBefore(h, r[1], tick)
    BY <1>2, <1>8
  <2>4. ~(r[1] < i) /\ r[1] # i
    BY <1>3, <2>2, <2>3 DEF EndedBefore
  <2>5. i < r[1]
    BY <1>3, <2>2, <2>3, <2>4
  <2>. QED  BY <2>2, <2>5 DEF OneWindow, EndedBefore
<1>14. PickedOnce'
  <2> SUFFICES ASSUME NEW s \in Picked \cup new, NEW r \in Picked \cup new,
                      s[2] = r[2], Label(s[2], s[1]) = Label(r[2], r[1]),
                      OneWindow(s[2], s[1], r[1])
               PROVE  s = r
    BY <1>4, <1>9 DEF PickedOnce
  <2>1. CASE s \in new /\ r \in new
    BY <1>2, <1>8, <2>1
  <2>2. CASE s \in Picked /\ r \in Picked
    BY <1>1, <2>2 DEF PickedOnce
  <2>3. CASE s \in Picked /\ r \in new
    BY <1>8, <1>13, <2>3
  <2>4. CASE s \in new /\ r \in Picked
    BY <1>8, <1>13, <2>4
  <2>. QED  BY <2>1, <2>2, <2>3, <2>4
<1>15. PickedAll'
  <2> SUFFICES ASSUME NEW q \in FirstOfGame(results), NEW k \in Doomed(q),
                      EndedBefore(q, k, Reach(q)')
               PROVE  \E s \in Picked \cup new :
                        /\ s[2] = q /\ Label(q, s[1]) = Label(q, k)
                        /\ OneWindow(q, s[1], k)
    BY <1>4, <1>9 DEF PickedAll, EndedBefore
  <2>1. CASE EndedBefore(q, k, Reach(q))
    BY <1>1, <2>1 DEF PickedAll
  <2>2. CASE ~EndedBefore(q, k, Reach(q))
    <3>1. q = h
      <4>1. q \in Heroes
        BY AllTicks
      <4>. QED  BY <1>6, <2>2, <4>1
    <3>2. k < tick /\ ~EndedBefore(h, k, tick) /\ k \in Doomed(h)
      BY <1>6, <1>11, <2>2, <3>1
    <3>3. PICK s \in new : Label(h, s[1]) = Label(h, k)
      BY <1>2, <3>2
    <3>4. s[2] = h /\ s[1] \in Doomed(h) /\ s[1] < tick /\ ~EndedBefore(h, s[1], tick)
      BY <1>2, <1>8
    <3>5. OneWindow(h, s[1], k)
      BY <1>3, <3>2, <3>4 DEF OneWindow, EndedBefore
    <3>. QED  BY <3>1, <3>3, <3>4, <3>5
  <2>. QED  BY <2>1, <2>2
<1>. QED  BY <1>9, <1>10, <1>12, <1>14, <1>15

\* One tick of the scan.
LEMMA ScanTickStep ==
  ASSUME ParseInv, SampleInv, ScanTick
  PROVE  SampleInv'
<1>1. /\ phase = "scan" /\ tick \in Ticks(results) /\ tick' = tick + 1
      /\ UNCHANGED <<results, phase, todo, hero, db>> /\ UNCHANGED parse
  BY DEF ScanTick, parse
<1>2. PICK h \in hero :
        LET f == results[tick] IN
        \/ /\ f.time < 0 \/ h \notin f.heroes
           /\ UNCHANGED <<lists, dying, safe, saveMap>>
        \/ /\ f.time >= 0 /\ h \in f.heroes /\ f.dead[h] # {}
           /\ dying' = TRUE
           /\ lists' = [lists EXCEPT ![Min(f.dead[h])] = @ \cup {tick}]
           /\ UNCHANGED <<safe, saveMap>>
        \/ /\ f.time >= 0 /\ h \in f.heroes /\ f.dead[h] = {}
           /\ EndWindow(h)
           /\ safe' = safe \cup {<<tick, h>>}
  BY DEF ScanTick
<1>3. ScanTypes /\ ListsOpen /\ PickedEnded /\ PickedOnce /\ PickedAll /\ SafeRows /\ Saved
  BY <1>1, AfterLogInv
<1>4. /\ FirstOfGame(results)' = FirstOfGame(results) /\ FirstOfGame(results) \subseteq Heroes
      /\ Len(results) \in Nat /\ DOMAIN results = 1..Len(results)
      /\ Ticks(results) = 1..Len(results)
      /\ \A k \in 1..Len(results) : results[k] \in FrameType
      /\ \A q, k, n : EndedBefore(q, k, n)' = EndedBefore(q, k, n)
      /\ \A q, k : Label(q, k)' = Label(q, k)
      /\ Doomed(h)' = Doomed(h)
  BY <1>1, SameTicks, AllTicks
<1>5. hero = {h} /\ h \in Heroes /\ h \notin todo
  BY <1>2, <1>3 DEF ScanTypes
<1>6. /\ tick \in 1..Len(results) /\ tick' \in 1..(Len(results') + 1) /\ tick \in Nat
      /\ results[tick].time \in Int
  BY <1>1, <1>4 DEF FrameType
<1>7. /\ Doomed(h) \subseteq 1..Len(results) /\ SafeTicks(h) \subseteq 1..Len(results)
      /\ Doomed(h) \cap SafeTicks(h) = {}
      /\ \A k \in Doomed(h) : Label(h, k) \in Horizons
  BY <1>1, <1>5, TickTypes
<1>8. /\ lists \in [Horizons -> SUBSET Nat] /\ dying \in BOOLEAN
      /\ safe \subseteq (1..Len(results)) \X Heroes
      /\ saveMap \subseteq (1..Len(results)) \X Heroes
  BY <1>3 DEF ScanTypes
<1>9. /\ \A n \in Horizons :
           lists[n] = {k \in Doomed(h) :
                         k < tick /\ Label(h, k) = n /\ ~EndedBefore(h, k, tick)}
      /\ dying <=> \E n \in Horizons : lists[n] # {}
  BY <1>3, <1>5 DEF ListsOpen
<1>10. Saved'
  BY <1>1, <1>3 DEF Saved
<1>11. ASSUME /\ lists' \in [Horizons -> SUBSET Nat] /\ dying' \in BOOLEAN
              /\ safe' \subseteq (1..Len(results)) \X Heroes
              /\ saveMap' \subseteq (1..Len(results)) \X Heroes
       PROVE  ScanTypes'
  <2>1. /\ todo' \subseteq FirstOfGame(results)' /\ hero' \subseteq FirstOfGame(results)'
        /\ hero' = {h} /\ h \notin todo' /\ phase' = "scan"
    BY <1>1, <1>3, <1>4, <1>5 DEF ScanTypes
  <2>2. Len(results') = Len(results)
    BY <1>1
  <2>. QED  BY <1>5, <1>6, <1>11, <2>1, <2>2, Zenon DEF ScanTypes
<1>12. \A k \in Doomed(h) : k < tick + 1 <=> k < tick \/ k = tick
  BY <1>6, <1>7
<1>13. CASE tick \notin Shown(h) /\ UNCHANGED <<lists, dying, safe, saveMap>>
  <2>1. tick \notin SafeTicks(h) /\ tick \notin Doomed(h)
    BY <1>13 DEF SafeTicks, Doomed
  <2>2. /\ \A k \in Doomed(h) : EndedBefore(h, k, tick + 1) <=> EndedBefore(h, k, tick)
        /\ Picked' = Picked /\ PickedEnded' /\ PickedOnce' /\ PickedAll'
    BY <1>1, <1>5, <1>13, <2>1, QuietTick
  <2>3. ListsOpen'
    <3>1. ASSUME NEW n \in Horizons
          PROVE  lists'[n] = {k \in Doomed(h) : k < tick + 1 /\ Label(h, k) = n
                                                  /\ ~EndedBefore(h, k, tick + 1)}
      BY <1>9, <1>12, <1>13, <2>1, <2>2
    <3>2. dying' <=> \E n \in Horizons : lists'[n] # {}
      BY <1>9, <1>13
    <3>. QED  BY <1>1, <1>4, <1>5, <3>1, <3>2 DEF ListsOpen
  <2>4. SafeRows'
    BY <1>1, <1>3, <1>13, <2>2 DEF SafeRows
  <2>5. ScanTypes'
    BY <1>8, <1>11, <1>13
  <2>. QED  BY <1>1, <1>10, <2>2, <2>3, <2>4, <2>5 DEF SampleInv
<1>14. CASE /\ tick \in Doomed(h) /\ dying' = TRUE
            /\ lists' = [lists EXCEPT ![Label(h, tick)] = @ \cup {tick}]
            /\ UNCHANGED <<safe, saveMap>>
  <2>1. tick \notin SafeTicks(h)
    BY <1>7, <1>14
  <2>2. /\ \A k \in Doomed(h) : EndedBefore(h, k, tick + 1) <=> EndedBefore(h, k, tick)
        /\ Picked' = Picked /\ PickedEnded' /\ PickedOnce' /\ PickedAll'
    BY <1>1, <1>5, <1>14, <2>1, QuietTick
  <2>3. Label(h, tick) \in Horizons
    BY <1>7, <1>14
  <2>4. ~EndedBefore(h, tick, tick)
    BY <1>6, <1>7 DEF EndedBefore
  <2>5. \A n \in Horizons :
          lists'[n] = IF n = Label(h, tick) THEN lists[n] \cup {tick} ELSE lists[n]
    BY <1>8, <1>14, <2>3
  <2>6. ListsOpen'
    <3>1. ASSUME NEW n \in Horizons
          PROVE  lists'[n] = {k \in Doomed(h) : k < tick + 1 /\ Label(h, k) = n
                                                  /\ ~EndedBefore(h, k, tick + 1)}
      <4>1. CASE n = Label(h, tick)
        BY <1>9, <1>12, <1>14, <2>2, <2>4, <2>5, <4>1
      <4>2. CASE n # Label(h, tick)
        BY <1>9, <1>12, <1>14, <2>2, <2>5, <4>2
      <4>. QED  BY <4>1, <4>2
    <3>2. dying' <=> \E n \in Horizons : lists'[n] # {}
      BY <1>14, <2>3, <2>5
    <3>. QED  BY <1>1, <1>4, <1>5, <3>1, <3>2 DEF ListsOpen
  <2>7. SafeRows'
    BY <1>1, <1>3, <1>14, <2>2 DEF SafeRows
  <2>8. lists' \in [Horizons -> SUBSET Nat] /\ dying' \in BOOLEAN
    BY <1>6, <1>8, <1>14
  <2>9. ScanTypes'
    BY <1>8, <1>11, <1>14, <2>8
  <2>. QED  BY <1>1, <1>10, <2>2, <2>6, <2>7, <2>9 DEF SampleInv
<1>15. CASE tick \in SafeTicks(h) /\ EndWindow(h) /\ safe' = safe \cup {<<tick, h>>}
  <2>1. /\ saveMap' = Picked' /\ saveMap' \subseteq (1..Len(results)) \X Heroes
        /\ PickedEnded' /\ PickedOnce' /\ PickedAll'
    BY <1>1, <1>5, <1>15, WindowEnds
  <2>2. lists' = NoTicks /\ dying' = FALSE
    <3>1. CASE dying
      BY <1>15, <3>1 DEF EndWindow
    <3>2. CASE ~dying
      <4>1. \A n \in Horizons : lists[n] = {}
        BY <1>9, <3>2
      <4>2. lists = [n \in Horizons |-> lists[n]]
        BY <1>8
      <4>3. lists = NoTicks
        BY <4>1, <4>2 DEF NoTicks
      <4>4. UNCHANGED <<lists, dying>>
        BY <1>15, <3>2 DEF EndWindow
      <4>5. dying' = FALSE
        BY <1>8, <3>2, <4>4
      <4>. QED  BY <4>3, <4>4, <4>5
    <3>. QED  BY <3>1, <3>2
  <2>3. ListsOpen'
    <3>1. ASSUME NEW k \in Doomed(h), k < tick + 1 PROVE EndedBefore(h, k, tick + 1)
      <4>1. k < tick /\ tick < tick + 1
        BY <1>6, <1>7, <1>12, <1>15, <3>1
      <4>. QED  BY <1>15, <4>1 DEF EndedBefore
    <3>2. \A n \in Horizons : lists'[n] = {}
      BY <2>2 DEF NoTicks
    <3>. QED  BY <1>1, <1>4, <1>5, <2>2, <3>1, <3>2 DEF ListsOpen
  <2>4. SafeRows'
    <3>1. \A s \in safe' : results'[s[1]].dead[s[2]] = {}
      <4>1. results[tick].dead[h] = {}
        BY <1>1, <1>5, <1>15, TickTypes
      <4>. QED  BY <1>1, <1>3, <1>15, <4>1 DEF SafeRows
    <3>2. IsFiniteSet(safe')
      BY <1>3, <1>15, FS_AddElement DEF SafeRows
    <3>3. saveMap' \ Picked' = {}
      BY <2>1
    <3>4. IsFiniteSet({}) /\ Cardinality({}) = 0
      BY FS_EmptySet
    <3>5. 0 <= MaxSafe
      BY HorizonsAssumption
    <3>. QED  BY <2>1, <3>1, <3>2, <3>3, <3>4, <3>5 DEF SafeRows
  <2>5. lists' \in [Horizons -> SUBSET Nat] /\ dying' \in BOOLEAN
    BY <2>2 DEF NoTicks
  <2>6. safe' \subseteq (1..Len(results)) \X Heroes
    BY <1>5, <1>6, <1>8, <1>15
  <2>7. ScanTypes'
    BY <1>11, <2>1, <2>5, <2>6
  <2>. QED  BY <1>1, <1>10, <2>1, <2>3, <2>4, <2>7 DEF SampleInv
<1>16. /\ tick \in Shown(h) <=> results[tick].time >= 0 /\ h \in results[tick].heroes
       /\ tick \in Doomed(h) <=> tick \in Shown(h) /\ results[tick].dead[h] # {}
       /\ tick \in SafeTicks(h) <=> tick \in Shown(h) /\ results[tick].dead[h] = {}
  BY <1>4, <1>6 DEF SafeTicks, Doomed, Shown
<1>17. ~(results[tick].time < 0 /\ results[tick].time >= 0)
  BY <1>6
<1>. QED  BY <1>2, <1>13, <1>14, <1>15, <1>16, <1>17 DEF Label

\* The shuffle: at most MaxSafe candidates are added to the picked ticks.
LEMMA ChooseSafeStep ==
  ASSUME ParseInv, SampleInv, ChooseSafe
  PROVE  SampleInv'
<1>1. /\ phase = "scan" /\ hero = {} /\ todo = {} /\ phase' = "save"
      /\ UNCHANGED <<results, todo, hero, tick, lists, dying, safe, db>> /\ UNCHANGED parse
  BY DEF ChooseSafe, parse
<1>2. PICK s \in kSubset(Min({MaxSafe, Cardinality(safe)}), safe) : saveMap' = saveMap \cup s
  BY DEF ChooseSafe
<1>3. ScanTypes /\ ListsOpen /\ PickedEnded /\ PickedOnce /\ PickedAll /\ SafeRows /\ Saved
  BY <1>1, AfterLogInv
<1>4. s \subseteq safe /\ Cardinality(s) = Min({MaxSafe, Cardinality(safe)})
  BY <1>2 DEF kSubset
<1>5. Cardinality(s) <= MaxSafe /\ IsFiniteSet(s)
  <2>1. IsFiniteSet(safe)
    BY <1>3 DEF SafeRows
  <2>2. Cardinality(safe) \in Nat /\ IsFiniteSet(s)
    BY <1>4, <2>1, FS_CardinalityType, FS_Subset
  <2>3. MaxSafe \in Nat
    BY HorizonsAssumption
  <2>. QED  BY <1>4, <2>2, <2>3, MinOfTwo
<1>6. \A r \in safe : results[r[1]].dead[r[2]] = {}
  BY <1>3 DEF SafeRows
<1>7. saveMap = Picked
  BY <1>1, <1>3 DEF SafeRows
<1>8. Picked' = Picked /\ saveMap' \ Picked' = s
  <2>1. \A r \in Picked : results[r[1]].dead[r[2]] # {}
    BY DEF Picked
  <2>2. Picked' = Picked
    BY <1>1, <1>2, <1>4, <1>6, <1>7, <2>1 DEF Picked
  <2>. QED  BY <1>2, <1>4, <1>6, <1>7, <2>1, <2>2
<1>9. FirstOfGame(results)' = FirstOfGame(results) /\ Len(results') = Len(results)
  BY <1>1, SameTicks
<1>10. ScanTypes'
  <2>1. saveMap' \subseteq (1..Len(results')) \X Heroes
    BY <1>2, <1>3, <1>4, <1>9 DEF ScanTypes
  <2>. QED  BY <1>1, <1>3, <1>9, <2>1 DEF ScanTypes
<1>11. ListsOpen'
  BY <1>1 DEF ListsOpen
<1>12. PickedEnded' /\ PickedOnce' /\ PickedAll'
  <2>1. \A q : Reach(q)' = Reach(q)
    BY <1>1 DEF Reach
  <2>2. \A q \in FirstOfGame(results) : \A k \in Doomed(q) :
          EndedBefore(q, k, Reach(q))' <=> EndedBefore(q, k, Reach(q))
    BY <1>1, <2>1 DEF EndedBefore, SafeTicks, Shown, Doomed
  <2>. QED  BY <1>1, <1>3, <1>8, <2>2, SamePicks
<1>13. SafeRows'
  BY <1>1, <1>3, <1>5, <1>8 DEF SafeRows
<1>14. Saved'
  BY <1>1, <1>3 DEF Saved
<1>. QED  BY <1>1, <1>10, <1>11, <1>12, <1>13, <1>14 DEF SampleInv

\* The transaction, and steps that change nothing of the scan.
LEMMA SaveStep ==
  ASSUME ParseInv, SampleInv, phase # "parse", Commit \/ Rollback \/ UNCHANGED vars
  PROVE  SampleInv'
<1>1. UNCHANGED <<results, vision, todo, hero, tick, lists, dying, safe, saveMap>>
      /\ UNCHANGED parse
  BY DEF Commit, Rollback, vars, parse, scan
<1>2. ScanTypes /\ ListsOpen /\ PickedEnded /\ PickedOnce /\ PickedAll /\ SafeRows /\ Saved
  BY AfterLogInv
<1>3. \/ phase = "save" /\ phase' = "end" /\ db' = {Row(s[1], s[2]) : s \in saveMap}
      \/ phase = "save" /\ phase' = "end" /\ db' = db
      \/ phase' = phase /\ db' = db
  BY DEF Commit, Rollback, vars
<1>4. /\ FirstOfGame(results)' = FirstOfGame(results) /\ Len(results') = Len(results)
      /\ \A q : Doomed(q)' = Doomed(q)
      /\ \A q, k : Label(q, k)' = Label(q, k)
      /\ \A q, k, n : EndedBefore(q, k, n)' = EndedBefore(q, k, n)
  BY <1>1, SameTicks
<1>5. ScanTypes'
  BY <1>1, <1>2, <1>3, <1>4 DEF ScanTypes
<1>6. ListsOpen'
  BY <1>1, <1>2, <1>4 DEF ListsOpen
<1>7. Picked' = Picked
  BY <1>1 DEF Picked
<1>8. PickedEnded' /\ PickedOnce' /\ PickedAll'
  <2>1. \A q : Reach(q)' = Reach(q)
    BY <1>1 DEF Reach
  <2>2. \A q \in FirstOfGame(results) : \A k \in Doomed(q) :
          EndedBefore(q, k, Reach(q))' <=> EndedBefore(q, k, Reach(q))
    BY <1>1, <2>1 DEF EndedBefore, SafeTicks, Shown, Doomed
  <2>. QED  BY <1>1, <1>2, <1>7, <2>2, SamePicks
<1>9. SafeRows'
  BY <1>1, <1>2, <1>3, <1>7 DEF SafeRows
<1>10. Saved'
  <2>1. \A k, q : Row(k, q)' = Row(k, q)
    BY <1>1 DEF Row
  <2>2. {Row(s[1], s[2]) : s \in saveMap}' = {Row(s[1], s[2]) : s \in saveMap}
    BY <1>1, <2>1
  <2>. QED  BY <1>2, <1>3, <2>2 DEF Saved
<1>11. phase' # "parse"
  BY <1>3
<1>. QED  BY <1>5, <1>6, <1>8, <1>9, <1>10, <1>11 DEF SampleInv

\* Every step keeps the invariant of the sampling.
LEMMA SampleStep == ParseInv /\ ParseInv' /\ SampleInv /\ [Next]_vars => SampleInv'
<1> SUFFICES ASSUME ParseInv, ParseInv', SampleInv, [Next]_vars PROVE SampleInv'
  OBVIOUS
<1>1. CASE ReadLine
  BY <1>1 DEF ReadLine, scan, SampleInv, Unscanned, NoTicks
<1>2. CASE EndOfLog
  BY <1>2, ScanStarts
<1>3. CASE NextHero
  BY <1>3, NextHeroStep
<1>4. CASE ScanTick
  BY <1>4, ScanTickStep
<1>5. CASE EndHero
  BY <1>5, EndHeroStep
<1>6. CASE ChooseSafe
  BY <1>6, ChooseSafeStep
<1>7. CASE Commit \/ Rollback
  <2>1. phase # "parse"
    BY <1>7 DEF Commit, Rollback
  <2>. QED  BY <1>7, <2>1, SaveStep
<1>8. CASE UNCHANGED vars
  <2>1. CASE phase = "parse"
    BY <1>8, <2>1 DEF vars, scan, SampleInv, Unscanned, NoTicks
  <2>2. CASE phase # "parse"
    BY <1>8, <2>2, SaveStep
  <2>. QED  BY <2>1, <2>2
<1>. QED  BY <1>1, <1>2, <1>3, <1>4, <1>5, <1>6, <1>7, <1>8 DEF Next

\* The invariant of the sampling holds of every match.
LEMMA SampleHolds == Spec => [](ParseInv /\ SampleInv)
<1>1. Init => SampleInv
  BY DEF Init, SampleInv, Unscanned
<1>. QED  BY <1>1, SampleStep, ParseHolds, PTL DEF Spec

\* The parsed frames, the state of the scan and the rows have the types of
\* worker.go:85-148: ticks are indices of frames, lists are kept by label.
THEOREM DatasetTypeCorrect == Spec => []TypeOK
<1>1. ParseInv /\ SampleInv => TypeOK
  <2> SUFFICES ASSUME ParseInv, SampleInv PROVE TypeOK
    OBVIOUS
  <2>1. /\ results \in Seq(FrameType) /\ frame \in Seq(FrameType) /\ Len(frame) <= 1
        /\ vision \in Seq(Int) /\ {last, lastSnap} \subseteq Int
        /\ deaths \subseteq Heroes \X Int
    BY DEF ParseInv, ParseTypes
  <2>2. CASE phase = "parse"
    <3>1. /\ todo = {} /\ hero = {} /\ tick = 1 /\ lists = NoTicks /\ dying = FALSE
          /\ safe = {} /\ saveMap = {} /\ db = {}
      BY <2>2 DEF SampleInv, Unscanned
    <3>2. lists \in [Horizons -> SUBSET Nat]
      BY <3>1 DEF NoTicks
    <3>. QED  BY <2>1, <2>2, <3>1, <3>2 DEF TypeOK
  <2>3. CASE phase # "parse"
    <3>1. ScanTypes /\ Saved
      BY <2>3, AfterLogInv
    <3>2. /\ FirstOfGame(results) \subseteq Heroes /\ Len(results) \in Nat
          /\ \A k \in 1..Len(results) : results[k] \in FrameType
      BY <2>3, AllTicks
    <3>3. ASSUME NEW r \in db PROVE r.time \in Int
      <4>1. PICK s \in saveMap : r = Row(s[1], s[2])
        BY <3>1, <3>3 DEF Saved
      <4>2. s[1] \in 1..Len(results) /\ r.time = results[s[1]].time
        BY <3>1, <4>1 DEF ScanTypes, Row
      <4>. QED  BY <3>2, <4>2 DEF FrameType
    <3>4. 1..Len(results) \subseteq Nat
      OBVIOUS
    <3>5. /\ todo \subseteq Heroes /\ hero \subseteq Heroes /\ tick \in Nat
          /\ phase \in {"scan", "save", "end"}
          /\ lists \in [Horizons -> SUBSET Nat] /\ dying \in BOOLEAN
      BY <3>1, <3>2 DEF ScanTypes
    <3>6. safe \subseteq Nat \X Heroes /\ saveMap \subseteq Nat \X Heroes
      BY <3>1, <3>4 DEF ScanTypes
    <3>. QED  BY <2>1, <3>3, <3>5, <3>6, Zenon DEF TypeOK
  <2>. QED  BY <2>2, <2>3
<1>. QED  BY <1>1, SampleHolds, PTL

\* A set that a one-to-one map takes into a finite set is no larger than it.
LEMMA NoMoreThan ==
  ASSUME NEW S, NEW T, IsFiniteSet(T), NEW f \in [S -> T],
         \A x, y \in S : f[x] = f[y] => x = y
  PROVE  Cardinality(S) <= Cardinality(T)
<1>1. DOMAIN f = S
  OBVIOUS
<1>2. f \in Injection(S, T)
  BY <1>1 DEF Injection, IsInjective
<1>. QED  BY <1>2, FS_Injection

\* The windows of two labelled ticks, as the property and as the invariant say it.
LEMMA Windows ==
  ASSUME ParseInv, phase # "parse", NEW h \in Heroes,
         NEW k \in Doomed(h), NEW j \in Doomed(h)
  PROVE  /\ SameWindow(h, j, k) <=> OneWindow(h, j, k)
         /\ Ended(h, k) <=> EndedBefore(h, k, Len(results) + 1)
         /\ \A i \in Doomed(h) : OneWindow(h, i, k) /\ OneWindow(h, j, k) => OneWindow(h, i, j)
         /\ OneWindow(h, j, k) /\ Ended(h, j) => Ended(h, k)
<1>1. /\ SafeTicks(h) \subseteq 1..Len(results) /\ Doomed(h) \subseteq 1..Len(results)
      /\ Doomed(h) \cap SafeTicks(h) = {} /\ Len(results) \in Nat
  BY TickTypes, AllTicks
<1>2. k \in Nat /\ j \in Nat
  BY <1>1
<1>3. \A i \in SafeTicks(h) : i \in Nat /\ i # k /\ i # j /\ i < Len(results) + 1
  BY <1>1
<1>4. SameWindow(h, j, k) <=> OneWindow(h, j, k)
  <2>1. SameWindow(h, j, k) <=>
          \A i \in SafeTicks(h) : ~(i \in Min({j, k})..Max({j, k}))
    BY DEF SameWindow, SafeTicks
  <2>2. OneWindow(h, j, k) <=>
          \A i \in SafeTicks(h) : ~(j < i /\ i < k) /\ ~(k < i /\ i < j)
    BY DEF OneWindow, EndedBefore
  <2>3. CASE j <= k
    <3>1. Min({j, k}) = j /\ Max({j, k}) = k
      BY <1>2, <2>3, MinOfTwo, MaxOfTwo
    <3>. QED  BY <1>2, <1>3, <2>1, <2>2, <2>3, <3>1
  <2>4. CASE k <= j
    <3>1. Min({j, k}) = k /\ Max({j, k}) = j
      BY <1>2, <2>4, MinOfTwo, MaxOfTwo
    <3>. QED  BY <1>2, <1>3, <2>1, <2>2, <2>4, <3>1
  <2>. QED  BY <1>2, <2>3, <2>4
<1>5. \A m \in {j, k} : Ended(h, m) <=> \E i \in SafeTicks(h) : m < i
  BY <1>2, <1>3 DEF Ended, SafeTicks
<1>6. Ended(h, k) <=> EndedBefore(h, k, Len(results) + 1)
  BY <1>3, <1>5 DEF EndedBefore
<1>7. ASSUME NEW i \in Doomed(h), OneWindow(h, i, k), OneWindow(h, j, k)
      PROVE  OneWindow(h, i, j)
  <2>1. i \in Nat
    BY <1>1
  <2>. QED  BY <1>2, <1>3, <1>7, <2>1 DEF OneWindow, EndedBefore
<1>8. ASSUME OneWindow(h, j, k), Ended(h, j) PROVE Ended(h, k)
  <2>1. PICK i \in SafeTicks(h) : j < i
    BY <1>5, <1>8
  <2>2. k < i
    BY <1>2, <1>3, <1>8, <2>1 DEF OneWindow, EndedBefore
  <2>. QED  BY <1>5, <2>2
<1>. QED  BY <1>4, <1>6, <1>7, <1>8

\* What is said of the picked ticks is true of the rows.
LEMMA RowsOnce == ParseInv /\ SampleInv => SampledOncePerWindow
<1> SUFFICES ASSUME ParseInv, SampleInv, db # {}
             PROVE  /\ \A h \in FirstOfGame(results) : \A k \in Doomed(h) :
                         LET peers == {r \in db : /\ r.hero = h /\ r.dead # {}
                                                  /\ Min(r.dead) = Min(results[k].dead[h])
                                                  /\ SameWindow(h, r.tick, k)}
                         IN  Cardinality(peers) = IF Ended(h, k) THEN 1 ELSE 0
                    /\ Cardinality({r \in db : r.dead = {}}) <= MaxSafe
  BY DEF SampledOncePerWindow
<1>1. phase # "parse"
  BY DEF SampleInv, Unscanned
<1>2. ScanTypes /\ PickedEnded /\ PickedOnce /\ PickedAll /\ SafeRows /\ Saved
  BY <1>1, AfterLogInv
<1>3. phase = "end" /\ db = {Row(s[1], s[2]) : s \in saveMap}
  BY <1>2 DEF Saved
<1>4. /\ FirstOfGame(results) \subseteq Heroes
      /\ saveMap \subseteq (1..Len(results)) \X Heroes
      /\ \A q : Reach(q) = Len(results) + 1
  BY <1>1, <1>2, <1>3, AllTicks DEF ScanTypes, Reach
<1>5. \A k, q : /\ Row(k, q).tick = k /\ Row(k, q).hero = q
                /\ Row(k, q).dead = results[k].dead[q]
  BY DEF Row
<1>6. ASSUME NEW h \in FirstOfGame(results), NEW k \in Doomed(h)
      PROVE  LET peers == {r \in db : /\ r.hero = h /\ r.dead # {}
                                      /\ Min(r.dead) = Min(results[k].dead[h])
                                      /\ SameWindow(h, r.tick, k)}
             IN  Cardinality(peers) = IF Ended(h, k) THEN 1 ELSE 0
  <2> DEFINE peers == {r \in db : /\ r.hero = h /\ r.dead # {}
                                  /\ Min(r.dead) = Min(results[k].dead[h])
                                  /\ SameWindow(h, r.tick, k)}
  <2>1. h \in Heroes
    BY <1>4
  <2>2. ASSUME NEW r \in peers
        PROVE  \E s \in Picked : /\ s[2] = h /\ r = Row(s[1], h) /\ s[1] \in Doomed(h)
                                 /\ Label(h, s[1]) = Label(h, k)
                                 /\ OneWindow(h, s[1], k) /\ Ended(h, s[1])
    <3>1. PICK s \in saveMap : r = Row(s[1], s[2])
      BY <1>3
    <3>2. /\ s[2] = h /\ results[s[1]].dead[h] # {}
          /\ Min(results[s[1]].dead[h]) = Min(results[k].dead[h])
          /\ SameWindow(h, s[1], k)
      BY <1>5, <3>1
    <3>3. s \in Picked
      BY <3>2 DEF Picked
    <3>4. s[1] \in Doomed(h) /\ EndedBefore(h, s[1], Len(results) + 1)
      BY <1>2, <1>4, <3>2, <3>3 DEF PickedEnded
    <3>5. OneWindow(h, s[1], k) /\ Ended(h, s[1])
      BY <1>1, <2>1, <3>2, <3>4, Windows
    <3>. QED  BY <3>1, <3>2, <3>3, <3>4, <3>5 DEF Label
  <2>3. CASE Ended(h, k)
    <3>1. EndedBefore(h, k, Reach(h))
      BY <1>1, <1>4, <2>1, <2>3, Windows
    <3>2. PICK s \in Picked : /\ s[2] = h /\ Label(h, s[1]) = Label(h, k)
                              /\ OneWindow(h, s[1], k)
      BY <1>2, <3>1 DEF PickedAll
    <3>3. s \in saveMap /\ s[1] \in Doomed(h) /\ results[s[1]].dead[h] # {}
      BY <1>2, <3>2 DEF Picked, PickedEnded
    <3>4. SameWindow(h, s[1], k)
      BY <1>1, <2>1, <3>2, <3>3, Windows
    <3>5. Row(s[1], h) \in peers
      BY <1>3, <1>5, <3>2, <3>3, <3>4 DEF Label
    <3>6. ASSUME NEW r \in peers PROVE r = Row(s[1], h)
      <4>1. PICK t \in Picked : /\ t[2] = h /\ r = Row(t[1], h) /\ t[1] \in Doomed(h)
                                /\ Label(h, t[1]) = Label(h, k) /\ OneWindow(h, t[1], k)
        BY <2>2
      <4>2. OneWindow(h, t[1], s[1])
        BY <1>1, <2>1, <3>2, <3>3, <4>1, Windows
      <4>3. t = s
        BY <1>2, <3>2, <4>1, <4>2 DEF PickedOnce
      <4>. QED  BY <4>1, <4>3
    <3> HIDE DEF peers
    <3>7. peers = {Row(s[1], h)}
      BY <3>5, <3>6
    <3>8. Cardinality(peers) = 1
      BY <3>7, FS_Singleton
    <3>. QED  BY <2>3, <3>8 DEF peers
  <2>4. CASE ~Ended(h, k)
    <3>1. ASSUME NEW r \in peers PROVE FALSE
      <4>1. PICK s \in Picked : s[1] \in Doomed(h) /\ OneWindow(h, s[1], k) /\ Ended(h, s[1])
        BY <2>2
      <4>. QED  BY <1>1, <2>1, <2>4, <4>1, Windows
    <3> HIDE DEF peers
    <3>2. peers = {}
      BY <3>1
    <3>3. Cardinality(peers) = 0
      BY <3>2, FS_EmptySet
    <3>. QED  BY <2>4, <3>3 DEF peers
  <2>. QED  BY <2>3, <2>4
<1>7. Cardinality({r \in db : r.dead = {}}) <= MaxSafe
  <2> DEFINE rows == {r \in db : r.dead = {}}
             others == saveMap \ Picked
             f == [r \in rows |-> <<r.tick, r.hero>>]
  <2>1. ASSUME NEW r \in rows
        PROVE  f[r] \in others /\ r = Row(f[r][1], f[r][2])
    <3>1. PICK s \in saveMap : r = Row(s[1], s[2])
      BY <1>3
    <3>2. s = <<s[1], s[2]>>
      BY <1>4
    <3>3. f[r] = s
      BY <1>5, <3>1, <3>2
    <3>4. s \notin Picked
      BY <1>5, <3>1 DEF Picked
    <3>. QED  BY <3>1, <3>3, <3>4
  <2>2. f = [r \in rows |-> f[r]]
    OBVIOUS
  <2> HIDE DEF rows, others, f
  <2>3. f \in [rows -> others]
    BY <2>1, <2>2
  <2>4. \A q, r \in rows : f[q] = f[r] => q = r
    BY <2>1
  <2>5. IsFiniteSet(others) /\ Cardinality(others) <= MaxSafe
    BY <1>2 DEF SafeRows, others
  <2>6. Cardinality(rows) <= Cardinality(others)
    BY <2>3, <2>4, <2>5, NoMoreThan
  <2>7. IsFiniteSet(rows)
    <3>1. f \in Injection(rows, others)
      BY <2>3, <2>4 DEF Injection, IsInjective
    <3>. QED  BY <2>5, <3>1, FS_Injection
  <2>8. Cardinality(rows) \in Nat /\ Cardinality(others) \in Nat /\ MaxSafe \in Nat
    BY <2>5, <2>7, FS_CardinalityType, HorizonsAssumption
  <2>9. Cardinality(rows) <= MaxSafe
    BY <2>5, <2>6, <2>8
  <2>. QED  BY <2>9 DEF rows
<1>. QED  BY <1>6, <1>7

\* Of every match that is saved, each run of labelled frames that a frame
\* without a label follows gives exactly one row for each smallest label in it,
\* a run that the match leaves open gives none, and at most MaxSafe rows are of
\* frames without a label (postgres/worker.go:85-172), whatever is picked.
THEOREM DatasetSampledOnce == Spec => []SampledOncePerWindow
BY SampleHolds, RowsOnce, PTL

=============================================================================
