---------------------------- MODULE TutorialProofs ----------------------------
(***************************************************************************)
(* The tutorial: for any lessons of the heroes (each at most once, in any  *)
(* order between the first two and the last) and any number of enemies, a  *)
(* player can do what his lesson asks for, and after a skip both heroes    *)
(* are free.  The two clients take the heroes through their lessons apart  *)
(* from each other, with names of enemies that need not agree; what keeps  *)
(* them together is that no client finishes a lesson of the other's hero   *)
(* before that one does.  The invariant says so of each hero h: t and s    *)
(* are the tutorial and the enemies on his own client, u and v those on    *)
(* the other, q the calls to his own client and p those to the other.      *)
(* GaugeInv adds that the Crusher comes to the cooperation with a full     *)
(* gauge, because no client but his own ends his last lesson.              *)
(***************************************************************************)
EXTENDS Tutorial, QueueProofs, FiniteSetTheorems

Steps == {"idle", "due", "on", "clear"}
Call == ({"end", "skip", "named", "dash", "barrier", "surge", "vital", "shield"} \X Hero) \cup ({"kill"} \X Nat)
Enemy == [name : Nat, zone : Hero]
Record == [begun : BOOLEAN, nowOn : BOOLEAN, spawned : Nat, lesson : [Hero -> Nat], step : [Hero -> Steps],
           left : [Hero -> Nat], dashed : SUBSET Hero, coop : SUBSET Hero, stage : Nat, shared : Steps,
           done : SUBSET {"surge", "shield", "vital"}, last : BOOLEAN]
HeroState == [can : SUBSET All, skills : SUBSET AllSkills, immortal : BOOLEAN,
              place : {"tutorial", "cooperation", "shelter"}, full : BOOLEAN]

TypeOK ==
    /\ tuto \in [Client -> Record]
    /\ enemies \in [Client -> SUBSET Enemy]
    /\ named \in [Client -> {"no", "alive", "dead"}]
    /\ hero \in [Hero -> HeroState]
    /\ chan \in [Client -> Seq(Call)]
    /\ skips \in Nat /\ early \in BOOLEAN

-----------------------------------------------------------------------------
\* One client: its tutorial t, its enemies s.
End(h) == Len(Solo[h])
At(t, h) == Solo[h][t.lesson[h]]
Zone(s, h) == {e \in s : e.zone = h}
Full(h, l) == IF l = "ultimate" THEN 1 + Spawns[h] ELSE 1

\* A lesson that is over when its enemies are.
Fight(h, l) == l # "dash" /\ <<h, l>> # <<"crusher", "first">>
Finished(t, s, h) ==
    \/ At(t, h) = "dash" /\ h \in t.dashed
    \/ Fight(h, At(t, h)) /\ t.left[h] = 0 /\ Zone(s, h) = {}

\* The enemies that the lesson still has: those that its beginning will bring, or those left.
Count(t, s, h) ==
    IF t.step[h] = "due" /\ Brings(h, At(t, h)) THEN Full(h, At(t, h)) ELSE t.left[h] + Cardinality(Zone(s, h))

Resting(t, h) ==
    \/ t.step[h] \in {"clear", "idle"}
    \/ t.step[h] = "due" /\ At(t, h) # "primary"
    \/ t.step[h] = "on" /\ ~Fight(h, At(t, h))

\* Where a client may be with the lessons of a hero.
Course(t, s, h) ==
    /\ t.lesson[h] \in 1 .. End(h)
    /\ ~t.begun => t.lesson[h] = 1 /\ t.step[h] = "idle"
    /\ t.begun /\ t.step[h] = "idle" => t.lesson[h] = End(h) /\ h \in t.coop
    /\ t.left[h] > 0 => t.lesson[h] = End(h) /\ t.step[h] = "on"
    /\ Resting(t, h) => Zone(s, h) = {}
    /\ t.step[h] = "due" => t.lesson[h] > 1

\* Its enemies have names of their own, all given out before.
Names(t, s) ==
    /\ IsFiniteSet(s)
    /\ \A e \in s : e.name <= t.spawned
    /\ \A e, f \in s : e.name = f.name => e = f

\* Where it may be with the cooperation.
Shared(t) ==
    /\ t.stage <= 5
    /\ t.stage > 0 => t.coop = Hero
    /\ t.stage = 0 => t.shared = "idle"
    /\ t.stage = 5 => ~t.nowOn
    /\ t.shared = "due" => t.stage \in 2 .. 4

\* The calls to client d: only a skip is sent behind another call.
Carries(q, kind) == \E i \in DOMAIN q : q[i][1] = kind
Ended(q, h) == \E i \in DOMAIN q : q[i] = <<"end", h>>
Calls(q, d) ==
    /\ \A i \in DOMAIN q : i > 1 => q[i][1] = "skip"
    /\ \A i \in DOMAIN q :
         /\ q[i][1] \in {"surge", "vital", "barrier"} => d = "esper"
         /\ q[i][1] = "shield" => d = "crusher"
         /\ q[i][1] = "dash" => q[i][2] # d
-----------------------------------------------------------------------------
\* Hero h on both clients.
Kills(p) == IF Carries(p, "kill") THEN 1 ELSE 0

Bounded(t, s, p, h) ==
    IF Fight(h, At(t, h)) THEN Count(t, s, h) + Kills(p) <= Full(h, At(t, h)) ELSE ~Carries(p, "kill")

\* The other client is at an earlier lesson, ...
Behind(t, u, h) == u.lesson[h] < t.lesson[h]
\* ... at the same one, without having finished it first, ...
Learned(t, s, h) ==
    /\ t.begun
    /\ \/ t.step[h] \in {"clear", "idle"}
       \/ Fight(h, At(t, h)) /\ Count(t, s, h) = 0
       \/ At(t, h) = "dash" /\ h \in t.dashed
Abreast(t, s, u, v, p, h) ==
    /\ u.lesson[h] = t.lesson[h]
    /\ u.step[h] = "clear" => Learned(t, s, h)
    /\ u.step[h] = "idle" /\ u.begun => t.step[h] \in {"clear", "idle"}
    /\ u.step[h] \in {"due", "on"} /\ Fight(h, At(t, h)) => Count(u, v, h) >= Count(t, s, h) + Kills(p)
\* ... or has begun the next one, while the timer of the own one still runs.
Ahead(t, u, v, p, h) ==
    /\ u.lesson[h] = t.lesson[h] + 1 /\ t.step[h] = "clear" /\ u.step[h] \in {"due", "on"}
    /\ ~Carries(p, "kill")
    /\ Fight(h, At(u, h)) => Count(u, v, h) >= Full(h, At(u, h))
Together(t, s, u, v, p, h) == t.nowOn => Behind(t, u, h) \/ Abreast(t, s, u, v, p, h) \/ Ahead(t, u, v, p, h)

\* What the other client hears of the hero has happened.
Heard(t, u, p, h) ==
    /\ h \in u.dashed \/ Carries(p, "dash") => h \in t.dashed
    /\ h = "crusher" /\ t.nowOn /\ Carries(p, "barrier") /\ At(u, h) = "first" => Behind(t, u, h)

\* Who has come to the cooperation is through with his lessons, and the other client will not finish
\* the last of them any more, unless its timer runs (the Crusher's it never finishes).
Late(u, v, h) == h = "esper" /\ u.lesson[h] = End(h) /\ u.step[h] = "on" /\ u.nowOn /\ Finished(u, v, h)
Through(t, u, v, q, p, h) ==
    t.nowOn /\ (h \in t.coop \/ Ended(q, h)) =>
        /\ t.lesson[h] = End(h) /\ t.step[h] \in {"clear", "idle"}
        /\ ~Late(u, v, h) /\ ~Carries(p, "kill")
        /\ Ended(q, h) => u.lesson[h] = End(h) /\ u.step[h] = "idle"

\* Nothing more comes of the lessons.
Still(t, s, u, v, p, h) ==
    /\ t.step[h] = "idle" /\ Zone(s, h) = {} /\ t.left[h] = 0 /\ (t.nowOn => t.begun)
    /\ ~Carries(p, "kill") /\ ~Late(u, v, h) /\ ~(u.lesson[h] = End(h) /\ u.step[h] = "clear")

\* What the cooperation has asked for with no timer of the hero's lessons running.
Mark(h) == IF h = "crusher" THEN "surge" ELSE "shield"
MarkStage(h) == IF h = "crusher" THEN 1 ELSE 3
Marked(t, h) == t.stage > MarkStage(h) \/ (t.stage = MarkStage(h) /\ t.shared = "clear") => Mark(h) \in t.done
Calm(t, s, u, v, q, p, h) ==
    /\ Marked(t, h)
    /\ t.nowOn /\ Mark(h) \in t.done => Still(t, s, u, v, p, h)
    /\ t.nowOn /\ t.stage = 4 => Still(t, s, u, v, p, h) /\ ~Ended(q, h)

\* What the hero can do.
CanDo(t, h) ==
    IF h = "crusher" /\ (t.lesson[h] = 1 \/ (t.lesson[h] = 2 /\ t.step[h] = "due")) THEN {"move", "turn"} ELSE All
Able(t, x, h) ==
    /\ t.nowOn /\ ~t.begun => x.skills = {}
    /\ h \in t.dashed => t.begun
    /\ t.nowOn /\ t.begun /\ h \notin t.coop =>
         /\ ~(t.lesson[h] = End(h) /\ t.step[h] = "clear") => x.can = CanDo(t, h)
         /\ t.step[h] = "on" => x.skills = Allowed(h, At(t, h)) \/ (h = "esper" /\ t.last)
    /\ t.nowOn /\ h \in t.coop =>
         /\ x.can = All
         /\ t.stage \in {1, 2} => x.skills = AllSkills
         /\ h = "esper" /\ t.stage = 3 /\ t.shared # "due" => x.skills = {"third"}
         /\ h = "crusher" /\ t.stage = 4 /\ t.shared # "due" => x.skills = {"third"}

\* After a skip.
Freed(t, s, u, v, q, p, x, h) ==
    /\ Still(t, s, u, v, p, h) /\ ~Ended(q, h)
    /\ x.can = All /\ x.skills = AllSkills /\ ~x.immortal /\ x.place = "shelter"
    /\ h \notin t.coop \/ (t.stage = 4 /\ t.shared = "clear") \/ t.stage = 5

ClientInv(d) ==
    /\ Names(tuto[d], enemies[d]) /\ Shared(tuto[d]) /\ Calls(chan[d], d)
    /\ \A h \in Hero : Course(tuto[d], enemies[d], h)

Paired(t, s, u, v, q, p, h) ==
    /\ Bounded(t, s, p, h) /\ Together(t, s, u, v, p, h) /\ Heard(t, u, p, h) /\ Through(t, u, v, q, p, h)

HeroInv(t, s, u, v, q, p, x, skipped, h) ==
    /\ Paired(t, s, u, v, q, p, h)
    /\ Calm(t, s, u, v, q, p, h)
    /\ Able(t, x, h)
    /\ ~t.nowOn /\ ~skipped => Freed(t, s, u, v, q, p, x, h)

HeroesInv ==
    \A h \in Hero :
        HeroInv(tuto[h], enemies[h], tuto[Other(h)], enemies[Other(h)], chan[h], chan[Other(h)], hero[h], early, h)

LessonsInv == TypeOK /\ (\A d \in Client : ClientInv(d)) /\ HeroesInv

\* The last lesson of the Crusher has been learnt.
LastClear(t) == t.step["crusher"] = "clear" /\ At(t, "crusher") = "ultimate"
\* He comes to the cooperation with a full gauge, as only his own client ends that lesson.
Gauged(t, x) == t.nowOn /\ ("crusher" \in t.coop \/ LastClear(t)) => x.full \/ "surge" \in t.done
GaugeInv ==
    /\ Gauged(tuto["crusher"], hero["crusher"])
    /\ ~LastClear(tuto["esper"]) /\ ~Ended(chan["crusher"], "crusher")

TutorialInv == LessonsInv /\ GaugeInv
-----------------------------------------------------------------------------
LEMMA TwoHeroes ==
    /\ Hero = {"esper", "crusher"} /\ Client = Hero
    /\ Other("esper") = "crusher" /\ Other("crusher") = "esper"
    /\ \A h \in Hero : Other(h) \in Hero /\ Other(h) # h /\ Other(Other(h)) = h
    /\ \A h, g \in Hero : g # h => g = Other(h)
  BY DEF Hero, Client, Other

\* What is assumed of the lessons.
LEMMA LessonsAre ==
    ASSUME TutorialAssumption, NEW h \in Hero
    PROVE  /\ End(h) \in Nat /\ End(h) > 2 /\ Spawns[h] \in Nat
           /\ Solo[h][1] = "dash" /\ Solo[h][2] = "primary" /\ Solo[h][End(h)] = "ultimate"
           /\ \A i \in 1 .. End(h) :
                /\ Solo[h][i] = "dash" => i = 1
                /\ Solo[h][i] = "primary" => i = 2
                /\ Solo[h][i] = "ultimate" => i = End(h)
                /\ Solo[h][i] \in {"dash", "primary", "m2", "first", "second", "ultimate"}
<1>1. /\ Solo[h] \in Seq({Lessons[i] : i \in 1 .. 6}) /\ Len(Solo[h]) > 2 /\ Spawns[h] \in Nat
      /\ Solo[h][1] = "dash" /\ Solo[h][2] = "primary" /\ Solo[h][Len(Solo[h])] = "ultimate"
      /\ \A i, j \in 1 .. Len(Solo[h]) : Solo[h][i] = Solo[h][j] => i = j
  BY Zenon DEF TutorialAssumption
<1>2. {Lessons[i] : i \in 1 .. 6} = {"dash", "primary", "m2", "first", "second", "ultimate"}
  <2>1. \A i \in 1 .. 6 : i = 1 \/ i = 2 \/ i = 3 \/ i = 4 \/ i = 5 \/ i = 6
    OBVIOUS
  <2>2. /\ Lessons[1] = "dash" /\ Lessons[2] = "primary" /\ Lessons[3] = "m2" /\ Lessons[4] = "first"
        /\ Lessons[5] = "second" /\ Lessons[6] = "ultimate"
    BY DEF Lessons
  <2>3. 1 \in 1 .. 6 /\ 2 \in 1 .. 6 /\ 3 \in 1 .. 6 /\ 4 \in 1 .. 6 /\ 5 \in 1 .. 6 /\ 6 \in 1 .. 6
    OBVIOUS
  <2> DEFINE six == {"dash", "primary", "m2", "first", "second", "ultimate"}
  <2>4. \A i \in 1 .. 6 : Lessons[i] \in six
    BY <2>1, <2>2
  <2>5. six \subseteq {Lessons[i] : i \in 1 .. 6}
    BY <2>2, <2>3
  <2>6. {Lessons[i] : i \in 1 .. 6} \subseteq six
    BY <2>4
  <2> QED BY <2>5, <2>6
<1>3. Len(Solo[h]) \in Nat /\ 1 \in 1 .. Len(Solo[h]) /\ 2 \in 1 .. Len(Solo[h]) /\ Len(Solo[h]) \in 1 .. Len(Solo[h])
  BY <1>1
<1>4. \A i \in 1 .. Len(Solo[h]) : Solo[h][i] \in {"dash", "primary", "m2", "first", "second", "ultimate"}
  <2> DEFINE S == {Lessons[i] : i \in 1 .. 6}
  <2> HIDE DEF S
  <2>1. Solo[h] \in Seq(S)
    BY <1>1 DEF S
  <2>2. \A i \in 1 .. Len(Solo[h]) : Solo[h][i] \in S
    BY <2>1
  <2> QED BY <1>2, <2>2, Zenon DEF S
<1> QED BY <1>1, <1>3, <1>4, Zenon DEF End

\* The last lesson is a fight, and what comes when.
LEMMA Fights ==
    ASSUME TutorialAssumption, NEW h \in Hero
    PROVE  /\ Fight(h, "primary") /\ Fight(h, "ultimate") /\ ~Fight(h, "dash")
           /\ ~Brings(h, "primary") /\ Brings(h, "ultimate")
           /\ Brings(h, "first") <=> Fight(h, "first")
           /\ Fight(h, "m2") /\ Brings(h, "m2") /\ Fight(h, "second") /\ Brings(h, "second")
           /\ \A l : Full(h, l) = IF l = "ultimate" THEN 1 + Spawns[h] ELSE 1
           /\ \A l : Full(h, l) \in Nat /\ Full(h, l) > 0
  BY LessonsAre DEF Full, Fight, Brings

\* The enemies of one hero's zone.
LEMMA Zones ==
    ASSUME NEW s, IsFiniteSet(s), NEW h
    PROVE  /\ Zone(s, h) \subseteq s /\ IsFiniteSet(Zone(s, h)) /\ Cardinality(Zone(s, h)) \in Nat
           /\ Cardinality(Zone(s, h)) = 0 <=> Zone(s, h) = {}
  BY FS_Subset, FS_CardinalityType, FS_EmptySet DEF Zone

\* A new one comes to its zone.
With(s, e) == s \cup {e}
LEMMA ZoneGrows ==
    ASSUME NEW s, IsFiniteSet(s), NEW e, e \notin s
    PROVE  /\ IsFiniteSet(With(s, e))
           /\ \A h : e.zone # h => Zone(With(s, e), h) = Zone(s, h)
           /\ Cardinality(Zone(With(s, e), e.zone)) = Cardinality(Zone(s, e.zone)) + 1
           /\ Zone(With(s, e), e.zone) # {}
<1> DEFINE v == s \cup {e}
           h == e.zone
<1>1. IsFiniteSet(v)
  BY FS_AddElement
<1>2. \A k : e.zone # k => Zone(v, k) = Zone(s, k)
  BY DEF Zone
<1>3. Zone(v, h) = Zone(s, h) \cup {e} /\ e \notin Zone(s, h)
  BY DEF Zone
<1>4. IsFiniteSet(Zone(s, h))
  BY Zones
<1> HIDE DEF v, h
<1>5. Cardinality(Zone(v, h)) = Cardinality(Zone(s, h)) + 1
  BY <1>3, <1>4, FS_AddElement
<1>6. Zone(v, h) # {}
  BY <1>3
<1> QED BY <1>1, <1>2, <1>5, <1>6 DEF v, h, With

\* One of them falls.
LEMMA ZoneShrinks ==
    ASSUME NEW s, IsFiniteSet(s), NEW e \in s, NEW h
    PROVE  /\ IsFiniteSet(s \ {e})
           /\ e.zone # h => Zone(s \ {e}, h) = Zone(s, h)
           /\ e.zone = h => /\ Cardinality(Zone(s \ {e}, h)) = Cardinality(Zone(s, h)) - 1
                            /\ Zone(s, h) # {}
<1>1. IsFiniteSet(s \ {e})
  BY FS_RemoveElement
<1>2. e.zone # h => Zone(s \ {e}, h) = Zone(s, h)
  BY DEF Zone
<1>3. ASSUME e.zone = h
      PROVE  Zone(s \ {e}, h) = Zone(s, h) \ {e} /\ e \in Zone(s, h)
  BY <1>3 DEF Zone
<1>4. IsFiniteSet(Zone(s, h))
  BY Zones
<1>5. ASSUME e.zone = h
      PROVE  Cardinality(Zone(s \ {e}, h)) = Cardinality(Zone(s, h)) - 1
  BY <1>3, <1>4, <1>5, FS_RemoveElement
<1> QED BY <1>1, <1>2, <1>3, <1>5

\* The one with a given name falls, if there is one.
Without(s, n) == {e \in s : e.name # n}
LEMMA ZoneNamed ==
    ASSUME NEW s, NEW n, IsFiniteSet(s), \A e, f \in s : e.name = f.name => e = f, NEW h
    PROVE  LET v == Without(s, n)
           IN  /\ v \subseteq s /\ IsFiniteSet(v)
               /\ Cardinality(Zone(v, h)) \in Nat
               /\ Cardinality(Zone(v, h)) <= Cardinality(Zone(s, h))
               /\ Cardinality(Zone(s, h)) - 1 <= Cardinality(Zone(v, h))
               /\ Zone(s, h) = {} => Zone(v, h) = {}
<1> DEFINE v == Without(s, n)
           Good == /\ v \subseteq s /\ IsFiniteSet(v)
                   /\ Cardinality(Zone(v, h)) \in Nat
                   /\ Cardinality(Zone(v, h)) <= Cardinality(Zone(s, h))
                   /\ Cardinality(Zone(s, h)) - 1 <= Cardinality(Zone(v, h))
                   /\ Zone(s, h) = {} => Zone(v, h) = {}
<1> SUFFICES Good
  OBVIOUS
<1>1. v \subseteq s
  BY DEF Without
<1>2. IsFiniteSet(v)
  BY <1>1, FS_Subset
<1>3. Cardinality(Zone(s, h)) \in Nat
  BY Zones
<1>4. CASE \E e \in s : e.name = n
  <2>1. PICK e \in s : e.name = n
    BY <1>4
  <2>2. v = s \ {e}
    BY <2>1 DEF Without
  <2>3. /\ e.zone # h => Zone(s \ {e}, h) = Zone(s, h)
        /\ e.zone = h => Cardinality(Zone(s \ {e}, h)) = Cardinality(Zone(s, h)) - 1 /\ Zone(s, h) # {}
    BY ZoneShrinks
  <2> HIDE DEF v
  <2>4. Cardinality(Zone(v, h)) \in Nat
    BY <1>2, Zones
  <2>5. \/ Zone(v, h) = Zone(s, h)
        \/ Cardinality(Zone(v, h)) = Cardinality(Zone(s, h)) - 1 /\ Zone(s, h) # {}
    BY <2>2, <2>3
  <2>6. Zone(s, h) = {} => Zone(v, h) = {}
    BY <2>5
  <2>7. Cardinality(Zone(v, h)) <= Cardinality(Zone(s, h)) /\ Cardinality(Zone(s, h)) - 1 <= Cardinality(Zone(v, h))
    BY <1>3, <2>4, <2>5
  <2> QED BY <1>1, <1>2, <2>4, <2>6, <2>7
<1>5. CASE \A e \in s : e.name # n
  <2>1. v = s
    BY <1>5 DEF Without
  <2> HIDE DEF v
  <2>2. Cardinality(Zone(v, h)) = Cardinality(Zone(s, h))
    BY <2>1
  <2>3. Zone(s, h) = {} => Zone(v, h) = {}
    BY <2>1
  <2> QED BY <1>1, <1>2, <1>3, <2>2, <2>3
<1> QED BY <1>4, <1>5, Zenon
-----------------------------------------------------------------------------
(* What the steps of a client do to its tutorial t and its enemies s.       *)

LEMMA RecordHas ==
    ASSUME NEW t \in Record
    PROVE  /\ t.begun \in BOOLEAN /\ t.nowOn \in BOOLEAN /\ t.spawned \in Nat /\ t.lesson \in [Hero -> Nat]
           /\ t.step \in [Hero -> Steps] /\ t.left \in [Hero -> Nat] /\ t.dashed \in SUBSET Hero
           /\ t.coop \in SUBSET Hero /\ t.stage \in Nat /\ t.shared \in Steps
           /\ t.done \in SUBSET {"surge", "shield", "vital"} /\ t.last \in BOOLEAN
           /\ \A h \in Hero : t.lesson[h] \in Nat /\ t.step[h] \in Steps /\ t.left[h] \in Nat
BY DEF Record

\* Nothing but the lessons changes.
FlagsKept(t, t1) ==
    /\ t1.nowOn = t.nowOn /\ t1.dashed = t.dashed /\ t1.coop = t.coop /\ t1.stage = t.stage
    /\ t1.shared = t.shared /\ t1.done = t.done /\ t1.last = t.last

\* Hero h is where he was with his lessons.
Same(t, s, t1, s1, h) ==
    /\ t1.begun = t.begun /\ t1.lesson[h] = t.lesson[h] /\ t1.step[h] = t.step[h] /\ t1.left[h] = t.left[h]
    /\ Zone(s1, h) = Zone(s, h)

\* One client makes a step.
Alone(d) == \A e \in Client : e # d => tuto'[e] = tuto[e] /\ enemies'[e] = enemies[e]

LEMMA AloneDoes ==
    ASSUME TypeOK, NEW d \in Client, NEW t1, NEW s1,
           tuto' = [tuto EXCEPT ![d] = t1], enemies' = [enemies EXCEPT ![d] = s1]
    PROVE  /\ tuto'[d] = t1 /\ enemies'[d] = s1 /\ Alone(d)
           /\ t1 \in Record => tuto' \in [Client -> Record]
           /\ s1 \in SUBSET Enemy => enemies' \in [Client -> SUBSET Enemy]
BY DEF TypeOK, Alone

\* An enemy comes to the zone of hero g.
Came(s, n, g) == s \cup {[name |-> n + 1, zone |-> g]}
LEMMA SpawnDoes ==
    ASSUME NEW t \in Record, NEW s \in SUBSET Enemy, Names(t, s), NEW g \in Hero, NEW t1, t1.spawned = t.spawned + 1
    PROVE  LET s1 == Came(s, t.spawned, g)
           IN  /\ s1 \in SUBSET Enemy /\ Names(t1, s1)
               /\ Zone(s1, g) # {} /\ Cardinality(Zone(s1, g)) = Cardinality(Zone(s, g)) + 1
               /\ \A k \in Hero : k # g => Zone(s1, k) = Zone(s, k)
<1> DEFINE e == [name |-> t.spawned + 1, zone |-> g]
           s1 == s \cup {e}
           n == t.spawned
<1>1. n \in Nat /\ e.name = n + 1 /\ e.zone = g /\ e \in Enemy
  BY RecordHas DEF Enemy
<1>2. IsFiniteSet(s) /\ (\A f \in s : f.name <= n) /\ (\A f, i \in s : f.name = i.name => f = i)
  BY DEF Names
<1>3. \A f \in s : f.name \in Nat
  BY DEF Enemy
<1> HIDE DEF e, n
<1>4. e \notin s
  BY <1>1, <1>2, <1>3
<1>5. /\ IsFiniteSet(s1) /\ Zone(s1, g) # {} /\ Cardinality(Zone(s1, g)) = Cardinality(Zone(s, g)) + 1
      /\ \A k \in Hero : k # g => Zone(s1, k) = Zone(s, k)
  <2> DEFINE w == With(s, e)
  <2> HIDE DEF w
  <2>1. /\ IsFiniteSet(w) /\ Zone(w, e.zone) # {} /\ Cardinality(Zone(w, e.zone)) = Cardinality(Zone(s, e.zone)) + 1
        /\ \A k : e.zone # k => Zone(w, k) = Zone(s, k)
    BY <1>2, <1>4, ZoneGrows, Zenon DEF w
  <2>2. /\ IsFiniteSet(w) /\ Zone(w, g) # {} /\ Cardinality(Zone(w, g)) = Cardinality(Zone(s, g)) + 1
        /\ \A k \in Hero : k # g => Zone(w, k) = Zone(s, k)
    BY <1>1, <2>1
  <2> QED BY <2>2 DEF w, With
<1>6. \A f \in s1 : f.name <= n + 1
  BY <1>1, <1>2, <1>3
<1>7. \A f \in s : f.name # e.name
  BY <1>1, <1>2, <1>3
<1>8. \A f, i \in s1 : f.name = i.name => f = i
  BY <1>2, <1>7
<1>9. Names(t1, s1)
  BY <1>5, <1>6, <1>8 DEF Names, n
<1> HIDE DEF s1
<1>10. s1 \in SUBSET Enemy
  BY <1>1 DEF s1
<1> QED BY <1>5, <1>9, <1>10 DEF s1, e, n, Came

\* A lesson begins.
LEMMA QuestDoes ==
    ASSUME TutorialAssumption, TypeOK, NEW d \in Client, ClientInv(d), NEW g \in Hero, Quest(d, g)
    PROVE  LET t == tuto[d]  t1 == tuto'[d]  s == enemies[d]  s1 == enemies'[d]
           IN  /\ tuto' \in [Client -> Record] /\ enemies' \in [Client -> SUBSET Enemy]
               /\ Alone(d) /\ FlagsKept(t, t1) /\ Names(t1, s1)
               /\ \A k \in Hero : k # g => Same(t, s, t1, s1, k)
               /\ t.nowOn /\ t.step[g] = "due" /\ t1.step[g] = "on" /\ t1.begun = t.begun
               /\ t1.lesson[g] = t.lesson[g]
               /\ t1.left[g] = IF At(t, g) = "ultimate" THEN Spawns[g] ELSE t.left[g]
               /\ IF Brings(g, At(t, g))
                  THEN Zone(s1, g) # {} /\ Cardinality(Zone(s1, g)) = Cardinality(Zone(s, g)) + 1
                  ELSE Zone(s1, g) = Zone(s, g)
<1> DEFINE t == tuto[d]
           s == enemies[d]
           l == At(t, g)
           x == IF Brings(g, l) THEN t.spawned + 1 ELSE t.spawned
           t1 == [t EXCEPT !.step[g] = "on", !.left[g] = IF l = "ultimate" THEN Spawns[g] ELSE @, !.spawned = x]
           s1 == IF Brings(g, l) THEN Came(s, t.spawned, g) ELSE s
<1>1. t \in Record /\ s \in SUBSET Enemy /\ Names(t, s) /\ Spawns[g] \in Nat
  BY LessonsAre DEF TypeOK, ClientInv
<1>2. Lesson(d, g) = l /\ t.nowOn /\ t.step[g] = "due"
  BY DEF Quest, Lesson, At
<1>3. tuto' = [tuto EXCEPT ![d] = t1]
  <2>1. tuto' = [tuto EXCEPT ![d].step[g] = "on",
                             ![d].left[g] = IF l = "ultimate" THEN Spawns[g] ELSE @,
                             ![d].spawned = IF Brings(g, l) THEN @ + 1 ELSE @]
    BY <1>2 DEF Quest
  <2> HIDE DEF l
  <2> QED BY <2>1, <1>1 DEF TypeOK, Record
<1>4. enemies' = [enemies EXCEPT ![d] = s1]
  BY <1>2 DEF Quest, TutorialSpawner, TypeOK, Came
<1> HIDE DEF l
<1>5. x \in Nat /\ (IF l = "ultimate" THEN Spawns[g] ELSE t.left[g]) \in Nat
  BY <1>1, RecordHas
<1>6. t1 \in Record
  <2> DEFINE m == IF l = "ultimate" THEN Spawns[g] ELSE t.left[g]
  <2>1. t1 = [t EXCEPT !.step[g] = "on", !.left[g] = m, !.spawned = x]
    BY <1>1 DEF Record
  <2>2. m \in Nat
    BY <1>5
  <2> HIDE DEF x, m, t1
  <2> QED BY <1>1, <1>5, <2>1, <2>2, Zenon DEF Record, Steps
<1>7. /\ FlagsKept(t, t1) /\ t1.step[g] = "on" /\ t1.begun = t.begun /\ t1.lesson = t.lesson /\ t1.spawned = x
      /\ t1.left[g] = IF l = "ultimate" THEN Spawns[g] ELSE t.left[g]
      /\ \A k \in Hero : k # g => t1.step[k] = t.step[k] /\ t1.left[k] = t.left[k]
  BY <1>1 DEF FlagsKept, Record
<1> HIDE DEF t1
<1>8. /\ s1 \in SUBSET Enemy /\ Names(t1, s1) /\ \A k \in Hero : k # g => Zone(s1, k) = Zone(s, k)
      /\ IF Brings(g, l)
         THEN Zone(s1, g) # {} /\ Cardinality(Zone(s1, g)) = Cardinality(Zone(s, g)) + 1
         ELSE Zone(s1, g) = Zone(s, g)
  BY <1>1, <1>7, SpawnDoes DEF Names
<1> HIDE DEF s1
<1>9. tuto'[d] = t1 /\ enemies'[d] = s1 /\ Alone(d) /\ tuto' \in [Client -> Record] /\ enemies' \in [Client -> SUBSET Enemy]
  BY <1>3, <1>4, <1>6, <1>8, AloneDoes
<1>10. \A k \in Hero : k # g => Same(t, s, t1, s1, k)
  BY <1>7, <1>8 DEF Same
<1> QED BY <1>2, <1>7, <1>8, <1>9, <1>10 DEF l

LEMMA DoneIs ==
    ASSUME NEW d, NEW h
    PROVE  /\ Done(d, h) => Finished(tuto[d], enemies[d], h)
           /\ Finished(tuto[d], enemies[d], h) => Done(d, h) \/ (h = "crusher" /\ At(tuto[d], h) = "ultimate")
           /\ Done(d, h) /\ h = "crusher" /\ At(tuto[d], h) = "ultimate" => d = h /\ hero[h].full
           /\ Lesson(d, h) = At(tuto[d], h)
           /\ ZoneEmpty(d, h) <=> Zone(enemies[d], h) = {}
<1>1. ZoneEmpty(d, h) <=> Zone(enemies[d], h) = {}
  BY DEF ZoneEmpty, Zone
<1>2. Lesson(d, h) = At(tuto[d], h)
  BY DEF Lesson, At
<1> DEFINE l == At(tuto[d], h)
<1>3. CASE l = "dash"
  BY <1>1, <1>2, <1>3 DEF Done, Finished, Fight
<1>4. CASE <<h, l>> = <<"crusher", "first">>
  BY <1>1, <1>2, <1>4 DEF Done, Finished, Fight
<1>5. CASE <<h, l>> = <<"crusher", "ultimate">>
  BY <1>1, <1>2, <1>5 DEF Done, Finished, Fight
<1>6. CASE l # "dash" /\ <<h, l>> # <<"crusher", "first">> /\ <<h, l>> # <<"crusher", "ultimate">>
  BY <1>1, <1>2, <1>6 DEF Done, Finished, Fight
<1> QED BY <1>1, <1>2, <1>3, <1>4, <1>5, <1>6

\* A lesson is over.
LEMMA LearntDoes ==
    ASSUME TypeOK, NEW d \in Client, ClientInv(d), NEW g \in Hero, Learnt(d, g)
    PROVE  LET t == tuto[d]  t1 == tuto'[d]  s == enemies[d]  s1 == enemies'[d]
           IN  /\ tuto' \in [Client -> Record] /\ enemies' \in [Client -> SUBSET Enemy]
               /\ Alone(d) /\ FlagsKept(t, t1) /\ Names(t1, s1) /\ s1 = s
               /\ \A k \in Hero : k # g => Same(t, s, t1, s1, k)
               /\ t.nowOn /\ t.step[g] = "on" /\ t1.step[g] = "clear" /\ t1.begun = t.begun
               /\ t1.lesson[g] = t.lesson[g] /\ t1.left[g] = t.left[g]
               /\ Finished(t, s, g)
               /\ g = "crusher" /\ At(t, g) = "ultimate" => d = g /\ hero[g].full
<1> DEFINE t == tuto[d]
           s == enemies[d]
           t1 == [t EXCEPT !.step[g] = "clear"]
<1>1. t \in Record /\ s \in SUBSET Enemy /\ Names(t, s)
  BY DEF TypeOK, ClientInv
<1>2. /\ t.nowOn /\ t.step[g] = "on" /\ Finished(t, s, g)
      /\ g = "crusher" /\ At(t, g) = "ultimate" => d = g /\ hero[g].full
  BY DoneIs DEF Learnt
<1>3. tuto' = [tuto EXCEPT ![d] = t1]
  BY <1>1 DEF Learnt, TypeOK, Record
<1>4. enemies' = [enemies EXCEPT ![d] = s]
  BY DEF Learnt, TypeOK
<1>5. t1 \in Record
  BY <1>1, Zenon DEF Record, Steps
<1>6. /\ FlagsKept(t, t1) /\ t1.step[g] = "clear" /\ t1.begun = t.begun /\ t1.lesson = t.lesson /\ t1.left = t.left
      /\ t1.spawned = t.spawned
      /\ \A k \in Hero : k # g => t1.step[k] = t.step[k]
  BY <1>1 DEF FlagsKept, Record
<1> HIDE DEF t1
<1>7. tuto'[d] = t1 /\ enemies'[d] = s /\ Alone(d) /\ tuto' \in [Client -> Record] /\ enemies' \in [Client -> SUBSET Enemy]
  BY <1>1, <1>3, <1>4, <1>5 DEF Alone, TypeOK
<1>8. (\A k \in Hero : k # g => Same(t, s, t1, s, k)) /\ Names(t1, s)
  BY <1>1, <1>6 DEF Same, Names
<1> QED BY <1>2, <1>6, <1>7, <1>8

\* One more enemy of the last lesson.
LEMMA SpawnTimerDoes ==
    ASSUME TypeOK, NEW d \in Client, ClientInv(d), NEW g \in Hero, SpawnTimer(d, g)
    PROVE  LET t == tuto[d]  t1 == tuto'[d]  s == enemies[d]  s1 == enemies'[d]
           IN  /\ tuto' \in [Client -> Record] /\ enemies' \in [Client -> SUBSET Enemy]
               /\ Alone(d) /\ FlagsKept(t, t1) /\ Names(t1, s1)
               /\ \A k \in Hero : k # g => Same(t, s, t1, s1, k)
               /\ t.left[g] > 0 /\ t1.left[g] = t.left[g] - 1
               /\ t1.begun = t.begun /\ t1.lesson[g] = t.lesson[g] /\ t1.step[g] = t.step[g]
               /\ Zone(s1, g) # {} /\ Cardinality(Zone(s1, g)) = Cardinality(Zone(s, g)) + 1
<1> DEFINE t == tuto[d]
           s == enemies[d]
           n == t.left[g] - 1
           x == t.spawned + 1
           t1 == [t EXCEPT !.left[g] = n, !.spawned = x]
           s1 == Came(s, t.spawned, g)
<1>1. t \in Record /\ s \in SUBSET Enemy /\ Names(t, s)
  BY DEF TypeOK, ClientInv
<1>2. t.left[g] > 0 /\ n \in Nat /\ x \in Nat
  BY <1>1, RecordHas DEF SpawnTimer
<1>3. tuto' = [tuto EXCEPT ![d] = t1]
  BY <1>1 DEF SpawnTimer, TypeOK, Record
<1>4. enemies' = [enemies EXCEPT ![d] = s1]
  BY DEF SpawnTimer, TutorialSpawner, Came, TypeOK
<1>5. t1 \in Record
  <2> HIDE DEF n, x
  <2> QED BY <1>1, <1>2, Zenon DEF Record
<1>6. /\ FlagsKept(t, t1) /\ t1.left[g] = n /\ t1.begun = t.begun /\ t1.lesson = t.lesson /\ t1.step = t.step
      /\ t1.spawned = x
      /\ \A k \in Hero : k # g => t1.left[k] = t.left[k]
  BY <1>1 DEF FlagsKept, Record
<1> HIDE DEF t1
<1>7. /\ s1 \in SUBSET Enemy /\ Names(t1, s1)
      /\ Zone(s1, g) # {} /\ Cardinality(Zone(s1, g)) = Cardinality(Zone(s, g)) + 1
      /\ \A k \in Hero : k # g => Zone(s1, k) = Zone(s, k)
  BY <1>1, <1>6, SpawnDoes
<1> HIDE DEF s1
<1>8. tuto'[d] = t1 /\ enemies'[d] = s1 /\ Alone(d) /\ tuto' \in [Client -> Record] /\ enemies' \in [Client -> SUBSET Enemy]
  BY <1>3, <1>4, <1>5, <1>7, AloneDoes
<1>9. \A k \in Hero : k # g => Same(t, s, t1, s1, k)
  BY <1>6, <1>7 DEF Same
<1> QED BY <1>2, <1>6, <1>7, <1>8, <1>9

\* The timer of a lesson runs out, and the next one is due.
LEMMA ClearDoes ==
    ASSUME TypeOK, NEW d \in Client, ClientInv(d), NEW g \in Hero, ClearTimer(d, g), At(tuto[d], g) # "ultimate"
    PROVE  LET t == tuto[d]  t1 == tuto'[d]  s == enemies[d]  s1 == enemies'[d]
           IN  /\ tuto' \in [Client -> Record] /\ enemies' \in [Client -> SUBSET Enemy]
               /\ Alone(d) /\ FlagsKept(t, t1) /\ Names(t1, s1) /\ UNCHANGED <<hero, chan>>
               /\ \A k \in Hero : k # g => Same(t, s, t1, s1, k)
               /\ t.step[g] = "clear" /\ t1.step[g] = "due"
               /\ t1.lesson[g] = t.lesson[g] + 1 /\ t1.left[g] = t.left[g] /\ t1.begun = t.begun
               /\ IF At(t, g) = "dash"
                  THEN Zone(s1, g) # {} /\ Cardinality(Zone(s1, g)) = Cardinality(Zone(s, g)) + 1
                  ELSE Zone(s1, g) = Zone(s, g)
<1> DEFINE t == tuto[d]
           s == enemies[d]
           l == At(t, g)
           x == IF l = "dash" THEN t.spawned + 1 ELSE t.spawned
           n == t.lesson[g] + 1
           t1 == [t EXCEPT !.spawned = x, !.lesson[g] = n, !.step[g] = "due"]
           s1 == IF l = "dash" THEN Came(s, t.spawned, g) ELSE s
<1>1. t \in Record /\ s \in SUBSET Enemy /\ Names(t, s)
  BY DEF TypeOK, ClientInv
<1>2. t.step[g] = "clear" /\ Lesson(d, g) = l /\ l # "ultimate"
  BY DoneIs DEF ClearTimer
<1> HIDE DEF l
<1>3. x \in Nat /\ n \in Nat
  BY <1>1, RecordHas
<1>4. tuto' = [tuto EXCEPT ![d] = t1]
  BY <1>2, <1>1 DEF ClearTimer, QuestClear, Record
<1>5. enemies' = [enemies EXCEPT ![d] = s1] /\ UNCHANGED <<hero, chan>>
  BY <1>2 DEF ClearTimer, TutorialSpawner, Came, TypeOK
<1>6. t1 \in Record
  <2> HIDE DEF n, x
  <2> QED BY <1>1, <1>3, Zenon DEF Record, Steps
<1>7. /\ FlagsKept(t, t1) /\ t1.step[g] = "due" /\ t1.begun = t.begun /\ t1.lesson[g] = n /\ t1.left = t.left
      /\ t1.spawned = x
      /\ \A k \in Hero : k # g => t1.step[k] = t.step[k] /\ t1.lesson[k] = t.lesson[k]
  BY <1>1 DEF FlagsKept, Record
<1> HIDE DEF t1
<1>8. /\ s1 \in SUBSET Enemy /\ Names(t1, s1) /\ \A k \in Hero : k # g => Zone(s1, k) = Zone(s, k)
      /\ IF l = "dash"
         THEN Zone(s1, g) # {} /\ Cardinality(Zone(s1, g)) = Cardinality(Zone(s, g)) + 1
         ELSE Zone(s1, g) = Zone(s, g)
  BY <1>1, <1>7, SpawnDoes DEF Names
<1> HIDE DEF s1
<1>9. tuto'[d] = t1 /\ enemies'[d] = s1 /\ Alone(d) /\ tuto' \in [Client -> Record] /\ enemies' \in [Client -> SUBSET Enemy]
  BY <1>4, <1>5, <1>6, <1>8, AloneDoes
<1>10. \A k \in Hero : k # g => Same(t, s, t1, s1, k)
  BY <1>7, <1>8 DEF Same
<1> QED BY <1>2, <1>5, <1>7, <1>8, <1>9, <1>10 DEF l

\* The timer of the last lesson runs out: the hero has come to the cooperation.
LEMMA EndDoes ==
    ASSUME TypeOK, NEW d \in Client, ClientInv(d), NEW g \in Hero, ClearTimer(d, g), At(tuto[d], g) = "ultimate"
    PROVE  LET t == tuto[d]  t1 == tuto'[d]  s == enemies[d]
           IN  /\ tuto' \in [Client -> Record] /\ enemies' \in [Client -> SUBSET Enemy]
               /\ Alone(d) /\ enemies'[d] = s /\ Names(t1, s)
               /\ \A k \in Hero : k # g => Same(t, s, t1, s, k)
               /\ t.step[g] = "clear" /\ t1.step[g] = "idle"
               /\ t1.lesson[g] = t.lesson[g] /\ t1.left[g] = t.left[g] /\ t1.begun = t.begun
               /\ t1.coop = t.coop \cup {g} /\ t1.nowOn = t.nowOn /\ t1.dashed = t.dashed
               /\ t1.stage = t.stage /\ t1.shared = t.shared /\ t1.done = t.done /\ t1.last = t.last
<1> DEFINE t == tuto[d]
           s == enemies[d]
           b == t.coop \cup {g}
           t0 == [t EXCEPT !.step[g] = "idle"]
           t1 == [t0 EXCEPT !.coop = b]
<1>1. t \in Record /\ s \in SUBSET Enemy /\ Names(t, s)
  BY DEF TypeOK, ClientInv
<1>2. t.step[g] = "clear" /\ Lesson(d, g) = "ultimate"
  BY DoneIs DEF ClearTimer
<1>3. /\ tuto' = [tuto EXCEPT ![d] = t1] /\ enemies' = enemies
      /\ Own(d, g, [hero[g] EXCEPT !.place = "cooperation", !.can = All]) /\ Send(d, <<"end", g>>)
  <2>1. EndSolo(d, g, t0) /\ Send(d, <<"end", g>>) /\ enemies' = enemies
    BY <1>2 DEF ClearTimer
  <2>2. t0.coop = t.coop
    BY <1>1 DEF Record
  <2> HIDE DEF t0
  <2>3. tuto' = [tuto EXCEPT ![d] = [t0 EXCEPT !.coop = t0.coop \cup {g}]]
    BY <2>1 DEF EndSolo
  <2> QED BY <2>1, <2>2, <2>3 DEF EndSolo
<1>4. t1 \in Record
  <2>1. b \in SUBSET Hero
    BY <1>1, RecordHas
  <2> HIDE DEF b
  <2>2. t0 \in Record
    BY <1>1, Zenon DEF Record, Steps
  <2> HIDE DEF t0
  <2> QED BY <2>1, <2>2, Zenon DEF Record
<1>5. /\ t1.step[g] = "idle" /\ t1.begun = t.begun /\ t1.lesson = t.lesson /\ t1.left = t.left /\ t1.spawned = t.spawned
      /\ t1.coop = b /\ t1.nowOn = t.nowOn /\ t1.dashed = t.dashed
      /\ t1.stage = t.stage /\ t1.shared = t.shared /\ t1.done = t.done /\ t1.last = t.last
      /\ \A k \in Hero : k # g => t1.step[k] = t.step[k]
  BY <1>1 DEF Record
<1> HIDE DEF t1
<1>6. tuto'[d] = t1 /\ enemies'[d] = s /\ Alone(d) /\ tuto' \in [Client -> Record] /\ enemies' \in [Client -> SUBSET Enemy]
  BY <1>1, <1>3, <1>4 DEF Alone, TypeOK
<1>7. (\A k \in Hero : k # g => Same(t, s, t1, s, k)) /\ Names(t1, s)
  BY <1>1, <1>5 DEF Same, Names
<1> QED BY <1>2, <1>3, <1>5, <1>6, <1>7

\* The tutorial begins on a client.
LEMMA SequenceDoes ==
    ASSUME TypeOK, NEW d \in Client, ClientInv(d), TutorialSequence(d)
    PROVE  LET t == tuto[d]  t1 == tuto'[d]  s == enemies[d]
           IN  /\ tuto' \in [Client -> Record] /\ enemies' \in [Client -> SUBSET Enemy]
               /\ Alone(d) /\ enemies'[d] = s /\ Names(t1, s) /\ FlagsKept(t, t1)
               /\ ~t.begun /\ t1.begun /\ t.nowOn
               /\ \A k \in Hero : t1.step[k] = "on" /\ t1.lesson[k] = t.lesson[k] /\ t1.left[k] = t.left[k]
<1> DEFINE t == tuto[d]
           s == enemies[d]
           w == [h \in Hero |-> "on"]
           t1 == [t EXCEPT !.begun = TRUE, !.step = w]
<1>1. t \in Record /\ s \in SUBSET Enemy /\ Names(t, s) /\ ~t.begun /\ t.nowOn
  BY DEF TypeOK, ClientInv, TutorialSequence
<1>2. tuto' = [tuto EXCEPT ![d] = t1] /\ enemies' = enemies
  BY <1>1 DEF TutorialSequence, TypeOK, Record
<1>3. w \in [Hero -> Steps] /\ \A k \in Hero : w[k] = "on"
  BY DEF Steps
<1> HIDE DEF w
<1>4. t1 \in Record
  BY <1>1, <1>3, Zenon DEF Record
<1>5. /\ FlagsKept(t, t1) /\ t1.begun /\ t1.step = w /\ t1.lesson = t.lesson /\ t1.left = t.left /\ t1.spawned = t.spawned
  BY <1>1 DEF FlagsKept, Record
<1> HIDE DEF t1
<1>6. tuto'[d] = t1 /\ enemies'[d] = s /\ Alone(d) /\ tuto' \in [Client -> Record] /\ enemies' \in [Client -> SUBSET Enemy]
  BY <1>1, <1>2, <1>4 DEF Alone, TypeOK
<1>7. Names(t1, s)
  BY <1>1, <1>5 DEF Names
<1> QED BY <1>1, <1>3, <1>5, <1>6, <1>7

\* A missile meets the barrier, on whichever client.
LEMMA BlockedDoes ==
    ASSUME NEW t \in Record, NEW s, Names(t, s)
    PROVE  LET t1 == Blocked(t)
           IN  /\ t1 \in Record /\ FlagsKept(t, t1) /\ Names(t1, s)
               /\ Same(t, s, t1, s, "esper")
               /\ t1.begun = t.begun /\ t1.left = t.left
               /\ IF t.step["crusher"] = "on" /\ At(t, "crusher") = "first"
                  THEN t1.step["crusher"] = "due" /\ t1.lesson["crusher"] = t.lesson["crusher"] + 1
                  ELSE t1 = t
<1> DEFINE t1 == Blocked(t)
           n == t.lesson["crusher"] + 1
<1>1. CASE ~(t.step["crusher"] = "on" /\ At(t, "crusher") = "first")
  BY <1>1 DEF Blocked, At, FlagsKept, Same
<1>2. CASE t.step["crusher"] = "on" /\ At(t, "crusher") = "first"
  <2>1. t1 = [t EXCEPT !.lesson["crusher"] = n, !.step["crusher"] = "due"]
    BY <1>2 DEF Blocked, At, QuestClear
  <2>2. n \in Nat
    BY RecordHas, TwoHeroes
  <2> HIDE DEF t1, n
  <2>3. t1 \in Record
    BY <2>1, <2>2, TwoHeroes, Zenon DEF Record, Steps
  <2>4. /\ FlagsKept(t, t1) /\ t1.begun = t.begun /\ t1.left = t.left /\ t1.spawned = t.spawned
        /\ t1.step["crusher"] = "due" /\ t1.lesson["crusher"] = n
        /\ t1.step["esper"] = t.step["esper"] /\ t1.lesson["esper"] = t.lesson["esper"]
    BY <2>1, TwoHeroes DEF FlagsKept, Record
  <2>5. Names(t1, s) /\ Same(t, s, t1, s, "esper")
    BY <2>4 DEF Names, Same
  <2> QED BY <1>2, <2>3, <2>4, <2>5 DEF t1, n
<1> QED BY <1>1, <1>2

\* An enemy of the hero falls on his client.
LEMMA KillDoes ==
    ASSUME TypeOK, NEW d \in Client, ClientInv(d), Kill(d)
    PROVE  LET s == enemies[d]  s1 == enemies'[d]
           IN  /\ tuto' = tuto /\ enemies' \in [Client -> SUBSET Enemy] /\ Alone(d) /\ Names(tuto[d], s1)
               /\ \A k \in Hero : k # d => Zone(s1, k) = Zone(s, k)
               /\ Zone(s, d) # {} /\ Cardinality(Zone(s1, d)) = Cardinality(Zone(s, d)) - 1
               /\ \E n \in Nat : Send(d, <<"kill", n>>)
<1> DEFINE s == enemies[d]
<1>1. s \in SUBSET Enemy /\ Names(tuto[d], s) /\ tuto' = tuto /\ d \in Hero
  BY TwoHeroes DEF TypeOK, ClientInv, Kill
<1>2. PICK e \in {x \in enemies[d] : x.zone = d} :
          /\ enemies' = [enemies EXCEPT ![d] = @ \ {e}]
          /\ Send(d, <<"kill", e.name>>)
  BY DEF Kill
<1> DEFINE s1 == s \ {e}
<1>3. e \in s /\ e.zone = d /\ e.name \in Nat
  BY <1>1, <1>2 DEF Enemy
<1>4. IsFiniteSet(s)
  BY <1>1 DEF Names
<1>5. /\ IsFiniteSet(s1)
      /\ \A k : e.zone # k => Zone(s1, k) = Zone(s, k)
      /\ \A k : e.zone = k => Cardinality(Zone(s1, k)) = Cardinality(Zone(s, k)) - 1 /\ Zone(s, k) # {}
  BY <1>3, <1>4, ZoneShrinks
<1>6. Names(tuto[d], s1)
  BY <1>1, <1>5 DEF Names
<1>7. s1 \in SUBSET Enemy
  BY <1>1
<1>8. enemies'[d] = s1 /\ Alone(d) /\ enemies' \in [Client -> SUBSET Enemy]
  BY <1>1, <1>2, <1>7 DEF Alone, TypeOK
<1> QED BY <1>1, <1>2, <1>3, <1>5, <1>6, <1>8

\* And, by its name, on the other, if one has that name there.
LEMMA KilledDoes ==
    ASSUME TypeOK, NEW d \in Client, ClientInv(d), NEW n,
           tuto' = tuto, enemies' = [enemies EXCEPT ![d] = Without(enemies[d], n)]
    PROVE  LET s == enemies[d]  s1 == enemies'[d]
           IN  /\ enemies' \in [Client -> SUBSET Enemy] /\ Alone(d) /\ Names(tuto[d], s1)
               /\ \A k \in Hero : /\ Cardinality(Zone(s1, k)) \in Nat
                                  /\ Cardinality(Zone(s1, k)) <= Cardinality(Zone(s, k))
                                  /\ Cardinality(Zone(s, k)) - 1 <= Cardinality(Zone(s1, k))
                                  /\ Zone(s, k) = {} => Zone(s1, k) = {}
<1> DEFINE s == enemies[d]
           s1 == Without(s, n)
<1>1. s \in SUBSET Enemy /\ Names(tuto[d], s)
  BY DEF TypeOK, ClientInv
<1>2. IsFiniteSet(s) /\ \A e, f \in s : e.name = f.name => e = f
  BY <1>1 DEF Names
<1>3. /\ s1 \subseteq s /\ IsFiniteSet(s1)
      /\ \A k \in Hero : /\ Cardinality(Zone(s1, k)) \in Nat
                         /\ Cardinality(Zone(s1, k)) <= Cardinality(Zone(s, k))
                         /\ Cardinality(Zone(s, k)) - 1 <= Cardinality(Zone(s1, k))
                         /\ Zone(s, k) = {} => Zone(s1, k) = {}
  <2>1. IsFiniteSet(s1) /\ s1 \subseteq s
    BY <1>2, FS_Subset DEF Without
  <2>2. ASSUME NEW k \in Hero
        PROVE  /\ Cardinality(Zone(s1, k)) \in Nat
               /\ Cardinality(Zone(s1, k)) <= Cardinality(Zone(s, k))
               /\ Cardinality(Zone(s, k)) - 1 <= Cardinality(Zone(s1, k))
               /\ Zone(s, k) = {} => Zone(s1, k) = {}
    BY <1>2, ZoneNamed, Zenon
  <2> QED BY <2>1, <2>2
<1>4. enemies' = [enemies EXCEPT ![d] = s1]
  OBVIOUS
<1> HIDE DEF s1
<1>5. Names(tuto[d], s1) /\ s1 \in SUBSET Enemy
  BY <1>1, <1>3 DEF Names
<1>6. enemies'[d] = s1 /\ Alone(d) /\ enemies' \in [Client -> SUBSET Enemy]
  BY <1>4, <1>5 DEF Alone, TypeOK
<1> QED BY <1>3, <1>5, <1>6
-----------------------------------------------------------------------------
(* What that does to the course of a hero on that client, and to the        *)
(* enemies that his lesson still has.                                       *)

LEMMA CountIs ==
    ASSUME TutorialAssumption, NEW t \in Record, NEW s, IsFiniteSet(s), NEW h \in Hero
    PROVE  /\ Count(t, s, h) \in Nat /\ Cardinality(Zone(s, h)) \in Nat /\ t.left[h] \in Nat
           /\ t.step[h] # "due" \/ ~Brings(h, At(t, h)) => Count(t, s, h) = t.left[h] + Cardinality(Zone(s, h))
           /\ t.step[h] = "due" /\ Brings(h, At(t, h)) => Count(t, s, h) = Full(h, At(t, h))
           /\ Cardinality(Zone(s, h)) = 0 <=> Zone(s, h) = {}
           /\ Full(h, At(t, h)) \in Nat /\ Full(h, At(t, h)) > 0
<1>1. /\ Cardinality(Zone(s, h)) \in Nat /\ t.left[h] \in Nat
      /\ Cardinality(Zone(s, h)) = 0 <=> Zone(s, h) = {}
  BY Zones, RecordHas
<1>2. Full(h, At(t, h)) \in Nat /\ Full(h, At(t, h)) > 0
  BY Fights
<1> DEFINE b == t.step[h] = "due" /\ Brings(h, At(t, h))
<1>3. Count(t, s, h) = IF b THEN Full(h, At(t, h)) ELSE t.left[h] + Cardinality(Zone(s, h))
  BY DEF Count
<1> HIDE DEF b
<1>4. /\ b => Count(t, s, h) = Full(h, At(t, h))
      /\ ~b => Count(t, s, h) = t.left[h] + Cardinality(Zone(s, h))
  BY <1>3
<1>5. Count(t, s, h) \in Nat
  BY <1>1, <1>2, <1>4
<1> QED BY <1>1, <1>2, <1>4, <1>5 DEF b

\* The lesson a hero is at.
LEMMA AtIs ==
    ASSUME TutorialAssumption, NEW t, NEW h \in Hero, t.lesson[h] \in 1 .. End(h)
    PROVE  /\ At(t, h) = "dash" <=> t.lesson[h] = 1
           /\ At(t, h) = "primary" <=> t.lesson[h] = 2
           /\ At(t, h) = "ultimate" <=> t.lesson[h] = End(h)
           /\ At(t, h) \in {"dash", "primary", "m2", "first", "second", "ultimate"}
           /\ ~Fight(h, At(t, h)) <=> At(t, h) = "dash" \/ (h = "crusher" /\ At(t, h) = "first")
           /\ Brings(h, At(t, h)) <=> At(t, h) # "primary" /\ ~(h = "crusher" /\ At(t, h) = "first")
<1> DEFINE i == t.lesson[h]
           l == Solo[h][i]
<1>1. At(t, h) = l
  BY DEF At
<1> HIDE DEF i
<1>2. i \in 1 .. End(h) /\ End(h) \in Nat /\ End(h) > 2
  BY LessonsAre DEF i
<1>3. /\ l = "dash" => i = 1
      /\ l = "primary" => i = 2
      /\ l = "ultimate" => i = End(h)
      /\ l \in {"dash", "primary", "m2", "first", "second", "ultimate"}
      /\ i = 1 => l = "dash"
      /\ i = 2 => l = "primary"
      /\ i = End(h) => l = "ultimate"
  BY <1>2, LessonsAre
<1> HIDE DEF l
<1>4. /\ ~Fight(h, l) <=> l = "dash" \/ (h = "crusher" /\ l = "first")
      /\ Brings(h, l) <=> l # "primary" /\ ~(h = "crusher" /\ l = "first")
  BY DEF Fight, Brings
<1> QED BY <1>1, <1>3, <1>4 DEF i

LEMMA CourseSame ==
    ASSUME NEW t, NEW s, NEW t1, NEW s1, NEW h, Course(t, s, h), Same(t, s, t1, s1, h), h \in t.coop => h \in t1.coop
    PROVE  Course(t1, s1, h) /\ At(t1, h) = At(t, h) /\ Count(t1, s1, h) = Count(t, s, h)
BY DEF Course, Same, At, Count, Resting

LEMMA CourseStart ==
    ASSUME TutorialAssumption, NEW t, NEW s, NEW t1, NEW h \in Hero, Course(t, s, h), ~t.begun, t1.begun,
           t1.step[h] = "on", t1.lesson[h] = t.lesson[h], t1.left[h] = t.left[h]
    PROVE  /\ Course(t1, s, h) /\ t.step[h] = "idle" /\ At(t, h) = "dash" /\ At(t1, h) = "dash" /\ t.lesson[h] = 1
           /\ End(h) > 2 /\ End(h) \in Nat
  BY LessonsAre DEF Course, Resting, At

LEMMA CourseQuest ==
    ASSUME TutorialAssumption, NEW t \in Record, NEW s, Names(t, s), NEW t1 \in Record, NEW s1, Names(t1, s1), NEW h \in Hero,
           Course(t, s, h), t.step[h] = "due", t1.step[h] = "on", t1.begun = t.begun, t1.lesson[h] = t.lesson[h],
           t1.left[h] = IF At(t, h) = "ultimate" THEN Spawns[h] ELSE t.left[h],
           IF Brings(h, At(t, h))
           THEN Zone(s1, h) # {} /\ Cardinality(Zone(s1, h)) = Cardinality(Zone(s, h)) + 1
           ELSE Zone(s1, h) = Zone(s, h)
    PROVE  /\ Course(t1, s1, h) /\ At(t1, h) = At(t, h) /\ Count(t1, s1, h) = Count(t, s, h)
           /\ t.lesson[h] > 1 /\ t.begun
           /\ Fight(h, At(t, h)) /\ At(t, h) # "primary" => ~Finished(t1, s1, h)
  BY AtIs, CountIs, LessonsAre DEF Course, Resting, At, Names, Full, Finished

LEMMA CourseLearnt ==
    ASSUME TutorialAssumption, NEW t \in Record, NEW s, Names(t, s), NEW t1 \in Record, NEW h \in Hero,
           Course(t, s, h), t.step[h] = "on", t1.step[h] = "clear", t1.begun = t.begun, t1.lesson[h] = t.lesson[h],
           t1.left[h] = t.left[h], Finished(t, s, h)
    PROVE  /\ Course(t1, s, h) /\ At(t1, h) = At(t, h) /\ Count(t1, s, h) = Count(t, s, h) /\ t.begun
           /\ Fight(h, At(t, h)) => Count(t, s, h) = 0
  BY AtIs, CountIs, Fights DEF Course, Resting, At, Names, Finished

LEMMA CourseSpawn ==
    ASSUME TutorialAssumption, NEW t \in Record, NEW s, Names(t, s), NEW t1 \in Record, NEW s1, Names(t1, s1), NEW h \in Hero,
           Course(t, s, h), t.left[h] > 0, t1.left[h] = t.left[h] - 1, t1.begun = t.begun, t1.lesson[h] = t.lesson[h],
           t1.step[h] = t.step[h], Zone(s1, h) # {}, Cardinality(Zone(s1, h)) = Cardinality(Zone(s, h)) + 1
    PROVE  /\ Course(t1, s1, h) /\ At(t1, h) = At(t, h) /\ Count(t1, s1, h) = Count(t, s, h)
           /\ t.step[h] = "on" /\ ~Finished(t1, s1, h)
<1>1. t.lesson[h] \in 1 .. End(h) /\ t.begun /\ t.step[h] = "on" /\ t.lesson[h] = End(h) /\ t.left[h] \in Nat
  BY RecordHas DEF Course
<1>2. At(t1, h) = At(t, h)
  BY DEF At
<1>3. IsFiniteSet(s) /\ IsFiniteSet(s1)
  BY DEF Names
<1>4. At(t, h) = "ultimate" /\ Fight(h, At(t, h))
  BY <1>1, AtIs, Fights
<1>5. /\ Count(t1, s1, h) = t1.left[h] + Cardinality(Zone(s1, h)) /\ Count(t, s, h) = t.left[h] + Cardinality(Zone(s, h))
      /\ Cardinality(Zone(s, h)) \in Nat
  BY <1>1, <1>3, CountIs
<1>6. Course(t1, s1, h)
  BY <1>1, <1>2, <1>4 DEF Course, Resting
<1>7. ~Finished(t1, s1, h)
  BY <1>2, <1>4 DEF Finished
<1> QED BY <1>1, <1>2, <1>5, <1>6, <1>7

\* The next lesson is due, after one that has just been learnt, or after the Crusher's first skill.
LEMMA CourseNext ==
    ASSUME TutorialAssumption, NEW t \in Record, NEW s, Names(t, s), NEW t1 \in Record, NEW s1, Names(t1, s1), NEW h \in Hero,
           Course(t, s, h), At(t, h) # "ultimate", t.begun, t1.begun,
           t.step[h] = "clear" \/ (t.step[h] = "on" /\ ~Fight(h, At(t, h)) /\ At(t, h) # "dash"),
           t1.step[h] = "due", t1.lesson[h] = t.lesson[h] + 1, t1.left[h] = t.left[h],
           IF At(t, h) = "dash"
           THEN Zone(s1, h) # {} /\ Cardinality(Zone(s1, h)) = Cardinality(Zone(s, h)) + 1
           ELSE Zone(s1, h) = Zone(s, h)
    PROVE  /\ Course(t1, s1, h)
           /\ Fight(h, At(t1, h)) => Count(t1, s1, h) = Full(h, At(t1, h))
           /\ t.lesson[h] \in Nat /\ t.lesson[h] < End(h) /\ End(h) \in Nat
<1>1. t.lesson[h] \in 1 .. End(h) /\ ~(t.left[h] > 0) /\ Zone(s, h) = {} /\ t.lesson[h] \in Nat /\ t.left[h] \in Nat
  BY AtIs, RecordHas DEF Course, Resting
<1>2. t.lesson[h] < End(h) /\ End(h) \in Nat
  BY <1>1, AtIs, LessonsAre
<1>3. t1.lesson[h] \in 1 .. End(h) /\ t1.lesson[h] > 1
  BY <1>1, <1>2
<1>4. IsFiniteSet(s) /\ IsFiniteSet(s1)
  BY DEF Names
<1>5. /\ At(t, h) = "dash" <=> t.lesson[h] = 1
      /\ At(t1, h) = "primary" <=> t1.lesson[h] = 2
      /\ At(t1, h) = "dash" <=> t1.lesson[h] = 1
      /\ ~Fight(h, At(t1, h)) <=> At(t1, h) = "dash" \/ (h = "crusher" /\ At(t1, h) = "first")
      /\ Brings(h, At(t1, h)) <=> At(t1, h) # "primary" /\ ~(h = "crusher" /\ At(t1, h) = "first")
  BY <1>1, <1>3, AtIs
<1>6. At(t, h) = "dash" <=> At(t1, h) = "primary"
  BY <1>1, <1>5
<1>7. Course(t1, s1, h)
  BY <1>1, <1>3, <1>6 DEF Course, Resting
<1>8. Fight(h, At(t1, h)) => Count(t1, s1, h) = Full(h, At(t1, h))
  <2>1. CASE Brings(h, At(t1, h))
    BY <1>4, <2>1, CountIs
  <2>2. CASE ~Brings(h, At(t1, h)) /\ Fight(h, At(t1, h))
    <3>1. At(t1, h) = "primary"
      BY <1>3, <1>5, <2>2
    <3>2. Cardinality(Zone(s1, h)) = 1 /\ t1.left[h] = 0
      <4>1. Cardinality(Zone(s, h)) = 0
        BY <1>1, <1>4, Zones
      <4> QED BY <1>1, <1>6, <3>1, <4>1
    <3>3. Full(h, At(t1, h)) = 1
      BY <3>1 DEF Full
    <3> QED BY <1>4, <2>2, <3>2, <3>3, CountIs
  <2> QED BY <2>1, <2>2
<1> QED BY <1>1, <1>2, <1>7, <1>8

LEMMA CourseEnd ==
    ASSUME TutorialAssumption, NEW t \in Record, NEW s, Names(t, s), NEW t1 \in Record, NEW h \in Hero,
           Course(t, s, h), At(t, h) = "ultimate", t.step[h] = "clear", t1.step[h] = "idle",
           t1.lesson[h] = t.lesson[h], t1.left[h] = t.left[h], t1.begun = t.begun, h \in t1.coop
    PROVE  /\ Course(t1, s, h) /\ At(t1, h) = At(t, h) /\ t.lesson[h] = End(h) /\ t.begun
           /\ t.left[h] = 0 /\ Zone(s, h) = {} /\ Count(t1, s, h) = 0 /\ Count(t, s, h) = 0
  BY RecordHas, AtIs, CountIs DEF Course, Resting, At, Names

\* Enemies fall.
LEMMA CourseFewer ==
    ASSUME TutorialAssumption, NEW t \in Record, NEW s, Names(t, s), NEW s1, Names(t, s1), NEW h \in Hero, Course(t, s, h),
           Cardinality(Zone(s1, h)) <= Cardinality(Zone(s, h)), Cardinality(Zone(s, h)) - 1 <= Cardinality(Zone(s1, h))
    PROVE  /\ Course(t, s1, h) /\ Count(t, s1, h) \in Nat /\ Count(t, s, h) \in Nat
           /\ Count(t, s1, h) <= Count(t, s, h) /\ Count(t, s, h) - 1 <= Count(t, s1, h)
           /\ Zone(s, h) = {} => Zone(s1, h) = {}
  BY CountIs DEF Names, Count, Course
-----------------------------------------------------------------------------
(* What holds of a hero on both clients, when nothing of his changes ...    *)

\* One client is as the invariant has it.
Fit(t, s, h) == t \in Record /\ Names(t, s) /\ Shared(t) /\ Course(t, s, h)

LEMMA FitHas ==
    ASSUME TutorialAssumption, NEW t, NEW s, NEW h \in Hero, Fit(t, s, h)
    PROVE  /\ Count(t, s, h) \in Nat /\ Full(h, At(t, h)) \in Nat /\ Full(h, At(t, h)) > 0 /\ t.left[h] \in Nat
           /\ t.lesson[h] \in Nat /\ t.lesson[h] > 0 /\ t.lesson[h] <= End(h) /\ End(h) \in Nat /\ End(h) > 2
           /\ At(t, h) = "dash" <=> t.lesson[h] = 1
           /\ At(t, h) = "primary" <=> t.lesson[h] = 2
           /\ At(t, h) = "ultimate" <=> t.lesson[h] = End(h)
           /\ ~Fight(h, At(t, h)) <=> At(t, h) = "dash" \/ (h = "crusher" /\ At(t, h) = "first")
           /\ t.step[h] = "on" /\ Fight(h, At(t, h)) => (Finished(t, s, h) <=> Count(t, s, h) = 0)
           /\ ~t.begun => t.lesson[h] = 1 /\ t.step[h] = "idle"
           /\ t.begun /\ t.step[h] = "idle" => t.lesson[h] = End(h)
           /\ t.step[h] \in {"idle", "due", "on", "clear"}
           /\ t.step[h] = "due" => t.lesson[h] > 1
           /\ t.step[h] \in {"clear", "idle"} => Zone(s, h) = {} /\ t.left[h] = 0
  BY CountIs, AtIs, LessonsAre, RecordHas DEF Fit, Names, Course, Resting, Finished, Steps

LEMMA KillsAre ==
    ASSUME NEW p, NEW p1, Carries(p1, "kill") => Carries(p, "kill")
    PROVE  /\ Kills(p) \in Nat /\ Kills(p1) \in Nat /\ Kills(p1) <= Kills(p)
           /\ Carries(p, "kill") => Kills(p) = 1
           /\ ~Carries(p, "kill") => Kills(p) = 0
BY DEF Kills

Kept(t, t1, h) ==
    /\ t1.nowOn = t.nowOn /\ t1.stage = t.stage /\ t1.shared = t.shared /\ t1.last = t.last
    /\ h \in t1.coop <=> h \in t.coop
    /\ Mark(h) \in t1.done <=> Mark(h) \in t.done
    /\ h \in t.dashed => h \in t1.dashed
    /\ h \in t1.dashed => h \in t.dashed \/ t1.begun
SameHero(x, x1) == x1.can = x.can /\ x1.skills = x.skills /\ x1.immortal = x.immortal /\ x1.place = x.place

LEMMA Frame ==
    ASSUME TutorialAssumption,
           NEW t, NEW s, NEW u, NEW v, NEW q, NEW p, NEW x, NEW skipped,
           NEW t1, NEW s1, NEW u1, NEW v1, NEW q1, NEW p1, NEW x1, NEW skipped1, NEW h \in Hero,
           Fit(t, s, h), Fit(u, v, h),
           HeroInv(t, s, u, v, q, p, x, skipped, h), Same(t, s, t1, s1, h), Same(u, v, u1, v1, h), Kept(t, t1, h),
           SameHero(x, x1), Late(u1, v1, h) => Late(u, v, h), h \in u1.dashed \/ Carries(p1, "dash") => h \in t1.dashed,
           Ended(q1, h) => Ended(q, h), Carries(p1, "kill") => Carries(p, "kill"),
           Carries(p1, "barrier") => Carries(p, "barrier"), skipped => skipped1
    PROVE  HeroInv(t1, s1, u1, v1, q1, p1, x1, skipped1, h)
<1>1. /\ t1.begun = t.begun /\ t1.lesson[h] = t.lesson[h] /\ t1.step[h] = t.step[h] /\ t1.left[h] = t.left[h]
      /\ Zone(s1, h) = Zone(s, h) /\ At(t1, h) = At(t, h) /\ Count(t1, s1, h) = Count(t, s, h)
  BY DEF Same, At, Count
<1>2. /\ u1.begun = u.begun /\ u1.lesson[h] = u.lesson[h] /\ u1.step[h] = u.step[h]
      /\ At(u1, h) = At(u, h) /\ Count(u1, v1, h) = Count(u, v, h)
  BY DEF Same, At, Count
<1>3. /\ Count(t, s, h) \in Nat /\ Count(u, v, h) \in Nat /\ Full(h, At(t, h)) \in Nat
      /\ Kills(p) \in Nat /\ Kills(p1) \in Nat /\ Kills(p1) <= Kills(p)
  BY FitHas, KillsAre
<1>4. /\ Bounded(t, s, p, h) /\ Together(t, s, u, v, p, h) /\ Heard(t, u, p, h) /\ Through(t, u, v, q, p, h)
      /\ Calm(t, s, u, v, q, p, h) /\ Able(t, x, h)
      /\ ~t.nowOn /\ ~skipped => Freed(t, s, u, v, q, p, x, h)
  BY DEF HeroInv, Paired
<1>5. Bounded(t1, s1, p1, h)
  BY <1>1, <1>3, <1>4 DEF Bounded
<1>6. Together(t1, s1, u1, v1, p1, h)
  BY <1>1, <1>2, <1>3, <1>4 DEF Behind, Learned, Kept, Abreast, Ahead, Together
<1>7. Heard(t1, u1, p1, h)
  BY <1>1, <1>2, <1>4 DEF Heard, Behind, Kept
<1>8. Through(t1, u1, v1, q1, p1, h)
  BY <1>1, <1>2, <1>4 DEF Through, Kept
<1>9. Still(t, s, u, v, p, h) => Still(t1, s1, u1, v1, p1, h)
  BY <1>1, <1>2 DEF Still, Kept
<1>10. Calm(t1, s1, u1, v1, q1, p1, h)
  BY <1>4, <1>9 DEF Calm, Marked, Kept
<1>11. Able(t1, x1, h)
  BY <1>1, <1>4 DEF CanDo, Able, Kept, SameHero
<1>12. ~t1.nowOn /\ ~skipped1 => Freed(t1, s1, u1, v1, q1, p1, x1, h)
  BY <1>4, <1>9 DEF Freed, Kept, SameHero
<1> QED BY <1>5, <1>6, <1>7, <1>8, <1>10, <1>11, <1>12 DEF HeroInv, Paired

\* ... while he is busy with his lessons, ...
LEMMA Busy ==
    ASSUME NEW t, NEW s, NEW u, NEW v, NEW q, NEW p, NEW x, NEW skipped, NEW h,
           HeroInv(t, s, u, v, q, p, x, skipped, h), ~Still(t, s, u, v, p, h)
    PROVE  Marked(t, h) /\ (t.nowOn => Mark(h) \notin t.done /\ t.stage # 4) /\ (t.nowOn \/ skipped)
BY DEF HeroInv, Calm, Freed

\* ... and when it is the other client that makes a step.
LEMMA OtherRest ==
    ASSUME NEW t, NEW s, NEW u, NEW v, NEW q, NEW p, NEW x, NEW skipped, NEW u1, NEW v1, NEW q1, NEW p1, NEW h,
           HeroInv(t, s, u, v, q, p, x, skipped, h),
           Still(t, s, u, v, p, h) => Still(t, s, u1, v1, p1, h) /\ (Ended(q1, h) => Ended(q, h)),
           Paired(t, s, u1, v1, q1, p1, h)
    PROVE  HeroInv(t, s, u1, v1, q1, p1, x, skipped, h)
BY DEF HeroInv, Calm, Freed
-----------------------------------------------------------------------------
(* A step of the other client: u and v become u1 and v1.                    *)

LEMMA OtherStart ==
    ASSUME TutorialAssumption,
           NEW t, NEW s, NEW u, NEW v, NEW q, NEW p, NEW x, NEW skipped, NEW u1, NEW h \in Hero,
           Fit(t, s, h), Fit(u, v, h), Fit(u1, v, h), HeroInv(t, s, u, v, q, p, x, skipped, h), FlagsKept(u, u1),
           ~u.begun, u1.begun, u1.step[h] = "on", u1.lesson[h] = u.lesson[h]
    PROVE  HeroInv(t, s, u1, v, q, p, x, skipped, h)
<1>1. /\ u.lesson[h] = 1 /\ u.step[h] = "idle" /\ At(u, h) = "dash" /\ u1.lesson[h] = 1 /\ 1 # End(h)
      /\ ~Late(u1, v, h)
  BY FitHas DEF Late
<1>2. Paired(t, s, u, v, q, p, h)
  BY DEF HeroInv
<1>3. At(u1, h) = At(u, h)
  BY DEF At
<1>4. ~Fight(h, "dash")
  BY Fights
<1>5. Together(t, s, u1, v, p, h)
  BY <1>1, <1>4, <1>2 DEF Behind, At, Abreast, Ahead, Paired, Together
<1>6. Heard(t, u1, p, h)
  BY <1>2, <1>3 DEF Paired, Heard, Behind, FlagsKept
<1>7. Through(t, u1, v, q, p, h)
  BY <1>1, <1>2 DEF Paired, Through
<1>8. Still(t, s, u, v, p, h) => Still(t, s, u1, v, p, h)
  BY <1>1 DEF Still
<1>9. Paired(t, s, u1, v, q, p, h)
  BY <1>2, <1>5, <1>6, <1>7 DEF Paired
<1> QED BY <1>8, <1>9, OtherRest

LEMMA OtherQuest ==
    ASSUME TutorialAssumption,
           NEW t, NEW s, NEW u, NEW v, NEW q, NEW p, NEW x, NEW skipped, NEW u1, NEW v1, NEW h \in Hero,
           Fit(t, s, h), Fit(u, v, h), Fit(u1, v1, h), HeroInv(t, s, u, v, q, p, x, skipped, h), FlagsKept(u, u1),
           u.step[h] = "due", u1.step[h] = "on", u1.lesson[h] = u.lesson[h], Count(u1, v1, h) = Count(u, v, h),
           At(u, h) # "primary" /\ Fight(h, At(u, h)) => ~Finished(u1, v1, h)
    PROVE  HeroInv(t, s, u1, v1, q, p, x, skipped, h)
<1>1. At(u1, h) = At(u, h)
  BY DEF At
<1>2. Paired(t, s, u, v, q, p, h)
  BY DEF HeroInv
<1>3. ~Late(u1, v1, h)
  BY FitHas, Fights DEF Late
<1>4. Together(t, s, u1, v1, p, h)
  BY <1>1, <1>2 DEF Behind, Abreast, Ahead, Paired, Together
<1>5. Heard(t, u1, p, h)
  BY <1>1, <1>2 DEF Paired, Heard, Behind, FlagsKept
<1>6. Through(t, u1, v1, q, p, h)
  BY <1>2, <1>3 DEF Paired, Through
<1>7. Still(t, s, u, v, p, h) => Still(t, s, u1, v1, p, h)
  BY <1>3 DEF Still
<1>8. Paired(t, s, u1, v1, q, p, h)
  BY <1>2, <1>4, <1>5, <1>6 DEF Paired
<1> QED BY <1>7, <1>8, OtherRest

LEMMA OtherLearnt ==
    ASSUME TutorialAssumption,
           NEW t, NEW s, NEW u, NEW v, NEW q, NEW p, NEW x, NEW skipped, NEW u1, NEW h \in Hero,
           Fit(t, s, h), Fit(u, v, h), Fit(u1, v, h), HeroInv(t, s, u, v, q, p, x, skipped, h), FlagsKept(u, u1),
           u.nowOn, u.step[h] = "on", u1.step[h] = "clear", u1.lesson[h] = u.lesson[h],
           Count(u1, v, h) = Count(u, v, h), Finished(u, v, h), h = "crusher" => At(u, h) # "ultimate"
    PROVE  HeroInv(t, s, u1, v, q, p, x, skipped, h)
<1>1. At(u1, h) = At(u, h) /\ ~Late(u1, v, h)
  BY DEF At, Late
<1>2. Paired(t, s, u, v, q, p, h) /\ Able(t, x, h)
  BY DEF HeroInv
<1>3. /\ Fight(h, At(u, h)) => Count(u, v, h) = 0
      /\ ~Fight(h, At(u, h)) => u.lesson[h] = 1 /\ h \in u.dashed
  BY FitHas DEF Finished
<1>4. Together(t, s, u1, v, p, h)
  <2>1. Behind(t, u, h) => Behind(t, u1, h)
    BY DEF Behind
  <2>2. ASSUME Abreast(t, s, u, v, p, h)
        PROVE  Learned(t, s, h)
    BY <2>2, <1>3, FitHas, KillsAre, Fights, <1>2 DEF Abreast, At, Learned, Paired, Heard, Able
  <2>3. Abreast(t, s, u, v, p, h) => Abreast(t, s, u1, v, p, h)
    BY <2>2 DEF Abreast
  <2>4. ~Ahead(t, u, v, p, h)
    <3>1. SUFFICES ASSUME Ahead(t, u, v, p, h)
                   PROVE  FALSE
      OBVIOUS
    <3>2. u.lesson[h] = t.lesson[h] + 1 /\ (Fight(h, At(u, h)) => Count(u, v, h) >= Full(h, At(u, h)))
      BY <3>1 DEF Ahead
    <3>3. u.lesson[h] # 1
      BY <3>2, FitHas
    <3>4. Full(h, At(u, h)) > 0 /\ Full(h, At(u, h)) \in Nat
      BY FitHas
    <3> QED BY <1>3, <3>2, <3>3, <3>4
  <2> QED BY <1>2, <2>1, <2>3, <2>4 DEF Paired, Together
<1>5. Heard(t, u1, p, h)
  BY <1>1, <1>2 DEF Paired, Heard, Behind, FlagsKept
<1>6. Through(t, u1, v, q, p, h)
  BY <1>1, <1>2 DEF Paired, Through
<1>7. Still(t, s, u, v, p, h) => Still(t, s, u1, v, p, h)
  BY <1>1, FitHas, LessonsAre DEF Still, Late, Hero, At
<1>8. Paired(t, s, u1, v, q, p, h)
  BY <1>2, <1>4, <1>5, <1>6 DEF Paired
<1> QED BY <1>7, <1>8, OtherRest

LEMMA OtherSpawn ==
    ASSUME TutorialAssumption,
           NEW t, NEW s, NEW u, NEW v, NEW q, NEW p, NEW x, NEW skipped, NEW u1, NEW v1, NEW h \in Hero,
           HeroInv(t, s, u, v, q, p, x, skipped, h), FlagsKept(u, u1),
           u.step[h] = "on", u1.step[h] = "on", u1.lesson[h] = u.lesson[h], Count(u1, v1, h) = Count(u, v, h),
           ~Finished(u1, v1, h)
    PROVE  HeroInv(t, s, u1, v1, q, p, x, skipped, h)
<1>1. At(u1, h) = At(u, h) /\ ~Late(u1, v1, h)
  BY DEF At, Late
<1>2. Paired(t, s, u, v, q, p, h)
  BY DEF HeroInv
<1>3. Together(t, s, u1, v1, p, h)
  BY <1>1, <1>2 DEF Paired, Together, Behind, Abreast, Ahead
<1>4. Heard(t, u1, p, h)
  BY <1>1, <1>2 DEF Paired, Heard, Behind, FlagsKept
<1>5. Through(t, u1, v1, q, p, h)
  BY <1>1, <1>2 DEF Paired, Through
<1>6. Still(t, s, u, v, p, h) => Still(t, s, u1, v1, p, h)
  BY <1>1 DEF Still
<1>7. Paired(t, s, u1, v1, q, p, h)
  BY <1>2, <1>3, <1>4, <1>5 DEF Paired
<1> QED BY <1>6, <1>7, OtherRest

\* Nothing is on the way, and the own client has seen what there is to see.
Quiet(t, s, h) ==
    t.nowOn => /\ t.step[h] # "due"
               /\ t.step[h] = "on" => ~Finished(t, s, h) \/ (h = "crusher" /\ At(t, h) = "ultimate")
Silent(q) == \A i \in DOMAIN q : FALSE
LEMMA SilentIs ==
    ASSUME NEW q, Silent(q)
    PROVE  (\A k : ~Carries(q, k)) /\ (\A h : ~Ended(q, h)) /\ Kills(q) = 0
BY DEF Silent, Carries, Ended, Kills

\* Who has learnt his lesson, and has seen it: his timer runs.
LEMMA LearnedIs ==
    ASSUME TutorialAssumption, NEW t, NEW s, NEW h \in Hero, Fit(t, s, h), Learned(t, s, h), Quiet(t, s, h), t.nowOn,
           h = "crusher" => At(t, h) # "ultimate"
    PROVE  t.step[h] \in {"clear", "idle"}
  BY FitHas DEF Quiet, Learned, Finished

LEMMA OtherClear ==
    ASSUME TutorialAssumption,
           NEW t, NEW s, NEW u, NEW v, NEW q, NEW p, NEW x, NEW skipped, NEW u1, NEW v1, NEW h \in Hero,
           Fit(t, s, h), Fit(u, v, h), Fit(u1, v1, h), HeroInv(t, s, u, v, q, p, x, skipped, h), FlagsKept(u, u1),
           Quiet(t, s, h), Silent(p), Silent(q), At(u, h) # "ultimate",
           u.step[h] = "clear", u1.step[h] = "due", u1.lesson[h] = u.lesson[h] + 1,
           Fight(h, At(u1, h)) => Count(u1, v1, h) = Full(h, At(u1, h))
    PROVE  HeroInv(t, s, u1, v1, q, p, x, skipped, h)
<1>1. ~Late(u1, v1, h)
  BY DEF Late
<1>2. Paired(t, s, u, v, q, p, h)
  BY DEF HeroInv
<1>3. (\A k : ~Carries(p, k)) /\ ~Ended(q, h) /\ Kills(p) = 0
  BY SilentIs
<1>4. Together(t, s, u1, v1, p, h)
  BY <1>2, <1>3, FitHas, LearnedIs DEF Together, At, Paired, Bounded, Abreast, Behind, Learned, Ahead
<1>5. Heard(t, u1, p, h)
  BY <1>2, <1>3 DEF Paired, Heard, FlagsKept
<1>6. Through(t, u1, v1, q, p, h)
  BY <1>1, <1>2, <1>3 DEF Paired, Through
<1>7. Still(t, s, u, v, p, h) => Still(t, s, u1, v1, p, h)
  BY <1>1 DEF Still
<1>8. Paired(t, s, u1, v1, q, p, h)
  BY <1>2, <1>4, <1>5, <1>6 DEF Paired
<1> QED BY <1>7, <1>8, OtherRest

LEMMA OtherEnd ==
    ASSUME TutorialAssumption,
           NEW t, NEW s, NEW u, NEW v, NEW q, NEW p, NEW x, NEW skipped, NEW u1, NEW q1, NEW h \in Hero,
           Fit(t, s, h), Fit(u, v, h), Fit(u1, v, h), HeroInv(t, s, u, v, q, p, x, skipped, h),
           h = "esper", Quiet(t, s, h), Silent(p), u.step[h] = "clear", u.lesson[h] = End(h),
           u1.step[h] = "idle", u1.lesson[h] = u.lesson[h], u1.dashed = u.dashed
    PROVE  HeroInv(t, s, u1, v, q1, p, x, skipped, h)
<1>1. ~Late(u1, v, h) /\ ~Still(t, s, u, v, p, h)
  BY DEF Late, Still
<1>2. Paired(t, s, u, v, q, p, h)
  BY DEF HeroInv
<1>3. (\A k : ~Carries(p, k)) /\ Kills(p) = 0
  BY SilentIs
<1>4. ASSUME t.nowOn
      PROVE  t.lesson[h] = u.lesson[h] /\ t.step[h] \in {"clear", "idle"}
  BY FitHas, <1>2, <1>4, LearnedIs DEF Behind, Ahead, Paired, Together, Abreast
<1>5. Together(t, s, u1, v, p, h)
  BY <1>4 DEF Together, Abreast
<1>6. Heard(t, u1, p, h)
  BY <1>2, <1>3 DEF Paired, Heard
<1>7. Through(t, u1, v, q1, p, h)
  BY <1>1, <1>3, <1>4 DEF Through
<1>8. Paired(t, s, u1, v, q1, p, h)
  BY <1>2, <1>5, <1>6, <1>7 DEF Paired
<1> QED BY <1>1, <1>8, OtherRest

LEMMA OtherKilled ==
    ASSUME TutorialAssumption,
           NEW t, NEW s, NEW u, NEW v, NEW q, NEW p, NEW x, NEW skipped, NEW v1, NEW p1, NEW h \in Hero,
           Fit(t, s, h), Fit(u, v, h), Fit(u, v1, h), HeroInv(t, s, u, v, q, p, x, skipped, h),
           Carries(p, "kill"), \A k : k # "skip" => ~Carries(p1, k), Count(u, v, h) - 1 <= Count(u, v1, h)
    PROVE  HeroInv(t, s, u, v1, q, p1, x, skipped, h)
<1>1. ~Still(t, s, u, v, p, h)
  BY DEF Still
<1>2. Paired(t, s, u, v, q, p, h)
  BY DEF HeroInv
<1>3. Kills(p) = 1 /\ Kills(p1) = 0 /\ ~Carries(p1, "kill") /\ ~Carries(p1, "dash") /\ ~Carries(p1, "barrier")
  BY KillsAre
<1>4. Bounded(t, s, p1, h)
  BY <1>2, <1>3, FitHas DEF Paired, Bounded
<1>5. Together(t, s, u, v1, p1, h)
  BY <1>3, FitHas, <1>2 DEF Ahead, Abreast, Paired, Together
<1>6. Heard(t, u, p1, h)
  BY <1>2, <1>3 DEF Paired, Heard
<1>7. Through(t, u, v1, q, p1, h)
  BY <1>2 DEF Paired, Through
<1>8. Paired(t, s, u, v1, q, p1, h)
  BY <1>4, <1>5, <1>6, <1>7 DEF Paired
<1> QED BY <1>1, <1>8, OtherRest

\* The barrier is heard of: the next lesson is due.
LEMMA OtherBlock ==
    ASSUME TutorialAssumption,
           NEW t, NEW s, NEW u, NEW v, NEW q, NEW p, NEW x, NEW skipped, NEW u1, NEW p1, NEW h \in Hero, h = "crusher",
           Fit(t, s, h), Fit(u, v, h), Fit(u1, v, h), HeroInv(t, s, u, v, q, p, x, skipped, h), FlagsKept(u, u1),
           Carries(p, "barrier"), \A k : k # "skip" => ~Carries(p1, k), At(u, h) = "first",
           u.step[h] = "on", u1.step[h] = "due", u1.lesson[h] = u.lesson[h] + 1,
           Fight(h, At(u1, h)) => Count(u1, v, h) = Full(h, At(u1, h))
    PROVE  HeroInv(t, s, u1, v, q, p1, x, skipped, h)
<1>1. ~Late(u1, v, h)
  BY DEF Late
<1>2. Paired(t, s, u, v, q, p, h)
  BY DEF HeroInv
<1>3. Kills(p1) = 0 /\ ~Carries(p1, "kill") /\ ~Carries(p1, "dash") /\ ~Carries(p1, "barrier") /\ Kills(p) \in Nat
  BY KillsAre
<1>4. Bounded(t, s, p1, h)
  BY <1>2, <1>3, FitHas DEF Paired, Bounded
<1>5. Together(t, s, u1, v, p1, h)
  BY <1>2, <1>4, <1>3, FitHas DEF Together, Paired, Heard, Behind, At, Bounded, Abreast
<1>6. Heard(t, u1, p1, h)
  BY <1>2, <1>3 DEF Paired, Heard, FlagsKept
<1>7. Through(t, u1, v, q, p1, h)
  BY <1>1, <1>2, <1>3 DEF Paired, Through
<1>8. Still(t, s, u, v, p, h) => Still(t, s, u1, v, p1, h)
  BY <1>1, <1>3 DEF Still
<1>9. Paired(t, s, u1, v, q, p1, h)
  BY <1>4, <1>5, <1>6, <1>7 DEF Paired
<1> QED BY <1>8, <1>9, OtherRest
-----------------------------------------------------------------------------
(* A step of the hero's own client: t, s and x become t1, s1 and x1.        *)

LEMMA OwnStart ==
    ASSUME TutorialAssumption,
           NEW t, NEW s, NEW u, NEW v, NEW q, NEW p, NEW x, NEW skipped, NEW t1, NEW x1, NEW h \in Hero,
           Fit(t, s, h), Fit(u, v, h), Fit(t1, s, h), HeroInv(t, s, u, v, q, p, x, skipped, h), FlagsKept(t, t1),
           t.nowOn, ~t.begun, t1.begun, t1.step[h] = "on", t1.lesson[h] = t.lesson[h],
           x1.skills = {"dash"}, x1.can = IF h = "esper" THEN All ELSE {"move", "turn"}
    PROVE  HeroInv(t1, s, u, v, q, p, x1, skipped, h)
<1>1. /\ t.lesson[h] = 1 /\ t.step[h] = "idle" /\ At(t, h) = "dash" /\ t1.lesson[h] = 1 /\ 1 # End(h)
      /\ At(t1, h) = "dash" /\ ~Still(t, s, u, v, p, h) /\ ~Fight(h, "dash")
  BY Fights, FitHas DEF Still, At
<1>2. Paired(t, s, u, v, q, p, h) /\ Able(t, x, h)
  BY DEF HeroInv
<1>3. /\ Calm(t1, s, u, v, q, p, h)
      /\ ~t1.nowOn /\ ~skipped => Freed(t1, s, u, v, q, p, x1, h)
  BY <1>1, Busy DEF FlagsKept, Calm, Marked
<1>4. Bounded(t1, s, p, h)
  BY <1>1, <1>2 DEF Paired, Bounded
<1>5. Together(t1, s, u, v, p, h)
  BY <1>1, FitHas, <1>2 DEF Behind, Ahead, Paired, Together, Abreast, Learned
<1>6. Heard(t1, u, p, h)
  BY <1>1, <1>2 DEF Paired, Heard, Behind, FlagsKept
<1>7. h \notin t.coop /\ ~Ended(q, h)
  BY <1>1, <1>2 DEF Paired, Through
<1>8. Through(t1, u, v, q, p, h)
  BY <1>7 DEF Through, FlagsKept
<1>9. Able(t1, x1, h)
  BY <1>7, <1>1, TwoHeroes DEF FlagsKept, Allowed, CanDo, Able
<1> QED BY <1>3, <1>4, <1>5, <1>6, <1>8, <1>9 DEF HeroInv, Paired

LEMMA OwnQuest ==
    ASSUME TutorialAssumption,
           NEW t, NEW s, NEW u, NEW v, NEW q, NEW p, NEW x, NEW skipped, NEW t1, NEW s1, NEW x1, NEW h \in Hero,
           Fit(t, s, h), Fit(u, v, h), Fit(t1, s1, h), HeroInv(t, s, u, v, q, p, x, skipped, h), FlagsKept(t, t1),
           t.nowOn, t.step[h] = "due", t1.step[h] = "on", t1.begun = t.begun, t1.lesson[h] = t.lesson[h],
           Count(t1, s1, h) = Count(t, s, h), x1.skills = Allowed(h, At(t, h)),
           x1.can = IF h = "crusher" /\ At(t, h) = "primary" THEN All ELSE x.can
    PROVE  HeroInv(t1, s1, u, v, q, p, x1, skipped, h)
<1>1. At(t1, h) = At(t, h) /\ t.lesson[h] > 1 /\ t.begun /\ ~Still(t, s, u, v, p, h) /\ t.lesson[h] \in Nat
  BY FitHas DEF At, Still
<1>2. Paired(t, s, u, v, q, p, h) /\ Able(t, x, h)
  BY DEF HeroInv
<1>3. /\ Calm(t1, s1, u, v, q, p, h)
      /\ ~t1.nowOn /\ ~skipped => Freed(t1, s1, u, v, q, p, x1, h)
  BY <1>1, Busy DEF FlagsKept, Calm, Marked
<1>4. Bounded(t1, s1, p, h)
  BY <1>1, <1>2 DEF Paired, Bounded
<1>5. Together(t1, s1, u, v, p, h)
  BY <1>1, <1>2 DEF Behind, Ahead, Learned, FlagsKept, Abreast, Paired, Together
<1>6. Heard(t1, u, p, h)
  BY <1>1, <1>2 DEF Paired, Heard, Behind, FlagsKept
<1>7. h \notin t.coop /\ ~Ended(q, h)
  BY <1>1, <1>2 DEF Paired, Through
<1>8. Through(t1, u, v, q, p, h)
  BY <1>7 DEF Through, FlagsKept
<1>9. Able(t1, x1, h)
  BY <1>7, <1>1, <1>2, FitHas DEF FlagsKept, Able, CanDo
<1> QED BY <1>3, <1>4, <1>5, <1>6, <1>8, <1>9 DEF HeroInv, Paired

LEMMA OwnLearnt ==
    ASSUME TutorialAssumption,
           NEW t, NEW s, NEW u, NEW v, NEW q, NEW p, NEW x, NEW skipped, NEW t1, NEW x1, NEW h \in Hero,
           Fit(t, s, h), Fit(u, v, h), Fit(t1, s, h), HeroInv(t, s, u, v, q, p, x, skipped, h), FlagsKept(t, t1),
           t.nowOn, t.step[h] = "on", t1.step[h] = "clear", t1.begun = t.begun, t1.lesson[h] = t.lesson[h],
           Count(t1, s, h) = Count(t, s, h), Finished(t, s, h), At(t, h) # "ultimate" => x1.can = x.can
    PROVE  HeroInv(t1, s, u, v, q, p, x1, skipped, h)
<1>1. At(t1, h) = At(t, h) /\ t.begun /\ ~Still(t, s, u, v, p, h)
  BY FitHas DEF At, Still
<1>2. Paired(t, s, u, v, q, p, h) /\ Able(t, x, h)
  BY DEF HeroInv
<1>3. /\ Calm(t1, s, u, v, q, p, h)
      /\ ~t1.nowOn /\ ~skipped => Freed(t1, s, u, v, q, p, x1, h)
  BY <1>1, Busy DEF FlagsKept, Calm, Marked
<1>4. Bounded(t1, s, p, h)
  BY <1>1, <1>2 DEF Paired, Bounded
<1>5. Together(t1, s, u, v, p, h)
  BY <1>1, <1>2 DEF Behind, Ahead, Learned, Abreast, Paired, Together
<1>6. Heard(t1, u, p, h)
  BY <1>1, <1>2 DEF Paired, Heard, Behind, FlagsKept
<1>7. h \notin t.coop /\ ~Ended(q, h)
  BY <1>1, <1>2 DEF Paired, Through
<1>8. Through(t1, u, v, q, p, h)
  BY <1>7 DEF Through, FlagsKept
<1>9. Able(t1, x1, h)
  BY <1>7, <1>1, <1>2, FitHas DEF FlagsKept, Able, CanDo
<1> QED BY <1>3, <1>4, <1>5, <1>6, <1>8, <1>9 DEF HeroInv, Paired

LEMMA OwnSpawn ==
    ASSUME TutorialAssumption,
           NEW t, NEW s, NEW u, NEW v, NEW q, NEW p, NEW x, NEW skipped, NEW t1, NEW s1, NEW h \in Hero,
           HeroInv(t, s, u, v, q, p, x, skipped, h), FlagsKept(t, t1),
           t.step[h] = "on", t1.step[h] = "on", t1.begun = t.begun, t1.lesson[h] = t.lesson[h],
           Count(t1, s1, h) = Count(t, s, h)
    PROVE  HeroInv(t1, s1, u, v, q, p, x, skipped, h)
<1>1. At(t1, h) = At(t, h) /\ ~Still(t, s, u, v, p, h)
  BY DEF At, Still
<1>2. Paired(t, s, u, v, q, p, h) /\ Able(t, x, h)
  BY DEF HeroInv
<1>3. /\ Calm(t1, s1, u, v, q, p, h)
      /\ ~t1.nowOn /\ ~skipped => Freed(t1, s1, u, v, q, p, x, h)
  BY <1>1, Busy DEF FlagsKept, Calm, Marked
<1>4. Bounded(t1, s1, p, h)
  BY <1>1, <1>2 DEF Paired, Bounded
<1>5. Together(t1, s1, u, v, p, h)
  BY <1>1, <1>2 DEF Learned, FlagsKept, Paired, Together, Behind, Abreast, Ahead
<1>6. Heard(t1, u, p, h)
  BY <1>1, <1>2 DEF Paired, Heard, Behind, FlagsKept
<1>7. Through(t1, u, v, q, p, h)
  BY <1>2 DEF Paired, Through, FlagsKept
<1>8. Able(t1, x, h)
  BY <1>1, <1>2 DEF Able, CanDo, FlagsKept
<1> QED BY <1>3, <1>4, <1>5, <1>6, <1>7, <1>8 DEF HeroInv, Paired

LEMMA OwnClear ==
    ASSUME TutorialAssumption,
           NEW t, NEW s, NEW u, NEW v, NEW q, NEW p, NEW x, NEW skipped, NEW t1, NEW s1, NEW h \in Hero,
           Fit(t, s, h), Fit(u, v, h), Fit(t1, s1, h), HeroInv(t, s, u, v, q, p, x, skipped, h), FlagsKept(t, t1),
           Silent(p), At(t, h) # "ultimate",
           t.step[h] = "clear", t1.step[h] = "due", t1.begun = t.begun, t1.lesson[h] = t.lesson[h] + 1,
           Fight(h, At(t1, h)) => Count(t1, s1, h) = Full(h, At(t1, h))
    PROVE  HeroInv(t1, s1, u, v, q, p, x, skipped, h)
<1>1. ~Still(t, s, u, v, p, h) /\ t.lesson[h] \in Nat /\ t.lesson[h] # End(h) /\ t.lesson[h] > 0 /\ t.begun
  BY FitHas DEF Still
<1>2. Paired(t, s, u, v, q, p, h) /\ Able(t, x, h)
  BY DEF HeroInv
<1>3. /\ Calm(t1, s1, u, v, q, p, h)
      /\ ~t1.nowOn /\ ~skipped => Freed(t1, s1, u, v, q, p, x, h)
  BY <1>1, Busy DEF FlagsKept, Calm, Marked
<1>4. (\A k : ~Carries(p, k)) /\ Kills(p) = 0
  BY SilentIs
<1>5. Bounded(t1, s1, p, h)
  BY <1>4, FitHas DEF Bounded
<1>6. Together(t1, s1, u, v, p, h)
  <2>1. Behind(t, u, h) => Behind(t1, u, h)
    BY <1>1, FitHas DEF Behind
  <2>2. Abreast(t, s, u, v, p, h) => Behind(t1, u, h)
    BY <1>1 DEF Abreast, Behind
  <2>3. Ahead(t, u, v, p, h) => Abreast(t1, s1, u, v, p, h)
    <3>1. SUFFICES ASSUME Ahead(t, u, v, p, h)
                   PROVE  Abreast(t1, s1, u, v, p, h)
      OBVIOUS
    <3>2. /\ u.lesson[h] = t1.lesson[h] /\ u.step[h] \in {"due", "on"}
          /\ Fight(h, At(u, h)) => Count(u, v, h) >= Full(h, At(u, h))
      BY <3>1 DEF Ahead
    <3>3. At(u, h) = At(t1, h)
      BY <3>2 DEF At
    <3>4. Fight(h, At(t1, h)) => Count(u, v, h) >= Count(t1, s1, h) + Kills(p)
      BY <1>4, <3>2, <3>3, FitHas
    <3> QED BY <3>2, <3>4 DEF Abreast
  <2> QED BY <1>2, <2>1, <2>2, <2>3 DEF Paired, Together, FlagsKept
<1>7. Heard(t1, u, p, h)
  BY <1>2, <1>4 DEF Paired, Heard, FlagsKept
<1>8. Through(t1, u, v, q, p, h)
  BY <1>1, <1>2 DEF Paired, Through, FlagsKept
<1>9. t.nowOn => h \notin t.coop
  BY <1>1, <1>2 DEF Paired, Through
<1>10. Able(t1, x, h)
  BY <1>1, <1>2, <1>9 DEF Able, CanDo, FlagsKept
<1> QED BY <1>3, <1>5, <1>6, <1>7, <1>8, <1>10 DEF HeroInv, Paired

\* He has come to the cooperation, ...
LEMMA OwnEnd ==
    ASSUME TutorialAssumption,
           NEW t, NEW s, NEW u, NEW v, NEW q, NEW p, NEW x, NEW skipped, NEW t1, NEW p1, NEW x1, NEW h \in Hero,
           Fit(t, s, h), Fit(u, v, h), Fit(t1, s, h), HeroInv(t, s, u, v, q, p, x, skipped, h),
           Quiet(u, v, h), Silent(q), Silent(p), \A k : k # "end" => ~Carries(p1, k),
           t.step[h] = "clear", t.lesson[h] = End(h), t1.step[h] = "idle", t1.begun = t.begun, t1.lesson[h] = t.lesson[h],
           Count(t1, s, h) = 0, t1.nowOn = t.nowOn, t1.stage = t.stage, t1.shared = t.shared, t1.done = t.done,
           t1.dashed = t.dashed, h \in t1.coop, x1.can = All, x1.skills = x.skills
    PROVE  HeroInv(t1, s, u, v, q, p1, x1, skipped, h)
<1>1. ~Still(t, s, u, v, p, h) /\ t.begun /\ At(t1, h) = At(t, h)
  BY FitHas DEF Still, At
<1>2. Paired(t, s, u, v, q, p, h) /\ Able(t, x, h)
  BY DEF HeroInv
<1>3. /\ Calm(t1, s, u, v, q, p1, h)
      /\ ~t1.nowOn /\ ~skipped => Freed(t1, s, u, v, q, p1, x1, h)
  BY <1>1, Busy DEF Calm, Marked
<1>4. ~Carries(p1, "kill") /\ ~Carries(p1, "dash") /\ ~Carries(p1, "barrier") /\ Kills(p1) = 0 /\ ~Ended(q, h)
  BY SilentIs, KillsAre
<1>5. Bounded(t1, s, p1, h)
  BY <1>4, FitHas DEF Bounded
<1>6. Together(t1, s, u, v, p1, h)
  BY FitHas, <1>1, <1>4, <1>2 DEF Behind, Ahead, Learned, Abreast, Paired, Together
<1>7. Heard(t1, u, p1, h)
  BY <1>2, <1>4 DEF Paired, Heard
<1>8. ~Late(u, v, h)
  BY DEF Late, Quiet
<1>9. Through(t1, u, v, q, p1, h)
  BY <1>4, <1>8 DEF Through
<1>10. Able(t1, x1, h)
  BY RecordHas, <1>1, <1>2 DEF Fit, Shared, Able
<1> QED BY <1>3, <1>5, <1>6, <1>7, <1>9, <1>10 DEF HeroInv, Paired

\* ... or hears that he has on the other client.
LEMMA OwnCame ==
    ASSUME TutorialAssumption,
           NEW t, NEW s, NEW u, NEW v, NEW q, NEW p, NEW x, NEW skipped, NEW t1, NEW q1, NEW x1, NEW h \in Hero,
           Fit(t, s, h), HeroInv(t, s, u, v, q, p, x, skipped, h), Same(t, s, t1, s, h), Ended(q, h), ~Ended(q1, h),
           t1.nowOn = t.nowOn, t1.stage = t.stage, t1.shared = t.shared, t1.done = t.done,
           t1.dashed = t.dashed, h \in t1.coop, x1.can = All, x1.skills = x.skills
    PROVE  HeroInv(t1, s, u, v, q1, p, x1, skipped, h)
<1>1. /\ t1.begun = t.begun /\ t1.lesson[h] = t.lesson[h] /\ t1.step[h] = t.step[h] /\ t1.left[h] = t.left[h]
      /\ At(t1, h) = At(t, h) /\ Count(t1, s, h) = Count(t, s, h)
  BY DEF Same, At, Count
<1>2. /\ Paired(t, s, u, v, q, p, h) /\ Able(t, x, h) /\ Calm(t, s, u, v, q, p, h)
      /\ ~t.nowOn /\ ~skipped => Freed(t, s, u, v, q, p, x, h)
  BY DEF HeroInv
<1>3. Bounded(t1, s, p, h)
  BY <1>1, <1>2 DEF Paired, Bounded
<1>4. Together(t1, s, u, v, p, h)
  BY <1>1, <1>2 DEF Paired, Together, Behind, Abreast, Ahead, Learned
<1>5. Heard(t1, u, p, h)
  BY <1>1, <1>2 DEF Paired, Heard, Behind
<1>6. Through(t1, u, v, q1, p, h)
  BY <1>1, <1>2 DEF Paired, Through
<1>7. Calm(t1, s, u, v, q1, p, h)
  BY <1>1, <1>2 DEF Calm, Marked, Still
<1>8. ~t1.nowOn /\ ~skipped => Freed(t1, s, u, v, q1, p, x1, h)
  BY <1>2 DEF Freed
<1>9. Able(t1, x1, h)
  BY RecordHas, <1>2, FitHas, <1>1 DEF Fit, Shared, Paired, Through, Able
<1> QED BY <1>3, <1>4, <1>5, <1>6, <1>7, <1>8, <1>9 DEF HeroInv, Paired

\* The Esper's gauge is full.
LEMMA OwnGauge ==
    ASSUME TutorialAssumption,
           NEW t, NEW s, NEW u, NEW v, NEW q, NEW p, NEW x, NEW skipped, NEW t1, NEW x1, NEW h \in Hero, h = "esper",
           Fit(t, s, h), HeroInv(t, s, u, v, q, p, x, skipped, h), Same(t, s, t1, s, h),
           t.nowOn, t.step[h] = "on", t1.last, x1.can = x.can,
           t1.nowOn = t.nowOn, t1.stage = t.stage, t1.shared = t.shared, t1.done = t.done, t1.coop = t.coop,
           t1.dashed = t.dashed
    PROVE  HeroInv(t1, s, u, v, q, p, x1, skipped, h)
<1>1. /\ t1.begun = t.begun /\ t1.lesson[h] = t.lesson[h] /\ t1.step[h] = t.step[h] /\ t1.left[h] = t.left[h]
      /\ At(t1, h) = At(t, h) /\ Count(t1, s, h) = Count(t, s, h)
  BY DEF Same, At, Count
<1>2. /\ Paired(t, s, u, v, q, p, h) /\ Able(t, x, h) /\ Calm(t, s, u, v, q, p, h) /\ ~Still(t, s, u, v, p, h)
  BY DEF HeroInv, Still
<1>3. /\ Calm(t1, s, u, v, q, p, h)
      /\ ~t1.nowOn /\ ~skipped => Freed(t1, s, u, v, q, p, x1, h)
  BY <1>2, Busy DEF Calm, Marked
<1>4. Bounded(t1, s, p, h)
  BY <1>1, <1>2 DEF Paired, Bounded
<1>5. Together(t1, s, u, v, p, h)
  BY <1>1, <1>2 DEF Paired, Together, Behind, Abreast, Ahead, Learned
<1>6. Heard(t1, u, p, h)
  BY <1>1, <1>2 DEF Paired, Heard, Behind
<1>7. h \notin t.coop /\ ~Ended(q, h)
  BY <1>2 DEF Paired, Through
<1>8. Through(t1, u, v, q, p, h)
  BY <1>7 DEF Through
<1>9. Able(t1, x1, h)
  BY FitHas, <1>1, <1>2, <1>7 DEF Able, CanDo
<1> QED BY <1>3, <1>4, <1>5, <1>6, <1>8, <1>9 DEF HeroInv, Paired

\* The cooperation goes on.
LEMMA PairedSame ==
    ASSUME NEW t, NEW s, NEW u, NEW v, NEW q, NEW p, NEW t1, NEW h,
           Paired(t, s, u, v, q, p, h), Same(t, s, t1, s, h), t1.nowOn = t.nowOn, t1.coop = t.coop, t1.dashed = t.dashed
    PROVE  /\ Paired(t1, s, u, v, q, p, h)
           /\ Still(t1, s, u, v, p, h) <=> Still(t, s, u, v, p, h)
           /\ At(t1, h) = At(t, h) /\ CanDo(t1, h) = CanDo(t, h)
<1>1. /\ t1.begun = t.begun /\ t1.lesson[h] = t.lesson[h] /\ t1.step[h] = t.step[h] /\ t1.left[h] = t.left[h]
      /\ At(t1, h) = At(t, h) /\ Count(t1, s, h) = Count(t, s, h)
  BY DEF Same, At, Count
<1>2. Bounded(t1, s, p, h)
  BY <1>1 DEF Paired, Bounded
<1>3. Together(t1, s, u, v, p, h)
  BY <1>1 DEF Paired, Together, Behind, Abreast, Ahead, Learned
<1>4. Heard(t1, u, p, h)
  BY <1>1 DEF Paired, Heard, Behind
<1>5. Through(t1, u, v, q, p, h)
  BY <1>1 DEF Paired, Through
<1>6. Still(t1, s, u, v, p, h) <=> Still(t, s, u, v, p, h)
  BY <1>1 DEF Still
<1>7. CanDo(t1, h) = CanDo(t, h)
  BY <1>1 DEF CanDo
<1> QED BY <1>1, <1>2, <1>3, <1>4, <1>5, <1>6, <1>7 DEF Paired

LEMMA OwnCoopQuest ==
    ASSUME TutorialAssumption,
           NEW t, NEW s, NEW u, NEW v, NEW q, NEW p, NEW x, NEW skipped, NEW t1, NEW x1, NEW h \in Hero,
           Fit(t, s, h), HeroInv(t, s, u, v, q, p, x, skipped, h), Same(t, s, t1, s, h),
           t1.nowOn = t.nowOn, t1.coop = t.coop, t1.dashed = t.dashed, t1.done = t.done, h \in t.coop,
           \/ t.stage = 0 /\ t1.stage = 1 /\ x1.skills = AllSkills
           \/ t1.stage = t.stage /\ t.shared = "due" /\ t.stage < 5 /\ (t.stage = 2 => x1.skills = x.skills)
              /\ (t.stage = 1 => x1.skills = AllSkills) /\ (t.stage = 3 /\ h = "esper" => x1.skills = {"third"})
              /\ (t.stage = 4 /\ h = "crusher" => x1.skills = {"third"}),
           t1.shared = "on", x1.can = x.can
    PROVE  HeroInv(t1, s, u, v, q, p, x1, skipped, h)
<1>1. /\ Paired(t, s, u, v, q, p, h) /\ Able(t, x, h) /\ Calm(t, s, u, v, q, p, h)
      /\ ~t.nowOn /\ ~skipped => Freed(t, s, u, v, q, p, x, h)
  BY DEF HeroInv
<1>2. /\ Paired(t1, s, u, v, q, p, h) /\ (Still(t1, s, u, v, p, h) <=> Still(t, s, u, v, p, h))
      /\ At(t1, h) = At(t, h) /\ CanDo(t1, h) = CanDo(t, h)
  BY <1>1, PairedSame
<1>3. MarkStage(h) = 1 \/ MarkStage(h) = 3
  BY DEF MarkStage
<1>4. Calm(t1, s, u, v, q, p, h)
  BY <1>1, <1>2, <1>3 DEF Calm, Marked
<1>5. Able(t1, x1, h)
  BY <1>1, FitHas DEF Paired, Through, Able, Same
<1>6. t.nowOn \/ skipped
  BY <1>1 DEF Freed
<1> QED BY <1>2, <1>4, <1>5, <1>6 DEF HeroInv

LEMMA OwnCoopLearnt ==
    ASSUME NEW t, NEW s, NEW u, NEW v, NEW q, NEW p, NEW x, NEW skipped, NEW t1, NEW h \in Hero,
           HeroInv(t, s, u, v, q, p, x, skipped, h), Same(t, s, t1, s, h),
           t1.nowOn = t.nowOn, t1.coop = t.coop, t1.dashed = t.dashed, t1.done = t.done, t1.stage = t.stage,
           t1.last = t.last, t.shared = "on", t1.shared = "clear", t.stage # 2 => Asked[t.stage] \in t.done
    PROVE  HeroInv(t1, s, u, v, q, p, x, skipped, h)
  BY PairedSame, TwoHeroes DEF HeroInv, MarkStage, Mark, Asked, Calm, Marked, Able, Same, Freed

LEMMA OwnCoopClear ==
    ASSUME NEW t, NEW s, NEW u, NEW v, NEW q, NEW p, NEW x, NEW skipped, NEW t1, NEW h \in Hero,
           Fit(t, s, h), HeroInv(t, s, u, v, q, p, x, skipped, h), Same(t, s, t1, s, h), Silent(q),
           t1.nowOn = t.nowOn, t1.coop = t.coop, t1.dashed = t.dashed, t1.done = t.done, t1.stage = t.stage + 1,
           t1.last = t.last, t.stage < 4, t.shared = "clear", t1.shared = "due"
    PROVE  HeroInv(t1, s, u, v, q, p, x, skipped, h)
  BY PairedSame, RecordHas, SilentIs DEF HeroInv, Fit, Shared, MarkStage, Calm, Marked, Able, Same, Freed

\* A skip: from the beginning, or the end, it frees the hero.
LEMMA OwnSkip ==
    ASSUME TutorialAssumption,
           NEW t, NEW s, NEW u, NEW v, NEW q, NEW p, NEW x, NEW skipped,
           NEW t1, NEW q1, NEW p1, NEW x1, NEW skipped1, NEW h \in Hero,
           Fit(t, s, h), Fit(u, v, h), HeroInv(t, s, u, v, q, p, x, skipped, h), Same(t, s, t1, s, h),
           ~t1.nowOn, t1.coop = t.coop, t1.dashed = t.dashed, t1.done = t.done,
           \/ t1.stage = t.stage /\ t1.shared = t.shared
           \/ t1.stage = 5 /\ t1.shared = "idle" /\ t.stage = 4,
           Ended(q1, h) => Ended(q, h), Carries(p1, "kill") => Carries(p, "kill"), Carries(p1, "dash") => Carries(p, "dash"),
           skipped => skipped1,
           ~skipped1 => (~t.begun \/ t.stage = 5 \/ (t.stage = 4 /\ t.shared = "clear")) /\ t.step[h] # "clear" /\ u.step[h] # "clear",
           x1.can = All, x1.skills = AllSkills, ~x1.immortal, x1.place = "shelter"
    PROVE  HeroInv(t1, s, u, v, q1, p1, x1, skipped1, h)
<1>1. /\ Paired(t, s, u, v, q, p, h) /\ Able(t, x, h) /\ Calm(t, s, u, v, q, p, h)
      /\ ~t.nowOn /\ ~skipped => Freed(t, s, u, v, q, p, x, h)
  BY DEF HeroInv
<1>2. /\ t1.begun = t.begun /\ t1.lesson[h] = t.lesson[h] /\ t1.step[h] = t.step[h] /\ t1.left[h] = t.left[h]
      /\ At(t1, h) = At(t, h) /\ Count(t1, s, h) = Count(t, s, h)
  BY DEF Same, At, Count
<1>3. Bounded(t1, s, p1, h)
  BY KillsAre, FitHas, <1>1, <1>2 DEF Paired, Bounded
<1>4. Together(t1, s, u, v, p1, h) /\ Through(t1, u, v, q1, p1, h)
  BY DEF Together, Through
<1>5. Heard(t1, u, p1, h)
  BY <1>1 DEF Paired, Heard
<1>6. Calm(t1, s, u, v, q1, p1, h)
  BY <1>1 DEF MarkStage, Calm, Marked
<1>7. Able(t1, x1, h)
  BY <1>1, <1>2 DEF Able
<1>8. ASSUME ~skipped1
      PROVE  Freed(t1, s, u, v, q1, p1, x1, h)
  <2>1. CASE ~t.nowOn
    BY <1>1, <1>8, <2>1, <1>2 DEF Freed, Still
  <2>2. CASE t.nowOn /\ ~t.begun
    <3>1. /\ t.lesson[h] = 1 /\ t.step[h] = "idle" /\ At(t, h) = "dash" /\ 1 # End(h)
          /\ Zone(s, h) = {} /\ t.left[h] = 0
      BY <2>2, FitHas
    <3>2. ~Carries(p, "kill")
      BY Fights, <1>1, <3>1 DEF Paired, Bounded
    <3>3. u.lesson[h] # End(h)
      BY <3>1, FitHas, <1>1, <2>2 DEF Behind, Paired, Together, Abreast, Ahead
    <3>4. ~Ended(q, h) /\ h \notin t.coop
      BY <1>1, <2>2, <3>1 DEF Paired, Through
    <3>5. Still(t1, s, u, v, p1, h)
      BY <1>2, <3>1, <3>2, <3>3 DEF Still, Late
    <3> QED BY <3>4, <3>5 DEF Freed
  <2>3. CASE t.nowOn /\ t.begun
    BY <1>8, <2>3, <1>1, <1>2 DEF Fit, Shared, Calm, Still, Freed
  <2> QED BY <2>1, <2>2, <2>3
<1> QED BY <1>3, <1>4, <1>5, <1>6, <1>7, <1>8 DEF HeroInv, Paired

\* An enemy of his falls, ...
LEMMA OwnKill ==
    ASSUME TutorialAssumption,
           NEW t, NEW s, NEW u, NEW v, NEW q, NEW p, NEW x, NEW skipped, NEW s1, NEW p1, NEW x1, NEW h \in Hero,
           Fit(t, s, h), Fit(u, v, h), Fit(t, s1, h), HeroInv(t, s, u, v, q, p, x, skipped, h),
           Silent(p), \A k : k # "kill" => ~Carries(p1, k), t.step[h] # "clear", u.step[h] # "clear",
           Zone(s, h) # {}, Cardinality(Zone(s1, h)) = Cardinality(Zone(s, h)) - 1, SameHero(x, x1)
    PROVE  HeroInv(t, s1, u, v, q, p1, x1, skipped, h)
<1>1. Paired(t, s, u, v, q, p, h) /\ Able(t, x, h)
  BY DEF HeroInv
<1>2. ~Still(t, s, u, v, p, h)
  BY DEF Still
<1>3. /\ Calm(t, s1, u, v, q, p1, h)
      /\ ~t.nowOn /\ ~skipped => Freed(t, s1, u, v, q, p1, x1, h)
  BY <1>2, Busy DEF Calm
<1>4. Fight(h, At(t, h)) /\ (t.step[h] # "due" \/ ~Brings(h, At(t, h))) /\ t.step[h] \notin {"clear", "idle"}
  BY FitHas, Fights DEF Fit, Course, Resting
<1>5. Count(t, s1, h) = Count(t, s, h) - 1 /\ Count(t, s, h) \in Nat
  BY <1>4, CountIs DEF Fit, Names
<1>6. (\A k : ~Carries(p, k)) /\ Kills(p) = 0 /\ (Kills(p1) = 0 \/ Kills(p1) = 1) /\ ~Carries(p1, "dash") /\ ~Carries(p1, "barrier")
  BY SilentIs DEF Kills
<1>7. Bounded(t, s1, p1, h)
  BY <1>1, <1>4, <1>5, <1>6, FitHas DEF Paired, Bounded
<1>8. Together(t, s1, u, v, p1, h)
  BY <1>5, <1>6, FitHas, <1>4, <1>1 DEF Ahead, Abreast, Paired, Together
<1>9. Heard(t, u, p1, h)
  BY <1>1, <1>6 DEF Paired, Heard
<1>10. Through(t, u, v, q, p1, h)
  BY <1>1, <1>4 DEF Paired, Through
<1>11. Able(t, x1, h)
  BY <1>1 DEF Able, SameHero
<1> QED BY <1>3, <1>7, <1>8, <1>9, <1>10, <1>11 DEF HeroInv, Paired

\* ... or one that has the name of one that fell on the other client.
LEMMA OwnHit ==
    ASSUME TutorialAssumption,
           NEW t, NEW s, NEW u, NEW v, NEW q, NEW p, NEW x, NEW skipped, NEW s1, NEW q1, NEW h \in Hero,
           Fit(t, s, h), Fit(u, v, h), Fit(t, s1, h), HeroInv(t, s, u, v, q, p, x, skipped, h),
           Ended(q1, h) => Ended(q, h), Count(t, s1, h) <= Count(t, s, h), Zone(s, h) = {} => Zone(s1, h) = {}
    PROVE  HeroInv(t, s1, u, v, q1, p, x, skipped, h)
<1>1. /\ Paired(t, s, u, v, q, p, h) /\ Able(t, x, h) /\ Calm(t, s, u, v, q, p, h)
      /\ ~t.nowOn /\ ~skipped => Freed(t, s, u, v, q, p, x, h)
  BY DEF HeroInv
<1>2. /\ Count(t, s, h) \in Nat /\ Count(t, s1, h) \in Nat /\ Count(u, v, h) \in Nat /\ Kills(p) \in Nat
      /\ Full(h, At(t, h)) \in Nat
  BY FitHas, KillsAre
<1>3. Bounded(t, s1, p, h)
  BY <1>1, <1>2 DEF Paired, Bounded
<1>4. Together(t, s1, u, v, p, h)
  BY <1>2, <1>1 DEF Learned, Abreast, Paired, Together
<1>5. Heard(t, u, p, h)
  BY <1>1 DEF Paired
<1>6. Through(t, u, v, q1, p, h)
  BY <1>1 DEF Paired, Through
<1>7. Still(t, s, u, v, p, h) => Still(t, s1, u, v, p, h)
  BY DEF Still
<1>8. Calm(t, s1, u, v, q1, p, h)
  BY <1>1, <1>7 DEF Calm
<1>9. ~t.nowOn /\ ~skipped => Freed(t, s1, u, v, q1, p, x, h)
  BY <1>1, <1>7 DEF Freed
<1> QED BY <1>1, <1>3, <1>4, <1>5, <1>6, <1>8, <1>9 DEF HeroInv, Paired

\* A missile meets his barrier.
LEMMA OwnBlock ==
    ASSUME TutorialAssumption,
           NEW t, NEW s, NEW u, NEW v, NEW q, NEW p, NEW x, NEW skipped, NEW t1, NEW p1, NEW h \in Hero,
           Fit(t, s, h), Fit(u, v, h), Fit(t1, s, h), HeroInv(t, s, u, v, q, p, x, skipped, h), FlagsKept(t, t1),
           \A k : k # "barrier" => ~Carries(p1, k), At(t, h) = "first",
           t.step[h] = "on", t1.step[h] = "due", t1.begun = t.begun, t1.lesson[h] = t.lesson[h] + 1,
           Fight(h, At(t1, h)) => Count(t1, s, h) = Full(h, At(t1, h))
    PROVE  HeroInv(t1, s, u, v, q, p1, x, skipped, h)
<1>1. /\ ~Still(t, s, u, v, p, h) /\ t.lesson[h] \in Nat /\ t.lesson[h] > 2 /\ t.begun /\ t.lesson[h] # End(h)
  BY FitHas DEF Still
<1>2. Paired(t, s, u, v, q, p, h) /\ Able(t, x, h)
  BY DEF HeroInv
<1>3. /\ Calm(t1, s, u, v, q, p1, h)
      /\ ~t1.nowOn /\ ~skipped => Freed(t1, s, u, v, q, p1, x, h)
  BY <1>1, Busy DEF FlagsKept, Calm, Marked
<1>4. Kills(p1) = 0 /\ ~Carries(p1, "kill") /\ ~Carries(p1, "dash")
  BY DEF Kills
<1>5. Bounded(t1, s, p1, h)
  BY <1>4, FitHas DEF Bounded
<1>6. t.nowOn => Behind(t1, u, h)
  BY <1>1, FitHas, <1>2 DEF Ahead, Behind, Abreast, Paired, Together
<1>7. Together(t1, s, u, v, p1, h)
  BY <1>6 DEF Together, FlagsKept
<1>8. Heard(t1, u, p1, h)
  BY <1>2, <1>4, <1>6 DEF Paired, Heard, FlagsKept
<1>9. Through(t1, u, v, q, p1, h)
  BY <1>2 DEF Paired, Through, FlagsKept
<1>10. t.nowOn => h \notin t.coop
  BY <1>2 DEF Paired, Through
<1>11. Able(t1, x, h)
  BY <1>1, <1>2, <1>10 DEF Able, CanDo, FlagsKept
<1> QED BY <1>3, <1>5, <1>7, <1>8, <1>9, <1>11 DEF HeroInv, Paired

\* He does what the cooperation asks him for: his lessons are behind him.
LEMMA OwnMark ==
    ASSUME TutorialAssumption,
           NEW t, NEW s, NEW u, NEW v, NEW q, NEW p, NEW x, NEW skipped, NEW t1, NEW p1, NEW x1, NEW h \in Hero,
           Fit(t, s, h), HeroInv(t, s, u, v, q, p, x, skipped, h), Same(t, s, t1, s, h),
           t1.nowOn = t.nowOn, t1.coop = t.coop, t1.dashed = t.dashed, t1.stage = t.stage, t1.shared = t.shared,
           t1.last = t.last, t.done \subseteq t1.done, SameHero(x, x1), h \in t.coop,
           \A k : k \in {"kill", "dash", "barrier"} => ~Carries(p1, k), t.step[h] # "clear", u.step[h] # "clear"
    PROVE  HeroInv(t1, s, u, v, q, p1, x1, skipped, h)
<1>1. /\ Paired(t, s, u, v, q, p, h) /\ Able(t, x, h) /\ Calm(t, s, u, v, q, p, h)
      /\ ~t.nowOn /\ ~skipped => Freed(t, s, u, v, q, p, x, h)
  BY DEF HeroInv
<1>2. /\ t1.begun = t.begun /\ t1.lesson[h] = t.lesson[h] /\ t1.step[h] = t.step[h] /\ t1.left[h] = t.left[h]
      /\ At(t1, h) = At(t, h) /\ Count(t1, s, h) = Count(t, s, h) /\ CanDo(t1, h) = CanDo(t, h)
  BY DEF Same, At, Count, CanDo
<1>3. ~Carries(p1, "kill") /\ ~Carries(p1, "dash") /\ ~Carries(p1, "barrier") /\ Kills(p1) = 0 /\ Kills(p) \in Nat
  BY DEF Kills
<1>4. Bounded(t1, s, p1, h)
  BY <1>3, FitHas, <1>1, <1>2 DEF Paired, Bounded
<1>5. Together(t1, s, u, v, p1, h)
  BY <1>1, <1>2, <1>3 DEF Paired, Through, Ahead, Learned, Kills, Abreast, Behind, Together
<1>6. Heard(t1, u, p1, h)
  BY <1>1, <1>3 DEF Paired, Heard
<1>7. Through(t1, u, v, q, p1, h)
  BY <1>1, <1>2, <1>3 DEF Paired, Through
<1>8. t.nowOn => Still(t1, s, u, v, p1, h)
  BY <1>1, FitHas, <1>2, <1>3 DEF Paired, Through, Still
<1>9. ~t.nowOn /\ Still(t, s, u, v, p, h) => Still(t1, s, u, v, p1, h)
  BY <1>2, <1>3 DEF Still
<1>10. Calm(t1, s, u, v, q, p1, h)
  BY <1>1, <1>8 DEF Calm, Marked
<1>11. Able(t1, x1, h)
  BY <1>1, <1>2 DEF Able, SameHero
<1>12. ~t1.nowOn /\ ~skipped => Freed(t1, s, u, v, q, p1, x1, h)
  BY <1>1, <1>9 DEF Freed, SameHero
<1> QED BY <1>4, <1>5, <1>6, <1>7, <1>10, <1>11, <1>12 DEF HeroInv, Paired
-----------------------------------------------------------------------------
(* The calls, and what a step has to show.                                  *)

Fitting(call, d) ==
    /\ call[1] \in {"surge", "vital", "barrier"} => d = "esper"
    /\ call[1] = "shield" => d = "crusher"
    /\ call[1] = "dash" => call[2] # d

LEMMA AppendIs ==
    ASSUME NEW S, NEW q \in Seq(S), NEW e \in S
    PROVE  /\ Append(q, e) \in Seq(S)
           /\ \A i \in DOMAIN Append(q, e) : \/ i \in DOMAIN q /\ Append(q, e)[i] = q[i]
                                             \/ i = Len(q) + 1 /\ Append(q, e)[i] = e
           /\ Len(q) \in Nat /\ (Silent(q) => Len(q) = 0)
<1>1. Append(q, e) \in Seq(S) /\ Len(q) \in Nat /\ DOMAIN q = 1 .. Len(q) /\ DOMAIN Append(q, e) = 1 .. Len(q) + 1
  OBVIOUS
<1>2. \A i \in 1 .. Len(q) : Append(q, e)[i] = q[i]
  OBVIOUS
<1>3. Append(q, e)[Len(q) + 1] = e
  OBVIOUS
<1>4. \A i \in 1 .. Len(q) + 1 : i \in 1 .. Len(q) \/ i = Len(q) + 1
  BY <1>1
<1>5. Silent(q) => Len(q) = 0
  <2>1. SUFFICES ASSUME Silent(q), Len(q) # 0
                 PROVE  FALSE
    OBVIOUS
  <2>2. 1 \in DOMAIN q
    BY <1>1, <2>1
  <2> QED BY <2>1, <2>2 DEF Silent
<1> QED BY <1>1, <1>2, <1>3, <1>4, <1>5

LEMMA SendDoes ==
    ASSUME TypeOK, NEW d \in Client, NEW call \in Call, Send(d, call), Calls(chan[Other(d)], Other(d)),
           Fitting(call, Other(d)), Silent(chan[Other(d)]) \/ call[1] = "skip"
    PROVE  LET g == Other(d)
           IN  /\ chan' \in [Client -> Seq(Call)] /\ chan'[d] = chan[d] /\ Calls(chan'[g], g)
               /\ Silent(chan[g]) => \A k : k # call[1] => ~Carries(chan'[g], k)
               /\ call[1] = "skip" => \A k : k # "skip" => (Carries(chan'[g], k) => Carries(chan[g], k))
               /\ \A h : call[1] # "end" \/ call[2] # h => (Ended(chan'[g], h) => Ended(chan[g], h))
<1> DEFINE g == Other(d)
           q == chan[g]
           q1 == Append(q, call)
<1>1. d \in Client /\ g \in Client /\ g # d /\ q \in Seq(Call)
  BY TwoHeroes DEF TypeOK
<1>2. chan' \in [Client -> Seq(Call)] /\ chan'[d] = chan[d] /\ chan'[g] = q1
  <2>1. chan' = [chan EXCEPT ![g] = q1]
    BY DEF Send
  <2>2. q1 \in Seq(Call)
    BY <1>1, AppendIs
  <2> HIDE DEF q1, g, q
  <2> QED BY <1>1, <2>1, <2>2 DEF TypeOK
<1>3. /\ \A i \in DOMAIN q1 : (i \in DOMAIN q /\ q1[i] = q[i]) \/ (i = Len(q) + 1 /\ q1[i] = call)
      /\ Len(q) \in Nat /\ (Silent(q) => Len(q) = 0)
  BY <1>1, AppendIs, Zenon
<1>4. Calls(q, g) /\ Fitting(call, g) /\ (Silent(q) \/ call[1] = "skip")
  OBVIOUS
<1> HIDE DEF q1, g, q
<1>5. Calls(q1, g)
  BY <1>3, <1>4 DEF Calls, Fitting
<1>6. Silent(q) => \A k : k # call[1] => ~Carries(q1, k)
  BY <1>3 DEF Silent, Carries
<1>7. \A k : k # call[1] => (Carries(q1, k) => Carries(q, k))
  BY <1>3 DEF Carries
<1>8. \A h : call[1] # "end" \/ call[2] # h => (Ended(q1, h) => Ended(q, h))
  BY <1>3 DEF Ended
<1> QED BY <1>2, <1>5, <1>6, <1>7, <1>8 DEF g, q

LEMMA RecvDoes ==
    ASSUME TypeOK, NEW d \in Client, Calls(chan[d], d), chan[d] # << >>, chan' = [chan EXCEPT ![d] = Tail(@)]
    PROVE  LET g == Other(d)  what == Head(chan[d])[1]  arg == Head(chan[d])[2]
           IN  /\ chan' \in [Client -> Seq(Call)] /\ chan'[g] = chan[g] /\ Calls(chan'[d], d)
               /\ \A k : k # "skip" => ~Carries(chan'[d], k)
               /\ \A h : ~Ended(chan'[d], h)
               /\ what \in {"end", "skip", "named", "dash", "barrier", "surge", "vital", "shield", "kill"}
               /\ what = "kill" => arg \in Nat
               /\ what # "kill" => arg \in Hero
               /\ Carries(chan[d], what)
               /\ what = "end" => Ended(chan[d], arg)
               /\ what \in {"surge", "vital", "barrier"} => d = "esper"
               /\ what = "shield" => d = "crusher"
               /\ what = "dash" => arg # d
<1> DEFINE g == Other(d)
           q == chan[d]
           q1 == Tail(q)
           what == q[1][1]
           arg == q[1][2]
<1>1. d \in Client /\ g \in Client /\ g # d /\ q \in Seq(Call)
  BY TwoHeroes DEF TypeOK
<1>2. /\ q1 \in Seq(Call) /\ Len(q) \in Nat \ {0} /\ Head(q) = q[1] /\ q[1] \in Call
      /\ DOMAIN q = 1 .. Len(q) /\ DOMAIN q1 = 1 .. Len(q) - 1
      /\ \A i \in 1 .. Len(q) - 1 : q1[i] = q[i + 1]
  BY <1>1, QueueTails, Zenon
<1> HIDE DEF q1, g
<1>3. chan' \in [Client -> Seq(Call)] /\ chan'[g] = chan[g] /\ chan'[d] = q1
  BY <1>1, <1>2 DEF TypeOK, q1
<1> HIDE DEF q
<1>4. /\ \A i \in DOMAIN q : i > 1 => q[i][1] = "skip"
      /\ \A i \in DOMAIN q : Fitting(q[i], d)
  BY DEF Calls, Fitting, q
<1>5. \A i \in DOMAIN q1 : i + 1 \in DOMAIN q /\ q1[i] = q[i + 1] /\ q1[i][1] = "skip"
  BY <1>2, <1>4
<1>6. Calls(q1, d)
  BY <1>5 DEF Calls
<1>7. \A k : k # "skip" => ~Carries(q1, k)
  BY <1>5 DEF Carries
<1>8. \A h : ~Ended(q1, h)
  BY <1>5 DEF Ended
<1>9. 1 \in DOMAIN q
  BY <1>2
<1>10. /\ q[1] = <<what, arg>>
       /\ what \in {"end", "skip", "named", "dash", "barrier", "surge", "vital", "shield", "kill"}
       /\ what = "kill" => arg \in Nat
       /\ what # "kill" => arg \in Hero
  BY <1>2 DEF Call
<1>11. Carries(q, what)
  BY <1>9 DEF Carries
<1>12. what = "end" => Ended(q, arg)
  BY <1>9, <1>10 DEF Ended
<1>13. Fitting(q[1], d)
  BY <1>4, <1>9
<1>14. /\ what \in {"surge", "vital", "barrier"} => d = "esper"
       /\ what = "shield" => d = "crusher"
       /\ what = "dash" => arg # d
  BY <1>13 DEF Fitting
<1> HIDE DEF what, arg
<1> QED BY <1>2, <1>3, <1>6, <1>7, <1>8, <1>10, <1>11, <1>12, <1>14 DEF q, g, what, arg

LEMMA Before ==
    ASSUME LessonsInv, NEW d \in Client
    PROVE  LET g == Other(d)
           IN  /\ TypeOK /\ ClientInv(d) /\ ClientInv(g) /\ d \in Hero /\ g \in Hero /\ g \in Client /\ g # d /\ Other(g) = d
               /\ \A h \in Hero : h = d \/ h = g
               /\ \A h \in Hero : Fit(tuto[d], enemies[d], h) /\ Fit(tuto[g], enemies[g], h)
               /\ Calls(chan[d], d) /\ Calls(chan[g], g) /\ chan[d] \in Seq(Call) /\ chan[g] \in Seq(Call)
               /\ HeroInv(tuto[d], enemies[d], tuto[g], enemies[g], chan[d], chan[g], hero[d], early, d)
               /\ HeroInv(tuto[g], enemies[g], tuto[d], enemies[d], chan[g], chan[d], hero[g], early, g)
<1> DEFINE g == Other(d)
<1>1. d \in Hero /\ g \in Hero /\ g \in Client /\ g # d /\ Other(g) = d /\ \A h \in Hero : h = d \/ h = g
  BY TwoHeroes
<1> HIDE DEF g
<1>2. TypeOK /\ ClientInv(d) /\ ClientInv(g)
  BY <1>1 DEF LessonsInv
<1>3. tuto[d] \in Record /\ tuto[g] \in Record /\ chan[d] \in Seq(Call) /\ chan[g] \in Seq(Call)
  BY <1>1, <1>2 DEF TypeOK
<1>4. \A h \in Hero : Fit(tuto[d], enemies[d], h) /\ Fit(tuto[g], enemies[g], h)
  BY <1>2, <1>3 DEF ClientInv, Fit
<1>5. Calls(chan[d], d) /\ Calls(chan[g], g)
  BY <1>2 DEF ClientInv
<1>6. \A h \in Hero :
          HeroInv(tuto[h], enemies[h], tuto[Other(h)], enemies[Other(h)], chan[h], chan[Other(h)], hero[h], early, h)
  BY DEF LessonsInv, HeroesInv
<1>7. HeroInv(tuto[d], enemies[d], tuto[g], enemies[g], chan[d], chan[g], hero[d], early, d)
  BY <1>1, <1>6 DEF g
<1>8. HeroInv(tuto[g], enemies[g], tuto[d], enemies[d], chan[g], chan[d], hero[g], early, g)
  BY <1>1, <1>6
<1> QED BY <1>1, <1>2, <1>3, <1>4, <1>5, <1>7, <1>8 DEF g

LEMMA StepIs ==
    ASSUME LessonsInv, NEW d \in Client, Alone(d),
           tuto' \in [Client -> Record], enemies' \in [Client -> SUBSET Enemy], named' \in [Client -> {"no", "alive", "dead"}],
           hero' \in [Hero -> HeroState], chan' \in [Client -> Seq(Call)], skips' \in Nat, early' \in BOOLEAN,
           Names(tuto'[d], enemies'[d]), Shared(tuto'[d]), \A h \in Hero : Course(tuto'[d], enemies'[d], h),
           Calls(chan'[d], d), Calls(chan'[Other(d)], Other(d)),
           HeroInv(tuto'[d], enemies'[d], tuto[Other(d)], enemies[Other(d)], chan'[d], chan'[Other(d)], hero'[d], early', d),
           HeroInv(tuto[Other(d)], enemies[Other(d)], tuto'[d], enemies'[d], chan'[Other(d)], chan'[d], hero'[Other(d)], early',
                   Other(d))
    PROVE  LessonsInv'
<1> DEFINE g == Other(d)
<1>1. d \in Hero /\ g \in Hero /\ g \in Client /\ g # d /\ Other(g) = d /\ (\A h \in Hero : h = d \/ h = g) /\ Client = Hero
  BY TwoHeroes
<1>2. tuto'[g] = tuto[g] /\ enemies'[g] = enemies[g]
  BY <1>1 DEF Alone
<1>3. TypeOK'
  BY DEF TypeOK
<1>4. ASSUME NEW e \in Client
      PROVE  ClientInv(e)'
  BY <1>1, <1>2 DEF ClientInv, LessonsInv
<1>5. ASSUME NEW h \in Hero
      PROVE  HeroInv(tuto'[h], enemies'[h], tuto'[Other(h)], enemies'[Other(h)], chan'[h], chan'[Other(h)], hero'[h], early', h)
  BY <1>2, <1>1
<1>6. HeroesInv'
  BY <1>5 DEF HeroesInv
<1> QED BY <1>3, <1>4, <1>6 DEF LessonsInv
-----------------------------------------------------------------------------
(* Every step of the lessons keeps the invariant.                           *)

LEMMA LateSame ==
    ASSUME NEW u, NEW v, NEW u1, NEW v1, NEW h, Same(u, v, u1, v1, h), u1.nowOn => u.nowOn, h \in u1.dashed => h \in u.dashed
    PROVE  Late(u1, v1, h) => Late(u, v, h)
BY DEF Same, Late, Finished, At

LEMMA OtherFrame ==
    ASSUME TutorialAssumption,
           NEW t, NEW s, NEW u, NEW v, NEW q, NEW p, NEW x, NEW skipped,
           NEW u1, NEW v1, NEW q1, NEW p1, NEW skipped1, NEW h \in Hero,
           Fit(t, s, h), Fit(u, v, h), HeroInv(t, s, u, v, q, p, x, skipped, h), Same(u, v, u1, v1, h),
           u1.nowOn => u.nowOn, h \in u1.dashed => h \in u.dashed, Ended(q1, h) => Ended(q, h),
           \A k \in {"kill", "dash", "barrier"} : Carries(p1, k) => Carries(p, k), skipped => skipped1
    PROVE  HeroInv(t, s, u1, v1, q1, p1, x, skipped1, h)
<1>1. Late(u1, v1, h) => Late(u, v, h)
  BY LateSame
<1>2. Same(t, s, t, s, h) /\ Kept(t, t, h) /\ SameHero(x, x)
  BY DEF Same, Kept, SameHero
<1>3. h \in u.dashed \/ Carries(p, "dash") => h \in t.dashed
  BY DEF HeroInv, Paired, Heard
<1>4. h \in u1.dashed \/ Carries(p1, "dash") => h \in t.dashed
  BY <1>3
<1> QED BY <1>1, <1>2, <1>4, Frame

LEMMA OwnFrame ==
    ASSUME TutorialAssumption,
           NEW t, NEW s, NEW u, NEW v, NEW q, NEW p, NEW x, NEW skipped,
           NEW t1, NEW s1, NEW q1, NEW p1, NEW x1, NEW skipped1, NEW h \in Hero,
           Fit(t, s, h), Fit(u, v, h), HeroInv(t, s, u, v, q, p, x, skipped, h), Same(t, s, t1, s1, h), Kept(t, t1, h),
           SameHero(x, x1), Ended(q1, h) => Ended(q, h),
           \A k \in {"kill", "dash", "barrier"} : Carries(p1, k) => Carries(p, k), skipped => skipped1
    PROVE  HeroInv(t1, s1, u, v, q1, p1, x1, skipped1, h)
<1>1. Same(u, v, u, v, h)
  BY DEF Same
<1>2. h \in u.dashed \/ Carries(p, "dash") => h \in t.dashed
  BY DEF HeroInv, Paired, Heard
<1>3. h \in u.dashed \/ Carries(p1, "dash") => h \in t1.dashed
  BY <1>2 DEF Kept
<1> QED BY <1>1, <1>3, Frame

LEMMA OwnDoes ==
    ASSUME TypeOK, NEW c, NEW h \in Hero, NEW f, Own(c, h, f), c = h => f \in HeroState
    PROVE  /\ hero' \in [Hero -> HeroState] /\ (c = h => hero'[h] = f)
           /\ \A k \in Hero : k # h \/ c # h => hero'[k] = hero[k]
BY DEF TypeOK, Own

LEMMA HeroSkills == All \in SUBSET All /\ AllSkills \in SUBSET AllSkills /\ {} \in SUBSET All
                    /\ {"move", "turn"} \in SUBSET All /\ {"dash"} \in SUBSET AllSkills /\ {"dash", "ultimate"} \in SUBSET AllSkills
                    /\ {"third"} \in SUBSET AllSkills /\ {} \in SUBSET AllSkills
BY DEF All, AllSkills

LEMMA StepSequence ==
    ASSUME TutorialAssumption, LessonsInv, NEW d \in Client, TutorialSequence(d)
    PROVE  LessonsInv'
<1> DEFINE g == Other(d)
           t == tuto[d]
           s == enemies[d]
           t1 == tuto'[d]
           u == tuto[g]
           v == enemies[g]
<1>1. /\ TypeOK /\ ClientInv(d) /\ d \in Hero /\ g \in Hero /\ g # d
      /\ \A h \in Hero : Fit(t, s, h) /\ Fit(u, v, h)
      /\ Calls(chan[d], d) /\ Calls(chan[g], g)
      /\ HeroInv(t, s, u, v, chan[d], chan[g], hero[d], early, d)
      /\ HeroInv(u, v, t, s, chan[g], chan[d], hero[g], early, g)
  BY Before
<1>2. /\ tuto' \in [Client -> Record] /\ enemies' \in [Client -> SUBSET Enemy]
      /\ Alone(d) /\ enemies'[d] = s /\ Names(t1, s) /\ FlagsKept(t, t1)
      /\ ~t.begun /\ t1.begun /\ t.nowOn
      /\ \A k \in Hero : t1.step[k] = "on" /\ t1.lesson[k] = t.lesson[k] /\ t1.left[k] = t.left[k]
  BY <1>1, SequenceDoes
<1> DEFINE a == IF d = "esper" THEN All ELSE {"move", "turn"}
           x1 == [hero[d] EXCEPT !.immortal = TRUE, !.skills = {"dash"}, !.can = a]
<1>3. /\ named' = named /\ chan' = chan /\ skips' = skips /\ early' = early
      /\ hero' = [hero EXCEPT ![d] = x1]
  BY <1>1 DEF TutorialSequence, TypeOK, HeroState
<1>4. hero[d] \in HeroState /\ a \in SUBSET All /\ {"dash"} \in SUBSET AllSkills
  BY <1>1, HeroSkills DEF TypeOK
<1>5. x1 \in HeroState /\ x1.skills = {"dash"} /\ x1.can = IF d = "esper" THEN All ELSE {"move", "turn"}
  <2> HIDE DEF a
  <2>1. x1 \in HeroState
    BY <1>4, Zenon DEF HeroState
  <2>2. x1.skills = {"dash"} /\ x1.can = a
    BY <1>4 DEF HeroState
  <2> QED BY <2>1, <2>2 DEF a
<1> HIDE DEF x1
<1>6. hero' \in [Hero -> HeroState] /\ hero'[d] = x1 /\ hero'[g] = hero[g]
  BY <1>1, <1>3, <1>5 DEF TypeOK
<1> HIDE DEF g, t, s, t1, u, v
<1>7. \A h \in Hero : Course(t1, s, h)
  BY <1>1, <1>2, CourseStart DEF Fit
<1>8. Shared(t1)
  BY <1>1, <1>2 DEF Fit, Shared, FlagsKept
<1>9. t1 \in Record
  BY <1>2 DEF t1
<1>10. \A h \in Hero : Fit(t1, s, h)
  BY <1>2, <1>7, <1>8, <1>9 DEF Fit
<1>11. HeroInv(t1, s, u, v, chan[d], chan[g], x1, early, d)
  BY <1>1, <1>2, <1>5, <1>10, OwnStart
<1>12. HeroInv(u, v, t1, s, chan[g], chan[d], hero[g], early, g)
  BY <1>1, <1>2, <1>10, OtherStart
<1>13. named' \in [Client -> {"no", "alive", "dead"}] /\ chan' \in [Client -> Seq(Call)] /\ skips' \in Nat /\ early' \in BOOLEAN
  BY <1>1, <1>3 DEF TypeOK
<1> QED BY <1>1, <1>2, <1>3, <1>6, <1>7, <1>8, <1>11, <1>12, <1>13, StepIs DEF g, t, s, t1, u, v

LEMMA LessonSkills ==
    ASSUME TutorialAssumption, NEW t, NEW s, NEW h \in Hero, Fit(t, s, h)
    PROVE  Allowed(h, At(t, h)) \in SUBSET AllSkills
  BY AtIs DEF Fit, Course, Allowed, AllSkills

LEMMA StepQuest ==
    ASSUME TutorialAssumption, LessonsInv, NEW d \in Client, NEW k \in Hero, Quest(d, k)
    PROVE  LessonsInv'
<1> DEFINE g == Other(d)
           t == tuto[d]
           s == enemies[d]
           t1 == tuto'[d]
           s1 == enemies'[d]
           u == tuto[g]
           v == enemies[g]
           x1 == hero'[d]
<1>1. /\ TypeOK /\ ClientInv(d) /\ d \in Hero /\ g \in Hero /\ g # d /\ (\A h \in Hero : h = d \/ h = g)
      /\ \A h \in Hero : Fit(t, s, h) /\ Fit(u, v, h)
      /\ Calls(chan[d], d) /\ Calls(chan[g], g)
      /\ HeroInv(t, s, u, v, chan[d], chan[g], hero[d], early, d)
      /\ HeroInv(u, v, t, s, chan[g], chan[d], hero[g], early, g)
  BY Before
<1>2. /\ tuto' \in [Client -> Record] /\ enemies' \in [Client -> SUBSET Enemy]
      /\ Alone(d) /\ FlagsKept(t, t1) /\ Names(t1, s1)
      /\ \A h \in Hero : h # k => Same(t, s, t1, s1, h)
      /\ t.nowOn /\ t.step[k] = "due" /\ t1.step[k] = "on" /\ t1.begun = t.begun
      /\ t1.lesson[k] = t.lesson[k]
      /\ t1.left[k] = IF At(t, k) = "ultimate" THEN Spawns[k] ELSE t.left[k]
      /\ IF Brings(k, At(t, k))
         THEN Zone(s1, k) # {} /\ Cardinality(Zone(s1, k)) = Cardinality(Zone(s, k)) + 1
         ELSE Zone(s1, k) = Zone(s, k)
  BY <1>1, QuestDoes
<1>3. /\ named' = named /\ chan' = chan /\ skips' = skips /\ early' = early
      /\ hero' \in [Hero -> HeroState] /\ hero'[g] = hero[g]
      /\ d = k => /\ x1.skills = Allowed(d, At(t, d))
                  /\ x1.can = IF d = "crusher" /\ At(t, d) = "primary" THEN All ELSE hero[d].can
      /\ d # k => x1 = hero[d]
  <2> DEFINE a == IF k = "crusher" /\ At(t, k) = "primary" THEN All ELSE hero[k].can
             b == Allowed(k, At(t, k))
             f == [hero[k] EXCEPT !.skills = b, !.can = a]
  <2>1. hero[k] \in HeroState
    BY <1>1 DEF TypeOK
  <2>2. named' = named /\ chan' = chan /\ skips' = skips /\ early' = early /\ Own(d, k, f)
    BY DoneIs, <2>1 DEF Quest, HeroState
  <2>3. a \in SUBSET All /\ b \in SUBSET AllSkills
    BY <1>1, LessonSkills, <2>1 DEF HeroState
  <2> HIDE DEF a, b
  <2>4. f \in HeroState
    BY <2>1, <2>3, Zenon DEF HeroState
  <2>5. f.skills = b /\ f.can = a
    BY <2>1 DEF HeroState
  <2> HIDE DEF f, t, g
  <2>6. hero' \in [Hero -> HeroState] /\ (d = k => hero'[d] = f) /\ (\A h \in Hero : h # k \/ d # k => hero'[h] = hero[h])
    BY <1>1, <2>2, <2>4, OwnDoes
  <2> QED BY <1>1, <2>2, <2>5, <2>6 DEF a, b
<1> HIDE DEF g, t, s, t1, s1, u, v, x1
<1>4. t \in Record /\ t1 \in Record /\ Names(t, s)
  BY <1>1, <1>2 DEF t1, Fit
<1>5. /\ Course(t1, s1, k) /\ Count(t1, s1, k) = Count(t, s, k)
      /\ Fight(k, At(t, k)) /\ At(t, k) # "primary" => ~Finished(t1, s1, k)
  BY <1>1, <1>2, <1>4, CourseQuest DEF Fit
<1>6. \A h \in Hero : Course(t1, s1, h)
  <2>1. ASSUME NEW h \in Hero, h # k
        PROVE  Course(t1, s1, h)
    BY <1>1, <1>2, <2>1, CourseSame DEF Fit, FlagsKept
  <2> QED BY <1>5, <2>1
<1>7. Shared(t1)
  BY <1>1, <1>2 DEF Fit, Shared, FlagsKept
<1>8. \A h \in Hero : Fit(t1, s1, h)
  BY <1>2, <1>4, <1>6, <1>7 DEF Fit
<1>9. HeroInv(t1, s1, u, v, chan[d], chan[g], x1, early, d)
  <2>1. CASE d = k
    BY <1>1, <1>2, <1>3, <1>5, <1>8, <2>1, OwnQuest
  <2>2. CASE d # k
    <3>1. Same(t, s, t1, s1, d) /\ Kept(t, t1, d) /\ SameHero(hero[d], x1)
      BY <1>1, <1>2, <1>3, <2>2 DEF Kept, SameHero, FlagsKept
    <3> QED BY <1>1, <3>1, OwnFrame
  <2> QED BY <2>1, <2>2
<1>10. HeroInv(u, v, t1, s1, chan[g], chan[d], hero[g], early, g)
  <2>1. CASE g = k
    BY <1>1, <1>2, <1>5, <1>8, <2>1, OtherQuest
  <2>2. CASE g # k
    BY <1>1, <1>2, <2>2, OtherFrame DEF FlagsKept
  <2> QED BY <2>1, <2>2
<1>11. named' \in [Client -> {"no", "alive", "dead"}] /\ chan' \in [Client -> Seq(Call)] /\ skips' \in Nat /\ early' \in BOOLEAN
  BY <1>1, <1>3 DEF TypeOK
<1> QED BY <1>1, <1>2, <1>3, <1>6, <1>7, <1>9, <1>10, <1>11, StepIs DEF g, t, s, t1, s1, u, v, x1

LEMMA StepLearnt ==
    ASSUME TutorialAssumption, LessonsInv, NEW d \in Client, NEW k \in Hero, Learnt(d, k)
    PROVE  LessonsInv'
<1> DEFINE g == Other(d)
           t == tuto[d]
           s == enemies[d]
           t1 == tuto'[d]
           u == tuto[g]
           v == enemies[g]
           x1 == hero'[d]
<1>1. /\ TypeOK /\ ClientInv(d) /\ d \in Hero /\ g \in Hero /\ g # d /\ (\A h \in Hero : h = d \/ h = g)
      /\ \A h \in Hero : Fit(t, s, h) /\ Fit(u, v, h)
      /\ Calls(chan[d], d) /\ Calls(chan[g], g)
      /\ HeroInv(t, s, u, v, chan[d], chan[g], hero[d], early, d)
      /\ HeroInv(u, v, t, s, chan[g], chan[d], hero[g], early, g)
  BY Before
<1>2. /\ tuto' \in [Client -> Record] /\ enemies' \in [Client -> SUBSET Enemy]
      /\ Alone(d) /\ FlagsKept(t, t1) /\ Names(t1, s) /\ enemies'[d] = s
      /\ \A h \in Hero : h # k => Same(t, s, t1, s, h)
      /\ t.nowOn /\ t.step[k] = "on" /\ t1.step[k] = "clear" /\ t1.begun = t.begun
      /\ t1.lesson[k] = t.lesson[k] /\ t1.left[k] = t.left[k]
      /\ Finished(t, s, k)
      /\ k = "crusher" /\ At(t, k) = "ultimate" => d = k
  BY <1>1, LearntDoes
<1>3. /\ named' = named /\ chan' = chan /\ skips' = skips /\ early' = early
      /\ hero' \in [Hero -> HeroState] /\ hero'[g] = hero[g]
      /\ d = k => (At(t, d) # "ultimate" => x1.can = hero[d].can)
      /\ d # k => x1 = hero[d]
  <2> DEFINE f == IF At(t, k) = "ultimate" THEN [hero[k] EXCEPT !.can = {}] ELSE hero[k]
  <2>1. hero[k] \in HeroState
    BY <1>1 DEF TypeOK
  <2>2. named' = named /\ chan' = chan /\ skips' = skips /\ early' = early /\ Own(d, k, f)
    BY DoneIs DEF Learnt
  <2>3. [hero[k] EXCEPT !.can = {}] \in HeroState
    BY <2>1 DEF HeroState
  <2>4. f \in HeroState /\ (At(t, k) # "ultimate" => f = hero[k])
    BY <2>1, <2>3
  <2> HIDE DEF f, t, g
  <2>5. hero' \in [Hero -> HeroState] /\ (d = k => hero'[d] = f) /\ (\A h \in Hero : h # k \/ d # k => hero'[h] = hero[h])
    BY <1>1, <2>2, <2>4, OwnDoes
  <2> QED BY <1>1, <2>2, <2>4, <2>5
<1> HIDE DEF g, t, s, t1, u, v, x1
<1>4. t \in Record /\ t1 \in Record /\ Names(t, s)
  BY <1>1, <1>2 DEF t1, Fit
<1>5. Course(t1, s, k) /\ Count(t1, s, k) = Count(t, s, k)
  BY <1>1, <1>2, <1>4, CourseLearnt DEF Fit
<1>6. \A h \in Hero : Course(t1, s, h)
  <2>1. ASSUME NEW h \in Hero, h # k
        PROVE  Course(t1, s, h)
    BY <1>1, <1>2, <2>1, CourseSame DEF Fit, FlagsKept
  <2> QED BY <1>5, <2>1
<1>7. Shared(t1)
  BY <1>1, <1>2 DEF Fit, Shared, FlagsKept
<1>8. \A h \in Hero : Fit(t1, s, h)
  BY <1>2, <1>4, <1>6, <1>7 DEF Fit
<1>9. HeroInv(t1, s, u, v, chan[d], chan[g], x1, early, d)
  <2>1. CASE d = k
    BY <1>1, <1>2, <1>3, <1>5, <1>8, <2>1, OwnLearnt
  <2>2. CASE d # k
    <3>1. Same(t, s, t1, s, d) /\ Kept(t, t1, d) /\ SameHero(hero[d], x1)
      BY <1>1, <1>2, <1>3, <2>2 DEF Kept, SameHero, FlagsKept
    <3> QED BY <1>1, <3>1, OwnFrame
  <2> QED BY <2>1, <2>2
<1>10. HeroInv(u, v, t1, s, chan[g], chan[d], hero[g], early, g)
  <2>1. CASE g = k
    BY <1>1, <1>2, <1>5, <1>8, <2>1, OtherLearnt
  <2>2. CASE g # k
    BY <1>1, <1>2, <2>2, OtherFrame DEF FlagsKept
  <2> QED BY <2>1, <2>2
<1>11. named' \in [Client -> {"no", "alive", "dead"}] /\ chan' \in [Client -> Seq(Call)] /\ skips' \in Nat /\ early' \in BOOLEAN
  BY <1>1, <1>3 DEF TypeOK
<1> QED BY <1>1, <1>2, <1>3, <1>6, <1>7, <1>9, <1>10, <1>11, StepIs DEF g, t, s, t1, u, v, x1

LEMMA StepSpawn ==
    ASSUME TutorialAssumption, LessonsInv, NEW d \in Client, NEW k \in Hero, SpawnTimer(d, k)
    PROVE  LessonsInv'
<1> DEFINE g == Other(d)
           t == tuto[d]
           s == enemies[d]
           t1 == tuto'[d]
           s1 == enemies'[d]
           u == tuto[g]
           v == enemies[g]
<1>1. /\ TypeOK /\ ClientInv(d) /\ d \in Hero /\ g \in Hero /\ g # d /\ (\A h \in Hero : h = d \/ h = g)
      /\ \A h \in Hero : Fit(t, s, h) /\ Fit(u, v, h)
      /\ Calls(chan[d], d) /\ Calls(chan[g], g)
      /\ HeroInv(t, s, u, v, chan[d], chan[g], hero[d], early, d)
      /\ HeroInv(u, v, t, s, chan[g], chan[d], hero[g], early, g)
  BY Before
<1>2. /\ tuto' \in [Client -> Record] /\ enemies' \in [Client -> SUBSET Enemy]
      /\ Alone(d) /\ FlagsKept(t, t1) /\ Names(t1, s1)
      /\ \A h \in Hero : h # k => Same(t, s, t1, s1, h)
      /\ t.left[k] > 0 /\ t1.left[k] = t.left[k] - 1
      /\ t1.begun = t.begun /\ t1.lesson[k] = t.lesson[k] /\ t1.step[k] = t.step[k]
      /\ Zone(s1, k) # {} /\ Cardinality(Zone(s1, k)) = Cardinality(Zone(s, k)) + 1
  BY <1>1, SpawnTimerDoes
<1>3. named' = named /\ hero' = hero /\ chan' = chan /\ skips' = skips /\ early' = early
  BY DEF SpawnTimer
<1> HIDE DEF g, t, s, t1, s1, u, v
<1>4. t \in Record /\ t1 \in Record /\ Names(t, s)
  BY <1>1, <1>2 DEF t1, Fit
<1>5. Course(t1, s1, k) /\ Count(t1, s1, k) = Count(t, s, k) /\ t.step[k] = "on" /\ ~Finished(t1, s1, k)
  BY <1>1, <1>2, <1>4, CourseSpawn DEF Fit
<1>6. \A h \in Hero : Course(t1, s1, h)
  <2>1. ASSUME NEW h \in Hero, h # k
        PROVE  Course(t1, s1, h)
    BY <1>1, <1>2, <2>1, CourseSame DEF Fit, FlagsKept
  <2> QED BY <1>5, <2>1
<1>7. Shared(t1)
  BY <1>1, <1>2 DEF Fit, Shared, FlagsKept
<1>8. HeroInv(t1, s1, u, v, chan[d], chan[g], hero[d], early, d)
  BY <1>1, <1>2, <1>5, OwnSpawn, OwnFrame DEF Kept, SameHero, FlagsKept
<1>9. HeroInv(u, v, t1, s1, chan[g], chan[d], hero[g], early, g)
  BY <1>1, <1>2, <1>5, OtherSpawn, OtherFrame DEF FlagsKept
<1>10. /\ named' \in [Client -> {"no", "alive", "dead"}] /\ hero' \in [Hero -> HeroState]
       /\ chan' \in [Client -> Seq(Call)] /\ skips' \in Nat /\ early' \in BOOLEAN
  BY <1>1, <1>3 DEF TypeOK
<1> QED BY <1>1, <1>2, <1>3, <1>6, <1>7, <1>8, <1>9, <1>10, StepIs DEF g, t, s, t1, s1, u, v

LEMMA SettledIs ==
    ASSUME Settled, NEW d \in Client
    PROVE  Silent(chan[d]) /\ \A h \in Hero : Quiet(tuto[d], enemies[d], h)
  BY DoneIs DEF Settled, Silent, Seen, Quiet

LEMMA ReadyIs ==
    ASSUME NEW d \in Client, Ready(d)
    PROVE  Silent(chan[Other(d)]) /\ \A c \in Client : tuto[c].step[d] # "clear"
BY DEF Ready, Silent

LEMMA StepClear ==
    ASSUME TutorialAssumption, LessonsInv, NEW d \in Client, NEW k \in Hero, ClearTimer(d, k), At(tuto[d], k) # "ultimate"
    PROVE  LessonsInv'
<1> DEFINE g == Other(d)
           t == tuto[d]
           s == enemies[d]
           t1 == tuto'[d]
           s1 == enemies'[d]
           u == tuto[g]
           v == enemies[g]
<1>1. /\ TypeOK /\ ClientInv(d) /\ d \in Hero /\ g \in Hero /\ g \in Client /\ g # d /\ (\A h \in Hero : h = d \/ h = g)
      /\ \A h \in Hero : Fit(t, s, h) /\ Fit(u, v, h)
      /\ Calls(chan[d], d) /\ Calls(chan[g], g)
      /\ HeroInv(t, s, u, v, chan[d], chan[g], hero[d], early, d)
      /\ HeroInv(u, v, t, s, chan[g], chan[d], hero[g], early, g)
  BY Before
<1>2. /\ tuto' \in [Client -> Record] /\ enemies' \in [Client -> SUBSET Enemy]
      /\ Alone(d) /\ FlagsKept(t, t1) /\ Names(t1, s1) /\ hero' = hero /\ chan' = chan
      /\ \A h \in Hero : h # k => Same(t, s, t1, s1, h)
      /\ t.step[k] = "clear" /\ t1.step[k] = "due"
      /\ t1.lesson[k] = t.lesson[k] + 1 /\ t1.left[k] = t.left[k] /\ t1.begun = t.begun
      /\ IF At(t, k) = "dash"
         THEN Zone(s1, k) # {} /\ Cardinality(Zone(s1, k)) = Cardinality(Zone(s, k)) + 1
         ELSE Zone(s1, k) = Zone(s, k)
  BY <1>1, ClearDoes
<1>3. named' = named /\ skips' = skips /\ early' = early /\ Settled
  BY DEF ClearTimer
<1>4. /\ Silent(chan[d]) /\ Silent(chan[g])
      /\ \A h \in Hero : Quiet(t, s, h) /\ Quiet(u, v, h)
  BY <1>1, <1>3, SettledIs
<1>5. At(t, k) # "ultimate"
  OBVIOUS
<1> HIDE DEF g, t, s, t1, s1, u, v
<1>6. t \in Record /\ t1 \in Record /\ Names(t, s)
  BY <1>1, <1>2 DEF t1, Fit
<1>7. Course(t1, s1, k) /\ (Fight(k, At(t1, k)) => Count(t1, s1, k) = Full(k, At(t1, k)))
  BY <1>1, <1>2, FitHas, <1>5, <1>6, CourseNext DEF Fit
<1>8. \A h \in Hero : Course(t1, s1, h)
  <2>1. ASSUME NEW h \in Hero, h # k
        PROVE  Course(t1, s1, h)
    BY <1>1, <1>2, <2>1, CourseSame DEF Fit, FlagsKept
  <2> QED BY <1>7, <2>1
<1>9. Shared(t1)
  BY <1>1, <1>2 DEF Fit, Shared, FlagsKept
<1>10. \A h \in Hero : Fit(t1, s1, h)
  BY <1>2, <1>6, <1>8, <1>9 DEF Fit
<1>11. HeroInv(t1, s1, u, v, chan[d], chan[g], hero[d], early, d)
  BY <1>1, <1>2, <1>4, <1>5, <1>7, <1>10, OwnClear, OwnFrame DEF Kept, SameHero, FlagsKept
<1>12. HeroInv(u, v, t1, s1, chan[g], chan[d], hero[g], early, g)
  BY <1>1, <1>2, <1>4, <1>5, <1>7, <1>10, OtherClear, OtherFrame DEF FlagsKept
<1>13. /\ named' \in [Client -> {"no", "alive", "dead"}] /\ hero' \in [Hero -> HeroState]
       /\ chan' \in [Client -> Seq(Call)] /\ skips' \in Nat /\ early' \in BOOLEAN
  BY <1>1, <1>2, <1>3 DEF TypeOK
<1> QED BY <1>1, <1>2, <1>3, <1>8, <1>9, <1>11, <1>12, <1>13, StepIs DEF g, t, s, t1, s1, u, v

LEMMA StepEnd ==
    ASSUME TutorialAssumption, LessonsInv, GaugeInv, NEW d \in Client, NEW k \in Hero, ClearTimer(d, k), At(tuto[d], k) = "ultimate"
    PROVE  LessonsInv'
<1> DEFINE g == Other(d)
           t == tuto[d]
           s == enemies[d]
           t1 == tuto'[d]
           u == tuto[g]
           v == enemies[g]
           x1 == hero'[d]
           p1 == chan'[g]
           call == <<"end", k>>
<1>1. /\ TypeOK /\ ClientInv(d) /\ d \in Hero /\ g \in Hero /\ g \in Client /\ g # d /\ (\A h \in Hero : h = d \/ h = g)
      /\ \A h \in Hero : Fit(t, s, h) /\ Fit(u, v, h)
      /\ Calls(chan[d], d) /\ Calls(chan[g], g)
      /\ HeroInv(t, s, u, v, chan[d], chan[g], hero[d], early, d)
      /\ HeroInv(u, v, t, s, chan[g], chan[d], hero[g], early, g)
  BY Before
<1>2. /\ tuto' \in [Client -> Record] /\ enemies' \in [Client -> SUBSET Enemy]
      /\ Alone(d) /\ Names(t1, s) /\ enemies'[d] = s
      /\ \A h \in Hero : h # k => Same(t, s, t1, s, h)
      /\ t.step[k] = "clear" /\ t1.step[k] = "idle"
      /\ t1.lesson[k] = t.lesson[k] /\ t1.left[k] = t.left[k] /\ t1.begun = t.begun
      /\ t1.coop = t.coop \cup {k} /\ t1.nowOn = t.nowOn /\ t1.dashed = t.dashed
      /\ t1.stage = t.stage /\ t1.shared = t.shared /\ t1.done = t.done /\ t1.last = t.last
  BY <1>1, EndDoes
<1>3. named' = named /\ skips' = skips /\ early' = early /\ Settled
  BY DEF ClearTimer
<1>4. /\ Silent(chan[d]) /\ Silent(chan[g])
      /\ \A h \in Hero : Quiet(t, s, h) /\ Quiet(u, v, h)
  BY <1>1, <1>3, SettledIs
<1>5. /\ chan' \in [Client -> Seq(Call)] /\ chan'[d] = chan[d] /\ Calls(p1, g)
      /\ \A j : j # "end" => ~Carries(p1, j)
      /\ g # k => (Ended(p1, g) => Ended(chan[g], g))
  <2>1. Send(d, call)
    BY DoneIs DEF ClearTimer
  <2>2. call \in Call /\ Fitting(call, g) /\ call[1] = "end" /\ call[2] = k
    BY DEF Call, Fitting
  <2> HIDE DEF call
  <2> QED BY <1>1, <1>4, <2>1, <2>2, SendDoes
<1>6. /\ hero' \in [Hero -> HeroState] /\ hero'[g] = hero[g]
      /\ d = k => x1.can = All /\ x1.skills = hero[d].skills
      /\ d # k => x1 = hero[d]
  <2> DEFINE f == [hero[k] EXCEPT !.place = "cooperation", !.can = All]
  <2>1. hero[k] \in HeroState /\ Own(d, k, f)
    BY DoneIs, <1>1 DEF TypeOK, ClearTimer, EndSolo
  <2>2. f \in HeroState
    <3> DEFINE a == All
    <3>1. a \in SUBSET All
      OBVIOUS
    <3> HIDE DEF a
    <3>2. [hero[k] EXCEPT !.place = "cooperation", !.can = a] \in HeroState
      BY <2>1, <3>1, Zenon DEF HeroState
    <3> QED BY <3>2 DEF a
  <2>3. f.can = All /\ f.skills = hero[k].skills
    BY <2>1 DEF HeroState
  <2> HIDE DEF f, g
  <2>4. hero' \in [Hero -> HeroState] /\ (d = k => hero'[d] = f) /\ (\A h \in Hero : h # k \/ d # k => hero'[h] = hero[h])
    BY <1>1, <2>1, <2>2, OwnDoes
  <2> QED BY <1>1, <2>3, <2>4
<1>7. At(t, k) = "ultimate"
  OBVIOUS
<1>18. g = k => g = "esper"
  BY <1>1, <1>2, <1>7, TwoHeroes DEF GaugeInv, LastClear
<1> HIDE DEF g, t, s, t1, u, v, x1, p1
<1>8. t \in Record /\ t1 \in Record /\ Names(t, s) /\ t.coop \in SUBSET Hero
  BY <1>1, <1>2, RecordHas DEF t1, Fit
<1>9. /\ t1.nowOn = t.nowOn /\ t1.dashed = t.dashed /\ t1.stage = t.stage /\ t1.shared = t.shared
      /\ t1.done = t.done /\ t1.last = t.last
  BY <1>2
<1>10. Course(t1, s, k) /\ t.lesson[k] = End(k) /\ Count(t1, s, k) = 0
  BY <1>1, <1>2, <1>7, <1>8, CourseEnd DEF Fit
<1>11. \A h \in Hero : Course(t1, s, h)
  <2>1. ASSUME NEW h \in Hero, h # k
        PROVE  Course(t1, s, h)
    BY <1>1, <1>2, <2>1, CourseSame DEF Fit
  <2> QED BY <1>10, <2>1
<1>12. Shared(t1)
  BY <1>2, <1>1, <1>9 DEF Fit, Shared
<1>13. \A h \in Hero : Fit(t1, s, h)
  BY <1>2, <1>8, <1>11, <1>12 DEF Fit
<1>14. HeroInv(t1, s, u, v, chan[d], p1, x1, early, d)
  <2>1. CASE d = k
    <3>1. d \in t1.coop
      BY <1>2, <2>1
    <3> QED BY <1>1, <1>2, <1>4, <1>5, <1>6, <1>9, <1>10, <1>13, <2>1, <3>1, OwnEnd
  <2>2. CASE d # k
    <3>1. Same(t, s, t1, s, d) /\ Kept(t, t1, d) /\ SameHero(hero[d], x1)
      BY <1>1, <1>2, <1>6, <1>9, <2>2 DEF Kept, SameHero
    <3>2. \A j \in {"kill", "dash", "barrier"} : Carries(p1, j) => Carries(chan[g], j)
      BY <1>5
    <3> QED BY <1>1, <3>1, <3>2, OwnFrame
  <2> QED BY <2>1, <2>2
<1>15. HeroInv(u, v, t1, s, p1, chan[d], hero[g], early, g)
  <2>1. CASE g = k
    BY <1>1, <1>2, <1>4, <1>9, <1>10, <1>13, <1>18, <2>1, OtherEnd
  <2>2. CASE g # k
    BY <1>1, <1>2, <1>5, <2>2, <1>9, OtherFrame
  <2> QED BY <2>1, <2>2
<1>16. /\ named' \in [Client -> {"no", "alive", "dead"}] /\ skips' \in Nat /\ early' \in BOOLEAN
  BY <1>1, <1>3 DEF TypeOK
<1>17. Calls(chan'[d], d) /\ HeroInv(t1, s, u, v, chan'[d], p1, x1, early', d) /\ HeroInv(u, v, t1, s, p1, chan'[d], hero'[g], early', g)
  BY <1>1, <1>3, <1>5, <1>6, <1>14, <1>15
<1> QED BY <1>1, <1>2, <1>5, <1>6, <1>11, <1>12, <1>16, <1>17, StepIs DEF g, t, s, t1, u, v, x1, p1
-----------------------------------------------------------------------------
(* Every step of the cooperation, and of the skips, keeps it.               *)

LEMMA FlagsStep ==
    ASSUME LessonsInv, NEW d \in Client, Alone(d), tuto' \in [Client -> Record], enemies' = enemies,
           \A h \in Hero : Same(tuto[d], enemies[d], tuto'[d], enemies[d], h),
           \A h \in Hero : h \in tuto[d].coop => h \in tuto'[d].coop,
           tuto'[d].spawned = tuto[d].spawned, Shared(tuto'[d]),
           named' \in [Client -> {"no", "alive", "dead"}],
           hero' \in [Hero -> HeroState], chan' \in [Client -> Seq(Call)], skips' \in Nat, early' \in BOOLEAN,
           Calls(chan'[d], d), Calls(chan'[Other(d)], Other(d)),
           HeroInv(tuto'[d], enemies[d], tuto[Other(d)], enemies[Other(d)], chan'[d], chan'[Other(d)], hero'[d], early', d),
           HeroInv(tuto[Other(d)], enemies[Other(d)], tuto'[d], enemies[d], chan'[Other(d)], chan'[d], hero'[Other(d)], early',
                   Other(d))
    PROVE  LessonsInv'
  BY CourseSame, StepIs DEF LessonsInv, TypeOK, ClientInv, Names

LEMMA OneSets ==
    ASSUME TypeOK, NEW d \in Client, NEW t1 \in Record, tuto' = [tuto EXCEPT ![d] = t1], enemies' = enemies
    PROVE  Alone(d) /\ tuto' \in [Client -> Record] /\ tuto'[d] = t1
BY DEF TypeOK, Alone

LEMMA StepGauge ==
    ASSUME TutorialAssumption, LessonsInv, GaugeFull
    PROVE  LessonsInv'
<1> DEFINE d == "esper"
           g == Other(d)
           t == tuto[d]
           s == enemies[d]
           u == tuto[g]
           v == enemies[g]
           t1 == [t EXCEPT !.last = TRUE]
           x1 == [hero[d] EXCEPT !.skills = {"dash", "ultimate"}]
<1>0. d \in Client
  BY TwoHeroes
<1>1. /\ TypeOK /\ ClientInv(d) /\ d \in Hero /\ g \in Hero /\ g # d
      /\ \A h \in Hero : Fit(t, s, h) /\ Fit(u, v, h)
      /\ Calls(chan[d], d) /\ Calls(chan[g], g)
      /\ HeroInv(t, s, u, v, chan[d], chan[g], hero[d], early, d)
      /\ HeroInv(u, v, t, s, chan[g], chan[d], hero[g], early, g)
  BY <1>0, Before
<1>2. t \in Record /\ hero[d] \in HeroState
  BY <1>0, <1>1 DEF TypeOK
<1>3. /\ t.nowOn /\ t.step[d] = "on"
      /\ tuto' = [tuto EXCEPT ![d] = t1] /\ hero' = [hero EXCEPT ![d] = x1]
      /\ UNCHANGED <<enemies, named, chan, skips, early>>
  BY DEF GaugeFull
<1>4. t1 \in Record
  BY <1>2, Zenon DEF Record
<1>5. /\ \A h \in Hero : Same(t, s, t1, s, h)
      /\ t1.spawned = t.spawned /\ t1.nowOn = t.nowOn /\ t1.dashed = t.dashed /\ t1.coop = t.coop
      /\ t1.stage = t.stage /\ t1.shared = t.shared /\ t1.done = t.done /\ t1.last
  BY <1>2 DEF Same, Record
<1>6. x1 \in HeroState /\ x1.can = hero[d].can
  <2> DEFINE b == {"dash", "ultimate"}
  <2>1. b \in SUBSET AllSkills
    BY HeroSkills
  <2> HIDE DEF b
  <2>2. [hero[d] EXCEPT !.skills = b] \in HeroState
    BY <1>2, <2>1, Zenon DEF HeroState
  <2>3. [hero[d] EXCEPT !.skills = b].can = hero[d].can
    BY <1>2 DEF HeroState
  <2> QED BY <2>2, <2>3 DEF b
<1> HIDE DEF t1, x1
<1>7. Alone(d) /\ tuto' \in [Client -> Record] /\ tuto'[d] = t1
  BY <1>0, <1>1, <1>3, <1>4, OneSets
<1>8. hero' \in [Hero -> HeroState] /\ hero'[d] = x1 /\ hero'[g] = hero[g]
  BY <1>1, <1>3, <1>6 DEF TypeOK
<1> HIDE DEF g, t, s, u, v
<1>9. Shared(t1)
  BY <1>1, <1>5 DEF Fit, Shared
<1>10. HeroInv(t1, s, u, v, chan[d], chan[g], x1, early, d)
  BY <1>1, <1>3, <1>5, <1>6, OwnGauge
<1>11. HeroInv(u, v, t1, s, chan[g], chan[d], hero[g], early, g)
  BY <1>1, <1>5, OtherFrame
<1>12. named' \in [Client -> {"no", "alive", "dead"}] /\ chan' \in [Client -> Seq(Call)] /\ skips' \in Nat /\ early' \in BOOLEAN
  BY <1>1, <1>3 DEF TypeOK
<1> HIDE DEF d
<1> QED BY <1>0, <1>1, <1>3, <1>5, <1>7, <1>8, <1>9, <1>10, <1>11, <1>12, FlagsStep DEF g, t, s, u, v

LEMMA CoopSkillsAre ==
    ASSUME TypeOK, NEW d \in Hero, NEW n \in 1 .. 4
    PROVE  /\ CoopSkills(d, n) \in SUBSET AllSkills
           /\ n = 1 => CoopSkills(d, n) = AllSkills
           /\ n = 2 => CoopSkills(d, n) = hero[d].skills
           /\ n = 3 /\ d = "esper" => CoopSkills(d, n) = {"third"}
           /\ n = 4 /\ d = "crusher" => CoopSkills(d, n) = {"third"}
  BY HeroSkills DEF TypeOK, HeroState, CoopSkills

LEMMA StepCoopQuest ==
    ASSUME TutorialAssumption, LessonsInv, NEW d \in Client, CooperationQuest(d)
    PROVE  LessonsInv'
<1> DEFINE g == Other(d)
           t == tuto[d]
           s == enemies[d]
           u == tuto[g]
           v == enemies[g]
           n == IF t.stage = 0 THEN 1 ELSE t.stage
           t1 == [t EXCEPT !.stage = n, !.shared = "on"]
           k == CoopSkills(d, n)
           b == IF n = 2 THEN FALSE ELSE hero[d].immortal
           x1 == [hero[d] EXCEPT !.skills = k, !.immortal = b]
<1>1. /\ TypeOK /\ ClientInv(d) /\ d \in Hero /\ g \in Hero /\ g # d
      /\ \A h \in Hero : Fit(t, s, h) /\ Fit(u, v, h)
      /\ Calls(chan[d], d) /\ Calls(chan[g], g)
      /\ HeroInv(t, s, u, v, chan[d], chan[g], hero[d], early, d)
      /\ HeroInv(u, v, t, s, chan[g], chan[d], hero[g], early, g)
  BY Before
<1>2. t \in Record /\ hero[d] \in HeroState
  BY <1>1 DEF TypeOK
<1>3. /\ t.coop = Hero /\ n < 5
      /\ IF t.stage = 0 THEN t.shared = "idle" ELSE t.shared = "due"
      /\ named' = IF n = 2 THEN [named EXCEPT ![d] = "alive"] ELSE named
      /\ UNCHANGED <<enemies, chan, skips, early>>
  BY DEF CooperationQuest
<1>4. tuto' = [tuto EXCEPT ![d] = t1] /\ hero' = [hero EXCEPT ![d] = x1]
  <2>1. tuto' = [tuto EXCEPT ![d].stage = n, ![d].shared = "on"]
    BY DEF CooperationQuest
  <2>2. hero' = [hero EXCEPT ![d].skills = k, ![d].immortal = IF n = 2 THEN FALSE ELSE @]
    BY DEF CooperationQuest
  <2> HIDE DEF n, k
  <2>3. tuto' = [tuto EXCEPT ![d] = t1]
    BY <1>1, <1>2, <2>1 DEF TypeOK, Record
  <2>4. hero' = [hero EXCEPT ![d] = x1]
    BY <1>1, <1>2, <2>2 DEF TypeOK, HeroState
  <2> QED BY <2>3, <2>4
<1>5. Shared(t)
  BY <1>1 DEF Fit
<1>6. n \in 1 .. 4 /\ (t.stage = 0 => n = 1) /\ (t.stage # 0 => n = t.stage /\ t.stage \in 2 .. 4)
  BY <1>2, <1>3, <1>5, RecordHas DEF Shared
<1>7. k \in SUBSET AllSkills /\ b \in BOOLEAN
  BY <1>2, <1>1, <1>6, CoopSkillsAre DEF HeroState
<1>8. /\ t.stage = 0 => k = AllSkills
      /\ t.stage = 2 => k = hero[d].skills
      /\ t.stage = 3 /\ d = "esper" => k = {"third"}
      /\ t.stage = 4 /\ d = "crusher" => k = {"third"}
  BY <1>1, <1>6, CoopSkillsAre
<1> HIDE DEF n, k, b
<1>9. t1 \in Record
  <2>1. n \in Nat
    BY <1>6
  <2> QED BY <1>2, <2>1, Zenon DEF Record, Steps
<1>10. /\ \A h \in Hero : Same(t, s, t1, s, h)
       /\ t1.spawned = t.spawned /\ t1.nowOn = t.nowOn /\ t1.dashed = t.dashed /\ t1.coop = t.coop
       /\ t1.stage = n /\ t1.shared = "on" /\ t1.done = t.done
  BY <1>2 DEF Same, Record
<1>11. x1 \in HeroState
  BY <1>2, <1>7, Zenon DEF HeroState
<1>12. x1.can = hero[d].can /\ x1.skills = k
  BY <1>2 DEF HeroState
<1> HIDE DEF t1, x1
<1>13. Alone(d) /\ tuto' \in [Client -> Record] /\ tuto'[d] = t1
  BY <1>1, <1>3, <1>4, <1>9, OneSets
<1>14. hero' \in [Hero -> HeroState] /\ hero'[d] = x1 /\ hero'[g] = hero[g]
  BY <1>1, <1>4, <1>11 DEF TypeOK
<1> HIDE DEF g, t, s, u, v
<1>15. Shared(t1)
  BY <1>3, <1>6, <1>10 DEF Shared
<1>16. HeroInv(t1, s, u, v, chan[d], chan[g], x1, early, d)
  BY <1>3, <1>6, <1>8, <1>10, <1>12, <1>1, OwnCoopQuest
<1>17. HeroInv(u, v, t1, s, chan[g], chan[d], hero[g], early, g)
  BY <1>1, <1>10, OtherFrame
<1>18. /\ named' \in [Client -> {"no", "alive", "dead"}]
       /\ chan' \in [Client -> Seq(Call)] /\ skips' \in Nat /\ early' \in BOOLEAN
  BY <1>1, <1>3 DEF TypeOK
<1> QED BY <1>1, <1>3, <1>10, <1>13, <1>14, <1>15, <1>16, <1>17, <1>18, FlagsStep DEF g, t, s, u, v

LEMMA StepCoopLearnt ==
    ASSUME TutorialAssumption, LessonsInv, NEW d \in Client, CooperationLearnt(d)
    PROVE  LessonsInv'
<1> DEFINE g == Other(d)
           t == tuto[d]
           s == enemies[d]
           u == tuto[g]
           v == enemies[g]
           t1 == [t EXCEPT !.shared = "clear"]
<1>1. /\ TypeOK /\ ClientInv(d) /\ d \in Hero /\ g \in Hero /\ g # d
      /\ \A h \in Hero : Fit(t, s, h) /\ Fit(u, v, h)
      /\ Calls(chan[d], d) /\ Calls(chan[g], g)
      /\ HeroInv(t, s, u, v, chan[d], chan[g], hero[d], early, d)
      /\ HeroInv(u, v, t, s, chan[g], chan[d], hero[g], early, g)
  BY Before
<1>2. t \in Record
  BY <1>1 DEF TypeOK
<1>3. /\ t.shared = "on" /\ (t.stage # 2 => Asked[t.stage] \in t.done)
      /\ tuto' = [tuto EXCEPT ![d] = t1]
      /\ UNCHANGED <<enemies, named, hero, chan, skips, early>>
  BY DEF CooperationLearnt
<1>4. t1 \in Record
  BY <1>2, Zenon DEF Record, Steps
<1>5. /\ \A h \in Hero : Same(t, s, t1, s, h)
      /\ t1.spawned = t.spawned /\ t1.nowOn = t.nowOn /\ t1.dashed = t.dashed /\ t1.coop = t.coop
      /\ t1.stage = t.stage /\ t1.shared = "clear" /\ t1.done = t.done /\ t1.last = t.last
  BY <1>2 DEF Same, Record
<1> HIDE DEF t1
<1>6. Alone(d) /\ tuto' \in [Client -> Record] /\ tuto'[d] = t1
  BY <1>1, <1>3, <1>4, OneSets
<1> HIDE DEF g, t, s, u, v
<1>7. Shared(t1)
  BY <1>1, <1>3, <1>5 DEF Fit, Shared
<1>8. HeroInv(t1, s, u, v, chan[d], chan[g], hero[d], early, d)
  BY <1>1, <1>3, <1>5, OwnCoopLearnt
<1>9. HeroInv(u, v, t1, s, chan[g], chan[d], hero[g], early, g)
  BY <1>1, <1>5, OtherFrame
<1>10. /\ named' \in [Client -> {"no", "alive", "dead"}] /\ hero' \in [Hero -> HeroState]
       /\ chan' \in [Client -> Seq(Call)] /\ skips' \in Nat /\ early' \in BOOLEAN
  BY <1>1, <1>3 DEF TypeOK
<1> QED BY <1>1, <1>3, <1>5, <1>6, <1>7, <1>8, <1>9, <1>10, FlagsStep DEF g, t, s, u, v

LEMMA StepCoopClear ==
    ASSUME TutorialAssumption, LessonsInv, NEW d \in Client, CooperationQuestClear(d)
    PROVE  LessonsInv'
<1> DEFINE g == Other(d)
           t == tuto[d]
           s == enemies[d]
           u == tuto[g]
           v == enemies[g]
           n == t.stage + 1
           t1 == [t EXCEPT !.stage = n, !.shared = "due"]
<1>1. /\ TypeOK /\ ClientInv(d) /\ d \in Hero /\ g \in Hero /\ g # d
      /\ \A h \in Hero : Fit(t, s, h) /\ Fit(u, v, h)
      /\ Calls(chan[d], d) /\ Calls(chan[g], g)
      /\ HeroInv(t, s, u, v, chan[d], chan[g], hero[d], early, d)
      /\ HeroInv(u, v, t, s, chan[g], chan[d], hero[g], early, g)
  BY Before
<1>2. t \in Record /\ t.stage \in Nat
  BY <1>1, RecordHas DEF TypeOK
<1>3. /\ t.shared = "clear" /\ t.stage < 4 /\ Settled
      /\ tuto' = [tuto EXCEPT ![d] = t1]
      /\ UNCHANGED <<enemies, named, hero, chan, skips, early>>
  BY <1>1, <1>2 DEF CooperationQuestClear, TypeOK, Record
<1>4. Silent(chan[d])
  BY <1>3, SettledIs
<1>5. n \in Nat /\ n = t.stage + 1
  BY <1>2
<1> HIDE DEF n
<1>6. t1 \in Record
  BY <1>2, <1>5, Zenon DEF Record, Steps
<1>7. /\ \A h \in Hero : Same(t, s, t1, s, h)
      /\ t1.spawned = t.spawned /\ t1.nowOn = t.nowOn /\ t1.dashed = t.dashed /\ t1.coop = t.coop
      /\ t1.stage = n /\ t1.shared = "due" /\ t1.done = t.done /\ t1.last = t.last
  BY <1>2 DEF Same, Record
<1> HIDE DEF t1
<1>8. Alone(d) /\ tuto' \in [Client -> Record] /\ tuto'[d] = t1
  BY <1>1, <1>3, <1>6, OneSets
<1> HIDE DEF g, t, s, u, v
<1>9. Shared(t1)
  BY <1>1, <1>2, <1>3, <1>5, <1>7 DEF Fit, Shared
<1>10. HeroInv(t1, s, u, v, chan[d], chan[g], hero[d], early, d)
  BY <1>1, <1>3, <1>4, <1>5, <1>7, OwnCoopClear
<1>11. HeroInv(u, v, t1, s, chan[g], chan[d], hero[g], early, g)
  BY <1>1, <1>7, OtherFrame
<1>12. /\ named' \in [Client -> {"no", "alive", "dead"}] /\ hero' \in [Hero -> HeroState]
       /\ chan' \in [Client -> Seq(Call)] /\ skips' \in Nat /\ early' \in BOOLEAN
  BY <1>1, <1>3 DEF TypeOK
<1> QED BY <1>1, <1>3, <1>7, <1>8, <1>9, <1>10, <1>11, <1>12, FlagsStep DEF g, t, s, u, v

LEMMA SkippedStep ==
    ASSUME TutorialAssumption, LessonsInv, NEW d \in Client, NEW t0 \in Record, Skipped(d, t0), enemies' = enemies,
           \A h \in Hero : Same(tuto[d], enemies[d], t0, enemies[d], h),
           t0.spawned = tuto[d].spawned, t0.coop = tuto[d].coop, t0.dashed = tuto[d].dashed, t0.done = tuto[d].done,
           \/ t0.stage = tuto[d].stage /\ t0.shared = tuto[d].shared
           \/ t0.stage = 5 /\ t0.shared = "idle" /\ tuto[d].stage = 4,
           named' \in [Client -> {"no", "alive", "dead"}], chan' \in [Client -> Seq(Call)], skips' \in Nat,
           Calls(chan'[d], d), Calls(chan'[Other(d)], Other(d)),
           \A k : k # "skip" => (Carries(chan'[d], k) => Carries(chan[d], k)),
           \A k : k # "skip" => (Carries(chan'[Other(d)], k) => Carries(chan[Other(d)], k)),
           \A h \in Hero : Ended(chan'[d], h) => Ended(chan[d], h),
           \A h \in Hero : Ended(chan'[Other(d)], h) => Ended(chan[Other(d)], h)
    PROVE  LessonsInv'
<1> DEFINE g == Other(d)
           t == tuto[d]
           s == enemies[d]
           u == tuto[g]
           v == enemies[g]
           t1 == [t0 EXCEPT !.nowOn = FALSE]
           x1 == TutorialSkip(hero[d])
<1>1. /\ TypeOK /\ ClientInv(d) /\ d \in Hero /\ g \in Hero /\ g \in Client /\ g # d
      /\ \A h \in Hero : Fit(t, s, h) /\ Fit(u, v, h)
      /\ HeroInv(t, s, u, v, chan[d], chan[g], hero[d], early, d)
      /\ HeroInv(u, v, t, s, chan[g], chan[d], hero[g], early, g)
  BY Before
<1>2. t \in Record /\ hero[d] \in HeroState
  BY <1>1 DEF TypeOK
<1>3. /\ tuto' = [tuto EXCEPT ![d] = t1] /\ hero' = [hero EXCEPT ![d] = x1]
      /\ early' = (early \/ ~Clean(d))
  BY DEF Skipped
<1>4. t1 \in Record
  BY Zenon DEF Record
<1>5. /\ ~t1.nowOn /\ t1.begun = t0.begun /\ t1.lesson = t0.lesson /\ t1.step = t0.step /\ t1.left = t0.left
      /\ t1.spawned = t0.spawned /\ t1.dashed = t0.dashed /\ t1.coop = t0.coop
      /\ t1.stage = t0.stage /\ t1.shared = t0.shared /\ t1.done = t0.done
  BY DEF Record
<1>6. /\ \A h \in Hero : Same(t, s, t1, s, h)
      /\ t1.spawned = t.spawned /\ t1.dashed = t.dashed /\ t1.coop = t.coop /\ t1.done = t.done
      /\ \/ t1.stage = t.stage /\ t1.shared = t.shared
         \/ t1.stage = 5 /\ t1.shared = "idle" /\ t.stage = 4
  BY <1>5 DEF Same
<1>7. x1 \in HeroState /\ x1.can = All /\ x1.skills = AllSkills /\ ~x1.immortal /\ x1.place = "shelter"
  <2> DEFINE a == All
             b == AllSkills
  <2>1. a \in SUBSET All /\ b \in SUBSET AllSkills
    OBVIOUS
  <2>2. x1 = [hero[d] EXCEPT !.can = a, !.skills = b, !.immortal = FALSE, !.place = "shelter", !.full = FALSE]
    BY DEF TutorialSkip
  <2> HIDE DEF a, b, x1
  <2>3. x1 \in HeroState
    BY <1>2, <2>1, <2>2, Zenon DEF HeroState
  <2>4. x1.can = a /\ x1.skills = b /\ ~x1.immortal /\ x1.place = "shelter"
    BY <1>2, <2>2 DEF HeroState
  <2> QED BY <2>3, <2>4 DEF a, b
<1>8. early' \in BOOLEAN /\ (early => early')
      /\ (~early' => /\ ~t.begun \/ t.stage = 5 \/ (t.stage = 4 /\ t.shared = "clear")
                     /\ t.step[d] # "clear" /\ u.step[d] # "clear")
  BY <1>1, <1>3 DEF TypeOK, Clean
<1> HIDE DEF t1, x1
<1>9. Alone(d) /\ tuto' \in [Client -> Record] /\ tuto'[d] = t1
  BY <1>1, <1>3, <1>4, OneSets
<1>10. hero' \in [Hero -> HeroState] /\ hero'[d] = x1 /\ hero'[g] = hero[g]
  BY <1>1, <1>3, <1>7 DEF TypeOK
<1>11. Shared(t1)
  BY <1>1, <1>5, <1>6 DEF Fit, Shared
<1>12. /\ Ended(chan'[d], d) => Ended(chan[d], d)
       /\ Ended(chan'[g], g) => Ended(chan[g], g)
       /\ \A k \in {"kill", "dash", "barrier"} : Carries(chan'[d], k) => Carries(chan[d], k)
       /\ Carries(chan'[g], "kill") => Carries(chan[g], "kill")
       /\ Carries(chan'[g], "dash") => Carries(chan[g], "dash")
  BY <1>1
<1> HIDE DEF g, t, s, u, v
<1>13. HeroInv(t1, s, u, v, chan'[d], chan'[g], x1, early', d)
  BY <1>1, <1>5, <1>6, <1>7, <1>8, <1>12, OwnSkip
<1>14. HeroInv(u, v, t1, s, chan'[g], chan'[d], hero[g], early', g)
  BY <1>1, <1>5, <1>6, <1>8, <1>12, OtherFrame
<1> QED BY <1>1, <1>6, <1>8, <1>9, <1>10, <1>11, <1>13, <1>14, FlagsStep DEF g, t, s, u, v

LEMMA SkipSent ==
    ASSUME LessonsInv, NEW d \in Client, Send(d, <<"skip", d>>)
    PROVE  /\ chan' \in [Client -> Seq(Call)] /\ Calls(chan'[d], d) /\ Calls(chan'[Other(d)], Other(d))
           /\ \A k : k # "skip" => (Carries(chan'[d], k) => Carries(chan[d], k))
           /\ \A k : k # "skip" => (Carries(chan'[Other(d)], k) => Carries(chan[Other(d)], k))
           /\ \A h \in Hero : Ended(chan'[d], h) => Ended(chan[d], h)
           /\ \A h \in Hero : Ended(chan'[Other(d)], h) => Ended(chan[Other(d)], h)
<1> DEFINE call == <<"skip", d>>
           g == Other(d)
<1>1. TypeOK /\ Calls(chan[d], d) /\ Calls(chan[g], g) /\ d \in Hero
  BY Before
<1>2. call \in Call /\ Fitting(call, g) /\ call[1] = "skip"
  BY <1>1 DEF Call, Fitting
<1>3. Send(d, call)
  OBVIOUS
<1> HIDE DEF call
<1>4. /\ chan' \in [Client -> Seq(Call)] /\ chan'[d] = chan[d] /\ Calls(chan'[g], g)
      /\ \A k : k # "skip" => (Carries(chan'[g], k) => Carries(chan[g], k))
      /\ \A h : Ended(chan'[g], h) => Ended(chan[g], h)
  BY <1>1, <1>2, <1>3, SendDoes
<1> HIDE DEF g
<1> QED BY <1>1, <1>4 DEF g

LEMMA StepCoopEnd ==
    ASSUME TutorialAssumption, LessonsInv, NEW d \in Client, CooperationEnd(d)
    PROVE  LessonsInv'
<1> DEFINE t == tuto[d]
           t0 == [t EXCEPT !.stage = 5, !.shared = "idle"]
<1>1. TypeOK
  BY DEF LessonsInv
<1>2. t \in Record
  BY <1>1 DEF TypeOK
<1>3. /\ t.stage = 4 /\ Skipped(d, t0) /\ Send(d, <<"skip", d>>)
      /\ UNCHANGED <<enemies, named, skips>>
  BY DEF CooperationEnd
<1>4. t0 \in Record
  BY <1>2, Zenon DEF Record, Steps
<1>5. /\ \A h \in Hero : Same(t, enemies[d], t0, enemies[d], h)
      /\ t0.spawned = t.spawned /\ t0.dashed = t.dashed /\ t0.coop = t.coop
      /\ t0.stage = 5 /\ t0.shared = "idle" /\ t0.done = t.done
  BY <1>2 DEF Same, Record
<1>6. named' \in [Client -> {"no", "alive", "dead"}] /\ skips' \in Nat
  BY <1>1, <1>3 DEF TypeOK
<1> HIDE DEF t0
<1> QED BY <1>3, <1>4, <1>5, <1>6, SkipSent, SkippedStep

LEMMA StepCommand ==
    ASSUME TutorialAssumption, LessonsInv, NEW d \in Client, Command(d)
    PROVE  LessonsInv'
<1>1. TypeOK
  BY DEF LessonsInv
<1>2. tuto[d] \in Record
  BY <1>1 DEF TypeOK
<1>3. Skipped(d, tuto[d]) /\ Send(d, <<"skip", d>>) /\ enemies' = enemies /\ named' = named /\ skips' = skips + 1
  BY DEF Command
<1>4. \A h \in Hero : Same(tuto[d], enemies[d], tuto[d], enemies[d], h)
  BY DEF Same
<1>5. named' \in [Client -> {"no", "alive", "dead"}] /\ skips' \in Nat
  BY <1>1, <1>3 DEF TypeOK
<1> QED BY <1>2, <1>3, <1>4, <1>5, SkipSent, SkippedStep
-----------------------------------------------------------------------------
(* Every step of a player keeps it.                                         *)

LEMMA StepDash ==
    ASSUME TutorialAssumption, LessonsInv, NEW d \in Client, Dash(d)
    PROVE  LessonsInv'
<1> DEFINE g == Other(d)
           t == tuto[d]
           s == enemies[d]
           u == tuto[g]
           v == enemies[g]
           p1 == chan'[g]
           w == t.dashed \cup {d}
           t1 == [t EXCEPT !.dashed = w]
           call == <<"dash", d>>
<1>1. /\ TypeOK /\ ClientInv(d) /\ d \in Hero /\ g \in Hero /\ g # d
      /\ \A h \in Hero : Fit(t, s, h) /\ Fit(u, v, h)
      /\ Calls(chan[d], d) /\ Calls(chan[g], g)
      /\ HeroInv(t, s, u, v, chan[d], chan[g], hero[d], early, d)
      /\ HeroInv(u, v, t, s, chan[g], chan[d], hero[g], early, g)
  BY Before
<1>2. t \in Record /\ t.dashed \in SUBSET Hero
  BY <1>1, RecordHas DEF TypeOK
<1>3. /\ "dash" \in hero[d].skills /\ t.nowOn /\ Ready(d)
      /\ tuto' = [tuto EXCEPT ![d] = t1] /\ Send(d, call)
      /\ UNCHANGED <<enemies, named, hero, skips, early>>
  BY DEF Dash, CanDash, Has
<1>4. w \in SUBSET Hero /\ d \in w /\ \A h : h \in w => h \in t.dashed \/ h = d
  BY <1>1, <1>2
<1> HIDE DEF w
<1>5. t1 \in Record
  BY <1>2, <1>4, Zenon DEF Record
<1>6. /\ \A h \in Hero : Same(t, s, t1, s, h)
      /\ t1.begun = t.begun /\ t1.spawned = t.spawned /\ t1.nowOn = t.nowOn /\ t1.dashed = w /\ t1.coop = t.coop
      /\ t1.stage = t.stage /\ t1.shared = t.shared /\ t1.done = t.done /\ t1.last = t.last
  BY <1>2 DEF Same, Record
<1> HIDE DEF t1
<1>7. Alone(d) /\ tuto' \in [Client -> Record] /\ tuto'[d] = t1
  BY <1>1, <1>3, <1>5, OneSets
<1>8. Silent(chan[g])
  BY <1>3, ReadyIs
<1>9. call \in Call /\ Fitting(call, g) /\ call[1] = "dash"
  BY <1>1 DEF Call, Fitting
<1> HIDE DEF call
<1>10. /\ chan' \in [Client -> Seq(Call)] /\ chan'[d] = chan[d] /\ Calls(p1, g)
       /\ \A k : k # "dash" => ~Carries(p1, k)
       /\ \A h : Ended(p1, h) => Ended(chan[g], h)
  BY <1>1, <1>3, <1>8, <1>9, SendDoes
<1> HIDE DEF p1, g, t, s, u, v
<1>11. Shared(t1)
  BY <1>1, <1>6 DEF Fit, Shared
<1>12. t.begun
  BY <1>1, <1>3 DEF HeroInv, Able
<1>13. HeroInv(t1, s, u, v, chan[d], p1, hero[d], early, d)
  <2>1. Same(t, s, t1, s, d) /\ Same(u, v, u, v, d) /\ Kept(t, t1, d) /\ SameHero(hero[d], hero[d])
    BY <1>1, <1>4, <1>6, <1>12 DEF Same, Kept, SameHero
  <2>2. /\ d \in u.dashed \/ Carries(p1, "dash") => d \in t1.dashed
        /\ Carries(p1, "kill") => Carries(chan[g], "kill")
        /\ Carries(p1, "barrier") => Carries(chan[g], "barrier")
    BY <1>4, <1>6, <1>10
  <2> QED BY <1>1, <2>1, <2>2, Frame
<1>14. HeroInv(u, v, t1, s, p1, chan[d], hero[g], early, g)
  BY <1>1, <1>4, <1>6, <1>10, OtherFrame
<1>15. /\ named' \in [Client -> {"no", "alive", "dead"}] /\ hero' \in [Hero -> HeroState]
       /\ skips' \in Nat /\ early' \in BOOLEAN
  BY <1>1, <1>3 DEF TypeOK
<1> QED BY <1>1, <1>3, <1>6, <1>7, <1>10, <1>11, <1>13, <1>14, <1>15, FlagsStep DEF g, t, s, u, v, p1

LEMMA FullChanges ==
    ASSUME TypeOK, NEW d \in Hero, NEW b \in BOOLEAN, hero' = [hero EXCEPT ![d].full = b]
    PROVE  /\ hero' \in [Hero -> HeroState] /\ SameHero(hero[d], hero'[d])
           /\ \A g \in Hero : g # d => hero'[g] = hero[g]
<1> DEFINE x1 == [hero[d] EXCEPT !.full = b]
<1>1. hero[d] \in HeroState
  BY DEF TypeOK
<1>2. x1 \in HeroState
  BY <1>1, Zenon DEF HeroState
<1>3. SameHero(hero[d], x1)
  BY <1>1 DEF SameHero, HeroState
<1>4. hero' = [hero EXCEPT ![d] = x1]
  OBVIOUS
<1> HIDE DEF x1
<1> QED BY <1>2, <1>3, <1>4 DEF TypeOK

LEMMA StepKill ==
    ASSUME TutorialAssumption, LessonsInv, NEW d \in Client, Kill(d)
    PROVE  LessonsInv'
<1> DEFINE g == Other(d)
           t == tuto[d]
           s == enemies[d]
           s1 == enemies'[d]
           u == tuto[g]
           v == enemies[g]
           p1 == chan'[g]
<1>1. /\ TypeOK /\ ClientInv(d) /\ d \in Hero /\ g \in Hero /\ g # d /\ (\A h \in Hero : h = d \/ h = g)
      /\ \A h \in Hero : Fit(t, s, h) /\ Fit(u, v, h)
      /\ Calls(chan[d], d) /\ Calls(chan[g], g)
      /\ HeroInv(t, s, u, v, chan[d], chan[g], hero[d], early, d)
      /\ HeroInv(u, v, t, s, chan[g], chan[d], hero[g], early, g)
  BY Before
<1>2. /\ tuto' = tuto /\ enemies' \in [Client -> SUBSET Enemy] /\ Alone(d) /\ Names(t, s1)
      /\ \A k \in Hero : k # d => Zone(s1, k) = Zone(s, k)
      /\ Zone(s, d) # {} /\ Cardinality(Zone(s1, d)) = Cardinality(Zone(s, d)) - 1
  BY <1>1, KillDoes
<1>3. PICK n \in Nat : Send(d, <<"kill", n>>)
  BY <1>1, KillDoes
<1>4. UNCHANGED <<named, skips, early>> /\ Ready(d)
  BY DEF Kill
<1>5. /\ hero' \in [Hero -> HeroState] /\ SameHero(hero[d], hero'[d])
      /\ hero'[g] = hero[g]
  <2>1. PICK f \in {hero[d].full, d = "esper" \/ Lesson(d, d) = "ultimate" \/ hero[d].full} :
            hero' = [hero EXCEPT ![d].full = f /\ CanFight(d)]
    BY DEF Kill
  <2> DEFINE b == f /\ CanFight(d)
  <2>2. b \in BOOLEAN /\ hero' = [hero EXCEPT ![d].full = b]
    BY <2>1
  <2> HIDE DEF b
  <2> QED BY <1>1, <2>2, FullChanges
<1>6. Silent(chan[g]) /\ t.step[d] # "clear" /\ u.step[d] # "clear"
  BY <1>1, <1>4, ReadyIs, TwoHeroes
<1>7. /\ chan' \in [Client -> Seq(Call)] /\ chan'[d] = chan[d] /\ Calls(p1, g)
      /\ \A k : k # "kill" => ~Carries(p1, k)
      /\ \A h : Ended(p1, h) => Ended(chan[g], h)
  <2> DEFINE call == <<"kill", n>>
  <2>1. call \in Call /\ Fitting(call, g) /\ call[1] = "kill" /\ Send(d, call)
    BY <1>3 DEF Call, Fitting
  <2> HIDE DEF call
  <2> QED BY <1>1, <1>6, <2>1, SendDoes
<1>8. tuto'[d] = t /\ tuto' \in [Client -> Record] /\ t \in Record
  BY <1>1, <1>2 DEF TypeOK
<1> HIDE DEF p1, g, t, s, s1, u, v
<1>9. Cardinality(Zone(s, d)) \in Nat /\ Names(t, s)
  BY <1>1, Zones DEF Fit, Names
<1>10. Course(t, s1, d)
  BY <1>2, <1>9, <1>1, <1>8, CourseFewer DEF Fit
<1>11. Same(t, s, t, s1, g)
  BY <1>1, <1>2 DEF Same
<1>12. \A h \in Hero : Course(t, s1, h)
  BY <1>1, <1>11, CourseSame, <1>10 DEF Fit
<1>13. Shared(t) /\ \A h \in Hero : Fit(t, s1, h)
  BY <1>1, <1>2, <1>12 DEF Fit
<1>14. HeroInv(t, s1, u, v, chan[d], p1, hero'[d], early, d)
  BY <1>1, <1>2, <1>5, <1>6, <1>7, <1>13, OwnKill
<1>15. HeroInv(u, v, t, s1, p1, chan[d], hero[g], early, g)
  BY <1>1, <1>7, <1>11, OtherFrame
<1>16. named' \in [Client -> {"no", "alive", "dead"}] /\ skips' \in Nat /\ early' \in BOOLEAN
  BY <1>1, <1>4 DEF TypeOK
<1> QED BY <1>1, <1>2, <1>4, <1>5, <1>7, <1>8, <1>12, <1>13, <1>14, <1>15, <1>16, StepIs DEF g, t, s, s1, u, v, p1

LEMMA StepKillNamed ==
    ASSUME TutorialAssumption, LessonsInv, NEW d \in Client, KillNamed(d)
    PROVE  LessonsInv'
<1> DEFINE g == Other(d)
           t == tuto[d]
           s == enemies[d]
           u == tuto[g]
           v == enemies[g]
           p1 == chan'[g]
           call == <<"named", d>>
<1>1. /\ TypeOK /\ ClientInv(d) /\ d \in Hero /\ g \in Hero /\ g # d
      /\ \A h \in Hero : Fit(t, s, h) /\ Fit(u, v, h)
      /\ Calls(chan[d], d) /\ Calls(chan[g], g)
      /\ HeroInv(t, s, u, v, chan[d], chan[g], hero[d], early, d)
      /\ HeroInv(u, v, t, s, chan[g], chan[d], hero[g], early, g)
  BY Before
<1>2. /\ named' = [named EXCEPT ![d] = "dead"] /\ Send(d, call) /\ Ready(d)
      /\ UNCHANGED <<tuto, enemies, hero, skips, early>>
  BY DEF KillNamed
<1>3. Silent(chan[g])
  BY <1>2, ReadyIs
<1>4. call \in Call /\ Fitting(call, g) /\ call[1] = "named"
  BY <1>1 DEF Call, Fitting
<1> HIDE DEF call
<1>5. /\ chan' \in [Client -> Seq(Call)] /\ chan'[d] = chan[d] /\ Calls(p1, g)
      /\ \A k : k # "named" => ~Carries(p1, k)
      /\ \A h : Ended(p1, h) => Ended(chan[g], h)
  BY <1>1, <1>2, <1>3, <1>4, SendDoes
<1>6. Alone(d) /\ tuto'[d] = t /\ tuto' \in [Client -> Record]
  BY <1>1, <1>2 DEF Alone, TypeOK
<1> HIDE DEF p1, g, t, s, u, v
<1>7. Shared(t) /\ (\A h \in Hero : Same(t, s, t, s, h)) /\ Kept(t, t, d) /\ SameHero(hero[d], hero[d])
  BY <1>1 DEF Fit, Same, Kept, SameHero
<1>8. HeroInv(t, s, u, v, chan[d], p1, hero[d], early, d)
  BY <1>5, <1>1, <1>7, OwnFrame
<1>9. HeroInv(u, v, t, s, p1, chan[d], hero[g], early, g)
  BY <1>1, <1>5, <1>7, OtherFrame
<1>10. /\ named' \in [Client -> {"no", "alive", "dead"}] /\ hero' \in [Hero -> HeroState]
       /\ skips' \in Nat /\ early' \in BOOLEAN
  BY <1>1, <1>2 DEF TypeOK
<1> QED BY <1>1, <1>2, <1>5, <1>6, <1>7, <1>8, <1>9, <1>10, FlagsStep DEF g, t, s, u, v, p1

LEMMA BlockedCourse ==
    ASSUME TutorialAssumption, NEW t, NEW s, \A h \in Hero : Fit(t, s, h),
           t.step["crusher"] = "on", At(t, "crusher") = "first"
    PROVE  LET t1 == Blocked(t)
           IN  /\ \A h \in Hero : Fit(t1, s, h)
               /\ t1.begun = t.begun /\ t1.step["crusher"] = "due" /\ t1.lesson["crusher"] = t.lesson["crusher"] + 1
               /\ FlagsKept(t, t1) /\ Same(t, s, t1, s, "esper")
               /\ Fight("crusher", At(t1, "crusher")) => Count(t1, s, "crusher") = Full("crusher", At(t1, "crusher"))
<1> DEFINE t1 == Blocked(t)
           c == "crusher"
<1>1. c \in Hero /\ "esper" \in Hero /\ \A h \in Hero : h = c \/ h = "esper"
  BY TwoHeroes
<1>2. t \in Record /\ Names(t, s) /\ Shared(t) /\ Course(t, s, c) /\ Course(t, s, "esper")
  BY <1>1 DEF Fit
<1>3. /\ t1 \in Record /\ FlagsKept(t, t1) /\ Names(t1, s) /\ Same(t, s, t1, s, "esper")
      /\ t1.begun = t.begun /\ t1.left = t.left
      /\ t1.step[c] = "due" /\ t1.lesson[c] = t.lesson[c] + 1
  BY <1>2, BlockedDoes
<1> HIDE DEF t1
<1>4. At(t, c) # "ultimate" /\ At(t, c) # "dash" /\ ~Fight(c, At(t, c)) /\ t.step[c] = "on"
  BY DEF Fight
<1>5. t.begun /\ t1.begun
  BY <1>2, <1>3, <1>4 DEF Course
<1>6. t1.left[c] = t.left[c] /\ (IF At(t, c) = "dash"
                                 THEN Zone(s, c) # {} /\ Cardinality(Zone(s, c)) = Cardinality(Zone(s, c)) + 1
                                 ELSE Zone(s, c) = Zone(s, c))
  BY <1>3, <1>4
<1> HIDE DEF c
<1>7. Course(t1, s, c) /\ (Fight(c, At(t1, c)) => Count(t1, s, c) = Full(c, At(t1, c)))
  BY <1>1, <1>2, <1>3, <1>4, <1>5, <1>6, CourseNext
<1>8. Course(t1, s, "esper")
  BY <1>2, <1>3, CourseSame DEF FlagsKept
<1>9. Shared(t1)
  BY <1>2, <1>3 DEF Shared, FlagsKept
<1>10. \A h \in Hero : Fit(t1, s, h)
  BY <1>1, <1>3, <1>7, <1>8, <1>9 DEF Fit
<1> QED BY <1>3, <1>7, <1>10 DEF t1, c

LEMMA StepBlock ==
    ASSUME TutorialAssumption, LessonsInv, Block
    PROVE  LessonsInv'
<1> DEFINE d == "crusher"
           g == "esper"
           t == tuto[d]
           s == enemies[d]
           u == tuto[g]
           v == enemies[g]
           t1 == Blocked(t)
           p1 == chan'[g]
           call == <<"barrier", d>>
<1>0. d \in Client /\ Other(d) = g
  BY TwoHeroes
<1>1. /\ TypeOK /\ d \in Hero /\ g \in Hero /\ g # d /\ (\A h \in Hero : h = d \/ h = g)
      /\ \A h \in Hero : Fit(t, s, h) /\ Fit(u, v, h)
      /\ Calls(chan[d], d) /\ Calls(chan[g], g)
      /\ HeroInv(t, s, u, v, chan[d], chan[g], hero[d], early, d)
      /\ HeroInv(u, v, t, s, chan[g], chan[d], hero[g], early, g)
  BY <1>0, Before
<1>2. /\ Ready(d) /\ t.step[d] = "on" /\ At(t, d) = "first"
      /\ tuto' = [tuto EXCEPT ![d] = t1] /\ Send(d, call)
      /\ UNCHANGED <<enemies, named, hero, skips, early>>
  BY DEF Block, Lesson, At
<1>3. /\ \A h \in Hero : Fit(t1, s, h)
      /\ t1.begun = t.begun /\ t1.step[d] = "due" /\ t1.lesson[d] = t.lesson[d] + 1
      /\ FlagsKept(t, t1) /\ Same(t, s, t1, s, g)
      /\ Fight(d, At(t1, d)) => Count(t1, s, d) = Full(d, At(t1, d))
  BY <1>1, <1>2, BlockedCourse
<1> HIDE DEF t1
<1>4. t1 \in Record /\ Names(t1, s) /\ Shared(t1) /\ \A h \in Hero : Course(t1, s, h)
  BY <1>1, <1>3 DEF Fit
<1>5. Alone(d) /\ tuto' \in [Client -> Record] /\ tuto'[d] = t1
  BY <1>0, <1>1, <1>2, <1>4, OneSets
<1>6. Silent(chan[g])
  BY <1>0, <1>2, ReadyIs
<1>7. call \in Call /\ Fitting(call, g) /\ call[1] = "barrier"
  BY <1>1 DEF Call, Fitting
<1> HIDE DEF call
<1>8. /\ chan' \in [Client -> Seq(Call)] /\ chan'[d] = chan[d] /\ Calls(p1, g)
      /\ \A k : k # "barrier" => ~Carries(p1, k)
      /\ \A h : Ended(p1, h) => Ended(chan[g], h)
  BY <1>0, <1>1, <1>2, <1>6, <1>7, SendDoes
<1>9. /\ named' \in [Client -> {"no", "alive", "dead"}] /\ hero' \in [Hero -> HeroState]
      /\ skips' \in Nat /\ early' \in BOOLEAN /\ enemies' \in [Client -> SUBSET Enemy] /\ enemies'[d] = s
  BY <1>1, <1>2 DEF TypeOK
<1>10. d = "crusher"
  OBVIOUS
<1> HIDE DEF p1, t, s, u, v, d, g
<1>11. HeroInv(t1, s, u, v, chan[d], p1, hero[d], early, d)
  BY <1>1, <1>2, <1>3, <1>8, OwnBlock
<1>12. HeroInv(u, v, t1, s, p1, chan[d], hero[g], early, g)
  BY <1>1, <1>3, <1>8, OtherFrame DEF FlagsKept
<1> QED BY <1>0, <1>1, <1>2, <1>4, <1>5, <1>8, <1>9, <1>11, <1>12, StepIs DEF t, s, u, v, p1

LEMMA StepMark ==
    ASSUME TutorialAssumption, LessonsInv, NEW d \in Client, NEW what \in {"surge", "shield", "vital"}, Do(d, what),
           d \in tuto[d].coop, Fitting(<<what, d>>, Other(d)),
           hero' \in [Hero -> HeroState], SameHero(hero[d], hero'[d]), hero'[Other(d)] = hero[Other(d)],
           UNCHANGED <<enemies, named, skips, early>>
    PROVE  LessonsInv'
<1> DEFINE g == Other(d)
           t == tuto[d]
           s == enemies[d]
           u == tuto[g]
           v == enemies[g]
           p1 == chan'[g]
           x1 == hero'[d]
           w == t.done \cup {what}
           t1 == [t EXCEPT !.done = w]
           call == <<what, d>>
<1>1. /\ TypeOK /\ ClientInv(d) /\ d \in Hero /\ g \in Hero /\ g # d
      /\ \A h \in Hero : Fit(t, s, h) /\ Fit(u, v, h)
      /\ Calls(chan[d], d) /\ Calls(chan[g], g)
      /\ HeroInv(t, s, u, v, chan[d], chan[g], hero[d], early, d)
      /\ HeroInv(u, v, t, s, chan[g], chan[d], hero[g], early, g)
  BY Before
<1>2. t \in Record /\ t.done \in SUBSET {"surge", "shield", "vital"}
  BY <1>1, RecordHas DEF TypeOK
<1>3. Ready(d) /\ tuto' = [tuto EXCEPT ![d] = t1] /\ Send(d, call)
  BY DEF Do
<1>4. w \in SUBSET {"surge", "shield", "vital"} /\ t.done \subseteq w
  BY <1>2
<1> HIDE DEF w
<1>5. t1 \in Record
  BY <1>2, <1>4, Zenon DEF Record
<1>6. /\ \A h \in Hero : Same(t, s, t1, s, h)
      /\ t1.spawned = t.spawned /\ t1.nowOn = t.nowOn /\ t1.dashed = t.dashed /\ t1.coop = t.coop
      /\ t1.stage = t.stage /\ t1.shared = t.shared /\ t1.done = w /\ t1.last = t.last
  BY <1>2 DEF Same, Record
<1> HIDE DEF t1
<1>7. Alone(d) /\ tuto' \in [Client -> Record] /\ tuto'[d] = t1
  BY <1>1, <1>3, <1>5, OneSets
<1>8. Silent(chan[g]) /\ t.step[d] # "clear" /\ u.step[d] # "clear"
  BY <1>1, <1>3, ReadyIs, TwoHeroes
<1>9. call \in Call /\ Fitting(call, g) /\ call[1] = what
  BY <1>1 DEF Call
<1>10. d \in t.coop /\ SameHero(hero[d], x1) /\ hero'[g] = hero[g]
  OBVIOUS
<1> HIDE DEF call
<1>11. /\ chan' \in [Client -> Seq(Call)] /\ chan'[d] = chan[d] /\ Calls(p1, g)
       /\ \A k : k # what => ~Carries(p1, k)
       /\ \A h : Ended(p1, h) => Ended(chan[g], h)
  BY <1>9, <1>1, <1>3, <1>8, SendDoes
<1> HIDE DEF p1, g, t, s, u, v, x1
<1>12. Shared(t1)
  BY <1>1, <1>6 DEF Fit, Shared
<1>13. HeroInv(t1, s, u, v, chan[d], p1, x1, early, d)
  BY <1>4, <1>6, <1>11, <1>1, <1>8, <1>10, OwnMark
<1>14. HeroInv(u, v, t1, s, p1, chan[d], hero[g], early, g)
  BY <1>1, <1>6, <1>11, OtherFrame
<1>15. named' \in [Client -> {"no", "alive", "dead"}] /\ skips' \in Nat /\ early' \in BOOLEAN
  BY <1>1 DEF TypeOK
<1> QED BY <1>1, <1>6, <1>7, <1>10, <1>11, <1>12, <1>13, <1>14, <1>15, FlagsStep DEF g, t, s, u, v, p1, x1

LEMMA HeroStays ==
    ASSUME TypeOK, NEW d \in Hero, hero' = hero
    PROVE  hero' \in [Hero -> HeroState] /\ SameHero(hero[d], hero'[d]) /\ hero'[Other(d)] = hero[Other(d)]
BY DEF TypeOK, SameHero

LEMMA StepSurge ==
    ASSUME TutorialAssumption, LessonsInv, Surge
    PROVE  LessonsInv'
  BY TwoHeroes, FullChanges, StepMark DEF LessonsInv, Surge, CanSurge, Fitting

LEMMA StepVital ==
    ASSUME TutorialAssumption, LessonsInv, Vital
    PROVE  LessonsInv'
  BY TwoHeroes, HeroStays, StepMark DEF LessonsInv, Vital, Fitting

LEMMA StepShield ==
    ASSUME TutorialAssumption, LessonsInv, Shield
    PROVE  LessonsInv'
<1>1. /\ TypeOK /\ "esper" \in Hero /\ "esper" \in Client /\ Other("esper") = "crusher"
      /\ tuto["esper"] \in Record /\ Shared(tuto["esper"])
  BY TwoHeroes DEF LessonsInv, ClientInv, TypeOK
<1>2. /\ Do("esper", "shield") /\ tuto["esper"].stage > 2
      /\ hero' = hero /\ UNCHANGED <<enemies, named, skips, early>>
  BY DEF Shield
<1>3. hero' \in [Hero -> HeroState] /\ SameHero(hero["esper"], hero'["esper"]) /\ hero'["crusher"] = hero["crusher"]
  BY <1>1, <1>2, HeroStays
<1>4. Fitting(<<"shield", "esper">>, "crusher")
  BY DEF Fitting
<1>5. "esper" \in tuto["esper"].coop
  BY <1>1, RecordHas, <1>2 DEF Shared
<1> QED BY <1>1, <1>2, <1>3, <1>4, <1>5, StepMark
-----------------------------------------------------------------------------
(* Every call that arrives keeps it.                                        *)

Came1(d) == chan[d] # << >> /\ chan' = [chan EXCEPT ![d] = Tail(@)] /\ skips' = skips

LEMMA CallCame ==
    ASSUME LessonsInv, NEW d \in Client, Came1(d)
    PROVE  LET g == Other(d)  what == Head(chan[d])[1]  arg == Head(chan[d])[2]
           IN  /\ chan' \in [Client -> Seq(Call)] /\ chan'[g] = chan[g] /\ Calls(chan'[d], d) /\ Calls(chan'[g], g)
               /\ \A k : k # "skip" => ~Carries(chan'[d], k)
               /\ \A h : ~Ended(chan'[d], h)
               /\ what \in {"end", "skip", "named", "dash", "barrier", "surge", "vital", "shield", "kill"}
               /\ what # "kill" => arg \in Hero
               /\ Carries(chan[d], what)
               /\ what = "end" => Ended(chan[d], arg)
               /\ what \in {"surge", "vital", "barrier"} => d = "esper"
               /\ what = "shield" => d = "crusher"
               /\ what = "dash" => arg # d
               /\ skips' \in Nat
  BY Before, RecvDoes DEF Came1, TypeOK

LEMMA RecvFlags ==
    ASSUME TutorialAssumption, LessonsInv, NEW d \in Client, Came1(d), Alone(d), tuto' \in [Client -> Record],
           UNCHANGED <<enemies, hero, early>>, named' \in [Client -> {"no", "alive", "dead"}],
           \A h \in Hero : Same(tuto[d], enemies[d], tuto'[d], enemies[d], h),
           tuto'[d].spawned = tuto[d].spawned, tuto'[d].coop = tuto[d].coop, tuto'[d].nowOn = tuto[d].nowOn,
           tuto'[d].dashed = tuto[d].dashed, Kept(tuto[d], tuto'[d], d)
    PROVE  LessonsInv'
<1> DEFINE g == Other(d)
           t == tuto[d]
           s == enemies[d]
           u == tuto[g]
           v == enemies[g]
           t1 == tuto'[d]
           q1 == chan'[d]
<1>1. /\ TypeOK /\ ClientInv(d) /\ d \in Hero /\ g \in Hero /\ g # d
      /\ \A h \in Hero : Fit(t, s, h) /\ Fit(u, v, h)
      /\ HeroInv(t, s, u, v, chan[d], chan[g], hero[d], early, d)
      /\ HeroInv(u, v, t, s, chan[g], chan[d], hero[g], early, g)
  BY Before
<1>2. /\ chan' \in [Client -> Seq(Call)] /\ chan'[g] = chan[g] /\ Calls(q1, d) /\ Calls(chan'[g], g)
      /\ \A k : k # "skip" => ~Carries(q1, k)
      /\ \A h : ~Ended(q1, h)
      /\ skips' \in Nat
  BY CallCame
<1>3. /\ \A h \in Hero : Same(t, s, t1, s, h)
      /\ t1.nowOn = t.nowOn /\ t1.dashed = t.dashed /\ t1.coop = t.coop /\ Kept(t, t1, d)
      /\ hero' = hero /\ early' = early /\ enemies' = enemies
  OBVIOUS
<1> HIDE DEF q1, g, t, s, u, v, t1
<1>4. Shared(t1)
  BY <1>1, <1>3 DEF Fit, Shared, Kept
<1>5. HeroInv(t1, s, u, v, q1, chan[g], hero[d], early, d)
  BY <1>1, <1>2, <1>3, OwnFrame DEF SameHero
<1>6. HeroInv(u, v, t1, s, chan[g], q1, hero[g], early, g)
  <2>1. \A k \in {"kill", "dash", "barrier"} : Carries(q1, k) => Carries(chan[d], k)
    BY <1>2
  <2> QED BY <1>1, <1>3, <2>1, OtherFrame
<1>7. hero' \in [Hero -> HeroState] /\ early' \in BOOLEAN
  BY <1>1, <1>3 DEF TypeOK
<1> QED BY <1>2, <1>3, <1>4, <1>5, <1>6, <1>7, FlagsStep DEF g, t, s, u, v, t1, q1

LEMMA RecvEnd ==
    ASSUME TutorialAssumption, LessonsInv, NEW d \in Client, Came1(d), Head(chan[d])[1] = "end",
           EndSolo(d, Head(chan[d])[2], tuto[d]), UNCHANGED <<enemies, named, early>>
    PROVE  LessonsInv'
<1> DEFINE g == Other(d)
           t == tuto[d]
           s == enemies[d]
           u == tuto[g]
           v == enemies[g]
           q1 == chan'[d]
           k == Head(chan[d])[2]
           w == t.coop \cup {k}
           t1 == [t EXCEPT !.coop = w]
           x1 == hero'[d]
<1>1. /\ TypeOK /\ ClientInv(d) /\ d \in Hero /\ g \in Hero /\ g # d
      /\ \A h \in Hero : Fit(t, s, h) /\ Fit(u, v, h)
      /\ HeroInv(t, s, u, v, chan[d], chan[g], hero[d], early, d)
      /\ HeroInv(u, v, t, s, chan[g], chan[d], hero[g], early, g)
  BY Before
<1>2. /\ chan' \in [Client -> Seq(Call)] /\ chan'[g] = chan[g] /\ Calls(q1, d) /\ Calls(chan'[g], g)
      /\ \A j : j # "skip" => ~Carries(q1, j)
      /\ \A h : ~Ended(q1, h)
      /\ k \in Hero /\ Ended(chan[d], k) /\ skips' \in Nat
  BY CallCame
<1>3. tuto' = [tuto EXCEPT ![d] = t1] /\ Own(d, k, [hero[k] EXCEPT !.place = "cooperation", !.can = All])
  BY DEF EndSolo
<1> HIDE DEF k
<1>4. t \in Record /\ t.coop \in SUBSET Hero
  BY <1>1, RecordHas DEF TypeOK
<1>5. w \in SUBSET Hero /\ k \in w /\ (\A h : h \in t.coop => h \in w) /\ (\A h : h \in w => h \in t.coop \/ h = k)
  BY <1>2, <1>4
<1> HIDE DEF w
<1>6. t1 \in Record
  BY <1>4, <1>5, Zenon DEF Record
<1>7. /\ \A h \in Hero : Same(t, s, t1, s, h)
      /\ t1.begun = t.begun /\ t1.spawned = t.spawned /\ t1.nowOn = t.nowOn /\ t1.dashed = t.dashed /\ t1.coop = w
      /\ t1.stage = t.stage /\ t1.shared = t.shared /\ t1.done = t.done /\ t1.last = t.last
  BY <1>4 DEF Same, Record
<1> HIDE DEF t1
<1>8. Alone(d) /\ tuto' \in [Client -> Record] /\ tuto'[d] = t1
  BY <1>1, <1>3, <1>6, OneSets
<1>9. /\ hero' \in [Hero -> HeroState] /\ hero'[g] = hero[g]
      /\ d = k => x1.can = All /\ x1.skills = hero[d].skills
      /\ d # k => x1 = hero[d]
  <2> DEFINE f == [hero[k] EXCEPT !.place = "cooperation", !.can = All]
  <2>1. hero[k] \in HeroState /\ Own(d, k, f)
    BY <1>1, <1>2, <1>3 DEF TypeOK
  <2>2. f \in HeroState
    <3> DEFINE a == All
    <3>1. a \in SUBSET All
      OBVIOUS
    <3> HIDE DEF a
    <3>2. [hero[k] EXCEPT !.place = "cooperation", !.can = a] \in HeroState
      BY <2>1, <3>1, Zenon DEF HeroState
    <3> QED BY <3>2 DEF a
  <2>3. f.can = All /\ f.skills = hero[k].skills
    BY <2>1 DEF HeroState
  <2> HIDE DEF f, g
  <2>4. hero' \in [Hero -> HeroState] /\ (d = k => hero'[d] = f) /\ (\A h \in Hero : h # k \/ d # k => hero'[h] = hero[h])
    BY <1>1, <1>2, <2>1, <2>2 DEF Own, TypeOK
  <2> QED BY <1>1, <2>3, <2>4
<1> HIDE DEF q1, g, t, s, u, v, x1
<1>10. Shared(t1)
  <2>1. t.coop = Hero => w = Hero
    <3>1. SUFFICES ASSUME t.coop = Hero
                   PROVE  Hero \subseteq w /\ w \subseteq Hero
      OBVIOUS
    <3>2. \A h \in Hero : h \in w
      BY <1>5, <3>1
    <3> QED BY <1>5, <3>2
  <2>2. Shared(t)
    BY <1>1 DEF Fit
  <2>3. t.coop = Hero => t1.coop = Hero
    BY <1>7, <2>1
  <2> QED BY <1>7, <2>2, <2>3 DEF Shared
<1>11. HeroInv(t1, s, u, v, q1, chan[g], x1, early, d)
  <2>1. CASE d = k
    BY <1>2, <1>5, <1>7, <2>1, <1>1, <1>9, OwnCame
  <2>2. CASE d # k
    <3>1. Kept(t, t1, d) /\ SameHero(hero[d], x1)
      BY <1>5, <1>7, <1>9, <2>2 DEF Kept, SameHero
    <3> QED BY <1>1, <1>2, <1>7, <3>1, OwnFrame
  <2> QED BY <2>1, <2>2
<1>12. HeroInv(u, v, t1, s, chan[g], q1, hero[g], early, g)
  BY <1>2, <1>1, <1>7, OtherFrame
<1>13. /\ named' \in [Client -> {"no", "alive", "dead"}] /\ early' \in BOOLEAN /\ early' = early /\ enemies' = enemies
  BY <1>1 DEF TypeOK
<1>14. \A h \in Hero : h \in t.coop => h \in t1.coop
  BY <1>5, <1>7
<1> QED BY <1>2, <1>7, <1>8, <1>9, <1>10, <1>11, <1>12, <1>13, <1>14, FlagsStep DEF g, t, s, u, v, x1, q1

LEMMA RecvKill ==
    ASSUME TutorialAssumption, LessonsInv, NEW d \in Client, Came1(d), Head(chan[d])[1] = "kill",
           enemies' = [enemies EXCEPT ![d] = Without(enemies[d], Head(chan[d])[2])],
           UNCHANGED <<tuto, named, hero, early>>
    PROVE  LessonsInv'
<1> DEFINE g == Other(d)
           t == tuto[d]
           s == enemies[d]
           s1 == enemies'[d]
           u == tuto[g]
           v == enemies[g]
           q1 == chan'[d]
           n == Head(chan[d])[2]
<1>1. /\ TypeOK /\ ClientInv(d) /\ d \in Hero /\ g \in Hero /\ g # d /\ (\A h \in Hero : h = d \/ h = g)
      /\ \A h \in Hero : Fit(t, s, h) /\ Fit(u, v, h)
      /\ HeroInv(t, s, u, v, chan[d], chan[g], hero[d], early, d)
      /\ HeroInv(u, v, t, s, chan[g], chan[d], hero[g], early, g)
  BY Before
<1>2. /\ chan' \in [Client -> Seq(Call)] /\ chan'[g] = chan[g] /\ Calls(q1, d) /\ Calls(chan'[g], g)
      /\ \A k : k # "skip" => ~Carries(q1, k)
      /\ \A h : ~Ended(q1, h)
      /\ Carries(chan[d], "kill") /\ skips' \in Nat
  <2>1. Carries(chan[d], Head(chan[d])[1])
    BY CallCame
  <2>2. Carries(chan[d], "kill")
    BY <2>1
  <2> QED BY <2>2, CallCame
<1>3. enemies' = [enemies EXCEPT ![d] = Without(enemies[d], n)]
  OBVIOUS
<1>10. tuto' = tuto /\ hero' = hero /\ early' = early /\ named' = named
  OBVIOUS
<1> HIDE DEF n
<1>4. /\ enemies' \in [Client -> SUBSET Enemy] /\ Alone(d) /\ Names(t, s1)
      /\ \A k \in Hero : /\ Cardinality(Zone(s1, k)) \in Nat
                         /\ Cardinality(Zone(s1, k)) <= Cardinality(Zone(s, k))
                         /\ Cardinality(Zone(s, k)) - 1 <= Cardinality(Zone(s1, k))
                         /\ Zone(s, k) = {} => Zone(s1, k) = {}
  BY <1>1, <1>3, <1>10, KilledDoes
<1>5. /\ named' \in [Client -> {"no", "alive", "dead"}] /\ hero' \in [Hero -> HeroState]
      /\ early' \in BOOLEAN /\ tuto' \in [Client -> Record] /\ tuto'[d] = t /\ t \in Record
  BY <1>1, <1>10 DEF TypeOK
<1> HIDE DEF q1, g, t, s, u, v, s1
<1>6. Names(t, s) /\ Shared(t) /\ \A h \in Hero : Course(t, s, h)
  BY <1>1 DEF Fit
<1>7. ASSUME NEW h \in Hero
      PROVE  /\ Course(t, s1, h) /\ Fit(t, s1, h)
             /\ Count(t, s1, h) <= Count(t, s, h) /\ Count(t, s, h) - 1 <= Count(t, s1, h)
  BY <1>4, <1>5, <1>6, CourseFewer DEF Fit
<1>8. HeroInv(t, s1, u, v, q1, chan[g], hero[d], early, d)
  BY <1>1, <1>2, <1>4, <1>7, OwnHit
<1>9. HeroInv(u, v, t, s1, chan[g], q1, hero[g], early, g)
  BY <1>1, <1>2, <1>7, OtherKilled
<1> QED BY <1>2, <1>10, <1>4, <1>5, <1>6, <1>7, <1>8, <1>9, StepIs DEF g, t, s, s1, u, v, q1

LEMMA RecvNamed ==
    ASSUME TutorialAssumption, LessonsInv, NEW d \in Client, Came1(d),
           named' = [named EXCEPT ![d] = IF @ = "alive" THEN "dead" ELSE @], UNCHANGED <<tuto, enemies, hero, early>>
    PROVE  LessonsInv'
  BY RecvFlags DEF LessonsInv, TypeOK, Alone, Same, Kept

LEMMA RecvDone ==
    ASSUME TutorialAssumption, LessonsInv, NEW d \in Client, Came1(d), NEW what \in {"surge", "vital", "shield"},
           what \in {"surge", "vital"} => d = "esper", what = "shield" => d = "crusher", NEW b \in BOOLEAN,
           tuto' = [tuto EXCEPT ![d].done = IF b THEN @ \cup {what} ELSE @], UNCHANGED <<enemies, named, hero, early>>
    PROVE  LessonsInv'
<1> DEFINE t == tuto[d]
           w == IF b THEN t.done \cup {what} ELSE t.done
           t1 == [t EXCEPT !.done = w]
<1>1. TypeOK
  BY DEF LessonsInv
<1>2. t \in Record /\ t.done \in SUBSET {"surge", "shield", "vital"} /\ tuto' = [tuto EXCEPT ![d] = t1]
  BY <1>1, RecordHas DEF TypeOK
<1>3. w \in SUBSET {"surge", "shield", "vital"} /\ (Mark(d) \in w <=> Mark(d) \in t.done)
  BY <1>2 DEF Mark
<1> HIDE DEF w
<1>4. t1 \in Record
  BY <1>2, <1>3, Zenon DEF Record
<1>5. /\ \A h \in Hero : Same(t, enemies[d], t1, enemies[d], h)
      /\ t1.spawned = t.spawned /\ t1.nowOn = t.nowOn /\ t1.dashed = t.dashed /\ t1.coop = t.coop
      /\ t1.stage = t.stage /\ t1.shared = t.shared /\ t1.done = w /\ t1.last = t.last
  BY <1>2 DEF Same, Record
<1> HIDE DEF t1
<1>6. Alone(d) /\ tuto' \in [Client -> Record] /\ tuto'[d] = t1
  BY <1>1, <1>2, <1>4, OneSets
<1>7. Kept(t, t1, d)
  BY <1>3, <1>5 DEF Kept
<1>8. named' \in [Client -> {"no", "alive", "dead"}]
  BY <1>1 DEF TypeOK
<1> QED BY <1>5, <1>6, <1>7, <1>8, RecvFlags

LEMMA RecvDash ==
    ASSUME TutorialAssumption, LessonsInv, NEW d \in Client, Came1(d), Head(chan[d])[1] = "dash",
           tuto' = [tuto EXCEPT ![d].dashed = IF tuto[d].nowOn THEN @ \cup {Head(chan[d])[2]} ELSE @],
           UNCHANGED <<enemies, named, hero, early>>
    PROVE  LessonsInv'
<1> DEFINE g == Other(d)
           t == tuto[d]
           s == enemies[d]
           u == tuto[g]
           v == enemies[g]
           q1 == chan'[d]
           k == Head(chan[d])[2]
           w == IF t.nowOn THEN t.dashed \cup {k} ELSE t.dashed
           t1 == [t EXCEPT !.dashed = w]
<1>1. /\ TypeOK /\ ClientInv(d) /\ d \in Hero /\ g \in Hero /\ g # d /\ (\A h \in Hero : h = d \/ h = g)
      /\ \A h \in Hero : Fit(t, s, h) /\ Fit(u, v, h)
      /\ HeroInv(t, s, u, v, chan[d], chan[g], hero[d], early, d)
      /\ HeroInv(u, v, t, s, chan[g], chan[d], hero[g], early, g)
  BY Before
<1>2. /\ chan' \in [Client -> Seq(Call)] /\ chan'[g] = chan[g] /\ Calls(q1, d) /\ Calls(chan'[g], g)
      /\ \A j : j # "skip" => ~Carries(q1, j)
      /\ \A h : ~Ended(q1, h)
      /\ k \in Hero /\ k # d /\ Carries(chan[d], "dash") /\ skips' \in Nat
  BY CallCame
<1>3. t \in Record /\ t.dashed \in SUBSET Hero /\ tuto' = [tuto EXCEPT ![d] = t1]
  BY <1>1, RecordHas DEF TypeOK
<1> HIDE DEF k
<1>4. w \in SUBSET Hero /\ (d \in w <=> d \in t.dashed)
  BY <1>2, <1>3
<1> HIDE DEF w
<1>5. t1 \in Record
  BY <1>3, <1>4, Zenon DEF Record
<1>6. /\ \A h \in Hero : Same(t, s, t1, s, h)
      /\ t1.begun = t.begun /\ t1.lesson = t.lesson /\ t1.step = t.step /\ t1.left = t.left
      /\ t1.spawned = t.spawned /\ t1.nowOn = t.nowOn /\ t1.dashed = w /\ t1.coop = t.coop
      /\ t1.stage = t.stage /\ t1.shared = t.shared /\ t1.done = t.done /\ t1.last = t.last
  BY <1>3 DEF Same, Record
<1> HIDE DEF t1
<1>7. Alone(d) /\ tuto' \in [Client -> Record] /\ tuto'[d] = t1
  BY <1>1, <1>3, <1>5, OneSets
<1>8. hero' = hero /\ early' = early /\ enemies' = enemies /\ named' = named
  OBVIOUS
<1> HIDE DEF q1, g, t, s, u, v
<1>9. Shared(t1)
  BY <1>1, <1>6 DEF Fit, Shared
<1>10. HeroInv(t1, s, u, v, q1, chan[g], hero[d], early, d)
  BY <1>4, <1>6, <1>1, <1>2, OwnFrame DEF Kept, SameHero
<1>11. HeroInv(u, v, t1, s, chan[g], q1, hero[g], early, g)
  <2>1. Same(u, v, u, v, g) /\ Kept(u, u, g) /\ SameHero(hero[g], hero[g]) /\ Same(t, s, t1, s, g)
    BY <1>1, <1>6 DEF Same, Kept, SameHero
  <2>2. g \in u.dashed
    BY <1>1, <1>2 DEF HeroInv, Paired, Heard
  <2>3. Late(t1, s, g) => Late(t, s, g)
    BY <1>1, FitHas, <1>6 DEF Late, Finished, At
  <2>4. \A j \in {"kill", "dash", "barrier"} : ~Carries(q1, j)
    BY <1>2
  <2> QED BY <1>1, <2>1, <2>2, <2>3, <2>4, Frame
<1>12. named' \in [Client -> {"no", "alive", "dead"}] /\ hero' \in [Hero -> HeroState] /\ early' \in BOOLEAN
  BY <1>1, <1>8 DEF TypeOK
<1> QED BY <1>2, <1>6, <1>7, <1>8, <1>9, <1>10, <1>11, <1>12, FlagsStep DEF g, t, s, u, v, q1

LEMMA RecvBarrier ==
    ASSUME TutorialAssumption, LessonsInv, NEW d \in Client, Came1(d), Head(chan[d])[1] = "barrier",
           tuto' = [tuto EXCEPT ![d] = Blocked(@)], UNCHANGED <<enemies, named, hero, early>>
    PROVE  LessonsInv'
<1> DEFINE g == Other(d)
           t == tuto[d]
           s == enemies[d]
           u == tuto[g]
           v == enemies[g]
           q1 == chan'[d]
           t1 == Blocked(t)
<1>1. /\ TypeOK /\ ClientInv(d) /\ d \in Hero /\ g \in Hero /\ g # d /\ (\A h \in Hero : h = d \/ h = g)
      /\ \A h \in Hero : Fit(t, s, h) /\ Fit(u, v, h)
      /\ HeroInv(t, s, u, v, chan[d], chan[g], hero[d], early, d)
      /\ HeroInv(u, v, t, s, chan[g], chan[d], hero[g], early, g)
  BY Before
<1>2. /\ chan' \in [Client -> Seq(Call)] /\ chan'[g] = chan[g] /\ Calls(q1, d) /\ Calls(chan'[g], g)
      /\ \A j : j # "skip" => ~Carries(q1, j)
      /\ \A h : ~Ended(q1, h)
      /\ Carries(chan[d], "barrier") /\ d = "esper" /\ skips' \in Nat
  BY CallCame
<1>3. g = "crusher" /\ d = "esper"
  BY <1>2, TwoHeroes
<1>4. t \in Record /\ Names(t, s) /\ tuto' = [tuto EXCEPT ![d] = t1]
  BY <1>1 DEF TypeOK, ClientInv
<1>5. /\ named' \in [Client -> {"no", "alive", "dead"}] /\ hero' \in [Hero -> HeroState] /\ early' \in BOOLEAN
      /\ enemies' \in [Client -> SUBSET Enemy] /\ enemies'[d] = s
  BY <1>1 DEF TypeOK
<1>6. CASE t.step["crusher"] = "on" /\ At(t, "crusher") = "first"
  <2>1. /\ \A h \in Hero : Fit(t1, s, h)
        /\ t1.begun = t.begun /\ t1.step["crusher"] = "due" /\ t1.lesson["crusher"] = t.lesson["crusher"] + 1
        /\ FlagsKept(t, t1) /\ Same(t, s, t1, s, "esper")
        /\ Fight("crusher", At(t1, "crusher")) => Count(t1, s, "crusher") = Full("crusher", At(t1, "crusher"))
    BY <1>1, <1>6, BlockedCourse
  <2> HIDE DEF t1
  <2>2. t1 \in Record /\ Names(t1, s) /\ Shared(t1) /\ \A h \in Hero : Course(t1, s, h)
    BY <1>1, <2>1 DEF Fit
  <2>3. Alone(d) /\ tuto' \in [Client -> Record] /\ tuto'[d] = t1
    BY <1>1, <1>4, <2>2, OneSets
  <2>4. hero' = hero /\ early' = early
    OBVIOUS
  <2> HIDE DEF q1, g, t, s, u, v
  <2>5. HeroInv(t1, s, u, v, q1, chan[g], hero[d], early, d)
    BY <1>3, <2>1, <1>1, <1>2, OwnFrame DEF Kept, SameHero, FlagsKept
  <2>6. HeroInv(u, v, t1, s, chan[g], q1, hero[g], early, g)
    BY <1>1, <1>2, <1>3, <1>6, <2>1, OtherBlock
  <2> QED BY <1>2, <1>5, <2>2, <2>3, <2>4, <2>5, <2>6, StepIs DEF g, t, s, u, v, q1
<1>7. CASE ~(t.step["crusher"] = "on" /\ At(t, "crusher") = "first")
  <2>1. t1 = t
    BY <1>4, <1>7, BlockedDoes
  <2>2. tuto' = tuto
    BY <1>1, <1>4, <2>1 DEF TypeOK
  <2>3. tuto' \in [Client -> Record] /\ Alone(d) /\ tuto'[d] = t
    BY <1>1, <2>2 DEF TypeOK, Alone
  <2>4. (\A h \in Hero : Same(t, s, tuto'[d], s, h)) /\ Kept(t, tuto'[d], d)
    BY <2>3 DEF Same, Kept
  <2> QED BY <1>5, <2>3, <2>4, RecvFlags
<1> QED BY <1>6, <1>7

LEMMA StepRecv ==
    ASSUME TutorialAssumption, LessonsInv, NEW d \in Client, Recv(d)
    PROVE  LessonsInv'
<1> DEFINE what == Head(chan[d])[1]
           arg == Head(chan[d])[2]
<1>1. Came1(d)
  BY DEF Recv, Came1
<1>2. /\ what \in {"end", "skip", "named", "dash", "barrier", "surge", "vital", "shield", "kill"}
      /\ what \in {"surge", "vital", "barrier"} => d = "esper"
      /\ what = "shield" => d = "crusher"
  BY <1>1, CallCame
<1>3. CASE what = "end"
  BY <1>3, <1>1, RecvEnd DEF Recv
<1>4. CASE what = "skip"
  <2>1. Skipped(d, tuto[d]) /\ UNCHANGED <<enemies, named>>
    BY <1>4 DEF Recv
  <2>2. /\ chan' \in [Client -> Seq(Call)] /\ chan'[Other(d)] = chan[Other(d)]
        /\ Calls(chan'[d], d) /\ Calls(chan'[Other(d)], Other(d))
        /\ \A k : k # "skip" => ~Carries(chan'[d], k)
        /\ \A h : ~Ended(chan'[d], h)
        /\ skips' \in Nat
    BY <1>1, CallCame
  <2>3. TypeOK
    BY DEF LessonsInv
  <2>4. tuto[d] \in Record /\ named' \in [Client -> {"no", "alive", "dead"}]
    BY <2>1, <2>3 DEF TypeOK
  <2>5. \A h \in Hero : Same(tuto[d], enemies[d], tuto[d], enemies[d], h)
    BY DEF Same
  <2> QED BY <2>1, <2>2, <2>4, <2>5, SkippedStep
<1>5. CASE what = "kill"
  BY <1>5, <1>1, RecvKill DEF Recv, Without
<1>6. CASE what = "named"
  BY <1>6, <1>1, RecvNamed DEF Recv
<1>7. CASE what = "dash"
  BY <1>7, <1>1, RecvDash DEF Recv
<1>8. CASE what = "barrier"
  BY <1>8, <1>1, RecvBarrier DEF Recv
<1>9. CASE what \in {"surge", "vital", "shield"}
  <2> DEFINE b == what = "shield" \/ arg \in tuto[d].coop
  <2>1. /\ tuto' = [tuto EXCEPT ![d].done = IF b THEN @ \cup {what} ELSE @]
        /\ UNCHANGED <<enemies, named, hero, early>>
    BY <1>9 DEF Recv
  <2>2. b \in BOOLEAN
    OBVIOUS
  <2> HIDE DEF b, what
  <2> QED BY <1>1, <1>2, <1>9, <2>1, <2>2, RecvDone
<1> QED BY <1>2, <1>3, <1>4, <1>5, <1>6, <1>7, <1>8, <1>9
-----------------------------------------------------------------------------
(* The Crusher's gauge, and who ends his last lesson.                       *)

\* Nothing of a client's tutorial brings the Crusher further.
Onward(t, t1) ==
    /\ t1.nowOn => t.nowOn
    /\ "crusher" \in t1.coop => "crusher" \in t.coop
    /\ LastClear(t1) => LastClear(t)
    /\ "surge" \in t.done => "surge" \in t1.done
Onwards == \A e \in Client : Onward(tuto[e], tuto'[e])
StaysFull == hero["crusher"].full => hero'["crusher"].full \/ "surge" \in tuto'["crusher"].done
NoEnd == Ended(chan'["crusher"], "crusher") => Ended(chan["crusher"], "crusher")

LEMMA GaugeKept ==
    ASSUME GaugeInv, Onwards, StaysFull, NoEnd
    PROVE  GaugeInv'
BY TwoHeroes DEF GaugeInv, Gauged, Onwards, Onward, StaysFull, NoEnd

LEMMA OnwardStep ==
    ASSUME NEW d \in Client, Alone(d), FlagsKept(tuto[d], tuto'[d]), LastClear(tuto'[d]) => LastClear(tuto[d])
    PROVE  Onwards
BY DEF Onwards, Onward, Alone, FlagsKept

\* Every step of the lessons keeps it: a call that is sent does not end the Crusher's lessons.
LEMMA SentKeeps ==
    ASSUME TypeOK, NEW d \in Client, NEW call, Send(d, call), call # <<"end", "crusher">> \/ d = "crusher"
    PROVE  NoEnd
<1> DEFINE q == chan["crusher"]
           q1 == chan'["crusher"]
<1>1. chan \in [Client -> Seq(Call)] /\ q \in Seq(Call) /\ "crusher" \in Client
  BY TwoHeroes DEF TypeOK
<1>2. CASE d = "crusher"
  BY <1>1, <1>2, TwoHeroes DEF Send, NoEnd
<1>3. CASE d # "crusher"
  <2>1. call # <<"end", "crusher">> /\ Other(d) = "crusher"
    BY <1>3, TwoHeroes
  <2>2. q1 = Append(q, call)
    BY <1>1, <2>1 DEF Send
  <2>3. \A i \in DOMAIN q1 : (i \in DOMAIN q /\ q1[i] = q[i]) \/ q1[i] = call
    BY <1>1, <2>2
  <2> HIDE DEF q, q1
  <2> QED BY <2>1, <2>3 DEF Ended, NoEnd, q, q1
<1> QED BY <1>2, <1>3

LEMMA GaugeLessons ==
    ASSUME TutorialAssumption, TutorialInv, NEW d \in Client, NEW k \in Hero,
           Quest(d, k) \/ Learnt(d, k) \/ SpawnTimer(d, k) \/ ClearTimer(d, k)
    PROVE  GaugeInv'
<1> DEFINE t == tuto[d]
           t1 == tuto'[d]
<1>1. LessonsInv /\ GaugeInv /\ TypeOK /\ ClientInv(d) /\ "crusher" \in Hero /\ d \in Hero
  BY TwoHeroes DEF TutorialInv, LessonsInv
<1>2. ASSUME k # "crusher", Same(t, enemies[d], t1, enemies'[d], "crusher")
      PROVE  LastClear(t1) => LastClear(t)
  BY <1>2 DEF Same, LastClear, At
<1>3. CASE Quest(d, k)
  <2>1. /\ Alone(d) /\ FlagsKept(t, t1) /\ t1.step[k] = "on"
        /\ k # "crusher" => Same(t, enemies[d], t1, enemies'[d], "crusher")
    BY <1>1, <1>3, QuestDoes
  <2>2. StaysFull /\ NoEnd
    BY <1>1, <1>3 DEF Quest, Own, TypeOK, HeroState, StaysFull, NoEnd
  <2>3. LastClear(t1) => LastClear(t)
    BY <1>2, <2>1 DEF LastClear
  <2>4. Onwards
    BY <2>1, <2>3, OnwardStep
  <2> QED BY <1>1, <2>2, <2>4, GaugeKept
<1>4. CASE Learnt(d, k)
  <2>1. /\ Alone(d) /\ FlagsKept(t, t1)
        /\ k # "crusher" => Same(t, enemies[d], t1, enemies'[d], "crusher")
        /\ k = "crusher" /\ At(t, k) = "ultimate" => d = k /\ hero[k].full
        /\ t1.lesson[k] = t.lesson[k]
    BY <1>1, <1>4, LearntDoes
  <2>2. NoEnd /\ hero'["crusher"].full = hero["crusher"].full
    BY <1>1, <1>4 DEF Learnt, Own, TypeOK, HeroState, NoEnd
  <2>3. CASE k = "crusher" /\ At(t, k) = "ultimate"
    <3>1. tuto'["esper"] = tuto["esper"] /\ hero'["crusher"].full
      BY <2>1, <2>2, <2>3, TwoHeroes DEF Alone
    <3> QED BY <1>1, <2>2, <3>1 DEF GaugeInv, Gauged, NoEnd
  <2>4. CASE ~(k = "crusher" /\ At(t, k) = "ultimate")
    <3>1. LastClear(t1) => LastClear(t)
      BY <1>2, <2>1, <2>4 DEF LastClear, At
    <3>2. Onwards
      BY <2>1, <3>1, OnwardStep
    <3> QED BY <1>1, <2>2, <3>2, GaugeKept DEF StaysFull
  <2> QED BY <2>3, <2>4
<1>5. CASE SpawnTimer(d, k)
  <2>1. /\ Alone(d) /\ FlagsKept(t, t1) /\ t1.step[k] = t.step[k] /\ t1.lesson[k] = t.lesson[k]
        /\ k # "crusher" => Same(t, enemies[d], t1, enemies'[d], "crusher")
    BY <1>1, <1>5, SpawnTimerDoes
  <2>2. StaysFull /\ NoEnd
    BY <1>5 DEF SpawnTimer, StaysFull, NoEnd
  <2>3. LastClear(t1) => LastClear(t)
    BY <1>2, <2>1 DEF LastClear, At
  <2>4. Onwards
    BY <2>1, <2>3, OnwardStep
  <2> QED BY <1>1, <2>2, <2>4, GaugeKept
<1>6. CASE ClearTimer(d, k) /\ At(t, k) # "ultimate"
  <2>1. /\ Alone(d) /\ FlagsKept(t, t1) /\ t1.step[k] = "due" /\ UNCHANGED <<hero, chan>>
        /\ k # "crusher" => Same(t, enemies[d], t1, enemies'[d], "crusher")
    BY <1>1, <1>6, ClearDoes
  <2>2. StaysFull /\ NoEnd
    BY <2>1 DEF StaysFull, NoEnd
  <2>3. LastClear(t1) => LastClear(t)
    BY <1>2, <2>1 DEF LastClear
  <2>4. Onwards
    BY <2>1, <2>3, OnwardStep
  <2> QED BY <1>1, <2>2, <2>4, GaugeKept
<1>7. CASE ClearTimer(d, k) /\ At(t, k) = "ultimate"
  <2>1. /\ Alone(d) /\ t.step[k] = "clear" /\ t1.step[k] = "idle"
        /\ t1.coop = t.coop \cup {k} /\ t1.nowOn = t.nowOn /\ t1.done = t.done
        /\ k # "crusher" => Same(t, enemies[d], t1, enemies[d], "crusher")
    BY <1>1, <1>7, EndDoes
  <2>2. /\ Send(d, <<"end", k>>)
        /\ hero'["crusher"].full = hero["crusher"].full
    <3>1. Send(d, <<"end", k>>) /\ Own(d, k, [hero[k] EXCEPT !.place = "cooperation", !.can = All])
      BY <1>7, DoneIs DEF ClearTimer, EndSolo
    <3> QED BY <1>1, <3>1 DEF Own, TypeOK, HeroState
  <2>3. CASE k = "crusher"
    <3>1. d = "crusher" /\ LastClear(t)
      BY <1>1, <1>7, <2>1, <2>3, TwoHeroes DEF GaugeInv, LastClear
    <3>2. NoEnd
      BY <1>1, <2>2, <3>1, SentKeeps
    <3>3. tuto'["esper"] = tuto["esper"]
      BY <2>1, <3>1, TwoHeroes DEF Alone
    <3>4. Gauged(tuto["crusher"], hero["crusher"]) => Gauged(tuto'["crusher"], hero'["crusher"])
      BY <2>1, <2>2, <3>1 DEF Gauged
    <3> QED BY <1>1, <3>2, <3>3, <3>4 DEF GaugeInv, NoEnd
  <2>4. CASE k # "crusher"
    <3>1. NoEnd
      BY <1>1, <2>2, <2>4, SentKeeps
    <3>2. LastClear(t1) => LastClear(t)
      BY <2>1, <2>4 DEF Same, LastClear, At
    <3>3. Onwards
      BY <2>1, <2>4, <3>2 DEF Alone, Onwards, Onward
    <3> QED BY <1>1, <2>2, <3>1, <3>3, GaugeKept DEF StaysFull
  <2> QED BY <2>3, <2>4
<1> QED BY <1>3, <1>4, <1>5, <1>6, <1>7

LEMMA BlockedKeeps ==
    ASSUME tuto \in [Client -> Record], NEW d \in Client, tuto' = [tuto EXCEPT ![d] = Blocked(@)]
    PROVE  Onwards
<1> DEFINE t == tuto[d]
           t1 == Blocked(t)
<1>1. /\ t1.nowOn = t.nowOn /\ t1.coop = t.coop /\ t1.done = t.done
      /\ t1 = t \/ t1.step["crusher"] = "due"
  <2>1. t \in Record /\ "crusher" \in Hero
    BY TwoHeroes
  <2>2. t1 = t \/ t1 = QuestClear(t, "crusher")
    BY DEF Blocked
  <2> HIDE DEF t, t1
  <2>3. LET n == QuestClear(t, "crusher")
        IN  n.nowOn = t.nowOn /\ n.coop = t.coop /\ n.done = t.done /\ n.step["crusher"] = "due"
    BY <2>1 DEF QuestClear, Record
  <2> QED BY <2>2, <2>3
<1>2. tuto'[d] = t1 /\ \A e \in Client : e # d => tuto'[e] = tuto[e]
  OBVIOUS
<1> QED BY <1>1, <1>2 DEF Onwards, Onward, LastClear

\* After a skip the client is through, whatever the gauge.
LEMMA SkipKeeps ==
    ASSUME TypeOK, GaugeInv, NoEnd, NEW d \in Client, NEW t0 \in Record, Skipped(d, t0),
           t0.step = tuto[d].step, t0.lesson = tuto[d].lesson
    PROVE  GaugeInv'
<1> DEFINE t1 == [t0 EXCEPT !.nowOn = FALSE]
<1>1. ~t1.nowOn /\ t1.step = tuto[d].step /\ t1.lesson = tuto[d].lesson
  BY DEF Record
<1>2. tuto' = [tuto EXCEPT ![d] = t1]
  BY DEF Skipped
<1> HIDE DEF t1
<1>3. tuto'[d] = t1 /\ \A e \in Client : e # d => tuto'[e] = tuto[e]
  BY <1>2 DEF TypeOK
<1>4. LastClear(t1) => LastClear(tuto[d])
  BY <1>1 DEF LastClear, At
<1>5. d # "crusher" => hero'["crusher"] = hero["crusher"]
  BY TwoHeroes DEF Skipped, TypeOK
<1>6. "esper" \in Client /\ "crusher" \in Client /\ "esper" # "crusher" /\ (d = "esper" \/ d = "crusher")
  BY TwoHeroes
<1> QED BY <1>1, <1>3, <1>4, <1>5, <1>6 DEF GaugeInv, Gauged, NoEnd

\* ... the steps of the tutorial as a whole, ...
LEMMA GaugeShared ==
    ASSUME TutorialAssumption, TutorialInv, NEW d \in Client,
           \/ TutorialSequence(d) \/ CooperationQuest(d) \/ CooperationLearnt(d) \/ CooperationQuestClear(d)
           \/ CooperationEnd(d) \/ Command(d)
    PROVE  GaugeInv'
<1> DEFINE t == tuto[d]
           t1 == tuto'[d]
<1>1. /\ LessonsInv /\ GaugeInv /\ TypeOK /\ ClientInv(d) /\ "crusher" \in Hero /\ d \in Hero
      /\ tuto \in [Client -> Record] /\ t \in Record /\ hero \in [Hero -> HeroState]
  BY TwoHeroes DEF TutorialInv, LessonsInv, TypeOK
<1>2. CASE TutorialSequence(d)
  <2>1. Alone(d) /\ FlagsKept(t, t1) /\ \A k \in Hero : t1.step[k] = "on"
    BY <1>1, <1>2, SequenceDoes
  <2>2. StaysFull /\ NoEnd
    BY <1>1, <1>2 DEF TutorialSequence, HeroState, StaysFull, NoEnd
  <2>3. Onwards
    BY <1>1, <2>1, OnwardStep DEF LastClear
  <2> QED BY <1>1, <2>2, <2>3, GaugeKept
<1>3. CASE CooperationQuest(d)
  <2> DEFINE n == IF t.stage = 0 THEN 1 ELSE t.stage
  <2>1. tuto' = [tuto EXCEPT ![d].stage = n, ![d].shared = "on"]
    BY <1>3 DEF CooperationQuest
  <2>2. StaysFull /\ NoEnd
    BY <1>1, <1>3 DEF CooperationQuest, HeroState, StaysFull, NoEnd
  <2> HIDE DEF n
  <2>3. Onwards
    BY <1>1, <2>1 DEF Record, Onwards, Onward, LastClear, At
  <2> QED BY <1>1, <2>2, <2>3, GaugeKept
<1>4. CASE CooperationLearnt(d)
  <2>1. StaysFull /\ NoEnd /\ Onwards
    BY <1>1, <1>4 DEF CooperationLearnt, Record, Onwards, Onward, LastClear, At, StaysFull, NoEnd
  <2> QED BY <1>1, <2>1, GaugeKept
<1>5. CASE CooperationQuestClear(d)
  <2>1. tuto' = [tuto EXCEPT ![d].stage = @ + 1, ![d].shared = "due"] /\ UNCHANGED <<hero, chan>>
    BY <1>5 DEF CooperationQuestClear
  <2>2. StaysFull /\ NoEnd /\ Onwards
    BY <1>1, <2>1 DEF Record, Onwards, Onward, LastClear, At, StaysFull, NoEnd
  <2> QED BY <1>1, <2>2, GaugeKept
<1>6. ASSUME NEW t0, Skipped(d, t0), Send(d, <<"skip", d>>), t0 \in Record,
             t0.step = t.step /\ t0.lesson = t.lesson /\ t0.done = t.done /\ t0.coop = t.coop
      PROVE  GaugeInv'
  <2>1. NoEnd
    BY <1>1, <1>6, SentKeeps
  <2> QED BY <1>1, <1>6, <2>1, SkipKeeps
<1>7. CASE CooperationEnd(d)
  <2> DEFINE t0 == [t EXCEPT !.stage = 5, !.shared = "idle"]
  <2>1. Skipped(d, t0) /\ Send(d, <<"skip", d>>)
    BY <1>7 DEF CooperationEnd
  <2>2. t0 \in Record /\ t0.step = t.step /\ t0.lesson = t.lesson /\ t0.done = t.done /\ t0.coop = t.coop
    BY <1>1, Zenon DEF Record, Steps
  <2> QED BY <1>6, <2>1, <2>2
<1>8. CASE Command(d)
  BY <1>1, <1>6, <1>8 DEF Command
<1> QED BY <1>2, <1>3, <1>4, <1>5, <1>7, <1>8

\* ... what the players do, ...
LEMMA DoGauge ==
    ASSUME TypeOK, GaugeInv, NEW d \in Client, NEW what \in {"surge", "vital", "shield"}, Do(d, what),
           hero["crusher"].full => hero'["crusher"].full \/ (d = "crusher" /\ what = "surge")
    PROVE  GaugeInv'
<1>1. tuto' = [tuto EXCEPT ![d].done = @ \cup {what}] /\ Send(d, <<what, d>>) /\ tuto \in [Client -> Record]
  BY DEF Do, TypeOK
<1>2. NoEnd
  BY <1>1, SentKeeps
<1>3. Onwards /\ tuto'[d].done = tuto[d].done \cup {what}
  BY <1>1 DEF Record, Onwards, Onward, LastClear, At
<1> QED BY <1>2, <1>3, GaugeKept DEF StaysFull

LEMMA GaugePlayers ==
    ASSUME TutorialAssumption, TutorialInv, NEW d \in Client,
           Dash(d) \/ Kill(d) \/ KillNamed(d) \/ GaugeFull \/ Block \/ Surge \/ Vital \/ Shield
    PROVE  GaugeInv'
<1>1. /\ LessonsInv /\ GaugeInv /\ TypeOK /\ "crusher" \in Hero /\ d \in Hero
      /\ tuto \in [Client -> Record] /\ hero \in [Hero -> HeroState] /\ "esper" \in Client /\ "crusher" \in Client
  BY TwoHeroes DEF TutorialInv, LessonsInv, TypeOK
<1>2. CASE Dash(d)
  <2>1. tuto' = [tuto EXCEPT ![d].dashed = @ \cup {d}] /\ Send(d, <<"dash", d>>) /\ hero' = hero
    BY <1>2 DEF Dash
  <2>2. NoEnd
    BY <1>1, <2>1, SentKeeps
  <2>3. Onwards /\ StaysFull
    BY <1>1, <2>1 DEF Record, Onwards, Onward, LastClear, At, StaysFull
  <2> QED BY <1>1, <2>2, <2>3, GaugeKept
<1>3. CASE Kill(d)
  <2>1. PICK e \in {x \in enemies[d] : x.zone = d} : Send(d, <<"kill", e.name>>)
    BY <1>3 DEF Kill
  <2>2. NoEnd
    BY <1>1, <2>1, SentKeeps
  <2>3. PICK f \in {hero[d].full, d = "esper" \/ Lesson(d, d) = "ultimate" \/ hero[d].full} :
            hero' = [hero EXCEPT ![d].full = f /\ CanFight(d)]
    BY <1>3 DEF Kill
  <2>4. hero[d].full => f
    BY <2>3
  <2>5. tuto' = tuto /\ (CanFight(d) \/ d = "esper")
    BY <1>3 DEF Kill
  <2> DEFINE b == f /\ CanFight(d)
  <2>6. d = "crusher" => (hero[d].full => b)
    BY <2>4, <2>5
  <2>7. hero' = [hero EXCEPT ![d].full = b]
    BY <2>3
  <2> HIDE DEF b
  <2>8. hero["crusher"].full => hero'["crusher"].full
    BY <1>1, <2>6, <2>7 DEF HeroState
  <2>9. Onwards
    BY <2>5 DEF Onwards, Onward
  <2> QED BY <1>1, <2>2, <2>8, <2>9, GaugeKept DEF StaysFull
<1>4. CASE KillNamed(d)
  <2>1. Send(d, <<"named", d>>) /\ UNCHANGED <<tuto, hero>>
    BY <1>4 DEF KillNamed
  <2>2. NoEnd
    BY <1>1, <2>1, SentKeeps
  <2> QED BY <1>1, <2>1, <2>2, GaugeKept DEF Onwards, Onward, StaysFull
<1>5. CASE GaugeFull
  <2>1. /\ tuto' = [tuto EXCEPT !["esper"].last = TRUE] /\ chan' = chan
        /\ hero' = [hero EXCEPT !["esper"].skills = {"dash", "ultimate"}]
    BY <1>5 DEF GaugeFull
  <2>2. Onwards /\ StaysFull /\ NoEnd
    BY <1>1, <2>1 DEF Record, Onwards, Onward, LastClear, At, StaysFull, NoEnd, HeroState
  <2> QED BY <1>1, <2>2, GaugeKept
<1>6. CASE Block
  <2>1. tuto' = [tuto EXCEPT !["crusher"] = Blocked(@)] /\ Send("crusher", <<"barrier", "crusher">>) /\ hero' = hero
    BY <1>6 DEF Block
  <2>2. NoEnd
    BY <1>1, <2>1, SentKeeps
  <2>3. Onwards
    BY <1>1, <2>1, BlockedKeeps
  <2> QED BY <1>1, <2>1, <2>2, <2>3, GaugeKept DEF StaysFull
<1>7. CASE Surge
  BY <1>1, <1>7, DoGauge DEF Surge
<1>8. CASE Vital
  BY <1>1, <1>8, DoGauge DEF Vital
<1>9. CASE Shield
  BY <1>1, <1>9, DoGauge DEF Shield
<1> QED BY <1>2, <1>3, <1>4, <1>5, <1>6, <1>7, <1>8, <1>9

\* ... and the calls that arrive.
LEMMA GaugeRecv ==
    ASSUME TutorialAssumption, TutorialInv, NEW d \in Client, Recv(d)
    PROVE  GaugeInv'
<1> DEFINE what == Head(chan[d])[1]
           arg == Head(chan[d])[2]
           g == Other(d)
<1>1. /\ LessonsInv /\ GaugeInv /\ TypeOK /\ "crusher" \in Hero /\ d \in Hero /\ d \in Client
      /\ tuto \in [Client -> Record] /\ tuto[d] \in Record /\ hero \in [Hero -> HeroState]
      /\ "esper" \in Client /\ "crusher" \in Client
      /\ g \in Client /\ \A h \in Hero : h = d \/ h = g
  BY TwoHeroes DEF TutorialInv, LessonsInv, TypeOK
<1>2. /\ Came1(d) /\ chan'[g] = chan[g] /\ (\A h : ~Ended(chan'[d], h))
      /\ what \in {"end", "skip", "named", "dash", "barrier", "surge", "vital", "shield", "kill"}
      /\ what # "kill" => arg \in Hero
      /\ what = "end" => Ended(chan[d], arg)
  BY <1>1, CallCame DEF Recv, Came1
<1>3. NoEnd
  BY <1>1, <1>2 DEF NoEnd
<1>4. CASE what = "end"
  <2>1. d # arg \/ arg # "crusher"
    BY <1>1, <1>2, <1>4 DEF GaugeInv
  <2>2. EndSolo(d, arg, tuto[d])
    BY <1>4 DEF Recv
  <2>3. tuto' = [tuto EXCEPT ![d].coop = @ \cup {arg}]
    BY <1>1, <2>2 DEF EndSolo, Record
  <2>4. hero'["crusher"].full = hero["crusher"].full
    BY <1>1, <1>2, <1>4, <2>2 DEF EndSolo, Own, HeroState
  <2>5. \A e \in Client : /\ tuto'[e].nowOn = tuto[e].nowOn /\ tuto'[e].step = tuto[e].step
                          /\ tuto'[e].lesson = tuto[e].lesson /\ tuto'[e].done = tuto[e].done
                          /\ e # d \/ arg # "crusher" => ("crusher" \in tuto'[e].coop => "crusher" \in tuto[e].coop)
    BY <1>1, <2>3 DEF Record
  <2>6. "crusher" \in tuto'["crusher"].coop => "crusher" \in tuto["crusher"].coop
    BY <1>1, <2>1, <2>5
  <2> QED BY <1>1, <1>3, <2>4, <2>5, <2>6 DEF GaugeInv, Gauged, LastClear, At, NoEnd
<1>5. CASE what = "skip"
  <2>1. Skipped(d, tuto[d])
    BY <1>5 DEF Recv
  <2> QED BY <1>1, <1>3, <2>1, SkipKeeps
<1>6. CASE what \in {"kill", "named"}
  <2>1. UNCHANGED <<tuto, hero>>
    BY <1>6 DEF Recv
  <2> QED BY <1>1, <1>3, <2>1, GaugeKept DEF Onwards, Onward, StaysFull
<1>7. CASE what = "dash"
  <2>1. tuto' = [tuto EXCEPT ![d].dashed = IF tuto[d].nowOn THEN @ \cup {arg} ELSE @] /\ hero' = hero
    BY <1>7 DEF Recv
  <2>2. Onwards
    BY <1>1, <2>1 DEF Record, Onwards, Onward, LastClear, At
  <2> QED BY <1>1, <1>3, <2>1, <2>2, GaugeKept DEF StaysFull
<1>8. CASE what = "barrier"
  <2>1. tuto' = [tuto EXCEPT ![d] = Blocked(@)] /\ hero' = hero
    BY <1>8 DEF Recv
  <2>2. Onwards
    BY <1>1, <2>1, BlockedKeeps
  <2> QED BY <1>1, <1>3, <2>1, <2>2, GaugeKept DEF StaysFull
<1>9. CASE what \in {"surge", "vital", "shield"}
  <2> DEFINE b == what = "shield" \/ arg \in tuto[d].coop
  <2>1. tuto' = [tuto EXCEPT ![d].done = IF b THEN @ \cup {what} ELSE @] /\ hero' = hero
    BY <1>9 DEF Recv
  <2> HIDE DEF b, what
  <2>2. Onwards
    BY <1>1, <2>1 DEF Record, Onwards, Onward, LastClear, At
  <2> QED BY <1>1, <1>3, <2>1, <2>2, GaugeKept DEF StaysFull
<1> QED BY <1>2, <1>4, <1>5, <1>6, <1>7, <1>8, <1>9
-----------------------------------------------------------------------------
(* So the invariant holds, and says what is wanted.                         *)

LEMMA FreshIs ==
    ASSUME TutorialAssumption, NEW h \in Hero
    PROVE  /\ Fresh \in Record /\ Names(Fresh, {}) /\ Shared(Fresh) /\ Course(Fresh, {}, h)
           /\ Fresh.nowOn /\ ~Fresh.begun /\ Fresh.dashed = {} /\ Fresh.coop = {} /\ Fresh.done = {} /\ Fresh.stage = 0
           /\ Fresh.lesson[h] = 1 /\ Fresh.step[h] = "idle"
<1> DEFINE f == [k \in Hero |-> 1]
           e == [k \in Hero |-> "idle"]
           z == [k \in Hero |-> 0]
<1>1. f \in [Hero -> Nat] /\ e \in [Hero -> Steps] /\ z \in [Hero -> Nat] /\ f[h] = 1 /\ e[h] = "idle" /\ z[h] = 0
  BY DEF Steps
<1>2. Fresh = [begun |-> FALSE, nowOn |-> TRUE, spawned |-> 0, lesson |-> f, step |-> e, left |-> z,
               dashed |-> {}, coop |-> {}, stage |-> 0, shared |-> "idle", done |-> {}, last |-> FALSE]
  BY DEF Fresh
<1> HIDE DEF f, e, z
<1>3. Fresh \in Record
  BY <1>1, <1>2 DEF Record, Steps
<1>4. /\ Fresh.nowOn /\ ~Fresh.begun /\ Fresh.dashed = {} /\ Fresh.coop = {} /\ Fresh.done = {} /\ Fresh.stage = 0
      /\ Fresh.shared = "idle" /\ Fresh.lesson[h] = 1 /\ Fresh.step[h] = "idle" /\ Fresh.left[h] = 0
  BY <1>1, <1>2
<1>5. Names(Fresh, {})
  BY FS_EmptySet DEF Names
<1>6. Shared(Fresh)
  BY <1>4 DEF Shared
<1>7. 1 \in 1 .. End(h) /\ Zone({}, h) = {}
  BY LessonsAre DEF Zone
<1>8. Course(Fresh, {}, h)
  BY <1>4, <1>7 DEF Course
<1> QED BY <1>3, <1>4, <1>5, <1>6, <1>8

LEMMA InitInv ==
    ASSUME TutorialAssumption, Init
    PROVE  TutorialInv
<1>1. /\ \A c \in Client : tuto[c] = Fresh /\ enemies[c] = {} /\ chan[c] = << >>
      /\ \A h \in Hero : hero[h].skills = {}
      /\ early = FALSE
  BY TwoHeroes DEF Init
<1>2. TypeOK
  <2>1. Fresh \in Record
    BY FreshIs, TwoHeroes
  <2>2. << >> \in Seq(Call)
    OBVIOUS
  <2>3. [h \in Hero |-> [can |-> {}, skills |-> {}, immortal |-> FALSE, place |-> "tutorial", full |-> FALSE]]
            \in [Hero -> HeroState]
    BY DEF HeroState
  <2> QED BY <2>1, <2>2, <2>3 DEF Init, TypeOK
<1>3. Silent(<< >>)
  BY DEF Silent
<1>4. ASSUME NEW d \in Client
      PROVE  ClientInv(d)
  <2>1. tuto[d] = Fresh /\ enemies[d] = {} /\ chan[d] = << >> /\ d \in Hero
    BY <1>1, TwoHeroes
  <2>2. Calls(<< >>, d)
    BY DEF Calls
  <2>3. \A h \in Hero : Names(Fresh, {}) /\ Shared(Fresh) /\ Course(Fresh, {}, h)
    BY FreshIs
  <2>4. Names(Fresh, {}) /\ Shared(Fresh)
    BY <2>1, <2>3
  <2>5. Names(tuto[d], enemies[d]) /\ Shared(tuto[d]) /\ Calls(chan[d], d) /\ \A h \in Hero : Course(tuto[d], enemies[d], h)
    BY <2>1, <2>2, <2>3, <2>4, Zenon
  <2> QED BY <2>5 DEF ClientInv
<1>5. ASSUME NEW h \in Hero, NEW x, x.skills = {}, NEW q, Silent(q)
      PROVE  HeroInv(Fresh, {}, Fresh, {}, q, q, x, FALSE, h)
  <2>1. /\ Fresh.nowOn /\ ~Fresh.begun /\ h \notin Fresh.dashed /\ h \notin Fresh.coop /\ Mark(h) \notin Fresh.done
        /\ Fresh.stage = 0 /\ Fresh.lesson[h] = 1 /\ Fresh.step[h] = "idle"
    BY FreshIs
  <2>2. (\A k : ~Carries(q, k)) /\ (\A k : ~Ended(q, k))
    BY <1>5, SilentIs
  <2>3. ~Fight(h, At(Fresh, h))
    BY <2>1, LessonsAre DEF At, Fight
  <2>4. Bounded(Fresh, {}, q, h)
    BY <2>2, <2>3 DEF Bounded
  <2>5. Together(Fresh, {}, Fresh, {}, q, h)
    BY <2>1 DEF Together, Abreast
  <2>6. Heard(Fresh, Fresh, q, h) /\ Through(Fresh, Fresh, {}, q, q, h)
    BY <2>1, <2>2 DEF Heard, Through
  <2>7. Calm(Fresh, {}, Fresh, {}, q, q, h)
    BY <2>1 DEF Calm, Marked, MarkStage
  <2>8. Able(Fresh, x, h)
    BY <1>5, <2>1 DEF Able
  <2> QED BY <2>1, <2>4, <2>5, <2>6, <2>7, <2>8 DEF HeroInv, Paired
<1>6. ASSUME NEW h \in Hero
      PROVE  HeroInv(tuto[h], enemies[h], tuto[Other(h)], enemies[Other(h)], chan[h], chan[Other(h)], hero[h], early, h)
  <2>1. /\ tuto[h] = Fresh /\ enemies[h] = {} /\ chan[h] = << >> /\ early = FALSE /\ hero[h].skills = {}
        /\ tuto[Other(h)] = Fresh /\ enemies[Other(h)] = {} /\ chan[Other(h)] = << >>
    BY <1>1, TwoHeroes
  <2>2. HeroInv(Fresh, {}, Fresh, {}, << >>, << >>, hero[h], FALSE, h)
    BY <1>3, <1>5, <2>1
  <2> QED BY <2>1, <2>2, Zenon
<1>7. GaugeInv
  <2>1. "crusher" \in Hero /\ "esper" \in Client /\ "crusher" \in Client
    BY TwoHeroes
  <2>2. tuto["crusher"] = Fresh /\ tuto["esper"] = Fresh /\ Silent(chan["crusher"])
    BY <1>1, <1>3, <2>1
  <2>3. Fresh.coop = {} /\ Fresh.step["crusher"] = "idle"
    BY <2>1, FreshIs
  <2> QED BY <2>2, <2>3, SilentIs DEF GaugeInv, Gauged, LastClear
<1> QED BY <1>2, <1>4, <1>6, <1>7 DEF TutorialInv, LessonsInv, HeroesInv

LEMMA NextInv ==
    ASSUME TutorialAssumption, TutorialInv, [Next]_vars
    PROVE  TutorialInv'
<1>1. LessonsInv /\ GaugeInv
  BY DEF TutorialInv
<1>2. ASSUME NEW c \in Client,
             \/ TutorialSequence(c) \/ CooperationQuest(c) \/ CooperationLearnt(c) \/ CooperationQuestClear(c)
             \/ CooperationEnd(c) \/ Command(c) \/ Recv(c) \/ Dash(c) \/ Kill(c) \/ KillNamed(c)
      PROVE  LessonsInv' /\ GaugeInv'
  <2>1. LessonsInv'
    BY <1>1, <1>2, StepSequence, StepCoopQuest, StepCoopLearnt, StepCoopClear, StepCoopEnd, StepCommand, StepRecv, StepDash,
       StepKill, StepKillNamed, Zenon
  <2>2. GaugeInv'
    BY <1>2, GaugeShared, GaugePlayers, GaugeRecv, Zenon
  <2> QED BY <2>1, <2>2
<1>3. ASSUME NEW c \in Client, NEW h \in Hero, Quest(c, h) \/ Learnt(c, h) \/ SpawnTimer(c, h) \/ ClearTimer(c, h)
      PROVE  LessonsInv' /\ GaugeInv'
  <2>1. LessonsInv'
    BY <1>1, <1>3, StepQuest, StepLearnt, StepSpawn, StepClear, StepEnd, Zenon
  <2>2. GaugeInv'
    BY <1>3, GaugeLessons, Zenon
  <2> QED BY <2>1, <2>2
<1>4. ASSUME GaugeFull \/ Block \/ Surge \/ Vital \/ Shield
      PROVE  LessonsInv' /\ GaugeInv'
  <2>1. LessonsInv'
    BY <1>1, <1>4, StepGauge, StepBlock, StepSurge, StepVital, StepShield, Zenon
  <2>2. "crusher" \in Client
    BY TwoHeroes
  <2>3. GaugeInv'
    BY <1>4, <2>2, GaugePlayers, Zenon
  <2> QED BY <2>1, <2>3
<1>5. ASSUME UNCHANGED vars
      PROVE  LessonsInv' /\ GaugeInv'
  BY <1>1, <1>5 DEF vars, LessonsInv, TypeOK, ClientInv, HeroesInv, GaugeInv
<1>6. LessonsInv' /\ GaugeInv'
  BY <1>2, <1>3, <1>4, <1>5 DEF Next
<1> QED BY <1>6 DEF TutorialInv

\* What a lesson of his own needs, ...
LEMMA LessonCan ==
    ASSUME TutorialAssumption, LessonsInv, NEW h \in Hero, tuto[h].nowOn, tuto[h].step[h] = "on", h \notin tuto[h].coop,
           ~(h = "esper" /\ tuto[h].last),
           ~(h = "crusher" /\ Lesson(h, h) = "ultimate" /\ tuto[h].left[h] = 0 /\ ZoneEmpty(h, h) /\ ~hero[h].full)
    PROVE  LessonPossible(h, Lesson(h, h))
<1> DEFINE t == tuto[h]
           x == hero[h]
           l == At(t, h)
<1>1. Fit(t, enemies[h], h) /\ Able(t, x, h)
  BY Before, TwoHeroes DEF HeroInv
<1>2. Lesson(h, h) = l
  BY DoneIs
<1>3. t.nowOn /\ t.step[h] = "on" /\ h \notin t.coop /\ ~(h = "esper" /\ t.last)
  OBVIOUS
<1>4. h = "crusher" /\ l = "ultimate" => t.left[h] > 0 \/ ~ZoneEmpty(h, h) \/ x.full
  BY <1>1, <1>2, FitHas
<1> HIDE DEF t, x, l
<1>5. t.begun /\ t.lesson[h] \in 1 .. End(h)
  BY <1>1, <1>3 DEF Fit, Course
<1>6. x.can = CanDo(t, h) /\ x.skills = Allowed(h, l)
  BY <1>1, <1>3, <1>5 DEF Able, l
<1>7. /\ l = "dash" <=> t.lesson[h] = 1
      /\ l = "primary" <=> t.lesson[h] = 2
      /\ l \in {"dash", "primary", "m2", "first", "second", "ultimate"}
  BY <1>5, AtIs DEF l
<1>8. "move" \in x.can /\ (l # "dash" => "attack" \in x.can)
  BY <1>3, <1>6, <1>7 DEF CanDo, All
<1>9. CASE l = "dash"
  BY <1>6, <1>8, <1>9, <1>2 DEF CanDash, Has, Allowed, x, LessonPossible
<1>10. CASE h = "crusher" /\ l = "first"
  BY <1>6, <1>8, <1>10, <1>2 DEF CanBlock, Has, Allowed, x, LessonPossible
<1>11. l # "dash" /\ ~(h = "crusher" /\ l = "first") => CanFight(h)
  BY <1>6, <1>7, <1>8 DEF Allowed, AllSkills, CanFight, x
<1>12. CASE h = "crusher" /\ l = "ultimate"
  BY <1>2, <1>4, <1>11, <1>12 DEF LessonPossible, t, x
<1>13. CASE l # "dash" /\ ~(h = "crusher" /\ l = "first") /\ ~(h = "crusher" /\ l = "ultimate")
  BY <1>2, <1>11, <1>13 DEF LessonPossible
<1> QED BY <1>9, <1>10, <1>12, <1>13

\* ... and one of the cooperation.
LEMMA SharedCan ==
    ASSUME TutorialAssumption, TutorialInv, NEW h \in Hero, tuto[h].nowOn, tuto[h].shared = "on",
           Asked[tuto[h].stage] \notin tuto[h].done
    PROVE  SharedPossible(h, tuto[h].stage)
<1> DEFINE t == tuto[h]
           x == hero[h]
<1>1. Fit(t, enemies[h], h) /\ Able(t, x, h)
  BY Before, TwoHeroes DEF TutorialInv, HeroInv
<1>2. t.nowOn /\ t.shared = "on" /\ Asked[t.stage] \notin t.done
  OBVIOUS
<1>3. h = "crusher" => Gauged(t, x)
  BY DEF TutorialInv, GaugeInv
<1> HIDE DEF t, x
<1>4. t.stage \in Nat /\ Shared(t)
  BY <1>1, RecordHas DEF Fit
<1>5. t.stage \in 1 .. 4 /\ t.coop = Hero
  BY <1>2, <1>4 DEF Shared
<1>6. /\ x.can = All
      /\ t.stage \in {1, 2} => x.skills = AllSkills
      /\ h = "esper" /\ t.stage = 3 => x.skills = {"third"}
      /\ h = "crusher" /\ t.stage = 4 => x.skills = {"third"}
  BY <1>1, <1>2, <1>5 DEF Able
<1>7. h = "esper" \/ h = "crusher"
  BY TwoHeroes
<1>8. CASE t.stage = 1
  <2>1. h = "crusher" => x.full
    BY <1>2, <1>3, <1>5, <1>8 DEF Gauged, Asked
  <2> QED BY <1>5, <1>6, <1>7, <1>8, <2>1 DEF CanSurge, CanUltimate, Has, All, AllSkills, t, x, SharedPossible
<1>9. CASE t.stage = 2
  BY <1>6, <1>9 DEF All, AllSkills, CanFight, x, SharedPossible, t
<1>10. CASE t.stage = 3
  BY <1>6, <1>7, <1>10 DEF CanShield, Has, All, x, SharedPossible, t
<1>11. CASE t.stage = 4
  BY <1>6, <1>7, <1>11 DEF CanShield, Has, All, x, SharedPossible, t
<1> QED BY <1>5, <1>8, <1>9, <1>10, <1>11

LEMMA InvGoesOn ==
    ASSUME TutorialAssumption, TutorialInv
    PROVE  CanGoOn
<1>1. LessonsInv
  BY DEF TutorialInv
<1>2. ASSUME NEW h \in Hero, ~(h = "esper" /\ tuto[h].last /\ tuto[h].stage = 0),
             ~(/\ h = "crusher" /\ Lesson(h, h) = "ultimate" /\ tuto[h].step[h] = "on"
               /\ tuto[h].left[h] = 0 /\ ZoneEmpty(h, h) /\ ~hero[h].full)
      PROVE  PlayerCan(h)
  <2>1. Shared(tuto[h]) /\ tuto[h].stage \in Nat
    BY <1>1, <1>2, Before, TwoHeroes, RecordHas DEF Fit
  <2>2. ASSUME tuto[h].nowOn, tuto[h].step[h] = "on", h \notin tuto[h].coop
        PROVE  LessonPossible(h, Lesson(h, h))
    BY <1>1, <1>2, <2>1, <2>2, LessonCan DEF Shared
  <2> QED BY <1>2, <2>2, SharedCan DEF PlayerCan
<1> QED BY <1>2 DEF CanGoOn

LEMMA InvFree ==
    ASSUME TutorialInv
    PROVE  FreeAfterSkip
BY TwoHeroes DEF TutorialInv, LessonsInv, HeroesInv, HeroInv, Freed, FreeAfterSkip

\* Whatever the lessons, and however often more enemies come: a player can always do what his lesson asks
\* for, but where the Esper's ultimate did not kill all, and where the Crusher's gauge is not full with
\* nobody left to fill it; and after the tutorial, or a skip before it, the heroes are free.
THEOREM TutorialGoesOn == TutorialAssumption => (Spec => [](CanGoOn /\ FreeAfterSkip))
<1> SUFFICES ASSUME TutorialAssumption
             PROVE  Spec => [](CanGoOn /\ FreeAfterSkip)
  OBVIOUS
<1>1. Init => TutorialInv
  BY InitInv
<1>2. TutorialInv /\ [Next]_vars => TutorialInv'
  BY NextInv
<1>3. TutorialInv => CanGoOn /\ FreeAfterSkip
  BY InvGoesOn, InvFree
<1> QED BY <1>1, <1>2, <1>3, PTL DEF Spec
=============================================================================
