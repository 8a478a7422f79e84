------------------------------- MODULE MCGame --------------------------------
(***************************************************************************)
(* The parts of the game that is played over the network, each checked on  *)
(* its own in the behaviours of one run: which part runs is chosen at the  *)
(* beginning.  The variables of a part are v1, v2, ... in the order of its *)
(* declarations; those it has no use for are 0.                            *)
(***************************************************************************)
EXTENDS Integers, Sequences, FiniteSets, TLC

CONSTANTS
    HeroHp, MaxShield, HeroHits, Shields, MaxCasts, PoolSize, AddAmount, MaxObject,
    EnemyHp, WaveSize, WaveGap, EnemyEvents, Names, EnemyHits, MaxWaves, MaxLosses,
    BossHp, Damages, Pulse, BossHits, StagePresses, HackingTime, WaveTime, LabPresses,
    MindInputs, MindMoves, MaxSkips, MaxSelects, SelectLosses, NearHits, MaxGauge,
    AgroInputs, BossMoves, SwingPresses, MaxSurges, SwingCalls, Steps, Ticks,
    StackPresses, Balls, Shots, MaxAttacks

\* The lessons that are run through.
TutoLessons == [esper |-> <<"dash", "primary", "ultimate">>, crusher |-> <<"dash", "primary", "first", "ultimate">>]

\* More enemies of the last one.
TutoSpawns == [esper |-> 1, crusher |-> 0]

VARIABLES
    part, v1, v2, v3, v4, v5, v6, v7, v8, v9, v10, v11, v12, v13, v14, v15

Health == INSTANCE HeroHealth WITH
    MaxHp <- HeroHp, MaxHits <- HeroHits, MaxCasts <- Shields, hero <- v1, vital <- v2,
    shieldTimer <- v3, leaving <- v4, over <- v5, chan <- v6, hits <- v7, casts <- v8, told <- v9
Skill == INSTANCE Skills WITH
    hero <- v1, can <- v2, body <- v3, anims <- v4, held <- v5, rush <- v6, ready <- v7, charged <- v8,
    surge <- v9, swinging <- v10, casts <- v11, freed <- v12
Enemy == INSTANCE Enemies WITH
    MaxHp <- EnemyHp, EventSets <- EnemyEvents, MaxHits <- EnemyHits, may <- v1, pool <- v2,
    die <- v3, hp <- v4, timer <- v5, wave <- v6, master <- v7, away <- v8, chan <- v9, hits <- v10,
    waves <- v11, losses <- v12, came <- v13, cut <- v14, clean <- v15
TheBoss == INSTANCE Boss WITH
    MaxHp <- BossHp, MaxHits <- BossHits, hp <- v1, immortal <- v2, die <- v3, checks <- v4,
    emp <- v5, chan <- v6, hits <- v7, crossed <- v8
Stage == INSTANCE Stages WITH
    MaxPresses <- StagePresses, stage <- v1, place <- v2, view <- v3, chan <- v4, presses <- v5,
    starts <- v6
TheLab == INSTANCE Lab WITH
    MaxPresses <- LabPresses, lab <- v1, place <- v2, view <- v3, wave <- v4, left <- v5,
    current <- v6, chan <- v7, presses <- v8, spawned <- v9, alone <- v10
TheMind == INSTANCE EnemyMind WITH
    MaxInputs <- MindInputs, MaxMoves <- MindMoves, kind <- v1, ai <- v2, master <- v3, chan <- v4,
    inputs <- v5, moves <- v6, orphan <- v7, adopted <- v8
Tuto == INSTANCE Tutorial WITH
    Solo <- TutoLessons, Spawns <- TutoSpawns, tuto <- v1, enemies <- v2, named <- v3, hero <- v4,
    chan <- v5, skips <- v6, early <- v7
Sel == INSTANCE Selector WITH
    MaxLosses <- SelectLosses, sel <- v1, slot <- v2, away <- v3, plays <- v4, auth <- v5, chan <- v6,
    selects <- v7, losses <- v8, muddled <- v9
Agro == INSTANCE BossAgro WITH
    MaxInputs <- AgroInputs, MaxMoves <- BossMoves, agro <- v1, seat <- v2, master <- v3,
    down <- v4, chan <- v5, inputs <- v6, moves <- v7, periods <- v8, blows <- v9
Swing == INSTANCE CrusherAttacks WITH
    MaxPresses <- SwingPresses, MaxCalls <- SwingCalls, anim <- v1, surge <- v2, skill <- v3,
    damage <- v4, chan <- v5, presses <- v6, surges <- v7, met <- v8, dealt <- v9, wasted <- v10
Stack == INSTANCE EsperAttacks WITH
    MaxPresses <- StackPresses, MaxShots <- Balls, esper <- v1, stack <- v2, behind <- v3,
    chan <- v4, presses <- v5, shots <- v6, hits <- v7, cut <- v8, late <- v9
Fight == INSTANCE BossMind WITH
    MaxMoves <- BossMoves, boss <- v1, master <- v2, chan <- v3, attacks <- v4, moves <- v5,
    early <- v6

ASSUME GameAssumption ==
    /\ Health!HealthAssumption
    /\ Skill!SkillsAssumption
    /\ Enemy!EnemiesAssumption
    /\ TheBoss!BossAssumption
    /\ Stage!StagesAssumption
    /\ TheLab!LabAssumption
    /\ TheMind!MindAssumption
    /\ Tuto!TutorialAssumption
    /\ Sel!SelectorAssumption
    /\ Agro!BossAgroAssumption
    /\ Swing!CrusherAttacksAssumption
    /\ Stack!EsperAttacksAssumption
    /\ Fight!BossMindAssumption

\* The variables after the first n are not in use.
Off14 == v15 = 0
Off13 == v14 = 0 /\ Off14
Off12 == v13 = 0 /\ Off13
Off11 == v12 = 0 /\ Off12
Off10 == v11 = 0 /\ Off11
Off9 == v10 = 0 /\ Off10
Off8 == v9 = 0 /\ Off9
Off7 == v8 = 0 /\ Off8
Off6 == v7 = 0 /\ Off7
rest6 == <<v7, v8, v9, v10, v11, v12, v13, v14, v15>>
rest7 == <<v8, v9, v10, v11, v12, v13, v14, v15>>
rest8 == <<v9, v10, v11, v12, v13, v14, v15>>
rest9 == <<v10, v11, v12, v13, v14, v15>>
rest10 == <<v11, v12, v13, v14, v15>>
rest12 == <<v13, v14, v15>>

Init ==
    \/ part = "health" /\ Health!Init /\ Off9
    \/ part = "skills" /\ Skill!Init /\ Off12
    \/ part = "enemies" /\ Enemy!Init
    \/ part = "boss" /\ TheBoss!Init /\ Off8
    \/ part = "stages" /\ Stage!Init /\ Off6
    \/ part = "lab" /\ TheLab!Init /\ Off10
    \/ part = "mind" /\ TheMind!Init /\ Off8
    \/ part = "tutorial" /\ Tuto!Init /\ Off7
    \/ part = "selector" /\ Sel!Init /\ Off9
    \/ part = "agro" /\ Agro!Init /\ Off9
    \/ part = "swings" /\ Swing!Init /\ Off10
    \/ part = "stacks" /\ Stack!Init /\ Off9
    \/ part = "attacks" /\ Fight!Init /\ Off6

Next ==
    \/ part = "health" /\ Health!Next /\ UNCHANGED <<part, rest9>>
    \/ part = "skills" /\ Skill!Next /\ UNCHANGED <<part, rest12>>
    \/ part = "enemies" /\ Enemy!Next /\ UNCHANGED part
    \/ part = "boss" /\ TheBoss!Next /\ UNCHANGED <<part, rest8>>
    \/ part = "stages" /\ Stage!Next /\ UNCHANGED <<part, rest6>>
    \/ part = "lab" /\ TheLab!Next /\ UNCHANGED <<part, rest10>>
    \/ part = "mind" /\ TheMind!Next /\ UNCHANGED <<part, rest8>>
    \/ part = "tutorial" /\ Tuto!Next /\ UNCHANGED <<part, rest7>>
    \/ part = "selector" /\ Sel!Next /\ UNCHANGED <<part, rest9>>
    \/ part = "agro" /\ Agro!Next /\ UNCHANGED <<part, rest9>>
    \/ part = "swings" /\ Swing!Next /\ UNCHANGED <<part, rest10>>
    \/ part = "stacks" /\ Stack!Next /\ UNCHANGED <<part, rest9>>
    \/ part = "attacks" /\ Fight!Next /\ UNCHANGED <<part, rest6>>

vars == <<part, v1, v2, v3, v4, v5, v6, v7, v8, v9, v10, v11, v12, v13, v14, v15>>

Spec == Init /\ [][Next]_vars

\* When both heroes lie on the ground the game is ending, and the other client shows the
\* health and shield of a hero as they are.
HealthOK == part = "health" => Health!FallenEndsGame /\ Health!HealthShown

\* A hero on the ground cannot attack, whatever ends meanwhile, and one that stands with
\* nothing going on may do everything.
SkillsOK == part = "skills" => Skill!FallenHelpless /\ Skill!StandsFree

\* Both clients see the same enemies alive, with the same health, and a wave that ran to
\* its end has brought all its enemies, each once.
EnemiesOK == part = "enemies" => Enemy!EnemiesAgree /\ Enemy!WaveComplete

\* A living enemy that has been stopped has something to restart it, and an attack that
\* its mind waits for is under way or its end is known, except after its master left.
MindOK == part = "mind" => TheMind!WakesAgain /\ TheMind!AttackEnds

\* The clients agree on the boss when nothing is under way.
BossAgrees == part = "boss" => TheBoss!BossAgrees

\* The boss does not stand before a fallen hero for long, and a mind of his that waits for
\* the end of an attack is told of it, not before.
BossFights ==
    /\ part = "agro" => Agro!SparesFallen
    /\ part = "attacks" => Fight!AttacksRunOut

\* What the heroes' attacks hit is hurt, as they pay, and both clients count the same damage.
HitsCount ==
    /\ part = "swings" => Swing!SwingsCount
    /\ part = "stacks" => Stack!StacksPay

\* The film starts the boss once; the game is over only when he is dead.
BossOnce == part = "stages" => Stage!BossOnce

\* In the tutorial a player can do what his lesson asks for, with two exceptions named
\* there, and after it the heroes are free, mortal and in the shelter.
TutorialOK == part = "tutorial" => Tuto!CanGoOn /\ Tuto!FreeAfterSkip

\* The stage begins a phase only with both heroes behind its doors, and none of the
\* laboratory ends before all its enemies have come.
LabOK == part = "lab" => TheLab!LabsInStep /\ TheLab!WaveBeforeEnd

\* Each player keeps the hero he chose, and never do both clients play the same one.
HeroesKept == [](part = "selector" => Sel!EachPlaysOne) /\ [][part = "selector" => Sel!HeroKept]_vars
==============================================================================
