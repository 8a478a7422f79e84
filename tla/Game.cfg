SPECIFICATION Spec
CONSTANTS
    HeroHp = 2
    MaxShield = 2
    HeroHits = 2
    Shields = 1
    MaxCasts = 3
    PoolSize = 2
    AddAmount = 1
    MaxObject = 3
    EnemyHp = 2
    WaveSize = 3
    WaveGap = 2
    EnemyEvents = {{"Drop", "Crash"}, {"Rush"}}
    Names = {1, 2, 3, 4, 5, 6}
    EnemyHits = 2
    MaxWaves = 1
    MaxLosses = 1
    BossHp = 10
    Damages = {2, 6}
    Pulse = {e1, e2}
    BossHits = 4
    StagePresses = 2
    HackingTime = 2
    WaveTime = 1
    LabPresses = 4
    MindInputs = 2
    MindMoves = 1
    MaxSkips = 1
    MaxSelects = 4
    SelectLosses = 2
    NearHits = 1
    MaxGauge = 2
    AgroInputs = 4
    Shots = 1
    MaxAttacks = 2
    BossMoves = 1
    SwingPresses = 3
    MaxSurges = 1
    SwingCalls = 1
    Steps = 1
    Ticks = 2
    StackPresses = 2
    Balls = 3
CHECK_DEADLOCK FALSE
INVARIANTS
    HealthOK
    SkillsOK
    EnemiesOK
    MindOK
    BossAgrees
    BossFights
    HitsCount
    BossOnce
    TutorialOK
    LabOK
PROPERTIES
    HeroesKept
