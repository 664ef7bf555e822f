\* Two clients that come and go while a wave and the boss are fought, to WIN.
CONSTANTS
    Endpoints = {e1, e2}
    EnemiesPerWave = 1
    NumberOfWaves = 1
    NumberOfBoss = 1
    BossLives = 1
    MaxEnemyBullets = 1
    BossExtraBullets = 0
    MaxEntities = 5
SYMMETRY Symmetry
SPECIFICATION Spec
INVARIANTS
    TypeOK
    PlayersOwned
    FramesTellAll
    WinIsFinal
    BossAfterWaves
PROPERTY
    ImplementsAnyGame
