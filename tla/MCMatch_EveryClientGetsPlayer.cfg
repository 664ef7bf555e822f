\* Violated: see the finding of the same name.
CONSTANTS
    Endpoints = {e1, e2}
    EnemiesPerWave = 0
    NumberOfWaves = 1
    NumberOfBoss = 1
    BossLives = 2
    MaxEnemyBullets = 1
    BossExtraBullets = 1
    MaxEntities = 0
SPECIFICATION FairSpec
PROPERTIES
    EveryClientGetsPlayer
