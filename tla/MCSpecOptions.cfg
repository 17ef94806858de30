SPECIFICATION Spec
CONSTANTS
    img1 = img1
    img2 = img2
    Image = {img1, img2}
    NoImage = NoImage
    Configs <- MCConfigs
    Users = {"app"}
    NoValue = NoValue
    DefaultEnv <- PathOnly
    Envs <- MCEnvs
    Args <- MCArgs
    Keys2 = {"PATH", "TERM"}
    Values = {"a", "b"}
    MaxLen = 2
    MaxGiven = 2
    MaxMoves = 2
INVARIANTS
    EnvAsWanted
    OneImage

    
