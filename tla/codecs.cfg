CONSTANTS
    Links = {"spi", "sdhci", "dwmmc"}
    Cards <- MCCards
    Switches = {"Sdr4", "Sdr8", "Hs200"}
    Verifies = {TRUE, FALSE}
    Strict = {TRUE, FALSE}
    Noise <- MCNoise
    ReplyNoise <- MCReplyNoise
    BlockNoise <- MCBlockNoise
    Fillings <- MCFillings
SPECIFICATION Spec
INVARIANTS TypeOK ObeysWhatWasAsked UndamagedMeansUnderstood LearnsTheTruth ReadsBackWhatWasWritten LastBlockHasAnAddress
