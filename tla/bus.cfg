CONSTANTS
    BaseMHz <- MCBaseMHz
    RefHz <- MCRefHz
    Backends = {"Sdhci", "DwMmc"}
SPECIFICATION Spec
INVARIANTS TypeOK NeverTooFast GrantedMeansSet
PROPERTIES NoGlitch NoRevival InitReturns
