\* Every choice of providers, with one field written in any other way.
SPECIFICATION Spec
CONSTANTS
    Texts <- MCTexts
    Files <- MCFiles
    Values <- MCValues
    Special <- MCSpecial
    Remains <- MCRemains
    Disks <- MCDisks
INVARIANTS
    TypeOK
    ListsAgree
    Equipped
    UnusedIsOptional
    WrittenIsEffective
