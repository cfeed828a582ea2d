\* Lines of up to 16 bytes, folded at 5, rewritten twice.
SPECIFICATION FairSpec
CONSTANTS
    Texts <- MCTexts
    Addresses <- MCAddresses
    Lines <- InvitationLines
    MaxSlug = 7
    MaxLineLength = 5
    Rounds = 2
INVARIANTS
    TypeOK
    FitsLimit
    RunesWhole
    ClientReadsLine
    OnlySpacesLost
    TextSurvives
    UidStable
PROPERTIES
    FoldAdvances
    FoldTerminates
