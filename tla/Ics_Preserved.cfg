\* Lines of up to 13 bytes, folded at 5, rewritten once.
SPECIFICATION Spec
CONSTANTS
    Texts <- MCShortTexts
    Addresses <- MCAddresses
    Lines <- InvitationLines
    MaxSlug = 4
    MaxLineLength = 5
    Rounds = 1
INVARIANTS
    LinePreserved
