SPECIFICATION FairSpec
CONSTANTS
    c1 = c1
    c2 = c2
    Classes = {c1, c2}
    Labels <- AllLabels
    Starred = {"*", "w*"}
    Fold <- Lower
    Names <- AllNames
    Configs <- Registrations
    Texts <- Written
    MaxEdits = 2
    MaxFaults = 1
INVARIANTS TypeOK
PROPERTIES AuthorityExact PublishedAsWritten WithdrawnStops TellsTruth ClassFollows
