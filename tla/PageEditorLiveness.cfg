\* One tab, with failing, late and lost calls: what it shows as changed is stored.
SPECIFICATION FairSpec
CONSTANTS
    e1 = e1  e2 = e2
    Editors = {e1}
    RevisionCap = 2
    MaxEdits = 2
    MaxVersion = 3
    MaxFailures = 1
    MaxLate = 1
PROPERTIES
    SettledEditsAreStored
