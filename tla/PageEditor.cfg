\* Two tabs on one page, hand-coded or created in the editor: edits, saves, publications,
\* reverts, the list of pages, calls that come late or never.
SPECIFICATION Spec
CONSTANTS
    e1 = e1  e2 = e2
    Editors = {e1, e2}
    RevisionCap = 1
    MaxEdits = 2
    MaxVersion = 2
    MaxFailures = 0
    MaxLate = 1
SYMMETRY Symmetry
INVARIANTS
    TypeOK
    PublishedIsNewestRevision
    CleanShowsTheDraft
