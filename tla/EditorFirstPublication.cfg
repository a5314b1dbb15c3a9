\* The first publication of a page created in the editor.
SPECIFICATION Spec
CONSTANTS
    e1 = e1  e2 = e2
    Editors = {e1}
    RevisionCap = 2
    MaxEdits = 2
    MaxVersion = 2
    MaxFailures = 0
    MaxLate = 0
PROPERTIES
    FirstPublicationSucceeds
