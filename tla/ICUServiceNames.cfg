SPECIFICATION Spec
CONSTANTS
    Threads = {t1, t2}
    Factories = {"installed", "number", "instance"}
    Installed <- MCInstalled
    Factory <- MCFactory
    Ids <- MCIds
    Defaults <- MCDefaults
    DisplayLocales = {"en", "fr"}
    Listeners = {l1}
    MaxChanges = 3
    ChangesOverlap = FALSE
    NULL = NULL
SYMMETRY ThreadSymmetry
INVARIANT
    DisplayNamesStay
